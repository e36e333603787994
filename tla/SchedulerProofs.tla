-------------------------- MODULE SchedulerProofs --------------------------
(***************************************************************************)
(* Proofs about Scheduler for any number of workers, records and           *)
(* descriptors.  RecordInv says what the lists of a worker hold; LoadInv   *)
(* says what its two counters mean while the main thread reads them.  The  *)
(* last section shows that Scheduler implements Admission.                 *)
(***************************************************************************)
EXTENDS Placement, FiniteSetTheorems, TLAPS

(***************************************************************************)
(* Types.                                                                  *)
(***************************************************************************)

LEMMA WidsFact == 0 \in Wids /\ Wids \subseteq Nat /\ Workers \in Nat
  BY SchedulerAssumption DEF Wids

LEMMA LoadType ==
    ASSUME TypeOK, NEW w \in Wids
    PROVE  /\ Load(w) \in Nat
           /\ accepted_connections[w] - closed_connections[w] <= Load(w)
  BY SchedulerAssumption DEF TypeOK, Load

LEMMA TypeStep == TypeOK /\ [Next]_vars => TypeOK'
<1> SUFFICES ASSUME TypeOK, [Next]_vars PROVE TypeOK'
  OBVIOUS
<1>1. CASE Barrier
  BY <1>1 DEF TypeOK, Barrier, countVars, recordVars
<1>2. ASSUME NEW f \in Fds, Accept(f) PROVE TypeOK'
  BY <1>2 DEF TypeOK, Accept, countVars, recordVars
<1>3. CASE ReadFirst
  <2>1. Load(0) \in Nat
    BY LoadType, WidsFact
  <2> QED BY <1>3, <2>1, WidsFact, SchedulerAssumption
         DEF TypeOK, ReadFirst, countVars, recordVars
<1>4. CASE ReadNext
  <2>1. next \in Wids /\ next + 1 \in 1 .. Workers
    BY <1>4, SchedulerAssumption DEF TypeOK, ReadNext, Wids
  <2>2. Load(next) \in Nat
    BY <2>1, LoadType
  <2> QED BY <1>4, <2>1, <2>2 DEF TypeOK, ReadNext, countVars, recordVars
<1>5. CASE ScanDone \/ CheckCapacity
  BY <1>5, WidsFact, SchedulerAssumption
     DEF TypeOK, ScanDone, CheckCapacity, NextClient, countVars, recordVars
<1>6. CASE EpollAdd \/ EpollAddFails
  BY <1>6, WidsFact, SchedulerAssumption
     DEF TypeOK, EpollAdd, EpollAddFails, NextClient, countVars, recordVars
<1>7. CASE Count
  BY <1>7, WidsFact, SchedulerAssumption
     DEF TypeOK, Count, NextClient, recordVars
<1>8. ASSUME NEW w \in Wids, xlab_sched_register_thread(w) PROVE TypeOK'
  BY <1>8, SchedulerAssumption
     DEF TypeOK, xlab_sched_register_thread, countVars, mainVars
<1>9. ASSUME NEW w \in Wids, NEW f \in Fds, xlab_sched_register_client(w, f)
      PROVE  TypeOK'
  BY <1>9 DEF TypeOK, xlab_sched_register_client, countVars, mainVars
<1>10. ASSUME NEW w \in Wids, NEW f \in Fds, CloseFd(w, f) PROVE TypeOK'
  BY <1>10 DEF TypeOK, CloseFd, countVars, mainVars
<1>11. ASSUME NEW w \in Wids, NEW f \in Fds, ReleaseRecord(w, f)
       PROVE  TypeOK'
  BY <1>11 DEF TypeOK, ReleaseRecord, mainVars
<1>12. CASE UNCHANGED vars
  BY <1>12 DEF TypeOK, vars, countVars, recordVars, mainVars
<1> QED BY <1>1, <1>2, <1>3, <1>4, <1>5, <1>6, <1>7, <1>8, <1>9, <1>10,
        <1>11, <1>12 DEF Next, Main, xlab_sched_add_client, Worker

(* Every state the scheduler reaches is well typed. *)
THEOREM SchedulerTypes == Spec => []TypeOK
<1>1. Init => TypeOK
  BY WidsFact, SchedulerAssumption DEF Init, TypeOK
<1> QED BY <1>1, TypeStep, PTL DEF Spec

(***************************************************************************)
(* The records.                                                            *)
(***************************************************************************)

BarrierInv ==
    /\ pc = "barrier" => \A f \in Fds : owner[f] \notin Wids
    /\ pc # "barrier" => \A w \in Wids : initialized[w]

ListsInv(w) ==
    /\ ~initialized[w] => busy[w] = {} /\ closing[w] = {}
    /\ initialized[w] => available[w] + Cardinality(busy[w]) = Capacity
    /\ closing[w] = {} \/ \E f \in Fds : closing[w] = {f}
    /\ closing[w] \subseteq busy[w]
    /\ \A f \in busy[w] : owner[f] = w \/ f \in closing[w]

InHandInv ==
    pc \in {"first", "scan", "check", "add"} =>
        remote_fd \in Fds /\ owner[remote_fd] = Listener

RecordInv == BarrierInv /\ (\A w \in Wids : ListsInv(w)) /\ InHandInv

LEMMA Finite ==
    ASSUME NEW S \in SUBSET Fds
    PROVE  IsFiniteSet(S) /\ Cardinality(S) \in Nat
  BY SchedulerAssumption, FS_Subset, FS_CardinalityType

(* The main thread does not touch the records. *)
LEMMA RecordsOfMain ==
    ASSUME TypeOK, RecordInv, Main
    PROVE  RecordInv'
<1>1. UNCHANGED <<initialized, available, busy, closing>>
  BY DEF Main, Barrier, Accept, xlab_sched_add_client, ReadFirst, ReadNext,
     ScanDone, CheckCapacity, EpollAdd, EpollAddFails, Count, recordVars
<1>2. \A f \in Fds : owner[f] \in Wids => owner'[f] = owner[f]
  <2>1. CASE Barrier \/ ReadFirst \/ ReadNext \/ ScanDone \/ Count
    BY <2>1 DEF Barrier, ReadFirst, ReadNext, ScanDone, Count
  <2>2. ASSUME NEW g \in Fds, Accept(g)
        PROVE  \A f \in Fds : owner[f] \in Wids => owner'[f] = owner[f]
    BY <2>2, SchedulerAssumption DEF Accept, TypeOK, Wids
  <2>3. CASE CheckCapacity \/ EpollAdd \/ EpollAddFails
    BY <2>3, SchedulerAssumption DEF RecordInv, InHandInv, CheckCapacity,
       EpollAdd, EpollAddFails, TypeOK, Wids
  <2> QED BY <2>1, <2>2, <2>3 DEF Main, xlab_sched_add_client
<1>3. BarrierInv'
  BY <1>1 DEF RecordInv, BarrierInv, Main, Barrier, Accept,
     xlab_sched_add_client, ReadFirst, ReadNext, ScanDone, CheckCapacity,
     EpollAdd, EpollAddFails, Count, NextClient
<1>4. InHandInv'
  <2>1. ASSUME NEW f \in Fds, Accept(f) PROVE InHandInv'
    BY <2>1 DEF Accept, TypeOK, InHandInv
  <2>2. CASE ReadFirst \/ ReadNext \/ ScanDone
    BY <2>2 DEF RecordInv, InHandInv, ReadFirst, ReadNext, ScanDone
  <2>3. CASE CheckCapacity
    BY <2>3 DEF RecordInv, InHandInv, CheckCapacity, NextClient
  <2>4. CASE Barrier \/ EpollAdd \/ EpollAddFails \/ Count
    BY <2>4 DEF InHandInv, Barrier, EpollAdd, EpollAddFails, Count, NextClient
  <2> QED BY <2>1, <2>2, <2>3, <2>4 DEF Main, xlab_sched_add_client
<1>5. ASSUME NEW w \in Wids PROVE ListsInv(w)'
  <2>1. ListsInv(w)
    BY DEF RecordInv
  <2> QED BY <1>1, <1>2, <2>1 DEF ListsInv, TypeOK
<1> QED BY <1>3, <1>4, <1>5 DEF RecordInv

(* A worker leaves the main thread and the lists of the others alone.      *)
LEMMA ListsOfOthers ==
    ASSUME TypeOK, RecordInv, NEW w \in Wids, Worker(w)
    PROVE  /\ BarrierInv' /\ InHandInv'
           /\ \A v \in Wids : v # w => ListsInv(v)'
<1>1. \A f \in Fds : owner'[f] # owner[f] => owner[f] = w /\ owner'[f] = None
  BY DEF Worker, xlab_sched_register_thread, xlab_sched_register_client,
     CloseFd, ReleaseRecord, TypeOK
<1>2. UNCHANGED mainVars
  BY DEF Worker, xlab_sched_register_thread, xlab_sched_register_client,
     CloseFd, ReleaseRecord
<1>3. \A v \in Wids : initialized[v] => initialized'[v]
  BY DEF Worker, xlab_sched_register_thread, xlab_sched_register_client,
     CloseFd, ReleaseRecord, TypeOK
<1>4. None \notin Wids /\ Listener \notin Wids /\ None # Listener
  BY SchedulerAssumption DEF Wids
<1>5. BarrierInv'
  BY <1>1, <1>2, <1>3, <1>4 DEF RecordInv, BarrierInv, mainVars
<1>6. InHandInv'
  BY <1>1, <1>2, <1>4 DEF RecordInv, InHandInv, mainVars
<1>7. ASSUME NEW v \in Wids, v # w PROVE ListsInv(v)'
  <2>1. /\ initialized'[v] = initialized[v] /\ available'[v] = available[v]
        /\ busy'[v] = busy[v] /\ closing'[v] = closing[v]
    BY <1>7 DEF Worker, xlab_sched_register_thread,
       xlab_sched_register_client, CloseFd, ReleaseRecord, TypeOK
  <2>2. ListsInv(v)
    BY DEF RecordInv
  <2>3. busy[v] \subseteq Fds
    BY DEF TypeOK
  <2> QED BY <1>1, <1>7, <2>1, <2>2, <2>3 DEF ListsInv
<1> QED BY <1>5, <1>6, <1>7

LEMMA RecordsOfWorker ==
    ASSUME TypeOK, RecordInv, NEW w \in Wids, Worker(w)
    PROVE  RecordInv'
<1>1. ListsInv(w)
  BY DEF RecordInv
<1>2. IsFiniteSet(busy[w]) /\ Cardinality(busy[w]) \in Nat /\ busy[w] \subseteq Fds
  BY Finite DEF TypeOK
<1>3. CASE xlab_sched_register_thread(w)
  <2>1. Cardinality(busy[w]) = 0
    BY <1>1, <1>3, FS_EmptySet DEF ListsInv, xlab_sched_register_thread
  <2>2. ListsInv(w)'
    BY <1>1, <1>3, <2>1, SchedulerAssumption
       DEF ListsInv, TypeOK, xlab_sched_register_thread
  <2> QED BY <2>2, ListsOfOthers DEF RecordInv
<1>4. ASSUME NEW f \in Fds, xlab_sched_register_client(w, f) PROVE RecordInv'
  <2>1. Cardinality(busy[w] \cup {f}) = Cardinality(busy[w]) + 1
    BY <1>2, <1>4, FS_AddElement DEF xlab_sched_register_client
  <2>2. /\ available'[w] = available[w] - 1 /\ busy'[w] = busy[w] \cup {f}
        /\ UNCHANGED <<initialized, closing, owner>>
        /\ owner[f] = w
        /\ initialized[w]
    BY <1>4 DEF TypeOK, xlab_sched_register_client
  <2>3. available'[w] + Cardinality(busy'[w]) = Capacity
    BY <1>1, <1>2, <2>1, <2>2, SchedulerAssumption DEF ListsInv, TypeOK
  <2>4. ListsInv(w)'
    BY <1>1, <2>2, <2>3 DEF ListsInv
  <2> QED BY <2>4, ListsOfOthers DEF RecordInv
<1>5. ASSUME NEW f \in Fds, CloseFd(w, f) PROVE RecordInv'
  <2>1. /\ closing'[w] = {f} /\ f \in busy[w] /\ closing[w] = {}
        /\ UNCHANGED <<initialized, available, busy>>
        /\ \A g \in Fds : g # f => owner'[g] = owner[g]
        /\ initialized[w]
    BY <1>5 DEF TypeOK, CloseFd
  <2>2. ListsInv(w)'
    BY <1>1, <1>2, <2>1 DEF ListsInv
  <2> QED BY <2>2, ListsOfOthers DEF RecordInv
<1>6. ASSUME NEW f \in Fds, ReleaseRecord(w, f) PROVE RecordInv'
  <2>1. /\ closing[w] = {f} /\ closing'[w] = {}
        /\ busy'[w] = busy[w] \ {f} /\ available'[w] = available[w] + 1
        /\ UNCHANGED <<initialized, owner>>
    BY <1>6 DEF TypeOK, ReleaseRecord
  <2>2. f \in busy[w] /\ initialized[w]
    BY <1>1, <2>1 DEF ListsInv
  <2>3. Cardinality(busy[w] \ {f}) = Cardinality(busy[w]) - 1
    BY <1>2, <2>2, FS_RemoveElement
  <2>4. available'[w] + Cardinality(busy'[w]) = Capacity
    BY <1>1, <1>2, <2>1, <2>2, <2>3, SchedulerAssumption DEF ListsInv, TypeOK
  <2>5. ListsInv(w)'
    BY <1>1, <2>1, <2>2, <2>4 DEF ListsInv
  <2> QED BY <2>5, ListsOfOthers DEF RecordInv
<1> QED BY <1>3, <1>4, <1>5, <1>6 DEF Worker

LEMMA RecordStep == TypeOK /\ RecordInv /\ [Next]_vars => RecordInv'
<1>1. ASSUME RecordInv, UNCHANGED vars PROVE RecordInv'
  BY <1>1 DEF RecordInv, BarrierInv, ListsInv, InHandInv, vars, recordVars,
     mainVars
<1> QED BY <1>1, RecordsOfMain, RecordsOfWorker DEF Next

(* The records of a worker show its connections and the one it is closing, *)
(* and their number never changes.                                         *)
THEOREM RecordInvariant == Spec => []RecordInv
<1>1. Init => RecordInv
  BY SchedulerAssumption DEF Init, RecordInv, BarrierInv, ListsInv, InHandInv,
     Wids
<1> QED BY <1>1, RecordStep, SchedulerTypes, PTL DEF Spec

(* However close, registration and a new accept of the same descriptor by  *)
(* another worker interleave, a record is live or about to be put back.    *)
THEOREM LiveRecords == Spec => []RecordsLive
<1>1. RecordInv => RecordsLive
  BY DEF RecordInv, ListsInv, RecordsLive
<1> QED BY <1>1, RecordInvariant, PTL

(* The barrier of main orders the making of the lists before any client,   *)
(* whatever the number of workers.                                         *)
THEOREM ReadyBeforeClients == Spec => []NoClientBeforeReady
<1>1. RecordInv => NoClientBeforeReady
  BY DEF RecordInv, BarrierInv, NoClientBeforeReady
<1> QED BY <1>1, RecordInvariant, PTL
(***************************************************************************)
(* The counters.                                                           *)
(***************************************************************************)

ExactInv(w) ==
    accepted_connections[w] + Uncounted(w) - closed_connections[w] = Used(w)

(* The load of the chosen worker does not grow while it is being chosen.   *)
ChoiceInv ==
    /\ pc \in {"scan", "check", "add"} =>
          accepted_connections[target] - closed_connections[target] <= cur
    /\ pc = "add" => cur < Capacity

LoadInv ==
    /\ \A w \in Wids : ExactInv(w) /\ Used(w) <= Capacity
    /\ ChoiceInv

LEMMA UsedType ==
    ASSUME TypeOK, NEW w \in Wids
    PROVE  /\ IsFiniteSet(Clients(w)) /\ Cardinality(Clients(w)) \in Nat
           /\ IsFiniteSet(closing[w]) /\ Cardinality(closing[w]) \in Nat
           /\ Used(w) \in Nat
<1>1. Clients(w) \in SUBSET Fds /\ closing[w] \in SUBSET Fds
  BY DEF TypeOK, Clients
<1> QED BY <1>1, Finite DEF Used

(* What the main thread does between accept and epoll_ctl changes neither  *)
(* counters nor connections.                                               *)
LEMMA SameUsed ==
    ASSUME TypeOK, LoadInv, pc # "count", pc' # "count",
           UNCHANGED <<countVars, closing>>,
           \A w \in Wids : Clients(w)' = Clients(w)
    PROVE  \A w \in Wids : ExactInv(w)' /\ (Used(w) <= Capacity)'
<1> SUFFICES ASSUME NEW w \in Wids PROVE ExactInv(w)' /\ (Used(w) <= Capacity)'
  OBVIOUS
<1>1. Used(w)' = Used(w)
  BY DEF Used
<1>2. Uncounted(w) = 0 /\ Uncounted(w)' = 0
  BY DEF Uncounted
<1> QED BY <1>1, <1>2 DEF LoadInv, ExactInv, countVars

LEMMA LoadOfChoice ==
    ASSUME TypeOK, RecordInv, LoadInv,
           Barrier \/ (\E f \in Fds : Accept(f)) \/ ReadFirst \/ ReadNext
           \/ ScanDone \/ CheckCapacity \/ EpollAddFails
    PROVE  LoadInv'
<1>1. UNCHANGED <<countVars, closing>> /\ pc # "count" /\ pc' # "count"
  BY DEF Barrier, Accept, ReadFirst, ReadNext, ScanDone, CheckCapacity,
     EpollAddFails, NextClient, recordVars
<1>2. \A f \in Fds : \A w \in Wids : owner'[f] = w <=> owner[f] = w
  BY SchedulerAssumption DEF TypeOK, RecordInv, InHandInv, Barrier, Accept,
     ReadFirst, ReadNext, ScanDone, CheckCapacity, EpollAddFails, Wids
<1>3. \A w \in Wids : Clients(w)' = Clients(w)
  BY <1>2 DEF Clients
<1>4. ChoiceInv'
  <2>1. CASE Barrier \/ (\E f \in Fds : Accept(f)) \/ EpollAddFails
    BY <2>1 DEF Barrier, Accept, EpollAddFails, NextClient, ChoiceInv
  <2>2. CASE ReadFirst
    <3>1. accepted_connections[0] - closed_connections[0] <= Load(0)
      BY LoadType, WidsFact
    <3> QED BY <1>1, <2>2, <3>1, SchedulerAssumption
           DEF ReadFirst, ChoiceInv, countVars
  <2>3. CASE ReadNext
    <3>1. next \in Wids
      BY <2>3, SchedulerAssumption DEF TypeOK, ReadNext, Wids
    <3>2. accepted_connections[next] - closed_connections[next] <= Load(next)
      BY <3>1, LoadType
    <3> QED BY <1>1, <2>3, <3>2 DEF LoadInv, ReadNext, ChoiceInv, countVars
  <2>4. CASE ScanDone
    BY <1>1, <2>4 DEF LoadInv, ScanDone, ChoiceInv, countVars
  <2>5. CASE CheckCapacity
    BY <1>1, <2>5, SchedulerAssumption
       DEF TypeOK, LoadInv, CheckCapacity, NextClient, ChoiceInv, countVars
  <2> QED BY <2>1, <2>2, <2>3, <2>4, <2>5
<1> QED BY <1>1, <1>3, <1>4, SameUsed DEF LoadInv

LEMMA LoadOfAdd ==
    ASSUME TypeOK, RecordInv, LoadInv, EpollAdd
    PROVE  LoadInv'
<1>1. remote_fd \in Fds /\ owner[remote_fd] = Listener
  BY DEF RecordInv, InHandInv, EpollAdd
<1>2. target \in Wids /\ target' = target /\ pc' = "count" /\ pc = "add"
  BY DEF TypeOK, EpollAdd
<1>3. Listener \notin Wids
  BY SchedulerAssumption DEF Wids
<1>4. remote_fd \notin Clients(target)
  BY <1>1, <1>2, <1>3 DEF Clients
<1>5. Clients(target)' = Clients(target) \cup {remote_fd}
  BY <1>1, <1>2 DEF TypeOK, EpollAdd, Clients
<1>6. Used(target)' = Used(target) + 1
  <2>1. Cardinality(Clients(target)') = Cardinality(Clients(target)) + 1
    BY <1>2, <1>4, <1>5, UsedType, FS_AddElement
  <2> QED BY <1>2, <2>1, UsedType DEF Used, EpollAdd, recordVars
<1>7. ASSUME NEW w \in Wids, w # target
      PROVE  ExactInv(w)' /\ (Used(w) <= Capacity)'
  <2>1. Clients(w)' = Clients(w)
    BY <1>1, <1>3, <1>7 DEF TypeOK, EpollAdd, Clients
  <2>2. Uncounted(w) = 0 /\ Uncounted(w)' = 0
    BY <1>2, <1>7 DEF Uncounted
  <2> QED BY <2>1, <2>2
         DEF LoadInv, ExactInv, Used, EpollAdd, countVars, recordVars
<1>8. ExactInv(target)' /\ (Used(target) <= Capacity)'
  <2>1. Uncounted(target) = 0 /\ Uncounted(target)' = 1
    BY <1>2 DEF Uncounted
  <2>2. /\ accepted_connections[target] \in Nat /\ closed_connections[target] \in Nat
        /\ Used(target) \in Nat /\ Capacity \in Nat /\ cur \in Nat
    BY <1>2, UsedType, SchedulerAssumption DEF TypeOK
  <2>3. accepted_connections[target] - closed_connections[target] = Used(target)
    BY <1>2, <2>1, <2>2 DEF LoadInv, ExactInv
  <2>4. Used(target) < Capacity
    BY <1>2, <2>2, <2>3 DEF LoadInv, ChoiceInv
  <2>5. /\ accepted_connections'[target'] = accepted_connections[target]
        /\ closed_connections'[target'] = closed_connections[target]
    BY <1>2 DEF EpollAdd, countVars
  <2>6. ExactInv(target)'
    BY <1>2, <1>6, <2>1, <2>2, <2>3, <2>5 DEF ExactInv
  <2> QED BY <1>2, <1>6, <2>2, <2>4, <2>6
<1>9. ChoiceInv'
  BY <1>2 DEF ChoiceInv
<1> QED BY <1>2, <1>7, <1>8, <1>9 DEF LoadInv

LEMMA LoadOfCount ==
    ASSUME TypeOK, LoadInv, Count
    PROVE  LoadInv'
<1>1. ASSUME NEW w \in Wids PROVE ExactInv(w)' /\ (Used(w) <= Capacity)'
  <2>1. Used(w)' = Used(w)
    BY DEF Used, Count, Clients, recordVars
  <2>2. accepted_connections'[w] = accepted_connections[w] + Uncounted(w)
    BY DEF TypeOK, Count, Uncounted
  <2>3. Uncounted(w)' = 0
    BY DEF Count, NextClient, Uncounted
  <2>4. /\ accepted_connections[w] \in Nat /\ closed_connections[w] \in Nat
        /\ Uncounted(w) \in Nat /\ Used(w) \in Nat
    BY UsedType DEF TypeOK, Uncounted
  <2> QED BY <2>1, <2>2, <2>3, <2>4 DEF LoadInv, ExactInv, Count
<1>2. ChoiceInv'
  BY DEF Count, NextClient, ChoiceInv
<1> QED BY <1>1, <1>2 DEF LoadInv

(* A connection its worker closes is still one of those it has or closes.  *)
LEMMA CloseKeepsUsed ==
    ASSUME TypeOK, NEW w \in Wids, NEW f \in Fds, CloseFd(w, f)
    PROVE  \A v \in Wids : Used(v)' = Used(v)
<1>1. None \notin Wids
  BY SchedulerAssumption DEF Wids
<1>2. f \in Clients(w) /\ Clients(w)' = Clients(w) \ {f}
  BY <1>1 DEF TypeOK, CloseFd, Clients
<1>3. closing[w] = {} /\ closing'[w] = {f}
  BY DEF TypeOK, CloseFd
<1>4. Used(w)' = Used(w)
  <2>1. Cardinality(Clients(w)') = Cardinality(Clients(w)) - 1
    BY <1>2, UsedType, FS_RemoveElement
  <2>2. Cardinality({}) = 0 /\ Cardinality({f}) = 1
    BY FS_EmptySet, FS_Singleton
  <2> QED BY <1>3, <2>1, <2>2, UsedType DEF Used
<1>5. ASSUME NEW v \in Wids, v # w PROVE Used(v)' = Used(v)
  <2>1. Clients(v)' = Clients(v) /\ closing'[v] = closing[v]
    BY <1>1, <1>5 DEF TypeOK, CloseFd, Clients
  <2> QED BY <2>1 DEF Used
<1> QED BY <1>4, <1>5

LEMMA LoadOfWorker ==
    ASSUME TypeOK, RecordInv, LoadInv, NEW w \in Wids, Worker(w)
    PROVE  LoadInv'
<1>1. UNCHANGED <<pc, target, cur, accepted_connections>>
  BY DEF Worker, xlab_sched_register_thread, xlab_sched_register_client,
     CloseFd, ReleaseRecord, mainVars, countVars
<1>2. ASSUME UNCHANGED <<closing, owner, closed_connections>> PROVE LoadInv'
  BY <1>1, <1>2 DEF LoadInv, ExactInv, Used, Uncounted, Clients, ChoiceInv
<1>3. CASE xlab_sched_register_thread(w)
  BY <1>2, <1>3 DEF xlab_sched_register_thread, countVars
<1>4. ASSUME NEW f \in Fds, xlab_sched_register_client(w, f) PROVE LoadInv'
  BY <1>2, <1>4 DEF xlab_sched_register_client, countVars
<1>5. ASSUME NEW f \in Fds, CloseFd(w, f) PROVE LoadInv'
  <2>5. \A v \in Wids : Used(v)' = Used(v)
    BY <1>5, CloseKeepsUsed
  <2> QED BY <1>1, <1>5, <2>5
         DEF LoadInv, ExactInv, Uncounted, ChoiceInv, CloseFd, countVars
<1>6. ASSUME NEW f \in Fds, ReleaseRecord(w, f) PROVE LoadInv'
  <2>1. /\ closing[w] = {f} /\ closing'[w] = {}
        /\ closed_connections'[w] = closed_connections[w] + 1
        /\ \A v \in Wids : Clients(v)' = Clients(v)
    BY <1>6 DEF TypeOK, ReleaseRecord, Clients
  <2>2. Used(w)' = Used(w) - 1
    <3>1. Cardinality({}) = 0 /\ Cardinality({f}) = 1
      BY FS_EmptySet, FS_Singleton
    <3> QED BY <2>1, <3>1, UsedType DEF Used
  <2>3. ASSUME NEW v \in Wids PROVE ExactInv(v)' /\ (Used(v) <= Capacity)'
    <3>1. /\ accepted_connections[v] \in Nat /\ closed_connections[v] \in Nat
          /\ Uncounted(v) \in Nat /\ Used(v) \in Nat /\ Capacity \in Nat
          /\ Uncounted(v)' = Uncounted(v)
      BY <1>1, UsedType, SchedulerAssumption DEF TypeOK, Uncounted
    <3>2. CASE v = w
      BY <1>1, <2>1, <2>2, <3>1, <3>2 DEF LoadInv, ExactInv
    <3>3. CASE v # w
      <4>1. Used(v)' = Used(v) /\ closed_connections'[v] = closed_connections[v]
        BY <1>6, <2>1, <3>3 DEF TypeOK, Used, ReleaseRecord
      <4> QED BY <1>1, <3>1, <4>1 DEF LoadInv, ExactInv
    <3> QED BY <3>2, <3>3
  <2>4. ChoiceInv'
    <3>1. /\ accepted_connections[target] \in Nat
          /\ closed_connections[target] \in Nat /\ cur \in Nat
          /\ closed_connections'[target] >= closed_connections[target]
      BY <1>6 DEF TypeOK, ReleaseRecord
    <3> QED BY <1>1, <1>6, <3>1 DEF TypeOK, LoadInv, ChoiceInv, ReleaseRecord
  <2> QED BY <2>3, <2>4 DEF LoadInv
<1> QED BY <1>3, <1>4, <1>5, <1>6 DEF Worker

LEMMA LoadStep == TypeOK /\ RecordInv /\ LoadInv /\ [Next]_vars => LoadInv'
<1>1. ASSUME LoadInv, UNCHANGED vars PROVE LoadInv'
  BY <1>1 DEF LoadInv, ExactInv, Used, Uncounted, Clients, ChoiceInv, vars,
     countVars, recordVars, mainVars
<1> QED BY <1>1, LoadOfChoice, LoadOfAdd, LoadOfCount, LoadOfWorker
        DEF Next, Main, xlab_sched_add_client

LEMMA LoadInvariant == Spec => []LoadInv
<1>1. Init => LoadInv
  <2> SUFFICES ASSUME Init PROVE LoadInv
    OBVIOUS
  <2>1. ASSUME NEW w \in Wids PROVE Clients(w) = {} /\ closing[w] = {}
    BY <2>1, SchedulerAssumption DEF Init, Clients, Wids
  <2>2. ASSUME NEW w \in Wids PROVE Used(w) = 0
    BY <2>1, <2>2, FS_EmptySet DEF Used
  <2> QED BY <2>2, SchedulerAssumption
         DEF Init, LoadInv, ExactInv, Uncounted, ChoiceInv
<1> QED BY <1>1, LoadStep, SchedulerTypes, RecordInvariant, PTL DEF Spec

(* The two counters of a worker, written by two threads without a lock,    *)
(* always tell its connections, but for the one not counted yet.           *)
THEOREM CountersTell == Spec => []CountersExact
<1>1. LoadInv => CountersExact
  BY DEF LoadInv, ExactInv, Used, CountersExact
<1> QED BY <1>1, LoadInvariant, PTL

(* A worker that registers a client has a free record: av_queue is never   *)
(* empty when its head is taken.                                           *)
THEOREM RecordsSuffice == Spec => []RecordForEveryClient
<1>1. TypeOK /\ RecordInv /\ LoadInv => RecordForEveryClient
  <2> SUFFICES ASSUME TypeOK, RecordInv, LoadInv, NEW w \in Wids,
                      NEW f \in Clients(w), initialized[w], closing[w] = {},
                      f \notin busy[w]
               PROVE  available[w] > 0
    BY DEF RecordForEveryClient
  <2>1. busy[w] \subseteq Clients(w) /\ busy[w] # Clients(w)
    BY DEF RecordInv, ListsInv, TypeOK, Clients
  <2>2. Cardinality(busy[w]) < Cardinality(Clients(w))
    <3>1. busy[w] \in SUBSET Fds
      BY DEF TypeOK
    <3> QED BY <2>1, <3>1, UsedType, FS_Subset, Finite
  <2>3. Cardinality(Clients(w)) <= Capacity
    BY UsedType, SchedulerAssumption DEF LoadInv, Used
  <2>4. available[w] + Cardinality(busy[w]) = Capacity
    BY DEF RecordInv, ListsInv
  <2>5. Cardinality(busy[w]) \in Nat /\ available[w] \in Int
    BY Finite DEF TypeOK
  <2> QED BY <2>2, <2>3, <2>4, <2>5, UsedType, SchedulerAssumption
<1> QED BY <1>1, SchedulerTypes, RecordInvariant, LoadInvariant, PTL

(***************************************************************************)
(* Scheduler implements Admission.                                         *)
(***************************************************************************)

(* A search that ends before the last worker has found one without         *)
(* connections.                                                            *)
SearchInv == pc = "check" => cur = 0 \/ next = Workers

LEMMA SearchStep == TypeOK /\ SearchInv /\ [Next]_vars => SearchInv'
<1> SUFFICES ASSUME TypeOK, SearchInv, [Next]_vars PROVE SearchInv'
  OBVIOUS
<1>1. CASE Main
  BY <1>1 DEF Main, xlab_sched_add_client, Barrier, Accept, ReadFirst, ReadNext,
     ScanDone, CheckCapacity, EpollAdd, EpollAddFails, Count, NextClient,
     SearchInv
<1>2. ASSUME UNCHANGED mainVars PROVE SearchInv'
  BY <1>2 DEF mainVars, SearchInv
<1>3. ASSUME NEW w \in Wids, Worker(w) PROVE UNCHANGED mainVars
  BY <1>3 DEF Worker, xlab_sched_register_thread, xlab_sched_register_client,
     CloseFd, ReleaseRecord
<1> QED BY <1>1, <1>2, <1>3 DEF Next, vars

LEMMA SearchInvariant == Spec => []SearchInv
<1>1. Init => SearchInv
  BY DEF Init, SearchInv
<1> QED BY <1>1, SearchStep, SchedulerTypes, PTL DEF Spec

(* While the main thread looks, a worker's counters tell what it has.      *)
LEMMA LoadTold ==
    ASSUME TypeOK, LoadInv, pc # "count", NEW w \in Wids
    PROVE  Load(w) = Used(w) /\ Used(w) \in Nat /\ Used(w) <= Capacity
BY UsedType DEF TypeOK, LoadInv, ExactInv, Uncounted, Load

(* The main thread changes no worker's connections but by epoll_ctl. *)
LEMMA UsedOfMain ==
    ASSUME TypeOK, RecordInv, Main, ~EpollAdd
    PROVE  \A w \in Wids : Used(w)' = Used(w)
<1>1. UNCHANGED closing
  BY DEF Main, Barrier, Accept, xlab_sched_add_client, ReadFirst, ReadNext,
     ScanDone, CheckCapacity, EpollAddFails, Count, recordVars
<1>2. \A f \in Fds : \A w \in Wids : owner'[f] = w <=> owner[f] = w
  BY SchedulerAssumption DEF TypeOK, RecordInv, InHandInv, Main, Barrier,
     Accept, xlab_sched_add_client, ReadFirst, ReadNext, ScanDone,
     CheckCapacity, EpollAddFails, Count, Wids
<1>3. \A w \in Wids : Clients(w)' = Clients(w)
  BY <1>2 DEF Clients
<1> QED BY <1>1, <1>3 DEF Used

LEMMA SearchSteps ==
    ASSUME TypeOK, RecordInv, LoadInv, SearchInv,
           ReadFirst \/ ReadNext \/ ScanDone \/ CheckCapacity
    PROVE  Quota!Next \/ UNCHANGED Quota!vars
<1>1. /\ \A w \in Wids : /\ Used(w)' = Used(w)
                         /\ Load(w) = Used(w)
                         /\ Used(w) \in Nat /\ Used(w) <= Capacity
      /\ [w \in Wids |-> Used(w)]' = [w \in Wids |-> Used(w)]
  <2>1. pc # "count" /\ Main /\ ~EpollAdd
    BY DEF ReadFirst, ReadNext, ScanDone, CheckCapacity, EpollAdd, Main,
       xlab_sched_add_client
  <2>2. \A w \in Wids : Used(w)' = Used(w)
    BY <2>1, UsedOfMain
  <2> QED BY <2>1, <2>2, LoadTold
<1>2. Capacity \in Nat \ {0} /\ None \notin Wids /\ 0 \in Wids
  BY WidsFact, SchedulerAssumption DEF Wids
<1>3. CASE ReadFirst
  <2>1. CASE Load(0) = 0
    <3>1. Quota!Choose(0)
      BY <1>1, <1>2, <1>3, <2>1 DEF ReadFirst, Quota!Choose, Searching, SeenFull
    <3> QED BY <1>2, <3>1 DEF Quota!Next
  <2>2. CASE Load(0) # 0
    <3>1. SeenFull' \subseteq {w \in Wids : Used(w) = Capacity}
      BY <1>1, <1>2, <1>3, <2>2 DEF ReadFirst, SeenFull
    <3>2. Quota!Look
      BY <1>1, <1>3, <2>2, <3>1 DEF ReadFirst, Quota!Look, Searching
    <3> QED BY <3>2 DEF Quota!Next
  <2> QED BY <2>1, <2>2
<1>4. CASE ReadNext
  <2>1. next \in Wids /\ cur \in Nat /\ next \in Nat
    BY <1>4, SchedulerAssumption DEF TypeOK, ReadNext, Wids
  <2>2. SeenFull' \subseteq SeenFull \cup {w \in Wids : Used(w) = Capacity}
    <3>1. CASE cur' >= Capacity
      <4>1. cur >= Capacity /\ Used(next) = Capacity
        BY <1>1, <1>2, <1>4, <2>1, <3>1 DEF ReadNext
      <4>2. SeenFull = 0 .. next - 1
        BY <1>4, <4>1 DEF ReadNext, SeenFull
      <4>3. SeenFull' \subseteq 0 .. next
        BY <1>4, <2>1 DEF ReadNext, SeenFull
      <4> QED BY <2>1, <4>1, <4>2, <4>3
    <3>2. CASE ~(cur' >= Capacity)
      BY <3>2 DEF SeenFull
    <3> QED BY <3>1, <3>2
  <2>3. Quota!Look
    BY <1>1, <1>4, <2>2 DEF ReadNext, Quota!Look, Searching
  <2> QED BY <2>3 DEF Quota!Next
<1>5. CASE ScanDone
  <2>1. SeenFull' = SeenFull
    BY <1>5 DEF ScanDone, SeenFull
  <2> QED BY <1>1, <1>5, <2>1 DEF ScanDone, Searching, Quota!vars
<1>6. CASE CheckCapacity
  <2>1. CASE cur >= Capacity
    <3>1. SeenFull = Wids
      BY <1>2, <1>6, <2>1 DEF TypeOK, CheckCapacity, SearchInv, SeenFull, Wids
    <3>2. Quota!Refuse
      BY <1>1, <1>6, <2>1, <3>1
         DEF CheckCapacity, NextClient, Quota!Refuse, Searching, SeenFull
    <3> QED BY <3>2 DEF Quota!Next
  <2>2. CASE ~(cur >= Capacity)
    <3>1. target \in Wids /\ Used(target) < Capacity
      BY <1>1, <1>2, <1>6, <2>2
         DEF TypeOK, CheckCapacity, LoadInv, ChoiceInv, ExactInv, Uncounted
    <3>2. Quota!Choose(target)
      BY <1>1, <1>6, <2>2, <3>1
         DEF CheckCapacity, Quota!Choose, Searching, SeenFull
    <3> QED BY <3>1, <3>2 DEF Quota!Next
  <2> QED BY <2>1, <2>2
<1> QED BY <1>3, <1>4, <1>5, <1>6

LEMMA PlaceSteps ==
    ASSUME TypeOK, RecordInv, LoadInv,
           \/ Barrier \/ (\E f \in Fds : Accept(f))
           \/ EpollAdd \/ EpollAddFails \/ Count
    PROVE  Quota!Next \/ UNCHANGED Quota!vars
<1>0. None \notin Wids /\ target \in Wids
  BY SchedulerAssumption DEF TypeOK, Wids
<1>1. CASE ~EpollAdd
  <2>1. Main
    BY <1>1 DEF Main, xlab_sched_add_client
  <2>2. [w \in Wids |-> Used(w)]' = [w \in Wids |-> Used(w)]
    BY <1>1, <2>1, UsedOfMain
  <2>3. CASE Barrier \/ Count
    BY <2>2, <2>3 DEF Barrier, Count, NextClient, Searching, SeenFull, Quota!vars
  <2>4. ASSUME NEW f \in Fds, Accept(f) PROVE Quota!Knock
    BY <2>2, <2>4 DEF Accept, Searching, SeenFull, Quota!Knock
  <2>5. CASE EpollAddFails
    BY <1>0, <2>2, <2>5
       DEF EpollAddFails, NextClient, Searching, SeenFull, Quota!Fail, Quota!Next
  <2> QED BY <1>1, <2>3, <2>4, <2>5 DEF Quota!Next
<1>2. CASE EpollAdd
  <2>0. PICK t \in Wids : t = target
    BY <1>0
  <2>1. remote_fd \in Fds /\ owner[remote_fd] = Listener /\ Listener \notin Wids
    BY <1>2, SchedulerAssumption DEF RecordInv, InHandInv, EpollAdd, Wids
  <2>2. Clients(t)' = Clients(t) \cup {remote_fd}
    BY <1>2, <2>0, <2>1 DEF TypeOK, EpollAdd, Clients
  <2>3. remote_fd \notin Clients(t)
    BY <2>0, <2>1 DEF Clients
  <2>4. Used(t)' = Used(t) + 1
    <3>1. Cardinality(Clients(t)') = Cardinality(Clients(t)) + 1
      BY <2>2, <2>3, UsedType, FS_AddElement
    <3> QED BY <1>2, <3>1, UsedType DEF EpollAdd, Used, recordVars
  <2>5. ASSUME NEW w \in Wids, w # t PROVE Used(w)' = Used(w)
    <3>1. Clients(w)' = Clients(w)
      BY <1>2, <2>0, <2>1, <2>5 DEF TypeOK, EpollAdd, Clients
    <3> QED BY <1>2, <3>1 DEF EpollAdd, Used, recordVars
  <2>6. Used(t) < Capacity
    BY <1>2, <2>0, UsedType, SchedulerAssumption
       DEF TypeOK, EpollAdd, LoadInv, ChoiceInv, ExactInv, Uncounted
  <2>7. [w \in Wids |-> Used(w)]' =
          [[w \in Wids |-> Used(w)] EXCEPT ![t] = @ + 1]
    BY <2>0, <2>4, <2>5
  <2>8. Quota!Admit
    BY <1>0, <1>2, <2>0, <2>6, <2>7 DEF EpollAdd, Searching, SeenFull, Quota!Admit
  <2> QED BY <2>8 DEF Quota!Next
<1> QED BY <1>1, <1>2

LEMMA WorkerSteps ==
    ASSUME TypeOK, RecordInv, NEW w \in Wids, Worker(w)
    PROVE  Quota!Next \/ UNCHANGED Quota!vars
<1>1. /\ Searching' = Searching /\ SeenFull' = SeenFull
      /\ (IF pc = "add" THEN target ELSE None)'
           = IF pc = "add" THEN target ELSE None
  BY DEF Worker, xlab_sched_register_thread, xlab_sched_register_client,
     CloseFd, ReleaseRecord, mainVars, Searching, SeenFull
<1>2. ASSUME \A v \in Wids : Used(v)' = Used(v)
      PROVE  UNCHANGED Quota!vars
  BY <1>1, <1>2 DEF Quota!vars
<1>3. CASE xlab_sched_register_thread(w)
              \/ \E f \in Fds : xlab_sched_register_client(w, f)
  BY <1>2, <1>3 DEF xlab_sched_register_thread, xlab_sched_register_client,
     Used, Clients
<1>4. ASSUME NEW f \in Fds, CloseFd(w, f)
      PROVE  \A v \in Wids : Used(v)' = Used(v)
  BY <1>4, CloseKeepsUsed
<1>5. ASSUME NEW f \in Fds, ReleaseRecord(w, f) PROVE Quota!Next
  <2>1. closing[w] = {f} /\ closing'[w] = {}
    BY <1>5 DEF TypeOK, ReleaseRecord
  <2>2. \A v \in Wids : /\ Clients(v)' = Clients(v)
                        /\ v # w => closing'[v] = closing[v]
    BY <1>5 DEF TypeOK, ReleaseRecord, Clients
  <2>3. Cardinality({}) = 0 /\ Cardinality({f}) = 1
    BY FS_EmptySet, FS_Singleton
  <2>4. Used(w) > 0 /\ Used(w)' = Used(w) - 1
    BY <2>1, <2>2, <2>3, UsedType DEF Used
  <2>5. \A v \in Wids : v # w => Used(v)' = Used(v)
    BY <2>2 DEF Used
  <2>6. [v \in Wids |-> Used(v)]' =
          [[v \in Wids |-> Used(v)] EXCEPT ![w] = @ - 1]
    BY <2>4, <2>5
  <2>7. Quota!Leave(w)
    BY <1>1, <2>4, <2>6 DEF Quota!Leave
  <2> QED BY <2>7 DEF Quota!Next
<1> QED BY <1>2, <1>3, <1>4, <1>5 DEF Worker

(* Whatever the workers close while the main thread reads their counters   *)
(* one after the other, a client is refused only for a gateway it has seen *)
(* full, and no worker is given more connections than it has records: for  *)
(* any number of workers, records and descriptors.                         *)
THEOREM SchedulerKeepsQuota == Spec => KeepsQuota
<1>1. Init => Quota!Init
  <2> SUFFICES ASSUME Init PROVE Quota!Init
    OBVIOUS
  <2>1. ASSUME NEW w \in Wids PROVE Used(w) = 0
    <3>1. Clients(w) = {} /\ closing[w] = {}
      BY SchedulerAssumption DEF Init, Clients, Wids
    <3> QED BY <3>1, FS_EmptySet DEF Used
  <2> QED BY <2>1 DEF Init, Quota!Init, Searching, SeenFull
<1>2. TypeOK /\ RecordInv /\ LoadInv /\ SearchInv /\ [Next]_vars
        => [Quota!Next]_(Quota!vars)
  <2> SUFFICES ASSUME TypeOK, RecordInv, LoadInv, SearchInv, [Next]_vars
               PROVE  Quota!Next \/ UNCHANGED Quota!vars
    OBVIOUS
  <2>1. CASE UNCHANGED vars
    BY <2>1 DEF vars, mainVars, recordVars, Quota!vars, Searching, SeenFull,
       Used, Clients
  <2> QED BY <2>1, SearchSteps, PlaceSteps, WorkerSteps
         DEF Next, Main, xlab_sched_add_client
<1> QED BY <1>1, <1>2, SchedulerTypes, RecordInvariant, LoadInvariant,
        SearchInvariant, PTL DEF Spec, KeepsQuota, Quota!Spec
=============================================================================
