--------------------------- MODULE GatewayProofs ----------------------------
(***************************************************************************)
(* Theorems about Gateway for every number of descriptors, slots, frames   *)
(* and connections, with their proofs.                                     *)
(***************************************************************************)
EXTENDS Gateway, SequenceTheorems, TLAPS

-----------------------------------------------------------------------------
(* Lemmas on the operators of the table.                                   *)

(* A submitted task is a task, in a slot that was free; every other slot   *)
(* keeps what it had.                                                      *)
LEMMA SubmitTask ==
    ASSUME AsyncTypeOK,
           NEW f \in Fds, NEW s \in Nat, NEW c \in Nat, NEW n \in Nat,
           xlab_async_submit(f, s, c, n)
    PROVE  \E i \in Slots :
             LET t == [st |-> "ready", fd |-> f, seq |-> n, cs |-> s,
                       org |-> c, fresh |-> FALSE]
             IN /\ t \in Task
                /\ g_async_queue[i] = Free
                /\ g_async_queue' = [g_async_queue EXCEPT ![i] = t]
<1>1. PICK i \in Slots :
        /\ ~Occupied(i)
        /\ g_async_queue' = [g_async_queue EXCEPT ![i] =
              [st |-> "ready", fd |-> f, seq |-> n, cs |-> s,
               org |-> c, fresh |-> FALSE]]
  BY DEF xlab_async_submit
<1>2. g_async_queue[i] = Free
  BY <1>1 DEF AsyncTypeOK, Task, Free, Occupied
<1>3. [st |-> "ready", fd |-> f, seq |-> n, cs |-> s, org |-> c,
       fresh |-> FALSE] \in Task
  BY DEF Task
<1> QED BY <1>1, <1>2, <1>3

(* Leaving or freeing a task keeps the table well formed. *)
LEMMA TableStays ==
    ASSUME AsyncTypeOK, NEW i \in Slots, LeaveTask(i) \/ FreeTask(i)
    PROVE  g_async_queue' \in [Slots -> Task \cup {Free}]
<1>1. CASE FreeTask(i)
  BY <1>1 DEF AsyncTypeOK, FreeTask
<1>2. CASE LeaveTask(i)
  <2>1. g_async_queue[i] \in Task \cup {Free}
    BY DEF AsyncTypeOK
  <2>2. CASE g_async_queue[i] = Free
    BY <1>2, <2>2 DEF AsyncTypeOK, LeaveTask, Free
  <2>3. CASE g_async_queue[i] \in Task
    <3>1. [g_async_queue[i] EXCEPT !.fresh = FALSE] \in Task
      BY <2>3 DEF Task
    <3> QED BY <1>2, <2>3, <3>1 DEF AsyncTypeOK, LeaveTask, Task
  <2> QED BY <2>1, <2>2, <2>3
<1> QED BY <1>1, <1>2

(* The hardware thread keeps the table well formed. *)
LEMMA HardwareType ==
    ASSUME AsyncTypeOK, HwStep \/ HwWake
    PROVE  AsyncTypeOK'
<1>1. CASE HwLock
  BY <1>1 DEF AsyncTypeOK, HwLock
<1>2. CASE HwRun
  <2>1. ASSUME NEW i \in Slots
        PROVE  g_async_queue'[i] \in Task \cup {Free}
    <3>1. g_async_queue[i] \in Task \cup {Free}
      BY DEF AsyncTypeOK
    <3>2. CASE g_async_queue[i].st = "ready"
      <4>1. g_async_queue[i] \in Task
        BY <3>1, <3>2 DEF Free
      <4>2. [g_async_queue[i] EXCEPT !.st = "done", !.fresh = TRUE] \in Task
        BY <4>1 DEF Task
      <4> QED BY <1>2, <3>2, <4>2 DEF HwRun
    <3>3. CASE g_async_queue[i].st # "ready"
      BY <1>2, <3>1, <3>3 DEF HwRun
    <3> QED BY <3>2, <3>3
  <2> QED BY <1>2, <2>1 DEF AsyncTypeOK, HwRun
<1>3. CASE HwNotify
  BY <1>3 DEF AsyncTypeOK, HwNotify
<1>4. CASE HwWake
  BY <1>4 DEF AsyncTypeOK, HwWake
<1> QED BY <1>1, <1>2, <1>3, <1>4 DEF HwStep

-----------------------------------------------------------------------------
(* Type correctness.                                                       *)

(* The frame loop keeps the types: a chunk is a sequence of frames, the    *)
(* queue a sequence of slots.                                              *)
LEMMA ParseType ==
    ASSUME TypeOK, ParseFrame, todo # <<>>
    PROVE  TypeOK'
<1> USE DEF TypeOK
<1>1. /\ Tail(todo) \in Seq(Kinds)
      /\ cur \in Fds /\ sess[cur] \in Nat /\ gen[cur] \in Nat
      /\ next_req_seq[cur] \in Nat /\ resp_queue[cur] \in Seq(Slot)
  BY HeadTailProperties
<1>2. todo' \in Seq(Kinds) /\ pc' \in {"loop", "parse", "flushlock", "flush"}
  BY <1>1 DEF ParseFrame
<1>3. next_req_seq' \in [Fds -> Nat]
  BY DEF ParseFrame, RejectFrame, SubmitFrame, AnswerNow, AnswerLater, TakeSeq
<1>4. CASE RejectFrame
  BY <1>2, <1>3, <1>4 DEF ParseFrame, RejectFrame, asyncVars, connVars,
     AsyncTypeOK
<1>5. CASE SubmitFrame
  <2>1. g_async_queue' \in [Slots -> Task \cup {Free}]
    <3>1. PICK i \in Slots, t \in Task :
            g_async_queue' = [g_async_queue EXCEPT ![i] = t]
      BY <1>1, <1>5, SubmitTask DEF SubmitFrame
    <3> QED BY <3>1 DEF AsyncTypeOK
  <2>2. hw' \in {"lock", "wait", "run", "notify"}
    BY <1>5 DEF SubmitFrame, xlab_async_submit, AsyncTypeOK
  <2>3. AsyncTypeOK'
    BY <1>5, <2>1, <2>2 DEF SubmitFrame, xlab_async_submit, AsyncTypeOK
  <2> QED BY <1>2, <1>3, <1>5, <2>3 DEF ParseFrame, SubmitFrame, connVars
<1>6. CASE AnswerNow
  BY <1>1, <1>2, <1>3, <1>6 DEF ParseFrame, AnswerNow, asyncVars, connVars,
     AsyncTypeOK
<1>7. CASE AnswerLater
  <2>1. [seq |-> next_req_seq[cur], org |-> gen[cur], part |-> FALSE] \in Slot
    BY <1>1 DEF Slot
  <2>2. Append(resp_queue[cur],
               [seq |-> next_req_seq[cur], org |-> gen[cur], part |-> FALSE])
        \in Seq(Slot)
    BY <1>1, <2>1, AppendProperties
  <2>3. resp_queue' \in [Fds -> Seq(Slot)]
    BY <1>7, <2>2 DEF AnswerLater
  <2> QED BY <1>1, <1>2, <1>3, <1>7, <2>3 DEF ParseFrame, AnswerLater,
     xlab_epoll_change_mode, asyncVars, AsyncTypeOK
<1> QED BY <1>4, <1>5, <1>6, <1>7 DEF ParseFrame

(* Removing a session and closing its connection. *)
LEMMA RemoveType ==
    ASSUME TypeOK, NEW f \in Fds, xlab_session_remove(f), xlab_conn_close(f)
    PROVE  /\ sess' \in [Fds -> Nat]
           /\ next_req_seq' \in [Fds -> Nat]
           /\ resp_seq_expected' \in [Fds -> Nat]
           /\ resp_queue' \in [Fds -> Seq(Slot)]
           /\ conn' \in [Fds -> {"free", "new", "open"}]
           /\ mode' \in [Fds -> {"READ", "WRITE"}]
<1>1. <<>> \in Seq(Slot)
  BY EmptySeq
<1> QED BY <1>1 DEF TypeOK, xlab_session_remove, xlab_conn_close

(* A read on a client socket keeps the types. *)
LEMMA ReadType ==
    ASSUME TypeOK, NEW f \in Fds, xlab_conn_read(f)
    PROVE  TypeOK'
<1> USE DEF TypeOK
<1>1. revents' \in [Polled -> {"none", "IN", "OUT", "ERR"}]
  <2>1. Dispatch(f, "IN")
    BY DEF xlab_conn_read, ReadChunk, ReadEnd, ReadAgain
  <2> QED BY <2>1 DEF Dispatch
<1>2. CASE ReadChunk(f)
  <2>1. todo' \in Seq(Kinds) /\ pc' \in {"loop", "parse"}
    <3>0. PICK n \in 0 .. Window : \E chunk \in [1 .. n -> Kinds] :
            todo' = chunk /\ pc' = IF n = 0 THEN "loop" ELSE "parse"
      BY <1>2 DEF ReadChunk
    <3>1. PICK chunk \in [1 .. n -> Kinds] :
            todo' = chunk /\ pc' = IF n = 0 THEN "loop" ELSE "parse"
      BY <3>0
    <3>2. n \in Nat /\ chunk \in Seq(Kinds)
      BY GatewayAssumption, SeqDef DEF GatewayAssumption
    <3> QED BY <3>1, <3>2
  <2>2. sess' \in [Fds -> Nat]
    BY <1>2 DEF ReadChunk
  <2> QED BY <1>1, <1>2, <2>1, <2>2 DEF ReadChunk, asyncVars, connVars,
     AsyncTypeOK
<1>3. CASE ReadEnd(f)
  <2>1. AsyncTypeOK' /\ UNCHANGED <<gen, clean, pc, cur, todo, idx>>
    BY <1>3 DEF ReadEnd, xlab_conn_close, asyncVars, AsyncTypeOK
  <2>2. xlab_session_remove(f) /\ xlab_conn_close(f)
    BY <1>3 DEF ReadEnd
  <2> QED BY <1>1, <2>1, <2>2, RemoveType
<1>4. CASE ReadAgain(f)
  BY <1>1, <1>4 DEF ReadAgain, xlab_conn_close, asyncVars, AsyncTypeOK
<1> QED BY <1>2, <1>3, <1>4 DEF xlab_conn_read

(* So do a write and the error handler. *)
LEMMA WriteType ==
    ASSUME TypeOK, NEW f \in Fds, xlab_conn_write(f) \/ xlab_conn_error(f)
    PROVE  TypeOK'
<1> USE DEF TypeOK
<1>1. revents' \in [Polled -> {"none", "IN", "OUT", "ERR"}]
  BY DEF xlab_conn_write, WriteRegister, WriteFail, WriteSome,
     xlab_conn_error, Dispatch
<1>2. CASE WriteRegister(f)
  BY <1>1, <1>2 DEF WriteRegister, sessVars, asyncVars, AsyncTypeOK
<1>3. CASE WriteFail(f) \/ xlab_conn_error(f)
  <2>1. AsyncTypeOK' /\ UNCHANGED <<gen, clean, pc, cur, todo, idx>>
    BY <1>3 DEF WriteFail, xlab_conn_error, xlab_conn_close, asyncVars,
       AsyncTypeOK
  <2>2. xlab_session_remove(f) /\ xlab_conn_close(f)
    BY <1>3 DEF WriteFail, xlab_conn_error
  <2> QED BY <1>1, <2>1, <2>2, RemoveType
<1>4. CASE WriteSome(f)
  <2>1. PICK n \in 0 .. Len(resp_queue[f]), half \in BOOLEAN :
          LET rest == SubSeq(resp_queue[f], n + 1, Len(resp_queue[f]))
          IN /\ half => rest # <<>>
             /\ resp_queue' = [resp_queue EXCEPT ![f] =
                  IF half THEN [rest EXCEPT ![1].part = TRUE] ELSE rest]
    BY <1>4 DEF WriteSome
  <2> DEFINE rest == SubSeq(resp_queue[f], n + 1, Len(resp_queue[f]))
  <2>2. resp_queue[f] \in Seq(Slot) /\ Len(resp_queue[f]) \in Nat
    BY LenProperties
  <2>3. rest \in Seq(Slot)
    <3>1. \A i \in n + 1 .. Len(resp_queue[f]) : resp_queue[f][i] \in Slot
      BY <2>2, ElementOfSeq
    <3> QED BY <2>2, <3>1, SubSeqProperties
  <2> HIDE DEF rest
  <2>4. half => [rest EXCEPT ![1].part = TRUE] \in Seq(Slot)
    <3>1. SUFFICES ASSUME rest # <<>>
                   PROVE  [rest EXCEPT ![1].part = TRUE] \in Seq(Slot)
      BY <2>1 DEF rest
    <3>2. 1 \in 1 .. Len(rest)
      BY <2>3, <3>1, EmptySeq
    <3>3. rest[1] \in Slot
      BY <2>3, <3>2, ElementOfSeq
    <3>4. [rest[1] EXCEPT !.part = TRUE] \in Slot
      BY <3>3 DEF Slot
    <3>5. [rest EXCEPT ![1] = [rest[1] EXCEPT !.part = TRUE]] \in Seq(Slot)
      BY <2>3, <3>2, <3>4, ExceptSeq
    <3>6. [rest EXCEPT ![1].part = TRUE]
            = [rest EXCEPT ![1] = [rest[1] EXCEPT !.part = TRUE]]
      OBVIOUS
    <3> QED BY <3>5, <3>6
  <2>5. resp_queue' \in [Fds -> Seq(Slot)]
    BY <2>1, <2>3, <2>4 DEF rest
  <2> QED BY <1>1, <1>4, <2>5 DEF WriteSome, xlab_epoll_change_mode,
     asyncVars, AsyncTypeOK
<1> QED BY <1>2, <1>3, <1>4 DEF xlab_conn_write

(* And so does every step of the flush. *)
LEMMA FlushType ==
    ASSUME TypeOK, xlab_async_flush_completed
    PROVE  TypeOK'
<1> USE DEF TypeOK
<1>1. CASE FlushDrain
  BY <1>1 DEF FlushDrain, Dispatch, connVars, sessVars, AsyncTypeOK
<1>2. CASE FlushLock
  BY <1>2, DepthAssumption DEF FlushLock, connVars, sessVars, AsyncTypeOK,
     Slots
<1>3. CASE FlushSlot
  <2>1. /\ pc' \in {"loop", "flush"}
        /\ idx' \in Slots
        /\ g_async_mutex' \in {"none", "hw", "worker"}
        /\ UNCHANGED <<g_event_fd, hw, revents, cur, todo>>
    BY <1>3, DepthAssumption DEF FlushSlot, NextSlot, AsyncTypeOK, Slots
  <2>2. g_async_queue' \in [Slots -> Task \cup {Free}]
    BY <1>3, TableStays DEF FlushSlot, FlushSkip, FlushDrop, FlushBusy,
       FlushQueue, FlushDangling
  <2>3. AsyncTypeOK'
    BY <2>1, <2>2 DEF AsyncTypeOK
  <2>4. Completed => /\ TaskFd \in Fds
                     /\ TaskSeq \in Nat
                     /\ g_async_queue[idx].org \in Nat
    BY DEF Completed, TaskFd, TaskSeq, AsyncTypeOK, Task, Free
  <2>5. CASE FlushSkip \/ FlushDrop
    BY <2>1, <2>3, <2>5 DEF FlushSkip, FlushDrop, connVars, sessVars
  <2>6. CASE FlushBusy
    <3>1. resp_seq_expected' \in [Fds -> Nat]
      BY <2>4, <2>6 DEF FlushBusy, Advance
    <3> QED BY <2>1, <2>3, <2>6, <3>1 DEF FlushBusy, connVars
  <2>7. CASE FlushQueue
    <3>1. [seq |-> TaskSeq, org |-> g_async_queue[idx].org, part |-> FALSE]
            \in Slot
      BY <2>4, <2>7 DEF FlushQueue, Slot
    <3>2. Append(resp_queue[TaskFd],
            [seq |-> TaskSeq, org |-> g_async_queue[idx].org, part |-> FALSE])
            \in Seq(Slot)
      BY <2>4, <2>7, <3>1, AppendProperties DEF FlushQueue
    <3>3. /\ resp_queue' \in [Fds -> Seq(Slot)]
          /\ resp_seq_expected' \in [Fds -> Nat]
      BY <2>4, <2>7, <3>2 DEF FlushQueue, Advance
    <3> QED BY <2>1, <2>3, <2>7, <3>3 DEF FlushQueue, ArmWrite,
       xlab_epoll_change_mode, connVars
  <2>8. CASE FlushDangling
    BY <2>1, <2>3, <2>8 DEF FlushDangling, ArmWrite, xlab_epoll_change_mode,
       connVars, sessVars
  <2> QED BY <1>3, <2>5, <2>6, <2>7, <2>8 DEF FlushSlot
<1> QED BY <1>1, <1>2, <1>3 DEF xlab_async_flush_completed

(* While frames are being parsed there is one left. *)
ChunkInv == pc = "parse" => todo # <<>>

LEMMA TypeStep ==
    ASSUME TypeOK, ChunkInv, [Next]_vars
    PROVE  TypeOK' /\ ChunkInv'
<1>1. ASSUME NEW f \in Fds, Accept(f)
      PROVE  TypeOK' /\ ChunkInv'
  BY <1>1 DEF TypeOK, ChunkInv, Accept, asyncVars, sessVars, workVars,
     AsyncTypeOK
<1>2. CASE EpollWait
  BY <1>2 DEF TypeOK, ChunkInv, EpollWait, asyncVars, connVars, sessVars,
     AsyncTypeOK
<1>3. ASSUME NEW f \in Fds, xlab_conn_read(f)
      PROVE  TypeOK' /\ ChunkInv'
  <2>1. ChunkInv'
    <3>1. CASE ReadChunk(f)
      <4>0. PICK n \in 0 .. Window : \E chunk \in [1 .. n -> Kinds] :
              todo' = chunk /\ pc' = IF n = 0 THEN "loop" ELSE "parse"
        BY <3>1 DEF ReadChunk
      <4>1. PICK chunk \in [1 .. n -> Kinds] :
              todo' = chunk /\ pc' = IF n = 0 THEN "loop" ELSE "parse"
        BY <4>0
      <4>2. n \in Nat /\ chunk \in Seq(Kinds)
        BY GatewayAssumption, SeqDef DEF GatewayAssumption
      <4>3. DOMAIN chunk = 1 .. n /\ DOMAIN <<>> = 1 .. 0
        OBVIOUS
      <4> QED BY <4>1, <4>2, <4>3 DEF ChunkInv
    <3>2. CASE ReadEnd(f) \/ ReadAgain(f)
      BY <3>2 DEF ChunkInv, ReadEnd, ReadAgain
    <3> QED BY <1>3, <3>1, <3>2 DEF xlab_conn_read
  <2> QED BY <1>3, <2>1, ReadType
<1>4. ASSUME NEW f \in Fds, xlab_conn_write(f) \/ xlab_conn_error(f)
      PROVE  TypeOK' /\ ChunkInv'
  <2>1. ChunkInv'
    BY <1>4 DEF ChunkInv, xlab_conn_write, WriteRegister, WriteFail,
       WriteSome, xlab_conn_error
  <2> QED BY <1>4, <2>1, WriteType
<1>5. CASE ParseFrame
  <2>1. todo # <<>>
    BY <1>5 DEF ChunkInv, ParseFrame
  <2>2. ChunkInv'
    <3>1. todo \in Seq(Kinds) /\ Len(Tail(todo)) = Len(todo) - 1
      BY <2>1, HeadTailProperties DEF TypeOK
    <3>2. Tail(todo) = <<>> => Len(todo) = 1
      <4>1. Len(<<>>) = 0 /\ Len(todo) \in Nat
        BY <3>1, LenProperties
      <4>2. Tail(todo) = <<>> => Len(Tail(todo)) = Len(<<>>)
        OBVIOUS
      <4> QED BY <3>1, <4>1, <4>2
    <3>3. todo' = Tail(todo) /\ (Len(todo) = 1 => pc' = "loop")
      BY <1>5 DEF ParseFrame
    <3> QED BY <3>2, <3>3 DEF ChunkInv
  <2> QED BY <1>5, <2>1, <2>2, ParseType
<1>6. CASE xlab_async_flush_completed
  <2>1. ChunkInv'
    BY <1>6 DEF ChunkInv, xlab_async_flush_completed, FlushDrain, FlushLock,
       FlushSlot, NextSlot
  <2> QED BY <1>6, <2>1, FlushType
<1>7. CASE Hardware
  <2>1. AsyncTypeOK'
    BY <1>7, HardwareType DEF Hardware, TypeOK
  <2> QED BY <1>7, <2>1 DEF TypeOK, ChunkInv, Hardware, connVars, sessVars,
     workVars
<1>8. CASE UNCHANGED vars
  BY <1>8 DEF TypeOK, ChunkInv, vars, asyncVars, connVars, sessVars,
     workVars, AsyncTypeOK
<1> QED BY <1>1, <1>2, <1>3, <1>4, <1>5, <1>6, <1>7, <1>8 DEF Next, Handler

LEMMA TypeInit == Init => TypeOK /\ ChunkInv
<1> SUFFICES ASSUME Init PROVE TypeOK /\ ChunkInv
  OBVIOUS
<1>1. <<>> \in Seq(Slot) /\ <<>> \in Seq(Kinds)
  BY EmptySeq
<1>2. 1 \in Slots
  BY DepthAssumption DEF Slots
<1> QED BY <1>1, <1>2 DEF Init, AsyncInit, TypeOK, AsyncTypeOK, ChunkInv, Quiet

LEMMA TypeInvariant == Spec => [](TypeOK /\ ChunkInv)
<1>1. TypeOK /\ ChunkInv /\ [Next]_vars => TypeOK' /\ ChunkInv'
  BY TypeStep
<1> QED BY TypeInit, <1>1, PTL DEF Spec

(* Every variable keeps its type, the table its well-formed tasks and the  *)
(* response queues their slots.                                            *)
THEOREM TypeCorrect == Spec => []TypeOK
BY TypeInvariant, PTL

-----------------------------------------------------------------------------
(* The mutex.                                                              *)

(* The mutex is held exactly where the code holds it. *)
LockInv ==
    /\ g_async_mutex = "hw" <=> hw = "run"
    /\ g_async_mutex = "worker" <=> pc = "flush"

(* What a step of the worker outside the flush and the submission leaves   *)
(* alone: the table and its mutex, and it is in the loop or in a chunk     *)
(* before and after.                                                       *)
Elsewhere ==
    /\ UNCHANGED asyncVars
    /\ pc # pc' => pc \in {"loop", "parse"} /\ pc' \in {"loop", "parse"}
    /\ UNCHANGED idx

(* Every step is the hardware thread's, the flush's, a submission or       *)
(* elsewhere.                                                              *)
LEMMA StepKinds ==
    ASSUME TypeOK, [Next]_vars
    PROVE  \/ Elsewhere
           \/ Hardware
           \/ xlab_async_flush_completed
           \/ ParseFrame /\ SubmitFrame
<1>1. ASSUME NEW f \in Fds, Accept(f)
      PROVE  Elsewhere
  BY <1>1 DEF Accept, Elsewhere, workVars
<1>2. CASE EpollWait
  BY <1>2 DEF EpollWait, Elsewhere
<1>3. ASSUME NEW f \in Fds, xlab_conn_read(f)
      PROVE  Elsewhere
  <2>1. CASE ReadChunk(f)
    <3>1. pc = "loop" /\ pc' \in {"loop", "parse"}
      BY <2>1 DEF ReadChunk, Dispatch
    <3> QED BY <2>1, <3>1 DEF ReadChunk, Elsewhere
  <2>2. CASE ReadEnd(f) \/ ReadAgain(f)
    BY <2>2 DEF ReadEnd, ReadAgain, Elsewhere
  <2> QED BY <1>3, <2>1, <2>2 DEF xlab_conn_read
<1>4. ASSUME NEW f \in Fds, xlab_conn_write(f) \/ xlab_conn_error(f)
      PROVE  Elsewhere
  BY <1>4 DEF xlab_conn_write, WriteRegister, WriteFail, WriteSome,
     xlab_conn_error, Elsewhere
<1>5. CASE ParseFrame /\ ~SubmitFrame
  <2>1. UNCHANGED asyncVars /\ UNCHANGED idx
    BY <1>5 DEF ParseFrame, RejectFrame, AnswerNow, AnswerLater
  <2>2. pc = "parse" /\ pc' \in {"loop", "parse"}
    BY <1>5 DEF ParseFrame
  <2> QED BY <2>1, <2>2 DEF Elsewhere
<1>6. CASE UNCHANGED vars
  BY <1>6 DEF vars, workVars, Elsewhere
<1> QED BY <1>1, <1>2, <1>3, <1>4, <1>5, <1>6 DEF Next, Handler

LEMMA LockStep ==
    ASSUME TypeOK, LockInv, [Next]_vars
    PROVE  LockInv'
<1> USE DEF LockInv
<1>1. CASE Elsewhere
  BY <1>1 DEF Elsewhere, asyncVars
<1>2. CASE Hardware
  BY <1>2 DEF Hardware, workVars, HwStep, HwLock, HwRun, HwNotify, HwWake
<1>3. CASE xlab_async_flush_completed
  BY <1>3 DEF xlab_async_flush_completed, FlushDrain, FlushLock, FlushSlot,
     NextSlot, Dispatch
<1>4. CASE ParseFrame /\ SubmitFrame
  BY <1>4 DEF ParseFrame, SubmitFrame, xlab_async_submit
<1> QED BY <1>1, <1>2, <1>3, <1>4, StepKinds

(* The hardware thread runs handlers exactly while it holds the mutex, and *)
(* the worker holds it exactly during the scan of a flush: no path of      *)
(* either thread leaves it locked or scans without it.                     *)
THEOREM MutexHeld == Spec => []LockInv
<1>1. Init => LockInv
  BY DEF Init, AsyncInit, LockInv
<1>2. TypeOK /\ LockInv /\ [Next]_vars => LockInv'
  BY LockStep
<1> QED BY <1>1, <1>2, TypeCorrect, PTL DEF Spec

-----------------------------------------------------------------------------
(* No wakeup is lost.                                                      *)

LEMMA CompletionStep ==
    ASSUME TypeOK, LockInv, NoLostCompletion, [Next]_vars
    PROVE  NoLostCompletion'
<1> SUFFICES ASSUME NEW i \in Slots,
                    g_async_queue'[i].st = "done", g_async_queue'[i].fresh
             PROVE  Announced(i)'
  BY DEF NoLostCompletion
<1> DEFINE Waiting == g_async_queue[i].st = "done" /\ g_async_queue[i].fresh
<1>1. Waiting => Announced(i)
  BY DEF NoLostCompletion
<1>2. CASE Elsewhere
  <2>1. Waiting
    BY <1>2 DEF Elsewhere, asyncVars
  <2> QED BY <1>1, <1>2, <2>1 DEF Announced, Elsewhere, asyncVars
<1>3. CASE Hardware
  <2>1. CASE HwRun
    BY <2>1 DEF HwRun, Announced
  <2>2. CASE HwNotify
    BY <2>2 DEF HwNotify, Announced
  <2>3. CASE HwLock \/ HwWake
    <3>1. Waiting
      BY <2>3 DEF HwLock, HwWake
    <3> QED BY <1>1, <1>3, <2>3, <3>1 DEF HwLock, HwWake, Hardware, workVars,
       Announced
  <2> QED BY <1>3, <2>1, <2>2, <2>3 DEF Hardware, HwStep
<1>4. CASE ParseFrame /\ SubmitFrame
  <2>1. Waiting
    <3>1. PICK j \in Slots : g_async_queue' = [g_async_queue EXCEPT ![j] =
            [st |-> "ready", fd |-> cur, seq |-> next_req_seq[cur],
             cs |-> sess[cur], org |-> gen[cur], fresh |-> FALSE]]
      BY <1>4 DEF SubmitFrame, xlab_async_submit
    <3>2. g_async_queue \in [Slots -> Task \cup {Free}]
      BY DEF TypeOK, AsyncTypeOK
    <3>3. i # j
      BY <3>1, <3>2
    <3> QED BY <3>1, <3>2, <3>3
  <2>2. /\ UNCHANGED g_event_fd
        /\ hw = "notify" => hw' = "notify"
        /\ pc = "parse"
    BY <1>4 DEF ParseFrame, SubmitFrame, xlab_async_submit
  <2> QED BY <1>1, <2>1, <2>2 DEF Announced
<1>5. CASE xlab_async_flush_completed
  <2>1. CASE FlushDrain
    BY <2>1 DEF FlushDrain, Announced
  <2>2. CASE FlushLock
    BY <2>2 DEF FlushLock, Announced, Slots
  <2>3. CASE FlushSlot
    <3>1. LeaveTask(idx) \/ FreeTask(idx)
      BY <2>3 DEF FlushSlot, FlushSkip, FlushDrop, FlushBusy, FlushQueue,
         FlushDangling
    <3>2. /\ g_async_queue \in [Slots -> Task \cup {Free}]
          /\ idx \in Slots
      BY DEF TypeOK, AsyncTypeOK
    <3>3. i # idx /\ Waiting
      <4>1. i = idx => ~(g_async_queue'[i].st = "done" /\ g_async_queue'[i].fresh)
        BY <3>1, <3>2 DEF LeaveTask, FreeTask, Task, Free
      <4> QED BY <3>1, <3>2, <4>1 DEF LeaveTask, FreeTask
    <3>4. pc = "flush" /\ UNCHANGED <<g_event_fd, hw>>
      BY <2>3 DEF FlushSlot, NextSlot
    <3>5. CASE g_event_fd \/ hw = "notify"
      BY <3>4, <3>5 DEF Announced
    <3>6. CASE ~(g_event_fd \/ hw = "notify")
      <4>1. i > idx
        BY <1>1, <3>2, <3>3, <3>4, <3>6 DEF Announced, Slots
      <4>2. pc' = "flush" /\ idx' = idx + 1
        BY <2>3, <3>2, <4>1, DepthAssumption DEF FlushSlot, NextSlot, Slots
      <4> QED BY <3>2, <4>1, <4>2 DEF Announced, Slots
    <3> QED BY <3>5, <3>6
  <2> QED BY <1>5, <2>1, <2>2, <2>3 DEF xlab_async_flush_completed
<1> QED BY <1>2, <1>3, <1>4, <1>5, StepKinds

(* A completed task no flush has looked at always has a wakeup on its way, *)
(* whatever the number of slots, descriptors and clients.                  *)
THEOREM CompletionAnnounced == Spec => []NoLostCompletion
<1>1. Init => NoLostCompletion
  BY DEF Init, AsyncInit, NoLostCompletion, Free
<1>2. TypeOK /\ LockInv /\ NoLostCompletion /\ [Next]_vars
        => NoLostCompletion'
  BY CompletionStep
<1> QED BY <1>1, <1>2, TypeCorrect, MutexHeld, PTL DEF Spec

-----------------------------------------------------------------------------
(* Events of a batch.                                                      *)

(* A connection that is not registered yet waits for its first EPOLLOUT.   *)
NewArmed == \A f \in Fds : conn[f] = "new" => mode[f] = "WRITE"

EventInv == EventsNotStale /\ NewArmed

LEMMA CloseEvents ==
    ASSUME TypeOK, EventInv, NEW f \in Fds, NEW event,
           Dispatch(f, event), xlab_conn_close(f)
    PROVE  EventInv'
BY DEF TypeOK, EventInv, EventsNotStale, NewArmed, Dispatch, xlab_conn_close,
   Polled

LEMMA EventStep ==
    ASSUME TypeOK, EventInv, [Next]_vars
    PROVE  EventInv'
<1> USE DEF EventInv, EventsNotStale, NewArmed
<1>1. ASSUME NEW f \in Fds, Accept(f)
      PROVE  EventInv'
  BY <1>1 DEF TypeOK, Accept, workVars
<1>2. CASE EpollWait
  <2>1. ASSUME NEW f \in Fds
        PROVE  /\ revents'[f] \in {"IN", "ERR"} => conn[f] = "open"
               /\ revents'[f] = "OUT" => conn[f] # "free" /\ mode[f] = "WRITE"
    <3>1. revents'[f] \in Reportable(f)
      BY <1>2 DEF EpollWait
    <3>2. conn[f] \in {"free", "new", "open"} /\ mode[f] \in {"READ", "WRITE"}
      BY DEF TypeOK
    <3> QED BY <3>1, <3>2 DEF Reportable
  <2> QED BY <1>2, <2>1 DEF EpollWait, connVars
<1>3. ASSUME NEW f \in Fds, xlab_conn_read(f)
      PROVE  EventInv'
  <2>1. CASE ReadChunk(f)
    BY <2>1 DEF TypeOK, ReadChunk, Dispatch, connVars, Polled
  <2>2. CASE ReadEnd(f) \/ ReadAgain(f)
    BY <2>2, CloseEvents DEF ReadEnd, ReadAgain
  <2> QED BY <1>3, <2>1, <2>2 DEF xlab_conn_read
<1>4. ASSUME NEW f \in Fds, xlab_conn_write(f) \/ xlab_conn_error(f)
      PROVE  EventInv'
  <2>1. CASE WriteRegister(f)
    BY <2>1 DEF TypeOK, WriteRegister, Dispatch, Polled
  <2>2. CASE WriteFail(f) \/ xlab_conn_error(f)
    BY <2>2, CloseEvents DEF WriteFail, xlab_conn_error
  <2>3. CASE WriteSome(f)
    <3>1. /\ conn[f] = "open" /\ Dispatch(f, "OUT")
          /\ xlab_epoll_change_mode(f, "READ")
      BY <2>3 DEF WriteSome
    <3> QED BY <3>1 DEF TypeOK, Dispatch, xlab_epoll_change_mode, Polled
  <2> QED BY <1>4, <2>1, <2>2, <2>3 DEF xlab_conn_write
<1>5. CASE ParseFrame
  <2>1. UNCHANGED connVars \/ xlab_epoll_change_mode(cur, "WRITE")
    BY <1>5 DEF ParseFrame, RejectFrame, SubmitFrame, AnswerNow, AnswerLater
  <2>2. UNCHANGED revents
    BY <1>5 DEF ParseFrame
  <2> QED BY <2>1, <2>2 DEF TypeOK, connVars, xlab_epoll_change_mode
<1>6. CASE xlab_async_flush_completed
  <2>1. CASE FlushDrain
    BY <2>1, GatewayAssumption DEF TypeOK, FlushDrain, Dispatch, connVars,
       Polled, GatewayAssumption
  <2>2. CASE FlushLock
    BY <2>2 DEF FlushLock, connVars
  <2>3. CASE FlushSlot
    <3>1. UNCHANGED connVars \/ xlab_epoll_change_mode(TaskFd, "WRITE")
      BY <2>3 DEF FlushSlot, FlushSkip, FlushDrop, FlushBusy, FlushQueue,
         FlushDangling, ArmWrite
    <3>2. UNCHANGED revents
      BY <2>3 DEF FlushSlot, NextSlot
    <3> QED BY <3>1, <3>2 DEF TypeOK, connVars, xlab_epoll_change_mode
  <2> QED BY <1>6, <2>1, <2>2, <2>3 DEF xlab_async_flush_completed
<1>7. CASE Hardware
  BY <1>7 DEF Hardware, connVars, workVars
<1>8. CASE UNCHANGED vars
  BY <1>8 DEF vars, connVars, workVars
<1> QED BY <1>1, <1>2, <1>3, <1>4, <1>5, <1>6, <1>7, <1>8 DEF Next, Handler

LEMMA EventInvariant == Spec => []EventInv
<1>1. Init => EventInv
  BY DEF Init, EventInv, EventsNotStale, NewArmed, Quiet, Polled
<1>2. TypeOK /\ EventInv /\ [Next]_vars => EventInv'
  BY EventStep
<1> QED BY <1>1, <1>2, TypeCorrect, PTL DEF Spec

(* No handler of a batch runs for a descriptor that an earlier handler of  *)
(* the batch closed, or writes to one that waits for input.                *)
THEOREM EventsValid == Spec => []EventsNotStale
<1>1. EventInv => EventsNotStale
  BY DEF EventInv
<1> QED BY <1>1, EventInvariant, PTL

-----------------------------------------------------------------------------
(* Tasks keep their identity.                                              *)

(* The table after a step of the flush, or of the hardware thread, has no  *)
(* task it did not have before.                                            *)
NoNewTask ==
    \A i \in Slots : g_async_queue'[i].st # "free" =>
        Occupied(i) /\ SameTask(g_async_queue[i], g_async_queue'[i])

LEMMA OldTasks ==
    ASSUME TypeOK,
           \/ UNCHANGED g_async_queue
           \/ HwRun
           \/ \E i \in Slots : LeaveTask(i) \/ FreeTask(i)
    PROVE  NoNewTask
<1> SUFFICES ASSUME NEW i \in Slots, g_async_queue'[i].st # "free"
             PROVE  Occupied(i) /\ SameTask(g_async_queue[i], g_async_queue'[i])
  BY DEF NoNewTask
<1> USE DEF Occupied, SameTask
<1>1. /\ g_async_queue \in [Slots -> Task \cup {Free}]
      /\ g_async_queue[i] \in Task \cup {Free}
  BY DEF TypeOK, AsyncTypeOK
<1>2. CASE UNCHANGED g_async_queue
  BY <1>2
<1>3. CASE HwRun
  <2>1. CASE g_async_queue[i].st = "ready"
    <3>1. g_async_queue[i] \in Task
      BY <1>1, <2>1 DEF Free
    <3> QED BY <1>3, <2>1, <3>1 DEF HwRun, Task
  <2>2. CASE g_async_queue[i].st # "ready"
    BY <1>3, <2>2 DEF HwRun
  <2> QED BY <2>1, <2>2
<1>4. CASE \E j \in Slots : LeaveTask(j) \/ FreeTask(j)
  <2>1. PICK j \in Slots : LeaveTask(j) \/ FreeTask(j)
    BY <1>4
  <2>2. CASE i # j
    BY <1>1, <2>1, <2>2 DEF LeaveTask, FreeTask
  <2>3. CASE i = j /\ LeaveTask(j)
    <3>1. CASE g_async_queue[i] = Free
      BY <1>1, <2>3, <3>1 DEF LeaveTask, Free
    <3>2. CASE g_async_queue[i] \in Task
      BY <1>1, <2>3, <3>2 DEF LeaveTask, Task
    <3> QED BY <1>1, <3>1, <3>2
  <2>4. CASE i = j /\ FreeTask(j)
    BY <1>1, <2>4 DEF FreeTask, Free
  <2> QED BY <2>1, <2>2, <2>3, <2>4
<1> QED BY <1>2, <1>3, <1>4

LEMMA FlushOldTasks ==
    ASSUME TypeOK, xlab_async_flush_completed
    PROVE  NoNewTask
<1>1. CASE FlushDrain \/ FlushLock
  BY <1>1, OldTasks DEF FlushDrain, FlushLock
<1>2. CASE FlushSlot
  <2>1. idx \in Slots /\ (LeaveTask(idx) \/ FreeTask(idx))
    BY <1>2 DEF TypeOK, FlushSlot, FlushSkip, FlushDrop, FlushBusy,
       FlushQueue, FlushDangling
  <2> QED BY <2>1, OldTasks
<1> QED BY <1>1, <1>2 DEF xlab_async_flush_completed

LEMMA HardwareOldTasks ==
    ASSUME TypeOK, Hardware
    PROVE  NoNewTask
BY OldTasks DEF Hardware, HwStep, HwLock, HwNotify, HwWake

(* One step keeps every task as it is or frees it, done, under the mutex.  *)
StableTask(i) ==
    \/ Occupied(i)' /\ SameTask(g_async_queue[i], g_async_queue'[i])
    \/ /\ g_async_queue'[i] = Free
       /\ g_async_queue[i].st = "done"
       /\ g_async_mutex = "worker"

LEMMA StableStep ==
    ASSUME TypeOK, LockInv, [Next]_vars, NEW i \in Slots, Occupied(i)
    PROVE  StableTask(i)
<1>0. /\ g_async_queue \in [Slots -> Task \cup {Free}]
      /\ g_async_queue[i] \in Task
      /\ idx \in Slots
  BY DEF TypeOK, AsyncTypeOK, Occupied, Free
<1>1. CASE g_async_queue'[i] = g_async_queue[i]
  BY <1>1 DEF StableTask, Occupied, SameTask
<1>2. CASE HwRun
  BY <1>0, <1>2 DEF HwRun, StableTask, Occupied, SameTask, Task
<1>3. CASE FlushSlot
  <2>1. g_async_mutex = "worker"
    BY <1>3 DEF LockInv, FlushSlot
  <2>2. LeaveTask(idx) \/ (FreeTask(idx) /\ Completed)
    BY <1>3 DEF FlushSlot, FlushSkip, FlushDrop, FlushBusy, FlushQueue,
       FlushDangling
  <2>3. CASE LeaveTask(idx)
    <3>1. SUFFICES ASSUME i = idx PROVE StableTask(i)
      BY <1>0, <1>1, <2>3 DEF LeaveTask
    <3>2. g_async_queue'[i] = [g_async_queue[i] EXCEPT !.fresh = FALSE]
      BY <1>0, <2>3, <3>1 DEF LeaveTask, Occupied, Free
    <3> QED BY <1>0, <3>2 DEF StableTask, Occupied, SameTask, Task
  <2>4. CASE FreeTask(idx) /\ Completed
    BY <1>0, <1>1, <2>1, <2>4 DEF FreeTask, Completed, StableTask
  <2> QED BY <2>2, <2>3, <2>4
<1>4. CASE ParseFrame /\ SubmitFrame
  <2>1. PICK j \in Slots :
          /\ ~Occupied(j)
          /\ g_async_queue' = [g_async_queue EXCEPT ![j] =
               [st |-> "ready", fd |-> cur, seq |-> next_req_seq[cur],
                cs |-> sess[cur], org |-> gen[cur], fresh |-> FALSE]]
    BY <1>4 DEF SubmitFrame, xlab_async_submit
  <2> QED BY <1>0, <1>1, <2>1
<1>5. CASE Elsewhere
  BY <1>1, <1>5 DEF Elsewhere, asyncVars
<1>6. CASE Hardware /\ ~HwRun
  BY <1>1, <1>6 DEF Hardware, HwStep, HwLock, HwNotify, HwWake
<1>7. CASE xlab_async_flush_completed /\ ~FlushSlot
  BY <1>1, <1>7 DEF xlab_async_flush_completed, FlushDrain, FlushLock
<1> QED BY <1>2, <1>3, <1>4, <1>5, <1>6, <1>7, StepKinds

(* A task keeps its slot and its identity until the worker, holding the    *)
(* mutex, frees it after it is done.                                       *)
THEOREM TasksStable == Spec => TaskStable
<1>1. TypeOK /\ LockInv /\ [Next]_vars =>
        [\A i \in Slots : Occupied(i) =>
          \/ Occupied(i)' /\ SameTask(g_async_queue[i], g_async_queue'[i])
          \/ /\ g_async_queue'[i] = Free
             /\ g_async_queue[i].st = "done"
             /\ g_async_mutex = "worker"]_vars
  BY StableStep DEF StableTask
<1> QED BY <1>1, TypeCorrect, MutexHeld, PTL DEF Spec, TaskStable

-----------------------------------------------------------------------------
(* One task per request.                                                   *)

(* Sessions and tasks never run ahead of the connections of a descriptor,  *)
(* and the tasks of a session never ahead of its requests.                 *)
SessionInv ==
    /\ \A f \in Fds : /\ sess[f] <= gen[f]
                      /\ conn[f] # "free" => gen[f] > 0
    /\ pc = "parse" => conn[cur] = "open" /\ HasSession(cur)

TaskOK(i) ==
    LET t == g_async_queue[i]
    IN Occupied(i) =>
         /\ t.cs > 0 /\ t.cs <= gen[t.fd]
         /\ t.cs = sess[t.fd] => t.seq < next_req_seq[t.fd]
         /\ conn[t.fd] # "free" /\ ~HasSession(t.fd) => t.cs < gen[t.fd]

TaskInv == \A i \in Slots : TaskOK(i)

RequestInv == SessionInv /\ TaskInv /\ OneTaskPerRequest

(* A slot of the flush leaves connections, sessions and requests alone. *)
LEMMA FlushFrame ==
    ASSUME FlushSlot
    PROVE  UNCHANGED <<conn, gen, clean, sess, next_req_seq, revents, cur, todo>>
<1>1. UNCHANGED <<revents, cur, todo>>
  BY DEF FlushSlot, NextSlot
<1>2. CASE FlushSkip \/ FlushDrop
  BY <1>1, <1>2 DEF FlushSkip, FlushDrop, connVars, sessVars
<1>3. CASE FlushBusy
  BY <1>1, <1>3 DEF FlushBusy, connVars
<1>4. CASE FlushQueue
  BY <1>1, <1>4 DEF FlushQueue, ArmWrite, connVars, xlab_epoll_change_mode
<1>5. CASE FlushDangling
  BY <1>1, <1>5 DEF FlushDangling, ArmWrite, connVars, sessVars,
     xlab_epoll_change_mode
<1> QED BY <1>2, <1>3, <1>4, <1>5 DEF FlushSlot

LEMMA SessionStep ==
    ASSUME TypeOK, EventInv, SessionInv, [Next]_vars
    PROVE  SessionInv'
<1> USE DEF TypeOK, SessionInv, HasSession
<1>1. ASSUME NEW f \in Fds, Accept(f)
      PROVE  SessionInv'
  BY <1>1 DEF Accept, sessVars, workVars
<1>2. CASE EpollWait
  BY <1>2 DEF EpollWait, connVars, sessVars
<1>3. ASSUME NEW f \in Fds, xlab_conn_read(f)
      PROVE  SessionInv'
  <2>1. conn[f] = "open" /\ pc = "loop"
    BY <1>3 DEF EventInv, EventsNotStale, xlab_conn_read, ReadChunk, ReadEnd,
       ReadAgain, Dispatch
  <2>2. CASE ReadChunk(f)
    <3>1. /\ sess' = [sess EXCEPT ![f] = IF @ = 0 THEN gen[f] ELSE @]
          /\ cur' = f
          /\ UNCHANGED <<conn, gen>>
      BY <2>2 DEF ReadChunk, connVars
    <3>2. \A g \in Fds : sess'[g] = IF g = f /\ sess[g] = 0 THEN gen[g] ELSE sess[g]
      BY <3>1
    <3>3. sess'[f] # 0 /\ conn'[f] = "open"
      <4>1. gen[f] \in Nat /\ gen[f] > 0
        BY <2>1
      <4> QED BY <2>1, <3>1, <3>2, <4>1
    <3>4. \A g \in Fds : sess'[g] <= gen'[g]
      BY <3>1, <3>2
    <3> QED BY <3>1, <3>3, <3>4
  <2>3. CASE ReadEnd(f)
    BY <2>1, <2>3 DEF ReadEnd, xlab_session_remove, xlab_conn_close
  <2>4. CASE ReadAgain(f)
    BY <2>1, <2>4 DEF ReadAgain, xlab_conn_close
  <2> QED BY <1>3, <2>2, <2>3, <2>4 DEF xlab_conn_read
<1>4. ASSUME NEW f \in Fds, xlab_conn_write(f) \/ xlab_conn_error(f)
      PROVE  SessionInv'
  <2>1. CASE WriteRegister(f)
    BY <2>1 DEF WriteRegister, Dispatch, sessVars
  <2>2. CASE WriteFail(f) \/ xlab_conn_error(f)
    <3>1. /\ xlab_session_remove(f) /\ xlab_conn_close(f)
          /\ pc = "loop" /\ pc' = pc
      BY <2>2 DEF WriteFail, xlab_conn_error, Dispatch
    <3> QED BY <3>1 DEF xlab_session_remove, xlab_conn_close
  <2>3. CASE WriteSome(f)
    BY <2>3 DEF WriteSome, Dispatch, xlab_epoll_change_mode
  <2> QED BY <1>4, <2>1, <2>2, <2>3 DEF xlab_conn_write
<1>5. CASE ParseFrame
  <2>1. UNCHANGED <<conn, gen, sess, cur>> /\ pc = "parse"
    BY <1>5 DEF ParseFrame, RejectFrame, SubmitFrame, AnswerNow, AnswerLater,
       connVars, xlab_epoll_change_mode
  <2> QED BY <2>1
<1>6. CASE xlab_async_flush_completed
  <2>1. /\ UNCHANGED <<conn, gen, sess>>
        /\ pc' # "parse"
    <3>1. CASE FlushDrain \/ FlushLock
      BY <3>1 DEF FlushDrain, FlushLock, connVars, sessVars
    <3>2. CASE FlushSlot
      <4>1. pc' # "parse"
        BY <3>2 DEF FlushSlot, NextSlot
      <4>2. UNCHANGED <<conn, gen, sess>>
        BY <3>2, FlushFrame
      <4> QED BY <4>1, <4>2
    <3> QED BY <1>6, <3>1, <3>2 DEF xlab_async_flush_completed
  <2> QED BY <2>1
<1>7. CASE Hardware
  BY <1>7 DEF Hardware, connVars, sessVars, workVars
<1>8. CASE UNCHANGED vars
  BY <1>8 DEF vars, connVars, sessVars, workVars
<1> QED BY <1>1, <1>2, <1>3, <1>4, <1>5, <1>6, <1>7, <1>8 DEF Next, Handler

(* With no new task in the table, the tasks that are left stay apart.      *)
LEMMA OldTasksApart ==
    ASSUME OneTaskPerRequest, NoNewTask
    PROVE  OneTaskPerRequest'
BY DEF OneTaskPerRequest, NoNewTask, Occupied, SameTask

(* With no new task and the sessions and counters unchanged, TaskInv stays.*)
LEMMA OldTasksInv ==
    ASSUME TypeOK, TaskInv, NoNewTask,
           UNCHANGED <<gen, sess, next_req_seq, conn>>
    PROVE  TaskInv'
BY DEF TaskInv, TaskOK, NoNewTask, Occupied, SameTask, HasSession

(* Closing a connection and removing its session keeps TaskInv.            *)
LEMMA CloseTasks ==
    ASSUME TypeOK, TaskInv, NEW f \in Fds, UNCHANGED asyncVars,
           xlab_session_remove(f), xlab_conn_close(f)
    PROVE  TaskInv'
<1> SUFFICES ASSUME NEW i \in Slots, Occupied(i) PROVE TaskOK(i)'
  BY DEF TaskInv, TaskOK, asyncVars, Occupied
<1> DEFINE t == g_async_queue[i]
<1>1. t \in Task /\ t' = t
  BY DEF TypeOK, AsyncTypeOK, Occupied, Free, asyncVars
<1>2. TaskOK(i)
  BY DEF TaskInv
<1>3. CASE t.fd # f
  BY <1>1, <1>2, <1>3 DEF TypeOK, TaskOK, xlab_session_remove,
     xlab_conn_close, HasSession, Occupied, Task
<1>4. CASE t.fd = f
  BY <1>1, <1>2, <1>4 DEF TypeOK, TaskOK, xlab_session_remove,
     xlab_conn_close, HasSession, Occupied, Task
<1> QED BY <1>3, <1>4

LEMMA TaskStep ==
    ASSUME TypeOK, EventInv, SessionInv, TaskInv, OneTaskPerRequest,
           [Next]_vars
    PROVE  TaskInv' /\ OneTaskPerRequest'
<1>1. ASSUME NoNewTask, UNCHANGED <<gen, sess, next_req_seq, conn>>
      PROVE  TaskInv' /\ OneTaskPerRequest'
  BY <1>1, OldTasksApart, OldTasksInv
<1>2. ASSUME UNCHANGED asyncVars
      PROVE  OneTaskPerRequest'
  BY <1>2 DEF OneTaskPerRequest, Occupied, asyncVars
<1>3. ASSUME NEW f \in Fds, Accept(f)
      PROVE  TaskInv' /\ OneTaskPerRequest'
  <2>1. ASSUME NEW i \in Slots PROVE TaskOK(i)'
    <3>1. TaskOK(i) /\ g_async_queue[i] \in Task \cup {Free}
      BY DEF TypeOK, AsyncTypeOK, TaskInv
    <3>2. /\ gen' = [gen EXCEPT ![f] = @ + 1]
          /\ conn' = [conn EXCEPT ![f] = "new"]
          /\ UNCHANGED <<g_async_queue, sess, next_req_seq>>
      BY <1>3 DEF Accept, asyncVars, sessVars
    <3>3. CASE g_async_queue[i] = Free
      BY <3>2, <3>3 DEF TaskOK, Occupied, Free
    <3>4. CASE g_async_queue[i] \in Task
      <4>1. /\ g_async_queue[i].fd \in Fds /\ g_async_queue[i].cs \in Nat
            /\ gen \in [Fds -> Nat] /\ conn \in [Fds -> {"free", "new", "open"}]
        BY <3>4 DEF TypeOK, Task
      <4>2. CASE g_async_queue[i].fd = f
        BY <3>1, <3>2, <4>1, <4>2 DEF TaskOK, Occupied, HasSession
      <4>3. CASE g_async_queue[i].fd # f
        BY <3>1, <3>2, <4>1, <4>3 DEF TaskOK, Occupied, HasSession
      <4> QED BY <4>2, <4>3
    <3> QED BY <3>1, <3>3, <3>4
  <2> QED BY <1>2, <1>3, <2>1 DEF Accept, TaskInv
<1>4. CASE EpollWait
  BY <1>1, <1>4, OldTasks DEF EpollWait, asyncVars, connVars, sessVars
<1>5. ASSUME NEW f \in Fds, xlab_conn_read(f)
      PROVE  TaskInv' /\ OneTaskPerRequest'
  <2>1. conn[f] = "open"
    BY <1>5 DEF EventInv, EventsNotStale, xlab_conn_read, ReadChunk, ReadEnd,
       ReadAgain, Dispatch
  <2>2. UNCHANGED asyncVars
    BY <1>5 DEF xlab_conn_read, ReadChunk, ReadEnd, ReadAgain
  <2>3. CASE ReadEnd(f)
    BY <1>2, <2>2, <2>3, CloseTasks DEF ReadEnd
  <2>4. CASE ReadChunk(f) \/ ReadAgain(f)
    <3>1. /\ sess' = [sess EXCEPT ![f] = IF @ = 0 THEN gen[f] ELSE @]
          /\ UNCHANGED <<gen, next_req_seq>>
          /\ conn' = conn \/ conn' = [conn EXCEPT ![f] = "free"]
      BY <2>4 DEF ReadChunk, ReadAgain, xlab_conn_close, connVars
    <3>2. ASSUME NEW i \in Slots PROVE TaskOK(i)'
      <4>1. TaskOK(i) /\ g_async_queue[i] \in Task \cup {Free}
        BY DEF TypeOK, AsyncTypeOK, TaskInv
      <4>2. g_async_queue' = g_async_queue
        BY <2>2 DEF asyncVars
      <4>3. CASE g_async_queue[i] = Free
        BY <4>2, <4>3 DEF TaskOK, Occupied, Free
      <4>4. CASE g_async_queue[i] \in Task
        <5>0. g_async_queue[i].fd \in Fds /\ g_async_queue[i].cs \in Nat
          BY <4>4 DEF Task
        <5>1. CASE g_async_queue[i].fd # f
          BY <5>0, <3>1, <4>1, <4>2, <4>4, <5>1 DEF TypeOK, TaskOK, Task, Occupied,
             HasSession
        <5>2. CASE g_async_queue[i].fd = f /\ sess[f] = 0
          BY <2>1, <3>1, <4>1, <4>2, <4>4, <5>2 DEF TypeOK, TaskOK, Task,
             Occupied, HasSession
        <5>3. CASE g_async_queue[i].fd = f /\ sess[f] # 0
          BY <2>1, <3>1, <4>1, <4>2, <4>4, <5>3 DEF TypeOK, TaskOK, Task,
             Occupied, HasSession
        <5> QED BY <5>1, <5>2, <5>3
      <4> QED BY <4>1, <4>3, <4>4
    <3> QED BY <1>2, <2>2, <3>2 DEF TaskInv
  <2> QED BY <1>5, <2>3, <2>4 DEF xlab_conn_read
<1>6. ASSUME NEW f \in Fds, xlab_conn_write(f) \/ xlab_conn_error(f)
      PROVE  TaskInv' /\ OneTaskPerRequest'
  <2>1. CASE WriteRegister(f)
    <3>1. /\ conn[f] = "new" /\ conn' = [conn EXCEPT ![f] = "open"]
          /\ UNCHANGED <<asyncVars, gen, sess, next_req_seq>>
      BY <2>1 DEF WriteRegister, sessVars
    <3>2. ASSUME NEW i \in Slots PROVE TaskOK(i)'
      <4>1. TaskOK(i) /\ g_async_queue[i] \in Task \cup {Free}
        BY DEF TypeOK, AsyncTypeOK, TaskInv
      <4> QED BY <3>1, <4>1 DEF TypeOK, TaskOK, Task, Free, Occupied,
         HasSession, asyncVars
    <3> QED BY <1>2, <3>1, <3>2 DEF TaskInv
  <2>2. CASE WriteFail(f) \/ xlab_conn_error(f)
    BY <1>2, <2>2, CloseTasks DEF WriteFail, xlab_conn_error
  <2>3. CASE WriteSome(f)
    BY <1>1, <2>3, OldTasks DEF WriteSome, asyncVars, xlab_epoll_change_mode
  <2> QED BY <1>6, <2>1, <2>2, <2>3 DEF xlab_conn_write
<1>7. CASE ParseFrame /\ ~SubmitFrame
  <2>1. /\ UNCHANGED <<asyncVars, gen, sess, conn>>
        /\ TakeSeq(cur)
    BY <1>7 DEF ParseFrame, RejectFrame, AnswerNow, AnswerLater, connVars,
       xlab_epoll_change_mode
  <2>2. ASSUME NEW i \in Slots PROVE TaskOK(i)'
    <3>1. TaskOK(i) /\ g_async_queue[i] \in Task \cup {Free}
      BY DEF TypeOK, AsyncTypeOK, TaskInv
    <3> QED BY <2>1, <3>1 DEF TypeOK, TaskOK, Task, Free, Occupied,
       HasSession, asyncVars, TakeSeq
  <2> QED BY <1>2, <2>1, <2>2 DEF TaskInv
<1>8. CASE ParseFrame /\ SubmitFrame
  <2> DEFINE new == [st |-> "ready", fd |-> cur, seq |-> next_req_seq[cur],
                     cs |-> sess[cur], org |-> gen[cur], fresh |-> FALSE]
  <2>1. PICK j \in Slots : g_async_queue' = [g_async_queue EXCEPT ![j] = new]
    BY <1>8 DEF SubmitFrame, xlab_async_submit
  <2>2. /\ UNCHANGED <<gen, sess, conn>>
        /\ next_req_seq' = [next_req_seq EXCEPT ![cur] = @ + 1]
        /\ conn[cur] = "open" /\ HasSession(cur)
    BY <1>8 DEF ParseFrame, SubmitFrame, connVars, TakeSeq, SessionInv
  <2>3. /\ cur \in Fds /\ sess[cur] \in Nat /\ next_req_seq[cur] \in Nat
        /\ gen[cur] \in Nat
        /\ g_async_queue \in [Slots -> Task \cup {Free}]
    BY DEF TypeOK, AsyncTypeOK
  <2>4. sess[cur] > 0 /\ sess[cur] <= gen[cur]
    BY <2>2, <2>3 DEF SessionInv, HasSession
  <2>5. ASSUME NEW i \in Slots, i # j
        PROVE  /\ g_async_queue'[i] = g_async_queue[i]
               /\ TaskOK(i)'
    <3>1. g_async_queue'[i] = g_async_queue[i]
      BY <2>1, <2>3, <2>5
    <3>2. TaskOK(i) /\ g_async_queue[i] \in Task \cup {Free}
      BY <2>3 DEF TaskInv
    <3> QED BY <2>2, <3>1, <3>2 DEF TypeOK, TaskOK, Task, Free, Occupied,
       HasSession
  <2>6. g_async_queue'[j] = new
    BY <2>1, <2>3
  <2>7. TaskOK(j)'
    BY <2>2, <2>3, <2>4, <2>6 DEF TypeOK, TaskOK, Occupied, HasSession
  <2>8. ASSUME NEW i \in Slots, i # j, Occupied(i),
               g_async_queue[i].fd = cur, g_async_queue[i].cs = sess[cur]
        PROVE  g_async_queue[i].seq # next_req_seq[cur]
    <3>1. TaskOK(i) /\ g_async_queue[i] \in Task
      BY <2>3, <2>8 DEF TaskInv, Occupied, Free
    <3> QED BY <2>3, <2>8, <3>1 DEF TaskOK, Task
  <2>9. OneTaskPerRequest'
    <3> SUFFICES ASSUME NEW i \in Slots, NEW k \in Slots, i # k,
                        Occupied(i)', Occupied(k)',
                        g_async_queue'[i].fd = g_async_queue'[k].fd,
                        g_async_queue'[i].cs = g_async_queue'[k].cs
                 PROVE  g_async_queue'[i].seq # g_async_queue'[k].seq
      BY DEF OneTaskPerRequest
    <3>1. CASE i # j /\ k # j
      BY <2>5, <3>1 DEF OneTaskPerRequest, Occupied
    <3>2. CASE i = j
      BY <2>5, <2>6, <2>8, <3>2 DEF Occupied
    <3>3. CASE k = j
      BY <2>5, <2>6, <2>8, <3>3 DEF Occupied
    <3> QED BY <3>1, <3>2, <3>3
  <2> QED BY <2>5, <2>7, <2>9 DEF TaskInv
<1>9. CASE xlab_async_flush_completed
  <2>1. UNCHANGED <<gen, sess, next_req_seq, conn>>
    BY <1>9, FlushFrame DEF xlab_async_flush_completed, FlushDrain, FlushLock,
       connVars, sessVars
  <2> QED BY <1>1, <1>9, <2>1, FlushOldTasks
<1>10. CASE Hardware
  BY <1>1, <1>10, HardwareOldTasks DEF Hardware, connVars, sessVars
<1>11. CASE UNCHANGED vars
  BY <1>1, <1>11, OldTasks DEF vars, asyncVars, connVars, sessVars
<1> QED BY <1>3, <1>4, <1>5, <1>6, <1>7, <1>8, <1>9, <1>10, <1>11
        DEF Next, Handler

(* Sessions, tasks and requests stay within their connections. *)
THEOREM RequestInvariant == Spec => []RequestInv
<1>1. Init => RequestInv
  BY DEF Init, AsyncInit, RequestInv, SessionInv, TaskInv, TaskOK,
     OneTaskPerRequest, Occupied, Free
<1>2. TypeOK /\ EventInv /\ RequestInv /\ [Next]_vars => RequestInv'
  BY SessionStep, TaskStep DEF RequestInv
<1> QED BY <1>1, <1>2, TypeCorrect, EventInvariant, PTL DEF Spec

(* A request of a session is in the table at most once: for every number   *)
(* of slots, descriptors and connections, and although descriptors, slots  *)
(* and even sessions are reused.                                           *)
THEOREM RequestsApart == Spec => []OneTaskPerRequest
<1>1. RequestInv => OneTaskPerRequest
  BY DEF RequestInv
<1> QED BY <1>1, RequestInvariant, PTL
=============================================================================
