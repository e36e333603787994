----------------------------- MODULE OrderProofs ----------------------------
(***************************************************************************)
(* Theorems about the answers of one connection: their order, their owner  *)
(* and the mode its socket waits in.  They hold for a connection that      *)
(* found its descriptor clean; the runs Reuse and Stranded show what is    *)
(* lost otherwise.                                                         *)
(***************************************************************************)
EXTENDS GatewayProofs, Refusals, FiniteSetTheorems

-----------------------------------------------------------------------------
(* Response queues as sequences.                                           *)

(* Queue q holds answers owner asked for, in order, all before turn.       *)
Ordered(q, turn, owner) ==
    \A i \in 1 .. Len(q) :
        /\ q[i].seq < turn
        /\ q[i].org = owner
        /\ \A j \in 1 .. i - 1 : q[j].seq < q[i].seq

(* An answer whose turn has come goes to the end of the queue. *)
LEMMA OrderedAppend ==
    ASSUME NEW q \in Seq(Slot), NEW turn \in Nat, NEW owner \in Nat,
           NEW n \in Nat, turn <= n, Ordered(q, turn, owner)
    PROVE  Ordered(Append(q, [seq |-> n, org |-> owner, part |-> FALSE]),
                   n + 1, owner)
<1> DEFINE e == [seq |-> n, org |-> owner, part |-> FALSE]
           a == Append(q, e)
<1>1. e \in Slot /\ e.seq = n /\ e.org = owner
  BY DEF Slot
<1> HIDE DEF e
<1>2. /\ Len(q) \in Nat /\ Len(a) = Len(q) + 1
      /\ \A i \in 1 .. Len(q) : a[i] = q[i]
      /\ a[Len(q) + 1] = e
  BY <1>1, AppendProperties, LenProperties
<1>3. ASSUME NEW i \in 1 .. Len(q)
      PROVE  q[i] \in Slot /\ q[i].seq \in Nat
  <2>1. q[i] \in Slot
    BY ElementOfSeq
  <2> QED BY <2>1 DEF Slot
<1> HIDE DEF a
<1>4. ASSUME NEW i \in 1 .. Len(a)
      PROVE  /\ a[i].seq < n + 1 /\ a[i].org = owner
             /\ \A j \in 1 .. i - 1 : a[j].seq < a[i].seq
  <2>1. CASE i \in 1 .. Len(q)
    <3>1. \A j \in 1 .. i - 1 : a[j] = q[j]
      BY <1>2, <2>1
    <3> QED BY SMTT(30), <1>2, <1>3, <2>1, <3>1 DEF Ordered
  <2>2. CASE i = Len(q) + 1
    <3>1. \A j \in 1 .. i - 1 : a[j].seq < turn /\ a[j].seq \in Nat
      BY <1>2, <1>3, <2>2 DEF Ordered
    <3> QED BY <1>1, <1>2, <2>2, <3>1
  <2> QED BY <1>2, <2>1, <2>2
<1> QED BY <1>4 DEF Ordered, a, e

(* What is left when whole slots were sent from the front, and perhaps a   *)
(* part of the next one.                                                   *)
Rest(q, n) == SubSeq(q, n + 1, Len(q))
HalfSent(q) == [q EXCEPT ![1].part = TRUE]

LEMMA OrderedRest ==
    ASSUME NEW q \in Seq(Slot), NEW turn, NEW owner, NEW n \in 0 .. Len(q),
           Ordered(q, turn, owner)
    PROVE  Rest(q, n) \in Seq(Slot) /\ Ordered(Rest(q, n), turn, owner)
<1>1. Len(q) \in Nat /\ \A i \in n + 1 .. Len(q) : q[i] \in Slot
  BY LenProperties, ElementOfSeq
<1>2. /\ Rest(q, n) \in Seq(Slot)
      /\ Len(Rest(q, n)) = Len(q) - n
      /\ \A i \in 1 .. Len(q) - n : Rest(q, n)[i] = q[n + i]
  BY <1>1, SubSeqProperties DEF Rest
<1>3. ASSUME NEW i \in 1 .. Len(Rest(q, n))
      PROVE  /\ Rest(q, n)[i].seq < turn /\ Rest(q, n)[i].org = owner
             /\ \A j \in 1 .. i - 1 : Rest(q, n)[j].seq < Rest(q, n)[i].seq
  <2>1. n + i \in 1 .. Len(q) /\ Rest(q, n)[i] = q[n + i]
    BY <1>1, <1>2
  <2>2. \A j \in 1 .. i - 1 :
          n + j \in 1 .. (n + i) - 1 /\ Rest(q, n)[j] = q[n + j]
    BY <1>1, <1>2
  <2> QED BY <2>1, <2>2 DEF Ordered
<1> QED BY <1>2, <1>3 DEF Ordered

LEMMA OrderedHalf ==
    ASSUME NEW q \in Seq(Slot), NEW turn, NEW owner, q # <<>>,
           Ordered(q, turn, owner)
    PROVE  Ordered(HalfSent(q), turn, owner)
<1>1. 1 \in 1 .. Len(q) /\ Len(q) \in Nat /\ q[1] \in Slot
  BY EmptySeq, ElementOfSeq
<1>2. [q[1] EXCEPT !.part = TRUE] \in Slot
  BY <1>1 DEF Slot
<1>3. HalfSent(q) = [q EXCEPT ![1] = [q[1] EXCEPT !.part = TRUE]]
  BY DEF HalfSent
<1>4. /\ Len(HalfSent(q)) = Len(q)
      /\ \A i \in 1 .. Len(q) : HalfSent(q)[i] =
            IF i = 1 THEN [q[1] EXCEPT !.part = TRUE] ELSE q[i]
  BY <1>1, <1>2, <1>3, ExceptSeq
<1>5. \A i \in 1 .. Len(q) : /\ HalfSent(q)[i].seq = q[i].seq
                             /\ HalfSent(q)[i].org = q[i].org
  BY <1>1, <1>4 DEF Slot
<1>6. ASSUME NEW i \in 1 .. Len(q)
      PROVE  \A j \in 1 .. i - 1 : HalfSent(q)[j].seq < HalfSent(q)[i].seq
  <2>1. \A j \in 1 .. i - 1 : j \in 1 .. Len(q)
    BY <1>1
  <2> QED BY <1>5, <2>1 DEF Ordered
<1> QED BY <1>4, <1>5, <1>6 DEF Ordered

-----------------------------------------------------------------------------
(* The invariant, one descriptor at a time.                                *)

(* Counters and queue are those of a session; a clean connection has its   *)
(* own tasks only, its counters in order and its queue ordered, and it     *)
(* waits for output only when there is some.                               *)
NoSessionEmpty(f) ==
    ~HasSession(f) =>
        resp_queue[f] = <<>> /\ next_req_seq[f] = 0 /\ resp_seq_expected[f] = 0

OwnTasks(f) ==
    /\ sess[f] \in {0, gen[f]}
    /\ \A i \in Slots : Occupied(i) /\ g_async_queue[i].fd = f =>
          g_async_queue[i].cs = gen[f] /\ g_async_queue[i].org = gen[f]

CleanOK(f) ==
    /\ OwnTasks(f)
    /\ resp_seq_expected[f] <= next_req_seq[f]
    /\ Ordered(resp_queue[f], resp_seq_expected[f], gen[f])
    /\ conn[f] = "open" /\ mode[f] = "WRITE" =>
          HasSession(f) /\ resp_queue[f] # <<>>

FdOK(f) == NoSessionEmpty(f) /\ (clean[f] => CleanOK(f))

OrderInv == \A f \in Fds : FdOK(f)

(* The invariant says what the properties say. *)
LEMMA OrderInvMeaning ==
    ASSUME OrderInv
    PROVE  CounterOrder /\ RingInOrder /\ OwnAnswers /\ WriteArmedHasWork
BY DEF OrderInv, FdOK, CleanOK, Ordered, CounterOrder, RingInOrder,
   OwnAnswers, WriteArmedHasWork

(* A step that leaves everything of a descriptor alone keeps its part.     *)
SameFd(f) ==
    /\ conn'[f] = conn[f] /\ gen'[f] = gen[f] /\ clean'[f] = clean[f]
    /\ mode'[f] = mode[f] /\ sess'[f] = sess[f]
    /\ next_req_seq'[f] = next_req_seq[f]
    /\ resp_seq_expected'[f] = resp_seq_expected[f]
    /\ resp_queue'[f] = resp_queue[f]

NoNewTaskOf(f) ==
    \A i \in Slots : g_async_queue'[i].st # "free" /\ g_async_queue'[i].fd = f =>
        Occupied(i) /\ SameTask(g_async_queue[i], g_async_queue'[i])

LEMMA NoNewTasksOf ==
    ASSUME NoNewTask
    PROVE  \A f \in Fds : NoNewTaskOf(f)
BY DEF NoNewTask, NoNewTaskOf

LEMMA OwnTasksStay ==
    ASSUME NEW f \in Fds, OwnTasks(f), NoNewTaskOf(f),
           gen'[f] = gen[f], sess'[f] \in {0, gen[f]}
    PROVE  OwnTasks(f)'
BY DEF OwnTasks, NoNewTaskOf, Occupied, SameTask

LEMMA SameFdOK ==
    ASSUME NEW f \in Fds, FdOK(f), SameFd(f), NoNewTaskOf(f)
    PROVE  FdOK(f)'
<1>1. NoSessionEmpty(f)'
  BY DEF FdOK, NoSessionEmpty, SameFd, HasSession
<1>2. CASE clean[f]
  <2>1. OwnTasks(f)'
    BY <1>2, OwnTasksStay DEF FdOK, CleanOK, SameFd, OwnTasks
  <2> QED BY <1>1, <1>2, <2>1 DEF FdOK, CleanOK, SameFd, HasSession, Ordered
<1>3. CASE ~clean[f]
  BY <1>1, <1>3 DEF FdOK, SameFd
<1> QED BY <1>2, <1>3

(* Closing a descriptor and removing its session. *)
LEMMA CloseOK ==
    ASSUME TypeOK, OrderInv, NEW f \in Fds, UNCHANGED asyncVars,
           xlab_session_remove(f), xlab_conn_close(f)
    PROVE  OrderInv'
<1>1. NoNewTask
  BY OldTasks DEF asyncVars
<1>2. ASSUME NEW g \in Fds PROVE FdOK(g)'
  <2>0. NoNewTaskOf(g) /\ FdOK(g)
    BY <1>1, NoNewTasksOf DEF OrderInv
  <2>1. CASE g # f
    <3>1. SameFd(g)
      BY <2>1 DEF TypeOK, SameFd, xlab_session_remove, xlab_conn_close
    <3> QED BY <2>0, <3>1, SameFdOK
  <2>2. CASE g = f
    <3>1. /\ sess'[f] = 0 /\ resp_queue'[f] = <<>> /\ next_req_seq'[f] = 0
          /\ resp_seq_expected'[f] = 0 /\ conn'[f] = "free"
          /\ gen' = gen /\ clean' = clean
      BY DEF TypeOK, xlab_session_remove, xlab_conn_close
    <3>2. NoSessionEmpty(f)'
      BY <3>1 DEF NoSessionEmpty
    <3>3. CASE clean[f]
      <4>1. OwnTasks(f)'
        BY <2>0, <2>2, <3>1, <3>3, OwnTasksStay DEF FdOK, CleanOK
      <4>2. Ordered(resp_queue[f], resp_seq_expected[f], gen[f])'
        BY <3>1 DEF Ordered
      <4> QED BY <2>2, <3>1, <3>2, <4>1, <4>2 DEF FdOK, CleanOK
    <3> QED BY <2>2, <3>1, <3>2, <3>3 DEF FdOK
  <2> QED BY <2>1, <2>2
<1> QED BY <1>2 DEF OrderInv

LEMMA AcceptOK ==
    ASSUME TypeOK, OrderInv, NEW f \in Fds, Accept(f)
    PROVE  OrderInv'
<1>1. NoNewTask
  BY OldTasks DEF Accept, asyncVars
<1>2. ASSUME NEW g \in Fds PROVE FdOK(g)'
  <2>0. NoNewTaskOf(g) /\ FdOK(g)
    BY <1>1, NoNewTasksOf DEF OrderInv
  <2>1. CASE g # f
    <3>1. SameFd(g)
      BY <2>1 DEF TypeOK, SameFd, Accept, sessVars
    <3> QED BY <2>0, <3>1, SameFdOK
  <2>2. CASE g = f
    <3>1. /\ conn'[f] = "new"
          /\ clean'[f] = (TasksOf(f) = {} /\ ~HasSession(f))
          /\ UNCHANGED <<g_async_queue, sess, next_req_seq, resp_seq_expected,
                         resp_queue>>
      BY DEF TypeOK, Accept, asyncVars, sessVars
    <3>2. NoSessionEmpty(f)'
      BY <2>0, <2>2, <3>1 DEF FdOK, NoSessionEmpty, HasSession
    <3>3. CASE TasksOf(f) = {} /\ ~HasSession(f)
      <4>1. OwnTasks(f)'
        BY <3>1, <3>3 DEF OwnTasks, TasksOf, HasSession, Occupied
      <4>2. /\ resp_queue'[f] = <<>>
            /\ next_req_seq'[f] = 0 /\ resp_seq_expected'[f] = 0
        BY <2>0, <2>2, <3>1, <3>3 DEF FdOK, NoSessionEmpty
      <4>3. Ordered(resp_queue[f], resp_seq_expected[f], gen[f])'
        BY <4>2 DEF Ordered
      <4> QED BY <2>2, <3>1, <3>2, <4>1, <4>2, <4>3 DEF FdOK, CleanOK
    <3> QED BY <2>2, <3>1, <3>2, <3>3 DEF FdOK
  <2> QED BY <2>1, <2>2
<1> QED BY <1>2 DEF OrderInv

LEMMA ReadOK ==
    ASSUME TypeOK, EventInv, SessionInv, OrderInv,
           NEW f \in Fds, xlab_conn_read(f)
    PROVE  OrderInv'
<1>1. CASE ReadEnd(f)
  BY <1>1, CloseOK DEF ReadEnd
<1>2. CASE ReadChunk(f) \/ ReadAgain(f)
  <2>1. /\ sess' = [sess EXCEPT ![f] = IF @ = 0 THEN gen[f] ELSE @]
        /\ UNCHANGED <<asyncVars, gen, clean, next_req_seq,
                       resp_seq_expected, resp_queue>>
        /\ UNCHANGED <<conn, mode>> \/ xlab_conn_close(f)
    BY <1>2 DEF ReadChunk, ReadAgain, connVars, xlab_conn_close
  <2>2. NoNewTask
    BY <2>1, OldTasks DEF asyncVars
  <2>3. conn[f] = "open" /\ gen[f] \in Nat /\ gen[f] > 0
    BY <1>2 DEF TypeOK, EventInv, EventsNotStale, SessionInv, ReadChunk,
       ReadAgain, Dispatch
  <2>4. ASSUME NEW g \in Fds PROVE FdOK(g)'
    <3>0. NoNewTaskOf(g) /\ FdOK(g)
      BY <2>2, NoNewTasksOf DEF OrderInv
    <3>1. CASE g # f
      <4>1. SameFd(g)
        BY <2>1, <3>1 DEF TypeOK, SameFd, xlab_conn_close
      <4> QED BY <3>0, <4>1, SameFdOK
    <3>2. CASE g = f
      <4>1. sess'[f] = IF sess[f] = 0 THEN gen[f] ELSE sess[f]
        BY <2>1 DEF TypeOK
      <4>2. HasSession(f)' /\ NoSessionEmpty(f)'
        BY <2>3, <4>1 DEF HasSession, NoSessionEmpty
      <4>3. CASE clean[f]
        <5>1. OwnTasks(f)'
          BY <2>1, <3>0, <3>2, <4>1, <4>3, OwnTasksStay DEF FdOK, CleanOK,
             OwnTasks
        <5>2. conn'[f] = "open" /\ mode'[f] = "WRITE" =>
                conn[f] = "open" /\ mode[f] = "WRITE"
          BY <2>1 DEF TypeOK, xlab_conn_close
        <5>3. resp_queue[f] # <<>> \/ ~(conn'[f] = "open" /\ mode'[f] = "WRITE")
          BY <3>0, <3>2, <4>3, <5>2 DEF FdOK, CleanOK
        <5> QED BY <2>1, <3>0, <3>2, <4>2, <4>3, <5>1, <5>3
               DEF FdOK, CleanOK, Ordered
      <4> QED BY <2>1, <3>2, <4>2, <4>3 DEF FdOK
    <3> QED BY <3>1, <3>2
  <2> QED BY <2>4 DEF OrderInv
<1> QED BY <1>1, <1>2 DEF xlab_conn_read

LEMMA WriteOK ==
    ASSUME TypeOK, OrderInv, NEW f \in Fds,
           xlab_conn_write(f) \/ xlab_conn_error(f)
    PROVE  OrderInv'
<1>1. CASE WriteFail(f) \/ xlab_conn_error(f)
  BY <1>1, CloseOK DEF WriteFail, xlab_conn_error
<1>2. CASE WriteRegister(f)
  <2>1. NoNewTask
    BY <1>2, OldTasks DEF WriteRegister, asyncVars
  <2>2. ASSUME NEW g \in Fds PROVE FdOK(g)'
    <3>0. NoNewTaskOf(g) /\ FdOK(g)
      BY <2>1, NoNewTasksOf DEF OrderInv
    <3>1. CASE g # f
      <4>1. SameFd(g)
        BY <1>2, <3>1 DEF TypeOK, SameFd, WriteRegister, sessVars
      <4> QED BY <3>0, <4>1, SameFdOK
    <3>2. CASE g = f
      <4>1. mode'[f] = "READ" /\ UNCHANGED <<gen, clean, sessVars>>
        BY <1>2 DEF TypeOK, WriteRegister
      <4>2. clean[f] => OwnTasks(f)'
        BY <3>0, <3>2, <4>1, OwnTasksStay DEF FdOK, CleanOK, OwnTasks, sessVars
      <4> QED BY <3>0, <3>2, <4>1, <4>2 DEF FdOK, CleanOK, NoSessionEmpty,
             HasSession, Ordered, sessVars
    <3> QED BY <3>1, <3>2
  <2> QED BY <2>2 DEF OrderInv
<1>3. CASE WriteSome(f)
  <2>1. /\ UNCHANGED <<asyncVars, conn, gen, clean, sess, next_req_seq,
                       resp_seq_expected>>
        /\ mode' = [mode EXCEPT ![f] = "READ"]
        /\ HasSession(f)
    BY <1>3 DEF WriteSome, xlab_epoll_change_mode
  <2>2. PICK n \in 0 .. Len(resp_queue[f]), half \in BOOLEAN :
          /\ half => Rest(resp_queue[f], n) # <<>>
          /\ resp_queue' = [resp_queue EXCEPT ![f] =
               IF half THEN HalfSent(Rest(resp_queue[f], n))
                       ELSE Rest(resp_queue[f], n)]
    BY <1>3 DEF WriteSome, Rest, HalfSent
  <2>3. NoNewTask
    BY <2>1, OldTasks DEF asyncVars
  <2>4. ASSUME NEW g \in Fds PROVE FdOK(g)'
    <3>0. NoNewTaskOf(g) /\ FdOK(g)
      BY <2>3, NoNewTasksOf DEF OrderInv
    <3>1. CASE g # f
      <4>1. SameFd(g)
        BY <2>1, <2>2, <3>1 DEF TypeOK, SameFd
      <4> QED BY <3>0, <4>1, SameFdOK
    <3>2. CASE g = f
      <4>1. /\ resp_queue[f] \in Seq(Slot)
            /\ mode'[f] = "READ"
            /\ resp_queue'[f] = IF half THEN HalfSent(Rest(resp_queue[f], n))
                                        ELSE Rest(resp_queue[f], n)
        BY <2>1, <2>2 DEF TypeOK
      <4>2. NoSessionEmpty(f)'
        BY <2>1 DEF NoSessionEmpty, HasSession
      <4>3. CASE clean[f]
        <5>1. OwnTasks(f)'
          BY <2>1, <3>0, <3>2, <4>3, OwnTasksStay DEF FdOK, CleanOK, OwnTasks
        <5>2. Ordered(resp_queue[f], resp_seq_expected[f], gen[f])
          BY <3>0, <3>2, <4>3 DEF FdOK, CleanOK
        <5>3. /\ Rest(resp_queue[f], n) \in Seq(Slot)
              /\ Ordered(Rest(resp_queue[f], n), resp_seq_expected[f], gen[f])
          BY <4>1, <5>2, OrderedRest
        <5>4. half => Ordered(HalfSent(Rest(resp_queue[f], n)),
                              resp_seq_expected[f], gen[f])
          BY <2>2, <5>3, OrderedHalf
        <5>5. Ordered(resp_queue'[f], resp_seq_expected[f], gen[f])
          BY <4>1, <5>3, <5>4
        <5>6. resp_seq_expected[f] <= next_req_seq[f]
          BY <3>0, <3>2, <4>3 DEF FdOK, CleanOK
        <5> QED BY <2>1, <3>2, <4>1, <4>2, <5>1, <5>5, <5>6
               DEF FdOK, CleanOK, Ordered
      <4> QED BY <2>1, <3>2, <4>2, <4>3 DEF FdOK
    <3> QED BY <3>1, <3>2
  <2> QED BY <2>4 DEF OrderInv
<1> QED BY <1>1, <1>2, <1>3 DEF xlab_conn_write

LEMMA ParseOK ==
    ASSUME TypeOK, SessionInv, OrderInv, ParseFrame
    PROVE  OrderInv'
<1>0. PICK c \in Fds : c = cur
  BY DEF TypeOK
<1>1. /\ HasSession(c)
      /\ gen[c] \in Nat /\ sess[c] \in Nat
      /\ next_req_seq[c] \in Nat /\ resp_seq_expected[c] \in Nat
      /\ resp_queue[c] \in Seq(Slot)
  BY <1>0 DEF TypeOK, SessionInv, ParseFrame
<1>2. /\ UNCHANGED <<conn, gen, clean, sess>>
      /\ next_req_seq' = [next_req_seq EXCEPT ![c] = @ + 1]
  <2>1. CASE RejectFrame \/ SubmitFrame
    BY <1>0, <2>1 DEF RejectFrame, SubmitFrame, TakeSeq, connVars
  <2>2. CASE AnswerNow
    BY <1>0, <2>2 DEF AnswerNow, TakeSeq, connVars
  <2>3. CASE AnswerLater
    BY <1>0, <2>3 DEF AnswerLater, TakeSeq, xlab_epoll_change_mode
  <2> QED BY <2>1, <2>2, <2>3 DEF ParseFrame
<1>3. /\ NoSessionEmpty(c)'
      /\ next_req_seq'[c] = next_req_seq[c] + 1
  BY <1>1, <1>2 DEF TypeOK, NoSessionEmpty, HasSession
<1>4. FdOK(c)
  BY <1>1 DEF OrderInv
<1>5. CASE SubmitFrame
  <2>1. PICK i \in Slots : g_async_queue' = [g_async_queue EXCEPT ![i] =
          [st |-> "ready", fd |-> c, seq |-> next_req_seq[c],
           cs |-> sess[c], org |-> gen[c], fresh |-> FALSE]]
    BY <1>0, <1>5 DEF SubmitFrame, xlab_async_submit
  <2>2. UNCHANGED <<mode, resp_seq_expected, resp_queue>>
    BY <1>5 DEF SubmitFrame, connVars
  <2>3. ASSUME NEW j \in Slots, j # i
        PROVE  g_async_queue'[j] = g_async_queue[j]
    BY <2>1, <2>3 DEF TypeOK, AsyncTypeOK
  <2>4. /\ g_async_queue'[i].fd = c
        /\ g_async_queue'[i].cs = sess[c]
        /\ g_async_queue'[i].org = gen[c]
    BY <2>1 DEF TypeOK, AsyncTypeOK
  <2>5. ASSUME NEW g \in Fds, g # c PROVE FdOK(g)'
    <3>1. NoNewTaskOf(g)
      BY <2>3, <2>4, <2>5 DEF NoNewTaskOf, Occupied, SameTask
    <3>2. SameFd(g)
      BY <1>2, <2>2, <2>5 DEF TypeOK, SameFd
    <3> QED BY <3>1, <3>2, SameFdOK DEF OrderInv
  <2>6. FdOK(c)'
    <3>1. CASE clean[c]
      <4>1. OwnTasks(c) /\ sess[c] = gen[c]
        BY <1>1, <1>4, <3>1 DEF FdOK, CleanOK, OwnTasks, HasSession
      <4>2. OwnTasks(c)'
        BY <1>2, <2>3, <2>4, <4>1 DEF OwnTasks, Occupied
      <4> QED BY <1>1, <1>2, <1>3, <1>4, <2>2, <3>1, <4>2
             DEF FdOK, CleanOK, HasSession, Ordered
    <3> QED BY <1>2, <1>3, <3>1 DEF FdOK
  <2> QED BY <2>5, <2>6 DEF OrderInv
<1>6. CASE RejectFrame \/ AnswerNow \/ AnswerLater
  <2>1. UNCHANGED g_async_queue
    BY <1>6 DEF RejectFrame, AnswerNow, AnswerLater, asyncVars
  <2>2. NoNewTask
    BY <2>1, OldTasks
  <2>3. ASSUME NEW g \in Fds, g # c PROVE FdOK(g)'
    <3>1. SameFd(g)
      BY <1>0, <1>2, <1>6, <2>3 DEF TypeOK, SameFd, RejectFrame, AnswerNow,
         AnswerLater, connVars, xlab_epoll_change_mode
    <3> QED BY <2>2, <3>1, NoNewTasksOf, SameFdOK DEF OrderInv
  <2>4. clean[c] => OwnTasks(c)'
    BY <1>1, <1>2, <1>4, <2>2, NoNewTasksOf, OwnTasksStay
       DEF FdOK, CleanOK, OwnTasks
  <2>5. FdOK(c)'
    <3>1. CASE ~clean[c]
      BY <1>2, <1>3, <3>1 DEF FdOK
    <3>2. CASE clean[c] /\ RejectFrame
      <4>1. UNCHANGED <<mode, resp_seq_expected, resp_queue>>
        BY <3>2 DEF RejectFrame, connVars
      <4> QED BY <1>1, <1>2, <1>3, <1>4, <2>4, <3>2, <4>1
             DEF FdOK, CleanOK, HasSession, Ordered
    <3>3. CASE clean[c] /\ AnswerNow
      <4>1. /\ UNCHANGED <<mode, resp_queue>>
            /\ resp_seq_expected'[c] = next_req_seq[c] + 1
        BY <1>0, <1>1, <3>3 DEF TypeOK, AnswerNow, connVars
      <4>2. /\ resp_seq_expected[c] <= next_req_seq[c]
            /\ Ordered(resp_queue[c], resp_seq_expected[c], gen[c])
        BY <1>4, <3>3 DEF FdOK, CleanOK
      <4>3. Ordered(resp_queue[c], next_req_seq[c] + 1, gen[c])
        <5>1. ASSUME NEW i \in 1 .. Len(resp_queue[c])
              PROVE  resp_queue[c][i].seq < next_req_seq[c] + 1
          <6>1. resp_queue[c][i] \in Slot
            BY <1>1, ElementOfSeq
          <6>2. resp_queue[c][i].seq \in Nat
            BY <6>1 DEF Slot
          <6> QED BY <1>1, <4>2, <6>2 DEF Ordered
        <5> QED BY <4>2, <5>1 DEF Ordered
      <4> QED BY SMTT(30), <1>1, <1>2, <1>3, <1>4, <2>4, <3>3, <4>1, <4>3
             DEF FdOK, CleanOK, HasSession, Ordered
    <3>4. CASE clean[c] /\ AnswerLater
      <4>1. /\ resp_seq_expected'[c] = next_req_seq[c] + 1
            /\ resp_queue'[c] = Append(resp_queue[c],
                 [seq |-> next_req_seq[c], org |-> gen[c], part |-> FALSE])
        BY <1>0, <1>1, <3>4 DEF TypeOK, AnswerLater
      <4>2. /\ resp_seq_expected[c] <= next_req_seq[c]
            /\ Ordered(resp_queue[c], resp_seq_expected[c], gen[c])
        BY <1>4, <3>4 DEF FdOK, CleanOK
      <4>3. Ordered(resp_queue'[c], next_req_seq[c] + 1, gen[c])
        BY <1>1, <4>1, <4>2, OrderedAppend
      <4>4. resp_queue'[c] # <<>>
        <5>1. [seq |-> next_req_seq[c], org |-> gen[c], part |-> FALSE]
                \in Slot
          BY <1>1 DEF Slot
        <5> QED BY <1>1, <4>1, <5>1, AppendProperties
      <4> QED BY SMTT(30), <1>1, <1>2, <1>3, <2>4, <3>4, <4>1, <4>3, <4>4
             DEF FdOK, CleanOK, HasSession, Ordered
    <3> QED BY <1>6, <3>1, <3>2, <3>3, <3>4
  <2> QED BY <2>3, <2>5 DEF OrderInv
<1> QED BY <1>5, <1>6 DEF ParseFrame

LEMMA FlushOK ==
    ASSUME TypeOK, SessionInv, TaskInv, OrderInv, xlab_async_flush_completed
    PROVE  OrderInv'
<1>1. NoNewTask
  BY FlushOldTasks
<1>2. ASSUME NEW g \in Fds, SameFd(g) PROVE FdOK(g)'
  BY <1>1, <1>2, NoNewTasksOf, SameFdOK DEF OrderInv
<1>3. CASE FlushDrain \/ FlushLock
  BY <1>2, <1>3 DEF FlushDrain, FlushLock, connVars, sessVars, SameFd, OrderInv
<1>4. CASE FlushSlot
  <2>1. UNCHANGED <<conn, gen, clean, sess, next_req_seq>>
    BY <1>4, FlushFrame
  <2>2. CASE FlushSkip \/ FlushDrop
    BY <1>2, <2>2 DEF FlushSkip, FlushDrop, connVars, sessVars, SameFd, OrderInv
  <2>3. CASE Completed /\ ~FlushSkip /\ ~FlushDrop
    <3>0. PICK f \in Fds, t \in Task : f = TaskFd /\ t = g_async_queue[idx]
      BY <2>3 DEF TypeOK, AsyncTypeOK, Completed, TaskFd, Task, Free
    <3>1. /\ idx \in Slots /\ Occupied(idx)
          /\ t.seq \in Nat /\ t.org \in Nat /\ t.cs \in Nat /\ t.fd = f
      BY <2>3, <3>0 DEF TypeOK, Completed, TaskFd, Occupied, Task
    <3>2. TaskOK(idx) /\ FdOK(f)
      BY <3>1 DEF TaskInv, OrderInv
    <3>3. /\ gen[f] \in Nat /\ sess[f] \in Nat /\ next_req_seq[f] \in Nat
          /\ resp_seq_expected[f] \in Nat /\ resp_queue[f] \in Seq(Slot)
      BY <3>1 DEF TypeOK
    <3>4. clean[f] => /\ OwnTasks(f)'
                      /\ t.cs = gen[f] /\ t.org = gen[f]
      <4>1. clean[f] => OwnTasks(f)
        BY <3>2 DEF FdOK, CleanOK
      <4> QED BY <1>1, <2>1, <3>0, <3>1, <4>1, NoNewTasksOf, OwnTasksStay
             DEF OwnTasks
    <3>5. clean[f] /\ HasSession(f) => t.seq < next_req_seq[f]
      BY <3>0, <3>1, <3>2, <3>4 DEF TaskOK, FdOK, CleanOK, OwnTasks, HasSession
    <3>6. ASSUME NEW g \in Fds, g # f PROVE FdOK(g)'
      <4>1. SameFd(g)
        BY <1>4, <2>1, <2>3, <3>0, <3>6 DEF TypeOK, SameFd, FlushSlot,
           FlushBusy, FlushQueue, FlushDangling, Advance, ArmWrite, connVars,
           sessVars, xlab_epoll_change_mode
      <4> QED BY <1>2, <4>1
    <3>7. CASE FlushBusy
      <4>1. /\ HasSession(f)
            /\ t.seq = resp_seq_expected[f]
            /\ resp_seq_expected'[f] = resp_seq_expected[f] + 1
            /\ UNCHANGED <<mode, resp_queue>>
        BY <3>0, <3>7 DEF TypeOK, FlushBusy, Advance, InTurn, TaskFd,
           TaskSeq, connVars
      <4>2. NoSessionEmpty(f)'
        BY <2>1, <4>1 DEF NoSessionEmpty, HasSession
      <4>3. FdOK(f)'
        <5>a. CASE ~clean[f]
          BY <2>1, <4>2, <5>a DEF FdOK
        <5>b. CASE clean[f]
          <6>1. Ordered(resp_queue[f], resp_seq_expected[f] + 1, gen[f])
            <7>1. Ordered(resp_queue[f], resp_seq_expected[f], gen[f])
              BY <3>2, <5>b DEF FdOK, CleanOK
            <7>2. ASSUME NEW i \in 1 .. Len(resp_queue[f])
                  PROVE  resp_queue[f][i].seq < resp_seq_expected[f] + 1
              <8>1. resp_queue[f][i] \in Slot
                BY <3>3, ElementOfSeq
              <8>2. resp_queue[f][i].seq \in Nat
                BY <8>1 DEF Slot
              <8> QED BY <3>3, <7>1, <8>2 DEF Ordered
            <7> QED BY <7>1, <7>2 DEF Ordered
          <6>2. resp_seq_expected[f] + 1 <= next_req_seq[f]
            BY <3>3, <3>5, <4>1, <5>b
          <6> QED BY <2>1, <3>2, <3>4, <4>1, <4>2, <5>b, <6>1, <6>2
                 DEF FdOK, CleanOK, HasSession, Ordered
        <5> QED BY <5>a, <5>b
      <4> QED BY <3>6, <4>3 DEF OrderInv
    <3>8. CASE FlushQueue
      <4>1. /\ HasSession(f)
            /\ t.seq = resp_seq_expected[f]
            /\ resp_seq_expected'[f] = resp_seq_expected[f] + 1
            /\ resp_queue'[f] = Append(resp_queue[f],
                 [seq |-> t.seq, org |-> t.org, part |-> FALSE])
        BY <3>0, <3>8 DEF TypeOK, FlushQueue, Advance, InTurn, TaskFd,
           TaskSeq
      <4>2. NoSessionEmpty(f)'
        BY <2>1, <4>1 DEF NoSessionEmpty, HasSession
      <4>3. FdOK(f)'
        <5>a. CASE ~clean[f]
          BY <2>1, <4>2, <5>a DEF FdOK
        <5>b. CASE clean[f]
          <6>1. Ordered(resp_queue[f], resp_seq_expected[f], gen[f])
            BY <3>2, <5>b DEF FdOK, CleanOK
          <6>2. Ordered(resp_queue'[f], resp_seq_expected[f] + 1, gen[f])
            BY <3>3, <3>4, <4>1, <5>b, <6>1, OrderedAppend
          <6>3. resp_seq_expected[f] + 1 <= next_req_seq[f]
            BY <3>3, <3>5, <4>1, <5>b
          <6>4. resp_queue'[f] # <<>>
            <7>1. [seq |-> t.seq, org |-> t.org, part |-> FALSE] \in Slot
              BY <3>1 DEF Task, Slot
            <7> QED BY <3>3, <4>1, <7>1, AppendProperties
          <6> QED BY <2>1, <3>4, <4>1, <4>2, <5>b, <6>2, <6>3, <6>4
                 DEF FdOK, CleanOK, HasSession, Ordered
        <5> QED BY <5>a, <5>b
      <4> QED BY <3>6, <4>3 DEF OrderInv
    <3>9. CASE FlushDangling
      <4>1. /\ t.cs # sess[f]
            /\ UNCHANGED <<resp_seq_expected, resp_queue>>
        BY <3>0, <3>9 DEF FlushDangling, TargetAlive, sessVars, TaskFd
      <4>2. NoSessionEmpty(f)'
        BY <2>1, <3>2, <4>1 DEF FdOK, NoSessionEmpty, HasSession
      <4>3. FdOK(f)'
        <5>a. CASE ~clean[f]
          BY <2>1, <4>2, <5>a DEF FdOK
        <5>b. CASE clean[f]
          <6>1. ~HasSession(f)
            BY <3>2, <3>4, <4>1, <5>b DEF FdOK, CleanOK, OwnTasks, HasSession
          <6>2. conn[f] = "free"
            BY <3>0, <3>1, <3>2, <3>3, <3>4, <5>b, <6>1 DEF TaskOK
          <6> QED BY <2>1, <3>2, <3>4, <4>1, <4>2, <5>b, <6>2
                 DEF FdOK, CleanOK, HasSession, Ordered
        <5> QED BY <5>a, <5>b
      <4> QED BY <3>6, <4>3 DEF OrderInv
    <3> QED BY <1>4, <2>3, <3>7, <3>8, <3>9 DEF FlushSlot
  <2> QED BY <1>4, <2>2, <2>3 DEF FlushSlot, FlushBusy, FlushQueue,
         FlushDangling
<1> QED BY <1>3, <1>4 DEF xlab_async_flush_completed

LEMMA OrderStep ==
    ASSUME TypeOK, EventInv, SessionInv, TaskInv, OrderInv, [Next]_vars
    PROVE  OrderInv'
<1>1. ASSUME NoNewTask, UNCHANGED <<connVars, sessVars>>
      PROVE  OrderInv'
  BY <1>1, NoNewTasksOf, SameFdOK DEF OrderInv, SameFd, connVars, sessVars
<1>2. CASE EpollWait
  BY <1>1, <1>2, OldTasks DEF EpollWait, asyncVars
<1>3. CASE Hardware
  BY <1>1, <1>3, HardwareOldTasks DEF Hardware
<1>4. CASE UNCHANGED vars
  BY <1>1, <1>4, OldTasks DEF vars, asyncVars
<1> QED BY <1>2, <1>3, <1>4, AcceptOK, ReadOK, WriteOK, ParseOK, FlushOK
        DEF Next, Handler

LEMMA OrderInvariant == Spec => []OrderInv
<1>1. Init => OrderInv
  BY DEF Init, AsyncInit, OrderInv, FdOK, NoSessionEmpty, CleanOK, OwnTasks,
     Ordered, Occupied, Free, HasSession
<1>2. TypeOK /\ EventInv /\ RequestInv /\ OrderInv /\ [Next]_vars => OrderInv'
  BY OrderStep DEF RequestInv
<1> QED BY <1>1, <1>2, TypeCorrect, EventInvariant, RequestInvariant, PTL
        DEF Spec

(* The turn of a connection that found its descriptor clean never passes   *)
(* its requests, whichever of xlab_conn_read and the flush moves it.       *)
THEOREM TurnsInOrder == Spec => []CounterOrder
BY OrderInvMeaning, OrderInvariant, PTL

(* Its response queue holds the answers in the order of the requests, for  *)
(* every number of clients, requests, task slots and response slots.       *)
THEOREM AnswersInOrder == Spec => []RingInOrder
BY OrderInvMeaning, OrderInvariant, PTL

(* It never has an answer to another client's request in its queue.        *)
THEOREM AnswersOwned == Spec => []OwnAnswers
BY OrderInvMeaning, OrderInvariant, PTL

(* Its socket waits for output only while it has something to send: a      *)
(* healthy client is not closed for an EPOLLOUT nobody needed.             *)
THEOREM ArmedWithWork == Spec => []WriteArmedHasWork
BY OrderInvMeaning, OrderInvariant, PTL

(* No task of it points to a session that is gone while it has one.        *)
THEOREM TargetsStayAlive == Spec => []TargetsAlive
<1>1. TypeOK /\ OrderInv => TargetsAlive
  <2> SUFFICES ASSUME TypeOK, OrderInv, NEW i \in Slots, Occupied(i),
                      clean[g_async_queue[i].fd],
                      HasSession(g_async_queue[i].fd)
               PROVE  g_async_queue[i].cs = sess[g_async_queue[i].fd]
    BY DEF TargetsAlive
  <2>1. g_async_queue[i].fd \in Fds
    BY DEF TypeOK, AsyncTypeOK, Occupied, Task, Free
  <2> QED BY <2>1 DEF OrderInv, FdOK, CleanOK, OwnTasks, HasSession
<1> QED BY <1>1, TypeCorrect, OrderInvariant, PTL

-----------------------------------------------------------------------------
(* The first connection of a descriptor finds it clean, so all that is     *)
(* said of clean connections holds for it.                                 *)
FirstClean == \A f \in Fds : gen[f] <= 1 => clean[f]

LEMMA GenStays ==
    ASSUME [Next]_vars
    PROVE  UNCHANGED <<gen, clean>> \/ \E f \in Fds : Accept(f)
<1>1. ASSUME NEW f \in Fds,
             xlab_conn_read(f) \/ xlab_conn_write(f) \/ xlab_conn_error(f)
      PROVE  UNCHANGED <<gen, clean>>
  BY <1>1 DEF xlab_conn_read, ReadChunk, ReadEnd, ReadAgain, xlab_conn_write,
     WriteRegister, WriteFail, WriteSome, xlab_conn_error, xlab_conn_close,
     xlab_epoll_change_mode, connVars
<1>2. ParseFrame => UNCHANGED <<gen, clean>>
  BY DEF ParseFrame, RejectFrame, SubmitFrame, AnswerNow, AnswerLater,
     xlab_epoll_change_mode, connVars
<1>3. xlab_async_flush_completed => UNCHANGED <<gen, clean>>
  BY FlushFrame DEF xlab_async_flush_completed, FlushDrain, FlushLock, connVars
<1>4. EpollWait \/ Hardware \/ UNCHANGED vars => UNCHANGED <<gen, clean>>
  BY DEF EpollWait, Hardware, connVars, vars
<1> QED BY <1>1, <1>2, <1>3, <1>4 DEF Next, Handler

THEOREM FirstConnectionClean == Spec => []FirstClean
<1>1. Init => FirstClean
  BY DEF Init, FirstClean
<1>2. TypeOK /\ RequestInv /\ FirstClean /\ [Next]_vars => FirstClean'
  <2> SUFFICES ASSUME TypeOK, SessionInv, TaskInv, FirstClean, [Next]_vars
               PROVE  FirstClean'
    BY DEF RequestInv
  <2>1. CASE UNCHANGED <<gen, clean>>
    BY <2>1 DEF FirstClean
  <2>2. ASSUME NEW f \in Fds, Accept(f) PROVE FirstClean'
    <3>1. /\ gen' = [gen EXCEPT ![f] = @ + 1]
          /\ clean' = [clean EXCEPT ![f] = TasksOf(f) = {} /\ ~HasSession(f)]
      BY <2>2 DEF Accept
    <3>2. gen[f] = 0 => TasksOf(f) = {} /\ ~HasSession(f)
      <4>1. ASSUME gen[f] = 0, NEW i \in TasksOf(f) PROVE FALSE
        <5>1. i \in Slots /\ Occupied(i) /\ g_async_queue[i].fd = f
          BY <4>1 DEF TasksOf
        <5>2. g_async_queue[i].cs \in Nat
          BY <5>1 DEF TypeOK, AsyncTypeOK, Occupied, Task, Free
        <5> QED BY <4>1, <5>1, <5>2 DEF TaskInv, TaskOK
      <4> QED BY <4>1 DEF TypeOK, SessionInv, HasSession
    <3> QED BY SMTT(30), <3>1, <3>2 DEF TypeOK, FirstClean
  <2> QED BY <2>1, <2>2, GenStays
<1> QED BY <1>1, <1>2, TypeCorrect, RequestInvariant, PTL DEF Spec

(* Where no descriptor is used a second time, every answer goes to the     *)
(* client that asked: the run Reuse needs the second connection.           *)
GenBound == \A f \in Fds : gen[f] <= MaxGen

THEOREM FirstConnectionsOwnAnswers ==
    ASSUME MaxGen = 1
    PROVE  Spec => []OwnResponsesOnly
<1>1. Init => GenBound
  BY GatewayAssumption DEF Init, GenBound
<1>2. TypeOK /\ GenBound /\ [Next]_vars => GenBound'
  <2> SUFFICES ASSUME TypeOK, GenBound, [Next]_vars PROVE GenBound'
    OBVIOUS
  <2>1. ASSUME NEW f \in Fds, Accept(f) PROVE GenBound'
    BY <2>1, GatewayAssumption DEF TypeOK, GenBound, Accept
  <2> QED BY <2>1, GenStays DEF GenBound
<1>3. GenBound /\ FirstClean /\ OrderInv => OwnResponsesOnly
  BY OrderInvMeaning DEF GenBound, FirstClean, OwnAnswers, OwnResponsesOnly
<1> QED BY <1>1, <1>2, <1>3, FirstConnectionClean, OrderInvariant, TypeCorrect,
        PTL DEF Spec

-----------------------------------------------------------------------------
(* A client's window.  What a clean connection has open, tasks, queued     *)
(* answers and frames in hand, is never more than its client may ask.      *)
Chunk(f) == IF pc = "parse" /\ cur = f THEN Len(todo) ELSE 0

WindowOK(f) ==
    clean[f] =>
        Cardinality(TasksOf(f)) + Len(resp_queue[f]) + Chunk(f) <= Window

WindowInv == \A f \in Fds : WindowOK(f)

LEMMA TasksFinite ==
    ASSUME NEW f
    PROVE  IsFiniteSet(TasksOf(f)) /\ Cardinality(TasksOf(f)) \in Nat
<1>1. IsFiniteSet(Slots)
  BY DepthAssumption, FS_Interval DEF Slots
<1>2. TasksOf(f) \in SUBSET Slots
  BY DEF TasksOf
<1> QED BY <1>1, <1>2, FS_Subset, FS_CardinalityType

LEMMA TasksFinitePrime ==
    ASSUME NEW f
    PROVE  IsFiniteSet(TasksOf(f)') /\ Cardinality(TasksOf(f)') \in Nat
<1>1. IsFiniteSet(Slots)
  BY DepthAssumption, FS_Interval DEF Slots
<1>2. TasksOf(f)' \in SUBSET Slots
  BY DEF TasksOf
<1> QED BY <1>1, <1>2, FS_Subset, FS_CardinalityType

(* What the flush finds completed is a task of some client. *)
LEMMA CompletedTask ==
    ASSUME TypeOK, Completed
    PROVE  /\ g_async_queue[idx] \in Task
           /\ TaskFd \in Fds /\ TaskSeq \in Nat
           /\ idx \in TasksOf(TaskFd)
<1>1. idx \in Slots /\ g_async_queue[idx].st = "done"
  BY DEF TypeOK, Completed
<1>2. g_async_queue[idx] \in Task \cup {Free}
  BY <1>1 DEF TypeOK, AsyncTypeOK
<1>3. Free.st = "free"
  BY DEF Free
<1>4. g_async_queue[idx] \in Task
  BY <1>1, <1>2, <1>3
<1> QED BY <1>1, <1>4 DEF Task, TaskFd, TaskSeq, TasksOf, Occupied

(* Without a new task of f there are not more of them. *)
LEMMA TasksShrink ==
    ASSUME NEW f \in Fds, NoNewTaskOf(f)
    PROVE  Cardinality(TasksOf(f)') <= Cardinality(TasksOf(f))
<1>1. TasksOf(f)' \in SUBSET TasksOf(f)
  BY DEF TasksOf, NoNewTaskOf, Occupied, SameTask
<1> QED BY <1>1, TasksFinite, FS_Subset

(* Freeing a task of f leaves one less. *)
LEMMA TaskFreed ==
    ASSUME TypeOK, NEW f \in Fds, NEW i \in TasksOf(f), FreeTask(i)
    PROVE  /\ TasksOf(f)' = TasksOf(f) \ {i}
           /\ Cardinality(TasksOf(f)') = Cardinality(TasksOf(f)) - 1
<1>1. TasksOf(f)' = TasksOf(f) \ {i}
  BY DEF TypeOK, AsyncTypeOK, TasksOf, FreeTask, Occupied, Free
<1> QED BY <1>1, TasksFinite, FS_RemoveElement

(* A connection's part is kept when nothing of it grows. *)
LEMMA WindowShrinks ==
    ASSUME NEW f \in Fds, WindowOK(f), NoNewTaskOf(f),
           clean'[f] => clean[f],
           Len(resp_queue[f]) \in Nat, Len(resp_queue'[f]) \in Nat,
           Len(resp_queue'[f]) <= Len(resp_queue[f]),
           Chunk(f) \in Nat, Chunk(f)' \in Nat, Chunk(f)' <= Chunk(f)
    PROVE  WindowOK(f)'
<1>1. /\ Cardinality(TasksOf(f)) \in Nat /\ Cardinality(TasksOf(f)') \in Nat
      /\ Cardinality(TasksOf(f)') <= Cardinality(TasksOf(f))
  BY TasksFinite, TasksFinitePrime, TasksShrink
<1>2. Window \in Nat
  BY GatewayAssumption
<1> QED BY <1>1, <1>2 DEF WindowOK

LEMMA Lengths ==
    ASSUME TypeOK, NEW f \in Fds
    PROVE  /\ Len(resp_queue[f]) \in Nat
           /\ resp_queue[f] = <<>> <=> Len(resp_queue[f]) = 0
           /\ Chunk(f) \in Nat
           /\ pc # "parse" \/ cur # f => Chunk(f) = 0
<1>1. resp_queue[f] \in Seq(Slot) /\ todo \in Seq(Kinds)
  BY DEF TypeOK
<1>2. Len(resp_queue[f]) \in Nat /\ Len(todo) \in Nat
  BY <1>1, LenProperties
<1>3. resp_queue[f] = <<>> <=> Len(resp_queue[f]) = 0
  BY <1>1, EmptySeq
<1> QED BY <1>2, <1>3 DEF Chunk

LEMMA LengthsPrime ==
    ASSUME TypeOK', NEW f \in Fds
    PROVE  /\ Len(resp_queue'[f]) \in Nat
           /\ Chunk(f)' \in Nat
           /\ pc' # "parse" \/ cur' # f => Chunk(f)' = 0
<1>1. resp_queue'[f] \in Seq(Slot) /\ todo' \in Seq(Kinds)
  BY DEF TypeOK
<1>2. Len(resp_queue'[f]) \in Nat /\ Len(todo') \in Nat
  BY <1>1, LenProperties
<1> QED BY <1>2 DEF Chunk

(* Sending makes the queue no longer. *)
LEMMA RestLength ==
    ASSUME NEW q \in Seq(Slot), NEW n \in 0 .. Len(q)
    PROVE  /\ Len(Rest(q, n)) <= Len(q)
           /\ Rest(q, n) # <<>> => Len(HalfSent(Rest(q, n))) <= Len(q)
<1>1. Len(q) \in Nat /\ \A i \in n + 1 .. Len(q) : q[i] \in Slot
  BY LenProperties, ElementOfSeq
<1>2. Rest(q, n) \in Seq(Slot) /\ Len(Rest(q, n)) = Len(q) - n
  BY <1>1, SubSeqProperties DEF Rest
<1>3. ASSUME Rest(q, n) # <<>>
      PROVE  Len(HalfSent(Rest(q, n))) = Len(Rest(q, n))
  <2> DEFINE r == Rest(q, n)
  <2>1. 1 \in 1 .. Len(r) /\ r[1] \in Slot
    BY <1>2, <1>3, EmptySeq, ElementOfSeq
  <2>2. [r[1] EXCEPT !.part = TRUE] \in Slot
    BY <2>1 DEF Slot
  <2>3. HalfSent(r) = [r EXCEPT ![1] = [r[1] EXCEPT !.part = TRUE]]
    BY DEF HalfSent
  <2> QED BY <1>2, <2>1, <2>2, <2>3, ExceptSeq
<1> QED BY <1>1, <1>2, <1>3

(* A step of the loop outside a chunk that lets nothing grow. *)
LEMMA WindowAlone ==
    ASSUME TypeOK, TypeOK', WindowInv, NoNewTask,
           \A f \in Fds : clean'[f] => clean[f],
           \A f \in Fds : Len(resp_queue'[f]) <= Len(resp_queue[f]),
           UNCHANGED <<pc, cur, todo>> \/ pc' # "parse"
    PROVE  WindowInv'
<1> SUFFICES ASSUME NEW f \in Fds PROVE WindowOK(f)'
  BY DEF WindowInv
<1>1. WindowOK(f) /\ NoNewTaskOf(f)
  BY NoNewTasksOf DEF WindowInv
<1>2. Chunk(f)' <= Chunk(f)
  <2>1. CASE UNCHANGED <<pc, cur, todo>>
    BY <2>1, Lengths DEF Chunk
  <2>2. CASE pc' # "parse"
    BY <2>2, Lengths, LengthsPrime
  <2> QED BY <2>1, <2>2
<1> QED BY <1>1, <1>2, WindowShrinks, Lengths, LengthsPrime

LEMMA WindowAccept ==
    ASSUME TypeOK, TypeOK', SessionInv, OrderInv, WindowInv,
           NEW f \in Fds, Accept(f)
    PROVE  WindowInv'
<1>1. NoNewTask
  BY OldTasks DEF Accept, asyncVars
<1>2. ASSUME NEW g \in Fds, g # f \/ ~clean'[f] PROVE WindowOK(g)'
  <2>1. WindowOK(g) /\ NoNewTaskOf(g)
    BY <1>1, NoNewTasksOf DEF WindowInv
  <2>2. /\ clean'[g] => clean[g]
        /\ resp_queue' = resp_queue /\ Chunk(g)' = Chunk(g)
    BY <1>2 DEF TypeOK, Accept, sessVars, workVars, Chunk
  <2> QED BY <2>1, <2>2, WindowShrinks, Lengths
<1>3. ASSUME clean'[f] PROVE WindowOK(f)'
  <2>1. TasksOf(f) = {} /\ ~HasSession(f) /\ conn[f] = "free"
    BY ZenonT(60), <1>3 DEF TypeOK, Accept
  <2>2. TasksOf(f)' = {} /\ resp_queue'[f] = <<>>
    BY <2>1 DEF Accept, asyncVars, sessVars, TasksOf, Occupied, OrderInv,
       FdOK, NoSessionEmpty
  <2>3. Chunk(f)' = 0
    BY <2>1 DEF Accept, workVars, SessionInv, Chunk
  <2>4. Cardinality(TasksOf(f)') = 0 /\ Len(resp_queue'[f]) = 0
    BY <2>2, FS_EmptySet, EmptySeq
  <2> QED BY <2>3, <2>4, GatewayAssumption DEF WindowOK
<1> QED BY <1>2, <1>3 DEF WindowInv

(* What the client may send next is what its window has left.              *)
LEMMA WindowChunk ==
    ASSUME TypeOK, TypeOK', OrderInv, WindowInv, NEW f \in Fds, ReadChunk(f)
    PROVE  WindowInv'
<1>1. NoNewTask
  BY OldTasks DEF ReadChunk, asyncVars
<1>2. /\ pc = "loop" /\ cur' = f
      /\ UNCHANGED <<g_async_queue, clean, resp_queue, gen>>
  BY DEF ReadChunk, Dispatch, asyncVars, connVars
<1>3. ASSUME NEW g \in Fds, g # f PROVE WindowOK(g)'
  <2>1. WindowOK(g) /\ NoNewTaskOf(g)
    BY <1>1, NoNewTasksOf DEF WindowInv
  <2>2. Chunk(g) = 0 /\ Chunk(g)' = 0
    BY <1>2, <1>3, Lengths, LengthsPrime
  <2> QED BY <1>2, <2>1, <2>2, WindowShrinks, Lengths
<1>4. ASSUME clean[f] PROVE WindowOK(f)'
  <2>1. PICK n \in 0 .. Window : \E chunk \in [1 .. n -> Kinds] :
          /\ WithinWindow(f, n)
          /\ todo' = chunk
          /\ pc' = IF n = 0 THEN "loop" ELSE "parse"
    BY DEF ReadChunk
  <2>2. n \in Nat /\ Chunk(f)' = n
    <3>1. n \in Nat
      BY GatewayAssumption
    <3>2. todo' \in [1 .. n -> Kinds]
      BY <2>1
    <3>3. Len(todo') = n
      BY <3>1, <3>2
    <3> QED BY <1>2, <2>1, <3>1, <3>3 DEF Chunk
  <2>3. Unanswered(f) = TasksOf(f) /\ TasksOf(f)' = TasksOf(f)
    BY <1>2, <1>4 DEF OrderInv, FdOK, CleanOK, OwnTasks, Unanswered, TasksOf,
       Occupied
  <2>4. Cardinality(TasksOf(f)) + Len(resp_queue[f]) + n <= Window
    BY <2>1, <2>3 DEF WithinWindow
  <2> QED BY <1>2, <2>2, <2>3, <2>4 DEF WindowOK
<1>5. ~clean[f] => WindowOK(f)'
  BY <1>2 DEF WindowOK
<1> QED BY <1>3, <1>4, <1>5 DEF WindowInv

LEMMA WindowWrite ==
    ASSUME TypeOK, TypeOK', WindowInv, NEW f \in Fds,
           \/ ReadEnd(f) \/ ReadAgain(f)
           \/ xlab_conn_write(f) \/ xlab_conn_error(f)
    PROVE  WindowInv'
<1>1. UNCHANGED <<asyncVars, clean, pc, cur, todo>>
  BY DEF ReadEnd, ReadAgain, xlab_conn_write, WriteRegister, WriteFail,
     WriteSome, xlab_conn_error, xlab_conn_close, xlab_epoll_change_mode
<1>2. NoNewTask
  BY <1>1, OldTasks DEF asyncVars
<1>3. ASSUME NEW g \in Fds
      PROVE  Len(resp_queue'[g]) <= Len(resp_queue[g])
  <2>0. resp_queue[g] \in Seq(Slot) /\ Len(resp_queue[g]) \in Nat
    BY Lengths DEF TypeOK
  <2>1. CASE ReadAgain(f) \/ WriteRegister(f)
    BY <2>0, <2>1 DEF ReadAgain, WriteRegister, sessVars
  <2>2. CASE ReadEnd(f) \/ WriteFail(f) \/ xlab_conn_error(f)
    <3>1. resp_queue' = [resp_queue EXCEPT ![f] = <<>>]
      BY <2>2 DEF ReadEnd, WriteFail, xlab_conn_error, xlab_session_remove
    <3>2. resp_queue'[g] = IF g = f THEN <<>> ELSE resp_queue[g]
      BY <3>1 DEF TypeOK
    <3> QED BY <2>0, <3>2, EmptySeq
  <2>3. CASE WriteSome(f)
    <3>1. PICK n \in 0 .. Len(resp_queue[f]), half \in BOOLEAN :
            /\ half => Rest(resp_queue[f], n) # <<>>
            /\ resp_queue' = [resp_queue EXCEPT ![f] =
                 IF half THEN HalfSent(Rest(resp_queue[f], n))
                         ELSE Rest(resp_queue[f], n)]
      BY <2>3 DEF WriteSome, Rest, HalfSent
    <3>2. CASE g # f
      BY <2>0, <3>1, <3>2 DEF TypeOK
    <3>3. CASE g = f
      <4>1. resp_queue'[g] = IF half THEN HalfSent(Rest(resp_queue[g], n))
                                     ELSE Rest(resp_queue[g], n)
        BY <3>1, <3>3 DEF TypeOK
      <4>2. n \in 0 .. Len(resp_queue[g])
        BY <3>3
      <4> QED BY <2>0, <3>1, <3>3, <4>1, <4>2, RestLength
    <3> QED BY <3>2, <3>3
  <2> QED BY <2>1, <2>2, <2>3 DEF xlab_conn_write
<1> QED BY <1>1, <1>2, <1>3, WindowAlone

(* A frame leaves the chunk and becomes at most one task or one answer.    *)
LEMMA WindowParse ==
    ASSUME TypeOK, TypeOK', ChunkInv, WindowInv, ParseFrame
    PROVE  WindowInv'
<1>0. PICK c \in Fds : c = cur
  BY DEF TypeOK
<1>1. /\ pc = "parse" /\ cur' = cur /\ clean' = clean
      /\ todo' = Tail(todo) /\ (Len(todo) = 1 => pc' = "loop")
  BY DEF ParseFrame, RejectFrame, SubmitFrame, AnswerNow, AnswerLater,
     connVars, xlab_epoll_change_mode
<1>2. Chunk(c)' = Chunk(c) - 1
  <2>1. /\ Chunk(c) = Len(todo) /\ Len(todo) \in Nat \ {0}
        /\ Len(todo') = Len(todo) - 1
    BY <1>0, <1>1, EmptySeq, HeadTailProperties DEF TypeOK, ChunkInv, Chunk
  <2>2. CASE Len(todo) = 1
    BY <1>0, <1>1, <2>1, <2>2, LengthsPrime
  <2>3. CASE Len(todo) # 1
    BY <1>0, <1>1, <2>1, <2>3 DEF ParseFrame, Chunk
  <2> QED BY <2>2, <2>3
<1>3. ASSUME NEW g \in Fds, g # c, NoNewTaskOf(g), resp_queue'[g] = resp_queue[g]
      PROVE  WindowOK(g)'
  BY <1>0, <1>1, <1>3, WindowShrinks, Lengths, LengthsPrime DEF WindowInv
<1>4. /\ Cardinality(TasksOf(c)) \in Nat /\ Cardinality(TasksOf(c)') \in Nat
      /\ Len(resp_queue[c]) \in Nat /\ Len(resp_queue'[c]) \in Nat
      /\ Chunk(c) \in Nat /\ Window \in Nat /\ WindowOK(c)
  BY TasksFinite, TasksFinitePrime, Lengths, LengthsPrime, GatewayAssumption
     DEF WindowInv
<1>5. CASE SubmitFrame
  <2>1. PICK i \in Slots :
          /\ ~Occupied(i)
          /\ g_async_queue' = [g_async_queue EXCEPT ![i] =
               [st |-> "ready", fd |-> c, seq |-> next_req_seq[c],
                cs |-> sess[c], org |-> gen[c], fresh |-> FALSE]]
    BY <1>0, <1>5 DEF SubmitFrame, xlab_async_submit
  <2>2. \A j \in Slots : j # i => g_async_queue'[j] = g_async_queue[j]
    BY <2>1 DEF TypeOK, AsyncTypeOK
  <2>3. g_async_queue'[i].st = "ready" /\ g_async_queue'[i].fd = c
    BY <2>1 DEF TypeOK, AsyncTypeOK
  <2>4. resp_queue' = resp_queue
    BY <1>5 DEF SubmitFrame
  <2>5. ASSUME NEW g \in Fds, g # c PROVE WindowOK(g)'
    <3>1. NoNewTaskOf(g)
      BY <2>2, <2>3, <2>5 DEF NoNewTaskOf, Occupied, SameTask
    <3> QED BY <1>3, <2>4, <2>5, <3>1
  <2>6. Cardinality(TasksOf(c)') = Cardinality(TasksOf(c)) + 1
    <3>1. TasksOf(c)' = TasksOf(c) \cup {i} /\ i \notin TasksOf(c)
      BY <2>1, <2>2, <2>3 DEF TasksOf, Occupied
    <3> QED BY <3>1, TasksFinite, FS_AddElement
  <2>7. WindowOK(c)'
    BY <1>1, <1>2, <1>4, <2>4, <2>6 DEF WindowOK
  <2> QED BY <2>5, <2>7 DEF WindowInv
<1>6. CASE RejectFrame \/ AnswerNow \/ AnswerLater
  <2>1. NoNewTask
    BY <1>6, OldTasks DEF RejectFrame, AnswerNow, AnswerLater, asyncVars
  <2>2. ASSUME NEW g \in Fds, g # c PROVE WindowOK(g)'
    <3>1. resp_queue'[g] = resp_queue[g]
      BY ZenonT(60), <1>0, <1>6, <2>2 DEF TypeOK, RejectFrame, AnswerNow, AnswerLater
    <3> QED BY <1>3, <2>1, <2>2, <3>1, NoNewTasksOf
  <2>3. Len(resp_queue'[c]) <= Len(resp_queue[c]) + 1
    <3>1. CASE RejectFrame \/ AnswerNow
      BY <1>4, <3>1 DEF RejectFrame, AnswerNow
    <3>2. CASE AnswerLater
      <4>1. resp_queue'[c] = Append(resp_queue[c],
              [seq |-> next_req_seq[c], org |-> gen[c], part |-> FALSE])
        BY <1>0, <3>2 DEF TypeOK, AnswerLater
      <4>2. /\ resp_queue[c] \in Seq(Slot)
            /\ [seq |-> next_req_seq[c], org |-> gen[c], part |-> FALSE] \in Slot
        BY DEF TypeOK, Slot
      <4> QED BY <1>4, <4>1, <4>2, AppendProperties
    <3> QED BY <1>6, <3>1, <3>2
  <2>4. Cardinality(TasksOf(c)') <= Cardinality(TasksOf(c))
    BY <2>1, NoNewTasksOf, TasksShrink
  <2>5. WindowOK(c)'
    BY SMTT(30), <1>1, <1>2, <1>4, <2>3, <2>4 DEF WindowOK
  <2> QED BY <2>2, <2>5 DEF WindowInv
<1> QED BY <1>5, <1>6 DEF ParseFrame

(* The flush turns a task into an answer, or into nothing. *)
LEMMA WindowFlush ==
    ASSUME TypeOK, TypeOK', WindowInv, xlab_async_flush_completed
    PROVE  WindowInv'
<1>1. NoNewTask
  BY FlushOldTasks
<1>2. pc' # "parse" /\ clean' = clean
  BY FlushFrame DEF xlab_async_flush_completed, FlushDrain, FlushLock,
     FlushSlot, NextSlot, connVars
<1>3. CASE UNCHANGED resp_queue
  BY <1>1, <1>2, <1>3, WindowAlone, Lengths
<1>4. CASE FlushSlot /\ FlushQueue
  <2>0. PICK f \in Fds, t \in Task : f = TaskFd /\ t = g_async_queue[idx]
    BY <1>4, CompletedTask DEF FlushQueue
  <2>1. idx \in TasksOf(f)
    BY <1>4, <2>0 DEF TypeOK, FlushQueue, Completed, TaskFd, TasksOf, Occupied
  <2>2. /\ FreeTask(idx)
        /\ resp_queue' = [resp_queue EXCEPT ![f] = Append(@,
             [seq |-> TaskSeq, org |-> g_async_queue[idx].org, part |-> FALSE])]
    BY <1>4, <2>0 DEF FlushQueue
  <2>3. Len(resp_queue'[f]) = Len(resp_queue[f]) + 1
    <3>1. /\ resp_queue[f] \in Seq(Slot)
          /\ [seq |-> TaskSeq, org |-> g_async_queue[idx].org, part |-> FALSE]
               \in Slot
      BY <2>0 DEF TypeOK, Task, TaskSeq, Slot
    <3>2. resp_queue'[f] = Append(resp_queue[f],
            [seq |-> TaskSeq, org |-> g_async_queue[idx].org, part |-> FALSE])
      BY <2>2 DEF TypeOK
    <3> QED BY <3>1, <3>2, AppendProperties
  <2>4. Cardinality(TasksOf(f)') = Cardinality(TasksOf(f)) - 1
    BY <2>1, <2>2, TaskFreed
  <2>5. ASSUME NEW g \in Fds PROVE WindowOK(g)'
    <3>1. WindowOK(g) /\ NoNewTaskOf(g) /\ Chunk(g)' = 0
      BY <1>1, <1>2, NoNewTasksOf, LengthsPrime DEF WindowInv
    <3>2. CASE g # f
      <4>1. resp_queue'[g] = resp_queue[g]
        BY <2>2, <3>2 DEF TypeOK
      <4> QED BY <1>2, <3>1, <4>1, WindowShrinks, Lengths
    <3>3. CASE g = f
      <4>1. /\ Cardinality(TasksOf(f)) \in Nat /\ Len(resp_queue[f]) \in Nat
            /\ Chunk(f) \in Nat /\ Window \in Nat
        BY TasksFinite, Lengths, GatewayAssumption
      <4> QED BY SMTT(30), <1>2, <2>3, <2>4, <3>1, <3>3, <4>1 DEF WindowOK
    <3> QED BY <3>2, <3>3
  <2> QED BY <2>5 DEF WindowInv
<1> QED BY <1>3, <1>4 DEF xlab_async_flush_completed, FlushDrain, FlushLock,
       FlushSlot, FlushSkip, FlushDrop, FlushBusy, FlushDangling, sessVars

LEMMA WindowStep ==
    ASSUME TypeOK, TypeOK', ChunkInv, SessionInv, OrderInv, WindowInv,
           [Next]_vars
    PROVE  WindowInv'
<1>1. CASE EpollWait \/ Hardware \/ UNCHANGED vars
  <2>1. /\ NoNewTask
        /\ UNCHANGED <<clean, resp_queue, pc, cur, todo>>
    BY <1>1, OldTasks, HardwareOldTasks DEF EpollWait, Hardware, asyncVars,
       connVars, sessVars, workVars, vars
  <2> QED BY <2>1, WindowAlone, Lengths
<1> QED BY <1>1, WindowAccept, WindowChunk, WindowWrite, WindowParse,
        WindowFlush DEF Next, Handler, xlab_conn_read

LEMMA WindowInvariant == Spec => []WindowInv
<1>1. Init => WindowInv
  <2> SUFFICES ASSUME Init, NEW f \in Fds PROVE WindowOK(f)
    BY DEF WindowInv
  <2>1. TasksOf(f) = {}
    BY DEF Init, AsyncInit, TasksOf, Occupied, Free
  <2>2. resp_queue[f] = <<>> /\ Chunk(f) = 0
    BY DEF Init, Chunk
  <2> QED BY <2>1, <2>2, FS_EmptySet, EmptySeq, GatewayAssumption DEF WindowOK
<1>2. /\ TypeOK /\ ChunkInv /\ RequestInv /\ OrderInv /\ WindowInv
      /\ [Next]_vars /\ TypeOK'
      => WindowInv'
  BY WindowStep DEF RequestInv
<1> QED BY <1>1, <1>2, TypeInvariant, RequestInvariant, OrderInvariant, PTL
        DEF Spec

(* A client with fewer requests open than XLAB_RESP_QUEUE_DEPTH is never   *)
(* answered BUSY by the flush, for every window, ring and table.           *)
THEOREM NoBusyWithinWindow == Spec => []RoomForAnswers
<1>1. TypeOK /\ WindowInv => RoomForAnswers
  <2> SUFFICES ASSUME TypeOK, WindowInv, Window < RingDepth, NEW i \in Slots,
                      Occupied(i), clean[g_async_queue[i].fd]
               PROVE  ~RingFull(g_async_queue[i].fd)
    BY Zenon DEF RoomForAnswers
  <2>1. PICK f \in Fds : f = g_async_queue[i].fd
    BY SMTT(30) DEF TypeOK, AsyncTypeOK, Occupied, Task, Free
  <2>2. Cardinality(TasksOf(f)) # 0
    <3>1. i \in TasksOf(f)
      BY <2>1 DEF TasksOf
    <3> QED BY <3>1, TasksFinite, FS_EmptySet
  <2>3. /\ Cardinality(TasksOf(f)) + Len(resp_queue[f]) + Chunk(f) <= Window
        /\ Cardinality(TasksOf(f)) \in Nat /\ Len(resp_queue[f]) \in Nat
        /\ Chunk(f) \in Nat /\ Window \in Nat /\ RingDepth \in Nat
    BY <2>1, TasksFinite, Lengths, GatewayAssumption DEF WindowInv, WindowOK
  <2> QED BY SMTT(30), <2>1, <2>2, <2>3 DEF RingFull
<1> QED BY <1>1, TypeCorrect, WindowInvariant, PTL

-----------------------------------------------------------------------------
(* A client that waits for each answer.  Its only task is its last         *)
(* request, whose turn has come unless a damaged frame took a number; with *)
(* no task the turn is that of the next request.                           *)
TurnOK(f) ==
    clean[f] /\ HasSession(f) =>
        /\ \A i \in TasksOf(f) :
              /\ g_async_queue[i].seq + 1 = next_req_seq[f]
              /\ resp_seq_expected[f] <= g_async_queue[i].seq
              /\ "reject" \notin Kinds =>
                    resp_seq_expected[f] = g_async_queue[i].seq
        /\ TasksOf(f) = {} /\ "reject" \notin Kinds =>
              resp_seq_expected[f] = next_req_seq[f]

TurnInv == \A f \in Fds : TurnOK(f)

LEMMA OnlyTask ==
    ASSUME TypeOK, WindowInv, Window = 1, NEW f \in Fds, clean[f]
    PROVE  /\ \A i \in TasksOf(f) : TasksOf(f) = {i}
           /\ Chunk(f) > 0 => TasksOf(f) = {}
<1>1. /\ Cardinality(TasksOf(f)) + Len(resp_queue[f]) + Chunk(f) <= 1
      /\ Cardinality(TasksOf(f)) \in Nat /\ Len(resp_queue[f]) \in Nat
      /\ Chunk(f) \in Nat
  BY TasksFinite, Lengths DEF WindowInv, WindowOK
<1>2. ASSUME NEW i \in TasksOf(f) PROVE TasksOf(f) = {i} /\ Chunk(f) = 0
  <2>1. Cardinality(TasksOf(f)) # 0
    BY <1>2, TasksFinite, FS_EmptySet
  <2>2. Cardinality(TasksOf(f)) = Cardinality({i})
    <3>1. Cardinality({i}) = 1
      BY FS_Singleton
    <3>2. Cardinality(TasksOf(f)) = 1
      BY <1>1, <2>1
    <3> QED BY <3>1, <3>2
  <2>3. {i} \in SUBSET TasksOf(f)
    BY <1>2
  <2>4. TasksOf(f) = {i}
    BY <2>2, <2>3, TasksFinite, FS_Subset
  <2> QED BY <1>1, <2>1, <2>4
<1> QED BY <1>1, <1>2

(* The tasks of f before and after a step that submits and frees none.     *)
SameTasks(f) ==
    /\ TasksOf(f)' = TasksOf(f)
    /\ \A i \in TasksOf(f) : g_async_queue'[i].seq = g_async_queue[i].seq

LEMMA TasksKept ==
    ASSUME NoNewTask, NEW f \in Fds,
           \A i \in TasksOf(f) : g_async_queue'[i].st # "free"
    PROVE  SameTasks(f)
BY DEF NoNewTask, SameTasks, TasksOf, Occupied, SameTask

LEMMA TableKept ==
    ASSUME UNCHANGED g_async_queue, NEW f \in Fds
    PROVE  SameTasks(f)
BY DEF SameTasks, TasksOf, Occupied

(* Waiting for events and the hardware thread keep the tasks of all.       *)
LEMMA RunningTasksKept ==
    ASSUME TypeOK, EpollWait \/ Hardware \/ UNCHANGED vars, NEW f \in Fds
    PROVE  SameTasks(f)
<1>1. CASE UNCHANGED g_async_queue
  BY <1>1, TableKept
<1>2. CASE HwRun
  <2>1. ASSUME NEW i \in TasksOf(f) PROVE g_async_queue'[i].st # "free"
    <3>1. g_async_queue[i] \in Task /\ Occupied(i)
      BY DEF TypeOK, AsyncTypeOK, TasksOf, Occupied, Free
    <3>2. g_async_queue'[i] =
            IF g_async_queue[i].st = "ready"
              THEN [g_async_queue[i] EXCEPT !.st = "done", !.fresh = TRUE]
              ELSE g_async_queue[i]
      BY <1>2 DEF HwRun, TasksOf
    <3> QED BY <3>1, <3>2 DEF Task, Occupied
  <2> QED BY <1>2, <2>1, OldTasks, TasksKept
<1> QED BY <1>1, <1>2 DEF EpollWait, Hardware, HwStep, HwLock, HwNotify,
       HwWake, asyncVars, vars

LEMMA TurnStays ==
    ASSUME NEW f \in Fds, TurnOK(f), SameTasks(f), clean'[f] = clean[f],
           sess'[f] = sess[f], next_req_seq'[f] = next_req_seq[f],
           resp_seq_expected'[f] = resp_seq_expected[f]
    PROVE  TurnOK(f)'
BY DEF TurnOK, SameTasks, HasSession

LEMMA TurnGone ==
    ASSUME NEW f \in Fds, clean'[f] => sess'[f] = 0
    PROVE  TurnOK(f)'
BY DEF TurnOK, HasSession

LEMMA TurnEvents ==
    ASSUME TypeOK, EventInv, SessionInv, TaskInv, OrderInv, TurnInv,
           NEW f \in Fds,
           \/ Accept(f) \/ xlab_conn_read(f)
           \/ xlab_conn_write(f) \/ xlab_conn_error(f)
    PROVE  TurnInv'
<1>1. UNCHANGED g_async_queue
  BY DEF Accept, xlab_conn_read, ReadChunk, ReadEnd, ReadAgain,
     xlab_conn_write, WriteRegister, WriteFail, WriteSome, xlab_conn_error,
     asyncVars
<1>2. ASSUME NEW g \in Fds, g # f PROVE TurnOK(g)'
  <2>1. /\ clean'[g] = clean[g] /\ sess'[g] = sess[g]
        /\ next_req_seq'[g] = next_req_seq[g]
        /\ resp_seq_expected'[g] = resp_seq_expected[g]
    <3>1. CASE ReadEnd(f) \/ WriteFail(f) \/ xlab_conn_error(f)
      BY <1>2, <3>1 DEF TypeOK, ReadEnd, WriteFail, xlab_conn_error,
         xlab_session_remove, xlab_conn_close
    <3>2. CASE Accept(f) \/ WriteRegister(f) \/ WriteSome(f)
      BY <1>2, <3>2 DEF TypeOK, Accept, WriteRegister, WriteSome,
         xlab_epoll_change_mode, sessVars
    <3>3. CASE ReadChunk(f) \/ ReadAgain(f)
      BY <1>2, <3>3 DEF TypeOK, ReadChunk, ReadAgain, xlab_conn_close, connVars
    <3> QED BY <3>1, <3>2, <3>3 DEF xlab_conn_read, xlab_conn_write
  <2> QED BY <1>1, <2>1, TableKept, TurnStays DEF TurnInv
<1>3. TurnOK(f)'
  <2>1. CASE Accept(f)
    <3>1. clean'[f] => sess'[f] = 0
      BY <2>1 DEF TypeOK, Accept, sessVars, HasSession
    <3> QED BY <3>1, TurnGone
  <2>2. CASE ReadEnd(f) \/ WriteFail(f) \/ xlab_conn_error(f)
    <3>1. sess'[f] = 0
      BY <2>2 DEF TypeOK, ReadEnd, WriteFail, xlab_conn_error,
         xlab_session_remove
    <3> QED BY <3>1, TurnGone
  <2>3. CASE WriteRegister(f) \/ WriteSome(f)
    <3>1. UNCHANGED <<clean, sess, next_req_seq, resp_seq_expected>>
      BY <2>3 DEF WriteRegister, WriteSome, xlab_epoll_change_mode, sessVars
    <3> QED BY <1>1, <3>1, TableKept, TurnStays DEF TurnInv
  <2>4. CASE ReadChunk(f) \/ ReadAgain(f)
    <3>1. /\ sess'[f] = IF sess[f] = 0 THEN gen[f] ELSE sess[f]
          /\ UNCHANGED <<clean, next_req_seq, resp_seq_expected>>
      BY <2>4 DEF TypeOK, ReadChunk, ReadAgain, xlab_conn_close, connVars
    <3>2. CASE HasSession(f)
      BY <1>1, <3>1, <3>2, TableKept, TurnStays DEF TurnInv, HasSession
    <3>3. CASE ~HasSession(f) /\ clean[f]
      <4>1. conn[f] = "open"
        BY <2>4 DEF EventInv, EventsNotStale, ReadChunk, ReadAgain, Dispatch
      <4>2. next_req_seq[f] = 0 /\ resp_seq_expected[f] = 0 /\ OwnTasks(f)
        BY <3>3 DEF OrderInv, FdOK, CleanOK, NoSessionEmpty
      <4>3. TasksOf(f) = {}
        <5>1. ASSUME NEW i \in TasksOf(f) PROVE FALSE
          <6>1. g_async_queue[i].cs = gen[f] /\ g_async_queue[i].cs < gen[f]
            BY <3>3, <4>1, <4>2 DEF TasksOf, OwnTasks, TaskInv, TaskOK
          <6> QED BY <6>1 DEF TypeOK
        <5> QED BY <5>1
      <4>4. TasksOf(f)' = {}
        BY <1>1, <4>3, TableKept DEF SameTasks
      <4> QED BY <3>1, <4>2, <4>4 DEF TurnOK
    <3>4. ~clean[f] => TurnOK(f)'
      BY <3>1 DEF TurnOK
    <3> QED BY <3>2, <3>3, <3>4
  <2> QED BY <2>1, <2>2, <2>3, <2>4 DEF xlab_conn_read, xlab_conn_write
<1> QED BY <1>2, <1>3 DEF TurnInv

LEMMA TurnParse ==
    ASSUME TypeOK, ChunkInv, SessionInv, OrderInv, WindowInv, Window = 1,
           TurnInv, ParseFrame
    PROVE  TurnInv'
<1>0. PICK c \in Fds : c = cur
  BY DEF TypeOK
<1>1. /\ pc = "parse" /\ clean' = clean /\ sess' = sess
      /\ next_req_seq' = [next_req_seq EXCEPT ![c] = @ + 1]
      /\ HasSession(c)
      /\ next_req_seq[c] \in Nat /\ resp_seq_expected[c] \in Nat
  BY <1>0 DEF TypeOK, SessionInv, ParseFrame, RejectFrame, SubmitFrame,
     AnswerNow, AnswerLater, TakeSeq, connVars, xlab_epoll_change_mode
<1>2. next_req_seq'[c] = next_req_seq[c] + 1
  BY <1>1 DEF TypeOK
<1>3. ASSUME NEW g \in Fds, g # c, SameTasks(g) PROVE TurnOK(g)'
  <2>1. /\ next_req_seq'[g] = next_req_seq[g]
        /\ resp_seq_expected'[g] = resp_seq_expected[g]
    BY <1>0, <1>1, <1>3 DEF TypeOK, ParseFrame, RejectFrame, SubmitFrame,
       AnswerNow, AnswerLater
  <2> QED BY <1>1, <1>3, <2>1, TurnStays DEF TurnInv
<1>4. clean[c] => TasksOf(c) = {}
  <2>1. Chunk(c) > 0
    BY <1>0, <1>1, EmptySeq DEF TypeOK, ChunkInv, Chunk
  <2> QED BY <2>1, OnlyTask
<1>5. ~clean[c] => TurnOK(c)'
  BY <1>1 DEF TurnOK
<1>6. CASE SubmitFrame
  <2>1. PICK i \in Slots :
          /\ ~Occupied(i)
          /\ g_async_queue' = [g_async_queue EXCEPT ![i] =
               [st |-> "ready", fd |-> c, seq |-> next_req_seq[c],
                cs |-> sess[c], org |-> gen[c], fresh |-> FALSE]]
    BY <1>0, <1>6 DEF SubmitFrame, xlab_async_submit
  <2>2. /\ \A j \in Slots : j # i => g_async_queue'[j] = g_async_queue[j]
        /\ g_async_queue'[i].st = "ready" /\ g_async_queue'[i].fd = c
        /\ g_async_queue'[i].seq = next_req_seq[c]
    BY <2>1 DEF TypeOK, AsyncTypeOK
  <2>4. ASSUME NEW g \in Fds, g # c PROVE TurnOK(g)'
    <3>1. SameTasks(g)
      BY <2>1, <2>2, <2>4 DEF SameTasks, TasksOf, Occupied
    <3> QED BY <1>3, <2>4, <3>1
  <2>5. ASSUME clean[c] PROVE TurnOK(c)'
    <3>1. TasksOf(c)' = {i}
      BY <1>4, <2>2, <2>5 DEF TasksOf, Occupied
    <3>2. /\ resp_seq_expected'[c] = resp_seq_expected[c]
          /\ resp_seq_expected[c] <= next_req_seq[c]
      BY <1>6, <2>5 DEF SubmitFrame, OrderInv, FdOK, CleanOK
    <3>3. "reject" \notin Kinds => resp_seq_expected[c] = next_req_seq[c]
      BY <1>1, <1>4, <2>5 DEF TurnInv, TurnOK
    <3> QED BY <1>1, <1>2, <2>2, <3>1, <3>2, <3>3 DEF TurnOK
  <2> QED BY <1>5, <2>4, <2>5 DEF TurnInv
<1>7. CASE RejectFrame \/ AnswerNow \/ AnswerLater
  <2>1. UNCHANGED g_async_queue
    BY <1>7 DEF RejectFrame, AnswerNow, AnswerLater, asyncVars
  <2>2. ASSUME clean[c] PROVE TurnOK(c)'
    <3>1. TasksOf(c)' = {}
      BY <1>4, <2>1, <2>2, TableKept DEF SameTasks
    <3>2. CASE RejectFrame
      <4>1. "reject" \in Kinds
        <5>1. todo \in Seq(Kinds) /\ todo # <<>>
          BY <1>1 DEF TypeOK, ChunkInv
        <5>2. Head(todo) \in Kinds
          BY <5>1, HeadTailProperties
        <5> QED BY <3>2, <5>2 DEF RejectFrame
      <4> QED BY <3>1, <4>1 DEF TurnOK
    <3>3. CASE AnswerNow \/ AnswerLater
      <4>1. resp_seq_expected'[c] = next_req_seq[c] + 1
        BY <1>0, <3>3 DEF TypeOK, AnswerNow, AnswerLater
      <4> QED BY <1>2, <3>1, <4>1 DEF TurnOK
    <3> QED BY <1>7, <3>2, <3>3
  <2> QED BY <1>3, <1>5, <2>1, <2>2, TableKept DEF TurnInv
<1> QED BY <1>6, <1>7 DEF ParseFrame

LEMMA TurnFlush ==
    ASSUME TypeOK, TaskInv, OrderInv, WindowInv, Window = 1, TurnInv,
           xlab_async_flush_completed
    PROVE  TurnInv'
<1>1. NoNewTask
  BY FlushOldTasks
<1>2. ASSUME UNCHANGED <<clean, sess, next_req_seq, resp_seq_expected>>,
             \A i \in Slots : Occupied(i) => g_async_queue'[i].st # "free"
      PROVE  TurnInv'
  <2>1. \A f \in Fds : SameTasks(f)
    BY <1>1, <1>2, TasksKept DEF TasksOf
  <2> QED BY <1>2, <2>1, TurnStays DEF TurnInv
<1>3. CASE FlushDrain \/ FlushLock
  BY <1>2, <1>3 DEF FlushDrain, FlushLock, connVars, sessVars, Occupied
<1>4. CASE FlushSlot
  <2>0. UNCHANGED <<clean, sess, next_req_seq>>
    BY <1>4, FlushFrame
  <2>1. ASSUME LeaveTask(idx)
        PROVE  \A i \in Slots : Occupied(i) => g_async_queue'[i].st # "free"
    BY <2>1 DEF TypeOK, AsyncTypeOK, LeaveTask, Occupied, Task, Free
  <2>2. CASE LeaveTask(idx) /\ UNCHANGED resp_seq_expected
    BY <1>2, <2>0, <2>1, <2>2
  <2>3. CASE Completed /\ FreeTask(idx)
    <3>0. PICK f \in Fds : f = TaskFd
      BY <2>3, CompletedTask
    <3>1. idx \in TasksOf(f) /\ TaskSeq \in Nat
      BY <2>3, <3>0, CompletedTask
    <3>2. ASSUME NEW g \in Fds, g # f,
                 resp_seq_expected'[g] = resp_seq_expected[g]
          PROVE  TurnOK(g)'
      <4>1. \A i \in TasksOf(g) : g_async_queue'[i].st # "free"
        BY <2>3, <3>1, <3>2 DEF TypeOK, AsyncTypeOK, FreeTask, TasksOf, Occupied
      <4> QED BY <1>1, <2>0, <3>2, <4>1, TasksKept, TurnStays DEF TurnInv
    <3>3. ASSUME ~HasSession(f) \/ ~clean[f] PROVE TurnOK(f)'
      BY <2>0, <3>3 DEF TurnOK, HasSession
    <3>4. CASE UNCHANGED resp_seq_expected /\ (~HasSession(f) \/ ~clean[f])
      BY <3>2, <3>3, <3>4 DEF TurnInv
    <3>5. CASE Advance(f) /\ TaskSeq = resp_seq_expected[f]
      <4>1. /\ resp_seq_expected'[f] = resp_seq_expected[f] + 1
            /\ \A g \in Fds : g # f =>
                  resp_seq_expected'[g] = resp_seq_expected[g]
        BY <3>5 DEF TypeOK, Advance
      <4>2. ASSUME clean[f] PROVE TasksOf(f)' = {}
        BY <2>3, <3>1, <4>2, OnlyTask, TaskFreed
      <4>3. clean[f] /\ HasSession(f) =>
              resp_seq_expected[f] + 1 = next_req_seq[f]
        BY <3>1, <3>5 DEF TurnInv, TurnOK, TaskSeq
      <4>4. TurnOK(f)'
        BY <2>0, <4>1, <4>2, <4>3 DEF TurnOK, HasSession
      <4> QED BY <3>2, <4>1, <4>4 DEF TurnInv
    <3>6. CASE FlushDrop
      BY <3>0, <3>4, <3>6 DEF FlushDrop, sessVars
    <3>7. CASE FlushBusy \/ FlushQueue
      BY <3>0, <3>5, <3>7 DEF FlushBusy, FlushQueue, InTurn
    <3>8. CASE FlushDangling
      <4>1. ~HasSession(f) \/ ~clean[f]
        BY <3>0, <3>1, <3>8 DEF FlushDangling, TargetAlive, TasksOf, HasSession,
           OrderInv, FdOK, CleanOK, OwnTasks
      <4> QED BY <3>4, <3>8, <4>1 DEF FlushDangling, sessVars
    <3>9. CASE FlushSkip
      BY <1>2, <2>0, <2>1, <3>9 DEF FlushSkip, sessVars
    <3> QED BY <1>4, <3>6, <3>7, <3>8, <3>9 DEF FlushSlot
  <2> QED BY <1>4, <2>2, <2>3 DEF FlushSlot, FlushSkip, FlushDrop, FlushBusy,
         FlushQueue, FlushDangling, sessVars
<1> QED BY <1>3, <1>4 DEF xlab_async_flush_completed

LEMMA TurnInvariant ==
    ASSUME Window = 1
    PROVE  Spec => []TurnInv
<1>1. Init => TurnInv
  BY DEF Init, TurnInv, TurnOK, HasSession
<1>2. /\ TypeOK /\ ChunkInv /\ EventInv /\ RequestInv /\ OrderInv /\ WindowInv
      /\ TurnInv /\ [Next]_vars
      => TurnInv'
  <2> SUFFICES ASSUME TypeOK, ChunkInv, EventInv, SessionInv, TaskInv, OrderInv,
                      WindowInv, TurnInv, [Next]_vars
               PROVE  TurnInv'
    BY DEF RequestInv
  <2>1. CASE EpollWait \/ Hardware \/ UNCHANGED vars
    <3>1. UNCHANGED <<clean, sess, next_req_seq, resp_seq_expected>>
      BY <2>1 DEF EpollWait, Hardware, connVars, sessVars, vars
    <3>2. ASSUME NEW f \in Fds PROVE SameTasks(f)
      BY <2>1, RunningTasksKept
    <3> QED BY <3>1, <3>2, TurnStays DEF TurnInv
  <2> QED BY <2>1, TurnEvents, TurnParse, TurnFlush DEF Next, Handler
<1> QED BY <1>1, <1>2, TypeInvariant, EventInvariant, RequestInvariant,
        OrderInvariant, WindowInvariant, PTL DEF Spec

(* The invariant, told slot by slot. *)
LEMMA TurnInvMeaning ==
    ASSUME TypeOK, TurnInv, NEW i \in Slots, Occupied(i),
           clean[g_async_queue[i].fd], HasSession(g_async_queue[i].fd)
    PROVE  LET t == g_async_queue[i]
           IN /\ resp_seq_expected[t.fd] <= t.seq
              /\ "reject" \notin Kinds => t.seq = resp_seq_expected[t.fd]
<1>1. PICK f \in Fds : f = g_async_queue[i].fd
  BY DEF TypeOK, AsyncTypeOK, Occupied, Task, Free
<1>2. i \in TasksOf(f)
  BY <1>1 DEF TasksOf
<1> QED BY <1>1, <1>2 DEF TurnInv, TurnOK

(* A client that waits for each answer always finds its result in turn:    *)
(* for it the two ways in which the turn moves agree.                      *)
THEOREM WaitersInTurn == Spec => []WaiterInTurn
<1>1. CASE Window = 1
  <2>1. TypeOK /\ TurnInv => WaiterInTurn
    BY TurnInvMeaning DEF WaiterInTurn
  <2> QED BY <1>1, <2>1, TurnInvariant, TypeCorrect, PTL
<1>2. CASE Window # 1
  <2>1. WaiterInTurn
    BY <1>2 DEF WaiterInTurn
  <2> QED BY <2>1, PTL
<1> QED BY <1>1, <1>2

(* Its requests are never stranded, damaged frames or not: what the        *)
(* comment in xlab_conn_read promises holds for it, and Stranded shows     *)
(* that a second open request is enough to break it.                       *)
THEOREM WaitersNotStranded ==
    ASSUME Window = 1
    PROVE  Spec => []NotStranded
<1>1. TypeOK /\ RequestInv /\ TurnInv => NotStranded
  <2> SUFFICES ASSUME TypeOK, TaskInv, TurnInv, NEW i \in Slots, Occupied(i),
                      clean[g_async_queue[i].fd],
                      g_async_queue[i].cs = sess[g_async_queue[i].fd]
               PROVE  g_async_queue[i].seq
                        >= resp_seq_expected[g_async_queue[i].fd]
    BY DEF NotStranded, RequestInv
  <2>1. g_async_queue[i] \in Task
    BY DEF TypeOK, AsyncTypeOK, Occupied, Free
  <2>2. /\ HasSession(g_async_queue[i].fd)
        /\ g_async_queue[i].seq \in Nat
        /\ resp_seq_expected[g_async_queue[i].fd] \in Nat
    BY <2>1 DEF TypeOK, Task, TaskInv, TaskOK, HasSession
  <2> QED BY <2>2, TurnInvMeaning
<1> QED BY <1>1, TurnInvariant, RequestInvariant, TypeCorrect, PTL

-----------------------------------------------------------------------------
(* A kernel that takes every answer whole.  A connection that is not yet   *)
(* registered has no session; a registered one with something queued waits *)
(* for output, because a write leaves nothing behind.                      *)
ArmedOK(f) ==
    clean[f] =>
        /\ conn[f] = "new" => ~HasSession(f)
        /\ conn[f] = "open" /\ resp_queue[f] # <<>> => mode[f] = "WRITE"

ArmedInv == \A f \in Fds : ArmedOK(f)

LEMMA ArmedStays ==
    ASSUME NEW f \in Fds, ArmedOK(f), conn'[f] = conn[f],
           clean'[f] = clean[f], mode'[f] = mode[f], sess'[f] = sess[f],
           resp_queue'[f] = resp_queue[f]
    PROVE  ArmedOK(f)'
BY DEF ArmedOK, HasSession

LEMMA ArmedEvents ==
    ASSUME TypeOK, EventInv, OrderInv, ~SlowKernel, ArmedInv, NEW f \in Fds,
           \/ Accept(f) \/ xlab_conn_read(f)
           \/ xlab_conn_write(f) \/ xlab_conn_error(f)
    PROVE  ArmedInv'
<1>1. CASE Accept(f)
  <2>1. clean'[f] => sess'[f] = 0
    BY <1>1 DEF TypeOK, Accept, sessVars, HasSession
  <2>2. ArmedOK(f)'
    BY <1>1, <2>1 DEF TypeOK, Accept, ArmedOK, HasSession
  <2> QED BY <1>1, <2>2, ArmedStays DEF TypeOK, Accept, ArmedInv, sessVars
<1>2. CASE ReadEnd(f) \/ WriteFail(f) \/ xlab_conn_error(f)
  <2>1. conn'[f] = "free"
    BY <1>2 DEF TypeOK, ReadEnd, WriteFail, xlab_conn_error, xlab_conn_close
  <2>2. ArmedOK(f)'
    BY <2>1 DEF ArmedOK
  <2>3. ASSUME NEW g \in Fds, g # f PROVE ArmedOK(g)'
    BY <1>2, <2>3, ArmedStays DEF TypeOK, ReadEnd, WriteFail, xlab_conn_error,
       xlab_session_remove, xlab_conn_close, ArmedInv
  <2> QED BY <2>2, <2>3 DEF ArmedInv
<1>3. CASE ReadChunk(f) \/ ReadAgain(f)
  <2>1. /\ conn[f] = "open"
        /\ sess' = [sess EXCEPT ![f] = IF @ = 0 THEN gen[f] ELSE @]
        /\ UNCHANGED <<conn, mode>> \/ xlab_conn_close(f)
        /\ UNCHANGED <<clean, resp_queue>>
    BY <1>3 DEF EventInv, EventsNotStale, ReadChunk, ReadAgain, Dispatch,
       xlab_conn_close, connVars
  <2>2. ArmedOK(f)'
    BY <2>1 DEF TypeOK, xlab_conn_close, ArmedInv, ArmedOK
  <2>3. ASSUME NEW g \in Fds, g # f PROVE ArmedOK(g)'
    BY <2>1, <2>3, ArmedStays DEF TypeOK, xlab_conn_close, ArmedInv
  <2> QED BY <2>2, <2>3 DEF ArmedInv
<1>4. CASE WriteRegister(f) \/ WriteSome(f)
  <2>1. /\ UNCHANGED <<clean, sess>>
        /\ mode' = [mode EXCEPT ![f] = "READ"]
        /\ conn' = [conn EXCEPT ![f] = "open"]
    BY <1>4 DEF TypeOK, WriteRegister, WriteSome, xlab_epoll_change_mode,
       sessVars
  <2>2. clean[f] => resp_queue'[f] = <<>>
    <3>1. CASE WriteRegister(f)
      BY <3>1 DEF WriteRegister, ArmedInv, ArmedOK, OrderInv, FdOK,
         NoSessionEmpty, sessVars
    <3>2. CASE WriteSome(f)
      BY <3>2 DEF TypeOK, WriteSome
    <3> QED BY <1>4, <3>1, <3>2
  <2>3. ArmedOK(f)'
    BY <2>1, <2>2 DEF TypeOK, ArmedOK
  <2>4. ASSUME NEW g \in Fds, g # f PROVE ArmedOK(g)'
    <3>1. resp_queue'[g] = resp_queue[g]
      BY <1>4, <2>4 DEF TypeOK, WriteRegister, WriteSome, sessVars
    <3> QED BY <2>1, <2>4, <3>1, ArmedStays DEF TypeOK, ArmedInv
  <2> QED BY <2>3, <2>4 DEF ArmedInv
<1> QED BY <1>1, <1>2, <1>3, <1>4 DEF xlab_conn_read, xlab_conn_write

LEMMA ArmedFlush ==
    ASSUME TypeOK, OrderInv, ArmedInv, xlab_async_flush_completed
    PROVE  ArmedInv'
<1>1. UNCHANGED <<conn, clean, sess>>
  BY FlushFrame DEF xlab_async_flush_completed, FlushDrain, FlushLock, connVars,
     sessVars
<1>2. CASE UNCHANGED <<mode, resp_queue>>
  BY <1>1, <1>2, ArmedStays DEF ArmedInv
<1>3. CASE Completed /\ ArmWrite(TaskFd)
            /\ (FlushQueue \/ UNCHANGED resp_queue)
  <2>0. PICK f \in Fds : f = TaskFd
    BY <1>3, CompletedTask
  <2>1. /\ conn[f] # "free" => mode'[f] = "WRITE"
        /\ FlushQueue => HasSession(f)
        /\ \A g \in Fds : g # f =>
              mode'[g] = mode[g] /\ resp_queue'[g] = resp_queue[g]
    BY <1>3, <2>0 DEF TypeOK, ArmWrite, xlab_epoll_change_mode, connVars,
       FlushQueue
  <2>2. ArmedOK(f)'
    BY <1>1, <2>1 DEF ArmedInv, ArmedOK, HasSession
  <2>3. ASSUME NEW g \in Fds, g # f PROVE ArmedOK(g)'
    BY <1>1, <2>1, <2>3, ArmedStays DEF ArmedInv
  <2> QED BY <2>2, <2>3 DEF ArmedInv
<1> QED BY <1>2, <1>3 DEF xlab_async_flush_completed, FlushDrain, FlushLock,
       FlushSlot, FlushSkip, FlushDrop, FlushBusy, FlushQueue, FlushDangling,
       connVars, sessVars

LEMMA ArmedInvariant ==
    ASSUME ~SlowKernel
    PROVE  Spec => []ArmedInv
<1>1. Init => ArmedInv
  BY DEF Init, ArmedInv, ArmedOK, HasSession
<1>2. TypeOK /\ EventInv /\ OrderInv /\ ArmedInv /\ [Next]_vars => ArmedInv'
  <2> SUFFICES ASSUME TypeOK, EventInv, OrderInv, ArmedInv, [Next]_vars
               PROVE  ArmedInv'
    OBVIOUS
  <2>1. CASE EpollWait \/ Hardware \/ UNCHANGED vars
    BY <2>1, ArmedStays DEF EpollWait, Hardware, connVars, sessVars, vars,
       ArmedInv
  <2>2. CASE ParseFrame
    <3>1. UNCHANGED <<conn, clean, mode, sess, resp_queue>>
      BY <2>2 DEF ParseFrame, RejectFrame, SubmitFrame, AnswerNow, AnswerLater,
         connVars
    <3> QED BY <3>1, ArmedStays DEF ArmedInv
  <2> QED BY <2>1, <2>2, ArmedEvents, ArmedFlush DEF Next, Handler
<1> QED BY <1>1, <1>2, EventInvariant, OrderInvariant, TypeCorrect, PTL
        DEF Spec

(* While something is queued the socket waits for EPOLLOUT, as the comment *)
(* in xlab_handler_write promises, if the kernel never takes less than it  *)
(* is given; Rearm shows what a short write does.                          *)
THEOREM FastKernelStaysArmed ==
    ASSUME ~SlowKernel
    PROVE  Spec => []QueuedImpliesArmed
<1>1. ArmedInv => QueuedImpliesArmed
  BY DEF ArmedInv, ArmedOK, QueuedImpliesArmed
<1> QED BY <1>1, ArmedInvariant, PTL

-----------------------------------------------------------------------------
(* Who has the numbers from the turn on.  The invariant leaves target_cs   *)
(* to OrderInv: the tasks of a clean connection are those of its session.  *)
Taken(f, n) == \E i \in TasksOf(f) : g_async_queue[i].seq = n

OwnedOK(f) ==
    clean[f] /\ HasSession(f) =>
        \A n \in Ahead(f) : n \in refused[f] \/ Taken(f, n)

OwnedInv == \A f \in Fds : OwnedOK(f)

(* What a step of Refusals adds to one of Gateway. *)
Remembers(f) ==
    \A n \in Ahead(f)' : n \in refused[f] \cup TakenInVain(f) => n \in refused'[f]

LEMMA OwnedStays ==
    ASSUME NEW f \in Fds, OwnedOK(f), Remembers(f), SameTasks(f),
           clean'[f] = clean[f], sess'[f] = sess[f],
           next_req_seq'[f] = next_req_seq[f],
           resp_seq_expected'[f] = resp_seq_expected[f]
    PROVE  OwnedOK(f)'
<1>1. Ahead(f)' = Ahead(f)
  BY DEF Ahead
<1>2. \A n : Taken(f, n) => Taken(f, n)'
  BY DEF Taken, SameTasks
<1> QED BY <1>1, <1>2 DEF OwnedOK, Remembers, HasSession

(* No number is ahead of the turn of a session that has just answered      *)
(* inline, or has just begun.                                              *)
LEMMA OwnedNone ==
    ASSUME NEW f \in Fds, next_req_seq'[f] \in Nat,
           resp_seq_expected'[f] = next_req_seq'[f]
    PROVE  OwnedOK(f)'
<1>1. Ahead(f)' = {}
  BY DEF Ahead
<1> QED BY <1>1 DEF OwnedOK

LEMMA OwnedGone ==
    ASSUME NEW f \in Fds, clean'[f] => sess'[f] = 0
    PROVE  OwnedOK(f)'
BY DEF OwnedOK, HasSession

LEMMA OwnedEvents ==
    ASSUME TypeOK, OrderInv, OwnedInv, \A g \in Fds : Remembers(g),
           NEW f \in Fds,
           \/ Accept(f) \/ xlab_conn_read(f)
           \/ xlab_conn_write(f) \/ xlab_conn_error(f)
    PROVE  OwnedInv'
<1>1. \A g \in Fds : SameTasks(g)
  BY TableKept DEF Accept, xlab_conn_read, ReadChunk, ReadEnd, ReadAgain,
     xlab_conn_write, WriteRegister, WriteFail, WriteSome, xlab_conn_error,
     asyncVars
<1>2. ASSUME NEW g \in Fds, clean'[g] = clean[g], sess'[g] = sess[g],
             next_req_seq'[g] = next_req_seq[g],
             resp_seq_expected'[g] = resp_seq_expected[g]
      PROVE  OwnedOK(g)'
  BY <1>1, <1>2, OwnedStays DEF OwnedInv
<1>3. CASE Accept(f)
  <2>1. /\ UNCHANGED sessVars
        /\ \A g \in Fds : g # f => clean'[g] = clean[g]
        /\ clean'[f] => sess'[f] = 0
    BY <1>3 DEF TypeOK, Accept, HasSession, sessVars
  <2> QED BY <1>2, <2>1, OwnedGone DEF OwnedInv, sessVars
<1>4. CASE ReadEnd(f) \/ WriteFail(f) \/ xlab_conn_error(f)
  <2>1. /\ UNCHANGED clean /\ sess'[f] = 0
        /\ \A g \in Fds : g # f =>
              /\ sess'[g] = sess[g] /\ next_req_seq'[g] = next_req_seq[g]
              /\ resp_seq_expected'[g] = resp_seq_expected[g]
    BY <1>4 DEF TypeOK, ReadEnd, WriteFail, xlab_conn_error,
       xlab_session_remove, xlab_conn_close
  <2> QED BY <1>2, <2>1, OwnedGone DEF OwnedInv
<1>5. CASE WriteRegister(f) \/ WriteSome(f)
  <2>1. UNCHANGED <<clean, sess, next_req_seq, resp_seq_expected>>
    BY <1>5 DEF WriteRegister, WriteSome, xlab_epoll_change_mode, sessVars
  <2> QED BY <1>2, <2>1 DEF OwnedInv
<1>6. CASE ReadChunk(f) \/ ReadAgain(f)
  <2>1. /\ UNCHANGED <<clean, next_req_seq, resp_seq_expected>>
        /\ \A g \in Fds : g # f \/ HasSession(g) => sess'[g] = sess[g]
    BY <1>6 DEF TypeOK, ReadChunk, ReadAgain, HasSession, xlab_conn_close,
       connVars
  <2>2. ASSUME ~HasSession(f) PROVE OwnedOK(f)'
    <3>1. next_req_seq[f] = 0 /\ resp_seq_expected[f] = 0
      BY <2>2 DEF OrderInv, FdOK, NoSessionEmpty
    <3> QED BY <2>1, <3>1, OwnedNone
  <2> QED BY <1>2, <2>1, <2>2 DEF OwnedInv
<1> QED BY <1>3, <1>4, <1>5, <1>6 DEF xlab_conn_read, xlab_conn_write

LEMMA OwnedParse ==
    ASSUME TypeOK, OrderInv, OwnedInv, \A g \in Fds : Remembers(g), ParseFrame
    PROVE  OwnedInv'
<1>0. PICK c \in Fds : c = cur
  BY DEF TypeOK
<1>1. /\ pc = "parse" /\ clean' = clean /\ sess' = sess
      /\ next_req_seq' = [next_req_seq EXCEPT ![c] = @ + 1]
      /\ next_req_seq[c] \in Nat /\ resp_seq_expected[c] \in Nat
  BY <1>0 DEF TypeOK, ParseFrame, RejectFrame, SubmitFrame, AnswerNow,
     AnswerLater, TakeSeq, connVars, xlab_epoll_change_mode
<1>2. PICK new \in Nat : new = next_req_seq[c] /\ next_req_seq'[c] = new + 1
  BY <1>1 DEF TypeOK
<1>3. ASSUME NEW g \in Fds, g # c, SameTasks(g) PROVE OwnedOK(g)'
  <2>1. /\ next_req_seq'[g] = next_req_seq[g]
        /\ resp_seq_expected'[g] = resp_seq_expected[g]
    BY <1>0, <1>1, <1>3 DEF TypeOK, ParseFrame, RejectFrame, SubmitFrame,
       AnswerNow, AnswerLater
  <2> QED BY <1>1, <1>3, <2>1, OwnedStays DEF OwnedInv
(* The new number goes to somebody, and nobody loses an old one. *)
<1>4. ASSUME resp_seq_expected'[c] = resp_seq_expected[c],
             \A n \in Ahead(c) : Taken(c, n) => Taken(c, n)',
             new \in TakenInVain(c) \/ Taken(c, new)'
      PROVE  OwnedOK(c)'
  <2>1. Ahead(c)' \subseteq Ahead(c) \cup {new}
    BY <1>1, <1>2, <1>4 DEF Ahead
  <2>2. ASSUME clean[c], HasSession(c), NEW n \in Ahead(c)'
        PROVE  n \in refused'[c] \/ Taken(c, n)'
    <3>1. CASE n \in Ahead(c)
      BY <1>4, <2>2, <3>1 DEF OwnedInv, OwnedOK, Remembers
    <3>2. CASE n = new
      BY <1>4, <2>2, <3>2 DEF Remembers
    <3> QED BY <2>1, <3>1, <3>2
  <2> QED BY <1>1, <2>2 DEF OwnedOK, HasSession
<1>5. CASE SubmitFrame
  <2>1. PICK i \in Slots :
          /\ ~Occupied(i)
          /\ g_async_queue' = [g_async_queue EXCEPT ![i] =
               [st |-> "ready", fd |-> c, seq |-> next_req_seq[c],
                cs |-> sess[c], org |-> gen[c], fresh |-> FALSE]]
    BY <1>0, <1>5 DEF SubmitFrame, xlab_async_submit
  <2>2. /\ \A j \in Slots : j # i => g_async_queue'[j] = g_async_queue[j]
        /\ g_async_queue'[i].st = "ready" /\ g_async_queue'[i].fd = c
        /\ g_async_queue'[i].seq = next_req_seq[c]
    BY <2>1 DEF TypeOK, AsyncTypeOK
  <2>3. ASSUME NEW g \in Fds, g # c PROVE OwnedOK(g)'
    <3>1. SameTasks(g)
      BY <2>1, <2>2, <2>3 DEF SameTasks, TasksOf, Occupied
    <3> QED BY <1>3, <2>3, <3>1
  <2>4. Taken(c, new)'
    <3>1. i \in TasksOf(c)'
      BY <2>2 DEF TasksOf, Occupied
    <3> QED BY <1>2, <2>2, <3>1 DEF Taken
  <2>5. \A n \in Ahead(c) : Taken(c, n) => Taken(c, n)'
    BY <2>1, <2>2 DEF Taken, TasksOf, Occupied
  <2>6. resp_seq_expected'[c] = resp_seq_expected[c]
    BY <1>5 DEF SubmitFrame
  <2> QED BY <1>4, <2>3, <2>4, <2>5, <2>6 DEF OwnedInv
<1>6. CASE RejectFrame \/ AnswerNow \/ AnswerLater
  <2>1. \A g \in Fds : SameTasks(g)
    BY <1>6, TableKept DEF RejectFrame, AnswerNow, AnswerLater, asyncVars
  <2>2. ASSUME RejectFrame PROVE OwnedOK(c)'
    <3>1. new \in TakenInVain(c)
      BY <1>0, <1>1, <1>2, <2>2 DEF RejectFrame, TakenInVain
    <3>2. resp_seq_expected'[c] = resp_seq_expected[c]
      BY <2>2 DEF RejectFrame
    <3>3. \A n \in Ahead(c) : Taken(c, n) => Taken(c, n)'
      BY <2>1 DEF Taken, SameTasks
    <3> QED BY <1>4, <3>1, <3>2, <3>3
  <2>3. ASSUME AnswerNow \/ AnswerLater PROVE OwnedOK(c)'
    <3>1. resp_seq_expected'[c] = next_req_seq[c] + 1
      BY <1>0, <2>3 DEF TypeOK, AnswerNow, AnswerLater
    <3> QED BY <1>1, <1>2, <3>1, OwnedNone
  <2> QED BY <1>3, <1>6, <2>1, <2>2, <2>3 DEF OwnedInv
<1> QED BY <1>5, <1>6 DEF ParseFrame

LEMMA OwnedFlush ==
    ASSUME TypeOK, OrderInv, OwnedInv, \A g \in Fds : Remembers(g),
           xlab_async_flush_completed
    PROVE  OwnedInv'
<1>1. NoNewTask
  BY FlushOldTasks
<1>2. ASSUME UNCHANGED <<clean, sess, next_req_seq, resp_seq_expected>>,
             \A i \in Slots : Occupied(i) => g_async_queue'[i].st # "free"
      PROVE  OwnedInv'
  <2>1. \A f \in Fds : SameTasks(f)
    BY <1>1, <1>2, TasksKept DEF TasksOf
  <2> QED BY <1>2, <2>1, OwnedStays DEF OwnedInv
<1>3. CASE FlushDrain \/ FlushLock
  BY <1>2, <1>3 DEF FlushDrain, FlushLock, connVars, sessVars, Occupied
<1>4. CASE FlushSlot
  <2>0. UNCHANGED <<clean, sess, next_req_seq>>
    BY <1>4, FlushFrame
  <2>1. ASSUME LeaveTask(idx)
        PROVE  \A i \in Slots : Occupied(i) => g_async_queue'[i].st # "free"
    BY <2>1 DEF TypeOK, AsyncTypeOK, LeaveTask, Occupied, Task, Free
  <2>2. CASE LeaveTask(idx) /\ UNCHANGED resp_seq_expected
    BY <1>2, <2>0, <2>1, <2>2
  <2>3. CASE Completed /\ FreeTask(idx)
    <3>0. PICK f \in Fds : f = TaskFd
      BY <2>3, CompletedTask
    <3>1. /\ idx \in TasksOf(f) /\ TaskSeq \in Nat
          /\ resp_seq_expected[f] \in Nat /\ next_req_seq[f] \in Nat
      BY <2>3, <3>0, CompletedTask DEF TypeOK
    <3>2. ASSUME NEW g \in Fds, g # f,
                 resp_seq_expected'[g] = resp_seq_expected[g]
          PROVE  OwnedOK(g)'
      <4>1. \A i \in TasksOf(g) : g_async_queue'[i].st # "free"
        BY <2>3, <3>1, <3>2 DEF TypeOK, AsyncTypeOK, FreeTask, TasksOf, Occupied
      <4> QED BY <1>1, <2>0, <3>2, <4>1, TasksKept, OwnedStays DEF OwnedInv
    <3>3. ASSUME ~HasSession(f) \/ ~clean[f] PROVE OwnedOK(f)'
      BY <2>0, <3>3 DEF OwnedOK, HasSession
    <3>4. CASE UNCHANGED resp_seq_expected /\ (~HasSession(f) \/ ~clean[f])
      BY <3>2, <3>3, <3>4 DEF OwnedInv
    <3>5. CASE Advance(f) /\ TaskSeq = resp_seq_expected[f]
      <4>1. /\ resp_seq_expected'[f] = resp_seq_expected[f] + 1
            /\ \A g \in Fds : g # f =>
                  resp_seq_expected'[g] = resp_seq_expected[g]
        BY <3>5 DEF TypeOK, Advance
      <4>2. ASSUME NEW n \in Ahead(f)'
            PROVE  n \in Ahead(f) /\ n # TaskSeq
        BY <2>0, <3>1, <3>5, <4>1, <4>2 DEF Ahead
      <4>3. ASSUME NEW n, n # TaskSeq, Taken(f, n) PROVE Taken(f, n)'
        <5>1. PICK j \in TasksOf(f) : g_async_queue[j].seq = n
          BY <4>3 DEF Taken
        <5>2. j # idx /\ j \in Slots
          BY <4>3, <5>1 DEF TaskSeq, TasksOf
        <5>3. g_async_queue'[j] = g_async_queue[j]
          BY <2>3, <5>2 DEF TypeOK, AsyncTypeOK, FreeTask
        <5> QED BY <5>1, <5>2, <5>3 DEF Taken, TasksOf, Occupied
      <4>4. OwnedOK(f)'
        BY <2>0, <4>2, <4>3 DEF OwnedInv, OwnedOK, Remembers, HasSession
      <4> QED BY <3>2, <4>1, <4>4 DEF OwnedInv
    <3>6. CASE FlushDrop
      BY <3>0, <3>4, <3>6 DEF FlushDrop, sessVars
    <3>7. CASE FlushBusy \/ FlushQueue
      BY <3>0, <3>5, <3>7 DEF FlushBusy, FlushQueue, InTurn
    <3>8. CASE FlushDangling
      <4>1. ~HasSession(f) \/ ~clean[f]
        BY <3>0, <3>1, <3>8 DEF FlushDangling, TargetAlive, TasksOf, HasSession,
           OrderInv, FdOK, CleanOK, OwnTasks
      <4> QED BY <3>4, <3>8, <4>1 DEF FlushDangling, sessVars
    <3>9. CASE FlushSkip
      BY <1>2, <2>0, <2>1, <3>9 DEF FlushSkip, sessVars
    <3> QED BY <1>4, <3>6, <3>7, <3>8, <3>9 DEF FlushSlot
  <2> QED BY <1>4, <2>2, <2>3 DEF FlushSlot, FlushSkip, FlushDrop, FlushBusy,
         FlushQueue, FlushDangling, sessVars
<1> QED BY <1>3, <1>4 DEF xlab_async_flush_completed

LEMMA OwnedStep ==
    ASSUME TypeOK, OrderInv, OwnedInv, \A g \in Fds : Remembers(g), [Next]_vars
    PROVE  OwnedInv'
<1>1. CASE EpollWait \/ Hardware \/ UNCHANGED vars
  <2>1. UNCHANGED <<clean, sess, next_req_seq, resp_seq_expected>>
    BY <1>1 DEF EpollWait, Hardware, connVars, sessVars, vars
  <2>2. ASSUME NEW f \in Fds PROVE SameTasks(f)
    BY <1>1, RunningTasksKept
  <2> QED BY <2>1, <2>2, OwnedStays DEF OwnedInv
<1> QED BY <1>1, OwnedEvents, OwnedParse, OwnedFlush DEF Next, Handler

(* A result on such a connection waits for other results or for a frame    *)
(* that was refused, for every number of clients, requests and slots.      *)
THEOREM NobodysTurn == RSpec => []TurnOwned
<1>1. RInit => Init /\ OwnedInv
  BY DEF RInit, Init, OwnedInv, OwnedOK, HasSession
<1>2. [RNext]_RVars => [Next]_vars
  BY DEF RNext, RVars
<1>3. TypeOK /\ OrderInv /\ OwnedInv /\ [RNext]_RVars => OwnedInv'
  <2> SUFFICES ASSUME TypeOK, OrderInv, OwnedInv, [RNext]_RVars
               PROVE  OwnedInv'
    OBVIOUS
  <2>1. CASE RNext
    <3>1. \A g \in Fds : Remembers(g)
      BY <2>1 DEF RNext, Remembers
    <3> QED BY <1>2, <3>1, OwnedStep
  <2>2. CASE UNCHANGED RVars
    BY <2>2 DEF RVars, vars, asyncVars, connVars, sessVars, OwnedInv, OwnedOK,
       Ahead, Taken, TasksOf, Occupied, HasSession
  <2> QED BY <2>1, <2>2
<1>4. TypeOK /\ OrderInv /\ OwnedInv => TurnOwned
  <2> SUFFICES ASSUME OrderInv, OwnedInv, NEW f \in Fds, clean[f],
                      HasSession(f), NEW n \in Ahead(f), Taken(f, n)
               PROVE  HasTurn(f, n)
    BY DEF TurnOwned, OwnedInv, OwnedOK
  <2>1. sess[f] = gen[f]
    BY DEF OrderInv, FdOK, CleanOK, OwnTasks, HasSession
  <2> QED BY <2>1 DEF Taken, HasTurn, TasksOf, OrderInv, FdOK, CleanOK, OwnTasks
<1>5. RSpec => Spec
  BY <1>1, <1>2, PTL DEF RSpec, Spec
<1> QED BY <1>1, <1>3, <1>4, <1>5, TypeCorrect, OrderInvariant, PTL DEF RSpec
=============================================================================
