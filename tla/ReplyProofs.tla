----------------------------- MODULE ReplyProofs -----------------------------
(***************************************************************************)
(* Gateway implements ReplyOrder, for every number of clients, requests,   *)
(* task slots and response slots.                                          *)
(***************************************************************************)
EXTENDS OrderProofs, Replies

-----------------------------------------------------------------------------
(* The numbers of a response queue.                                        *)

LEMMA NumbersType ==
    ASSUME NEW q \in Seq(Slot)
    PROVE  /\ Len(q) \in Nat /\ Numbers(q) \in Seq(Nat)
           /\ Len(Numbers(q)) = Len(q)
           /\ \A i \in 1 .. Len(q) : /\ q[i] \in Slot
                                     /\ Numbers(q)[i] = q[i].seq
<1>1. Len(q) \in Nat /\ \A i \in 1 .. Len(q) : q[i] \in Slot
  BY LenProperties, ElementOfSeq
<1>2. Numbers(q) \in [1 .. Len(q) -> Nat]
  BY <1>1 DEF Numbers, Slot
<1>3. Numbers(q) \in Seq(Nat)
  BY <1>1, <1>2, SeqDef
<1>4. Len(Numbers(q)) = Len(q)
  BY <1>1, <1>2, <1>3, LenProperties
<1> QED BY <1>1, <1>3, <1>4 DEF Numbers

LEMMA NumbersAppend ==
    ASSUME NEW q \in Seq(Slot), NEW s \in Slot
    PROVE  Numbers(Append(q, s)) = Append(Numbers(q), s.seq)
<1> DEFINE a == Append(q, s)
           b == Append(Numbers(q), s.seq)
<1>1. s.seq \in Nat
  BY DEF Slot
<1>2. /\ Len(q) \in Nat /\ Numbers(q) \in Seq(Nat)
      /\ Len(Numbers(q)) = Len(q)
      /\ \A i \in 1 .. Len(q) : Numbers(q)[i] = q[i].seq
  BY NumbersType
<1>3. /\ a \in Seq(Slot) /\ Len(a) = Len(q) + 1
      /\ \A i \in 1 .. Len(q) : a[i] = q[i]
      /\ a[Len(q) + 1] = s
  BY AppendProperties, LenProperties
<1>4. /\ b \in Seq(Nat) /\ Len(b) = Len(q) + 1
      /\ \A i \in 1 .. Len(q) : b[i] = Numbers(q)[i]
      /\ b[Len(q) + 1] = s.seq
  BY <1>1, <1>2, AppendProperties
<1> HIDE DEF a, b
<1>5. /\ Numbers(a) \in Seq(Nat) /\ Len(Numbers(a)) = Len(q) + 1
      /\ \A i \in 1 .. Len(q) + 1 : Numbers(a)[i] = a[i].seq
  BY <1>3, NumbersType
<1>6. ASSUME NEW i \in 1 .. Len(q) + 1 PROVE Numbers(a)[i] = b[i]
  <2>1. Numbers(a)[i] = a[i].seq
    BY <1>5
  <2>2. CASE i \in 1 .. Len(q)
    BY <1>2, <1>3, <1>4, <2>1, <2>2
  <2>3. CASE i = Len(q) + 1
    BY <1>3, <1>4, <2>1, <2>3
  <2> QED BY <1>2, <2>2, <2>3
<1>7. Numbers(a) = b
  BY <1>4, <1>5, <1>6, SeqEqual
<1> QED BY <1>7 DEF a, b

LEMMA NumbersRest ==
    ASSUME NEW q \in Seq(Slot), NEW n \in 0 .. Len(q)
    PROVE  /\ Rest(q, n) \in Seq(Slot)
           /\ Numbers(Rest(q, n)) =
                SubSeq(Numbers(q), n + 1, Len(Numbers(q)))
<1> DEFINE r == Rest(q, n)
           b == SubSeq(Numbers(q), n + 1, Len(Numbers(q)))
<1>1. /\ Len(q) \in Nat /\ Numbers(q) \in Seq(Nat)
      /\ Len(Numbers(q)) = Len(q)
      /\ \A i \in 1 .. Len(q) : q[i] \in Slot /\ Numbers(q)[i] = q[i].seq
  BY NumbersType
<1>2. /\ r \in Seq(Slot) /\ Len(r) = Len(q) - n
      /\ \A i \in 1 .. Len(q) - n : r[i] = q[n + i]
  BY <1>1, SubSeqProperties DEF Rest
<1>3. \A i \in n + 1 .. Len(q) : Numbers(q)[i] \in Nat
  BY <1>1, ElementOfSeq
<1>4. /\ b \in Seq(Nat) /\ Len(b) = Len(q) - n
      /\ \A i \in 1 .. Len(q) - n : b[i] = Numbers(q)[n + i]
  BY <1>1, <1>3, SubSeqProperties
<1> HIDE DEF r, b
<1>5. /\ Numbers(r) \in Seq(Nat) /\ Len(Numbers(r)) = Len(q) - n
      /\ \A i \in 1 .. Len(q) - n : Numbers(r)[i] = r[i].seq
  BY <1>2, NumbersType
<1>6. ASSUME NEW i \in 1 .. Len(q) - n PROVE Numbers(r)[i] = b[i]
  <2>1. n + i \in 1 .. Len(q)
    BY <1>1
  <2>2. Numbers(r)[i] = q[n + i].seq
    BY <1>2, <1>5
  <2>3. b[i] = Numbers(q)[n + i]
    BY <1>4
  <2> QED BY <1>1, <2>1, <2>2, <2>3
<1>7. Numbers(r) = b
  BY <1>4, <1>5, <1>6, SeqEqual
<1> QED BY <1>2, <1>7 DEF r, b

LEMMA NumbersHalf ==
    ASSUME NEW q \in Seq(Slot), q # <<>>
    PROVE  Numbers(HalfSent(q)) = Numbers(q)
<1>1. 1 \in 1 .. Len(q) /\ Len(q) \in Nat /\ q[1] \in Slot
  BY EmptySeq, ElementOfSeq
<1>2. [q[1] EXCEPT !.part = TRUE] \in Slot
  BY <1>1 DEF Slot
<1>3. HalfSent(q) = [q EXCEPT ![1] = [q[1] EXCEPT !.part = TRUE]]
  BY DEF HalfSent
<1>4. /\ Len(HalfSent(q)) = Len(q)
      /\ \A i \in 1 .. Len(q) : HalfSent(q)[i] =
            IF i = 1 THEN [q[1] EXCEPT !.part = TRUE] ELSE q[i]
  BY <1>1, <1>2, <1>3, ExceptSeq
<1>5. \A i \in 1 .. Len(q) : HalfSent(q)[i].seq = q[i].seq
  BY <1>1, <1>4 DEF Slot
<1> QED BY <1>4, <1>5 DEF Numbers

-----------------------------------------------------------------------------
(* One descriptor at a time.                                               *)

(* What a step may do to a client, in the terms of the mapping. *)
Unmoved(f) ==
    /\ AskedBy(f)' = AskedBy(f) /\ TurnOf(f)' = TurnOf(f)
    /\ WorkFor(f)' = WorkFor(f) /\ QueueOf(f)' = QueueOf(f)

Refused(f) ==
    /\ AskedBy(f)' = AskedBy(f) + 1 /\ TurnOf(f)' = TurnOf(f)
    /\ WorkFor(f)' = WorkFor(f) /\ QueueOf(f)' = QueueOf(f)

Replied(f) ==
    /\ AskedBy(f)' = AskedBy(f) + 1 /\ TurnOf(f)' = AskedBy(f) + 1
    /\ WorkFor(f)' = WorkFor(f)
    /\ \/ QueueOf(f)' = QueueOf(f)
       \/ QueueOf(f)' = Append(QueueOf(f), AskedBy(f))

Started(f) ==
    /\ AskedBy(f)' = AskedBy(f) + 1 /\ TurnOf(f)' = TurnOf(f)
    /\ WorkFor(f)' = WorkFor(f) \cup {AskedBy(f)} /\ QueueOf(f)' = QueueOf(f)

Finished(f) ==
    /\ TurnOf(f) \in WorkFor(f) /\ TurnOf(f) \in Nat
    /\ AskedBy(f)' = AskedBy(f) /\ TurnOf(f)' = TurnOf(f) + 1
    /\ WorkFor(f)' = WorkFor(f) \ {TurnOf(f)}
    /\ \/ QueueOf(f)' = QueueOf(f)
       \/ QueueOf(f)' = Append(QueueOf(f), TurnOf(f))

Sent(f) ==
    /\ AskedBy(f)' = AskedBy(f) /\ TurnOf(f)' = TurnOf(f)
    /\ WorkFor(f)' = WorkFor(f)
    /\ \E n \in 1 .. Len(QueueOf(f)) :
          QueueOf(f)' = SubSeq(QueueOf(f), n + 1, Len(QueueOf(f)))

Gone(f) ==
    /\ AskedBy(f)' = 0 /\ TurnOf(f)' = 0
    /\ WorkFor(f)' = {} /\ QueueOf(f)' = <<>>

Moved(f) ==
    \/ Refused(f) \/ Replied(f) \/ Started(f) \/ Finished(f) \/ Sent(f)
    \/ Gone(f)

(* A step that moves one client at most is a step of the promise. *)
LEMMA AllUnmoved ==
    ASSUME \A f \in Fds : Unmoved(f)
    PROVE  UNCHANGED Promise!vars
BY DEF Unmoved, Promise!vars

LEMMA OneMoved ==
    ASSUME NEW f \in Fds, \A g \in Fds : g # f => Unmoved(g), Moved(f)
    PROVE  Promise!Next
<1>1. CASE Refused(f)
  <2>1. Promise!Refuse(f)
    BY <1>1 DEF Refused, Unmoved, Promise!Refuse, Promise!Ask
  <2> QED BY <2>1 DEF Promise!Next
<1>2. CASE Replied(f)
  <2>1. Promise!AnswerAtOnce(f)
    BY <1>2 DEF Replied, Unmoved, Promise!AnswerAtOnce, Promise!Ask
  <2> QED BY <2>1 DEF Promise!Next
<1>3. CASE Started(f)
  <2>1. Promise!StartWork(f)
    BY <1>3 DEF Started, Unmoved, Promise!StartWork, Promise!Ask
  <2> QED BY <2>1 DEF Promise!Next
<1>4. CASE Finished(f)
  <2>0. PICK n \in WorkFor(f) : n = TurnOf(f) /\ n >= TurnOf(f)
    BY <1>4 DEF Finished
  <2>1. /\ [g \in Fds |-> WorkFor(g)]' =
              [[g \in Fds |-> WorkFor(g)] EXCEPT ![f] = @ \ {n}]
        /\ [g \in Fds |-> TurnOf(g)]' =
              [[g \in Fds |-> TurnOf(g)] EXCEPT ![f] = n + 1]
        /\ [g \in Fds |-> AskedBy(g)]' = [g \in Fds |-> AskedBy(g)]
    BY <1>4, <2>0 DEF Finished, Unmoved
  <2>2. \/ [g \in Fds |-> QueueOf(g)]' = [g \in Fds |-> QueueOf(g)]
        \/ [g \in Fds |-> QueueOf(g)]' =
              [[g \in Fds |-> QueueOf(g)] EXCEPT ![f] = Append(@, n)]
    BY <1>4, <2>0 DEF Finished, Unmoved
  <2>3. n \in [g \in Fds |-> WorkFor(g)][f] /\ n >= [g \in Fds |-> TurnOf(g)][f]
    BY <2>0
  <2>4. Promise!FinishWork(f)
    BY <2>1, <2>2, <2>3, Zenon DEF Promise!FinishWork
  <2> QED BY <2>4 DEF Promise!Next
<1>5. CASE Sent(f)
  <2>1. Promise!Send(f)
    BY <1>5 DEF Sent, Unmoved, Promise!Send
  <2> QED BY <2>1 DEF Promise!Next
<1>6. CASE Gone(f)
  <2>1. Promise!Leave(f)
    BY <1>6 DEF Gone, Unmoved, Promise!Leave
  <2> QED BY <2>1 DEF Promise!Next
<1> QED BY <1>1, <1>2, <1>3, <1>4, <1>5, <1>6 DEF Moved

-----------------------------------------------------------------------------
(* The work of a client.                                                   *)

(* The tasks of a descriptor are those it had, with their numbers. *)
SameWork(f) ==
    /\ TasksOf(f)' = TasksOf(f)
    /\ \A i \in TasksOf(f) : g_async_queue'[i].seq = g_async_queue[i].seq

LEMMA SameWorkOf ==
    ASSUME NEW f \in Fds, SameWork(f)
    PROVE  {g_async_queue[i].seq : i \in TasksOf(f)}' =
             {g_async_queue[i].seq : i \in TasksOf(f)}
BY DEF SameWork

(* No task is new, and none of the slots of the descriptor is freed.       *)
LEMMA KeptWork ==
    ASSUME NoNewTask, NEW f \in Fds,
           \A i \in TasksOf(f) : Occupied(i)'
    PROVE  SameWork(f)
BY DEF NoNewTask, SameWork, TasksOf, Occupied, SameTask

(* A descriptor whose session and tasks stay is not moved; nor is one that *)
(* is no client before or after.                                           *)
LEMMA SameSession ==
    ASSUME NEW f \in Fds, SameWork(f),
           clean'[f] = clean[f], sess'[f] = sess[f],
           next_req_seq'[f] = next_req_seq[f],
           resp_seq_expected'[f] = resp_seq_expected[f],
           resp_queue'[f] = resp_queue[f]
    PROVE  Unmoved(f)
<1>1. Live(f)' = Live(f)
  BY DEF Live, HasSession
<1>2. Numbers(resp_queue[f])' = Numbers(resp_queue[f])
  BY DEF Numbers
<1> QED BY <1>1, <1>2, SameWorkOf DEF Unmoved, AskedBy, TurnOf, WorkFor, QueueOf

LEMMA NoClient ==
    ASSUME NEW f \in Fds, ~Live(f), ~Live(f)'
    PROVE  Unmoved(f)
BY DEF Unmoved, AskedBy, TurnOf, WorkFor, QueueOf

LEMMA ClientGone ==
    ASSUME NEW f \in Fds, ~Live(f)'
    PROVE  Gone(f)
BY DEF Gone, AskedBy, TurnOf, WorkFor, QueueOf

(* Steps that leave sessions and tasks alone. *)
LEMMA Still ==
    ASSUME TypeOK, UNCHANGED <<clean, sessVars>>,
           UNCHANGED g_async_queue \/ HwRun
    PROVE  \A f \in Fds : Unmoved(f)
<1> SUFFICES ASSUME NEW f \in Fds PROVE Unmoved(f)
  OBVIOUS
<1>1. NoNewTask
  BY OldTasks
<1>2. \A i \in TasksOf(f) : Occupied(i)'
  <2>1. CASE UNCHANGED g_async_queue
    BY <2>1 DEF TasksOf, Occupied
  <2>2. CASE HwRun
    <3>1. ASSUME NEW i \in TasksOf(f) PROVE g_async_queue'[i].st # "free"
      <4>1. i \in Slots /\ g_async_queue[i] \in Task
        BY DEF TypeOK, AsyncTypeOK, TasksOf, Occupied, Free
      <4> QED BY <2>2, <4>1 DEF HwRun, Task
    <3> QED BY <3>1 DEF Occupied
  <2> QED BY <2>1, <2>2
<1>3. SameWork(f)
  BY <1>1, <1>2, KeptWork
<1> QED BY <1>3, SameSession DEF sessVars

(* A session that is removed takes its client with it.                     *)
LEMMA Closed ==
    ASSUME TypeOK, NEW f \in Fds, UNCHANGED asyncVars,
           xlab_session_remove(f), xlab_conn_close(f)
    PROVE  Promise!Next
<1>1. Gone(f)
  <2>1. ~Live(f)'
    BY DEF TypeOK, xlab_session_remove, Live, HasSession
  <2> QED BY <2>1, ClientGone
<1>2. ASSUME NEW g \in Fds, g # f PROVE Unmoved(g)
  <2>1. SameWork(g)
    BY DEF asyncVars, SameWork, TasksOf, Occupied
  <2>2. /\ clean'[g] = clean[g] /\ sess'[g] = sess[g]
        /\ next_req_seq'[g] = next_req_seq[g]
        /\ resp_seq_expected'[g] = resp_seq_expected[g]
        /\ resp_queue'[g] = resp_queue[g]
    BY <1>2 DEF TypeOK, xlab_session_remove, xlab_conn_close
  <2> QED BY <2>1, <2>2, SameSession
<1> QED BY <1>1, <1>2, OneMoved DEF Moved

(* Accepting a client makes the descriptor nobody's until it has read.     *)
LEMMA Accepted ==
    ASSUME TypeOK, NEW f \in Fds, Accept(f)
    PROVE  Promise!Next
<1>1. Gone(f)
  <2>1. clean'[f] => ~HasSession(f)
    BY DEF TypeOK, Accept
  <2>2. ~Live(f)'
    BY <2>1 DEF Accept, sessVars, Live, HasSession
  <2> QED BY <2>2, ClientGone
<1>2. ASSUME NEW g \in Fds, g # f PROVE Unmoved(g)
  <2>1. SameWork(g)
    BY DEF Accept, asyncVars, SameWork, TasksOf, Occupied
  <2>2. clean'[g] = clean[g] /\ UNCHANGED sessVars
    BY <1>2 DEF TypeOK, Accept
  <2> QED BY <2>1, <2>2, SameSession DEF sessVars
<1> QED BY <1>1, <1>2, OneMoved DEF Moved

(* A read that creates the session finds nothing of an earlier one.        *)
LEMMA FirstRead ==
    ASSUME TypeOK, EventInv, SessionInv, TaskInv, OrderInv,
           NEW f \in Fds, ReadChunk(f) \/ ReadAgain(f)
    PROVE  \A g \in Fds : Unmoved(g)
<1>1. /\ sess' = [sess EXCEPT ![f] = IF @ = 0 THEN gen[f] ELSE @]
      /\ UNCHANGED <<asyncVars, gen, clean, next_req_seq,
                     resp_seq_expected, resp_queue>>
      /\ conn[f] = "open"
  BY DEF ReadChunk, ReadAgain, connVars, xlab_conn_close, EventInv,
     EventsNotStale, Dispatch
<1>2. ASSUME NEW g \in Fds PROVE SameWork(g)
  BY <1>1 DEF asyncVars, SameWork, TasksOf, Occupied
<1>3. ASSUME NEW g \in Fds, g # f \/ HasSession(g) PROVE Unmoved(g)
  <2>1. sess'[g] = sess[g]
    BY <1>1, <1>3 DEF TypeOK, HasSession
  <2> QED BY <1>1, <1>2, <2>1, SameSession
<1>4. CASE ~HasSession(f)
  <2>1. CASE ~clean[f]
    <3>1. ~Live(f) /\ ~Live(f)'
      BY <1>1, <2>1 DEF Live
    <3> QED BY <1>3, <3>1, NoClient
  <2>2. CASE clean[f]
    <3>1. FdOK(f)
      BY DEF OrderInv
    <3>2. /\ OwnTasks(f)
          /\ resp_queue[f] = <<>> /\ next_req_seq[f] = 0
          /\ resp_seq_expected[f] = 0
      BY <1>4, <2>2, <3>1 DEF FdOK, CleanOK, NoSessionEmpty
    <3>3. TasksOf(f) = {}
      <4> SUFFICES ASSUME NEW i \in TasksOf(f) PROVE FALSE
        OBVIOUS
      <4>1. i \in Slots /\ Occupied(i) /\ g_async_queue[i].fd = f
        BY DEF TasksOf
      <4>2. g_async_queue[i].cs = gen[f] /\ gen[f] \in Nat
        BY <3>2, <4>1 DEF OwnTasks, TypeOK
      <4>3. TaskOK(i)
        BY <4>1 DEF TaskInv
      <4> QED BY <1>1, <1>4, <4>1, <4>2, <4>3 DEF TaskOK
    <3>4. TasksOf(f)' = {}
      BY <1>2, <3>3 DEF SameWork
    <3>5. Numbers(<<>>) = <<>>
      BY DEF Numbers
    <3>6. /\ AskedBy(f) = 0 /\ TurnOf(f) = 0
          /\ WorkFor(f) = {} /\ QueueOf(f) = <<>>
      BY <1>4 DEF AskedBy, TurnOf, WorkFor, QueueOf, Live
    <3>7. /\ AskedBy(f)' = 0 /\ TurnOf(f)' = 0
          /\ WorkFor(f)' = {} /\ QueueOf(f)' = <<>>
      <4>1. Numbers(resp_queue[f])' = <<>>
        BY <1>1, <3>2, <3>5 DEF Numbers
      <4> QED BY <1>1, <3>2, <3>4, <4>1 DEF AskedBy, TurnOf, WorkFor, QueueOf
    <3> QED BY <1>3, <3>6, <3>7 DEF Unmoved
  <2> QED BY <2>1, <2>2
<1> QED BY <1>3, <1>4

(* Sending takes whole answers from the front, or none but the beginning   *)
(* of one.                                                                 *)
LEMMA Written ==
    ASSUME TypeOK, NEW f \in Fds, WriteSome(f)
    PROVE  (\A g \in Fds : Unmoved(g)) \/ Promise!Next
<1> DEFINE q == resp_queue[f]
<1>1. /\ UNCHANGED <<asyncVars, clean, sess, next_req_seq,
                     resp_seq_expected>>
      /\ q \in Seq(Slot)
  BY DEF TypeOK, WriteSome, xlab_epoll_change_mode
<1>2. PICK n \in 0 .. Len(q), half \in BOOLEAN :
        /\ half => Rest(q, n) # <<>>
        /\ resp_queue' = [resp_queue EXCEPT ![f] =
             IF half THEN HalfSent(Rest(q, n)) ELSE Rest(q, n)]
  BY DEF WriteSome, Rest, HalfSent
<1>3. ASSUME NEW g \in Fds PROVE SameWork(g)
  BY <1>1 DEF asyncVars, SameWork, TasksOf, Occupied
<1>4. ASSUME NEW g \in Fds, g # f PROVE Unmoved(g)
  <2>1. resp_queue'[g] = resp_queue[g]
    BY <1>2, <1>4 DEF TypeOK
  <2> QED BY <1>1, <1>3, <2>1, SameSession
<1>5. resp_queue'[f] = IF half THEN HalfSent(Rest(q, n)) ELSE Rest(q, n)
  BY <1>2 DEF TypeOK
<1>6. /\ Len(q) \in Nat /\ Numbers(q) \in Seq(Nat)
      /\ Len(Numbers(q)) = Len(q)
      /\ Rest(q, n) \in Seq(Slot)
      /\ Numbers(Rest(q, n)) = SubSeq(Numbers(q), n + 1, Len(Numbers(q)))
  BY <1>1, NumbersType, NumbersRest
<1>7. Numbers(resp_queue'[f]) = SubSeq(Numbers(q), n + 1, Len(Numbers(q)))
  BY <1>2, <1>5, <1>6, NumbersHalf
<1>8. CASE ~Live(f)
  <2>1. ~Live(f)'
    BY <1>1, <1>8 DEF Live, HasSession
  <2> QED BY <1>4, <1>8, <2>1, NoClient
<1>9. CASE Live(f)
  <2>1. /\ Live(f)'
        /\ AskedBy(f)' = AskedBy(f) /\ TurnOf(f)' = TurnOf(f)
        /\ QueueOf(f) = Numbers(q)
    BY <1>1, <1>9 DEF Live, HasSession, AskedBy, TurnOf, QueueOf
  <2>2. WorkFor(f)' = WorkFor(f)
    BY <1>3, <1>9, <2>1, SameWorkOf DEF WorkFor
  <2>3. QueueOf(f)' = SubSeq(Numbers(q), n + 1, Len(Numbers(q)))
    <3>1. Numbers(resp_queue[f])' = Numbers(resp_queue'[f])
      BY DEF Numbers
    <3> QED BY <1>7, <2>1, <3>1 DEF QueueOf
  <2>4. CASE n = 0
    <3>1. SubSeq(Numbers(q), 0 + 1, Len(Numbers(q))) = Numbers(q)
      BY <1>6, SubSeqFull
    <3>2. Unmoved(f)
      BY <2>1, <2>2, <2>3, <2>4, <3>1 DEF Unmoved
    <3> QED BY <1>4, <3>2
  <2>5. CASE n # 0
    <3>1. n \in 1 .. Len(Numbers(q))
      BY <1>6, <2>5
    <3>2. Sent(f)
      BY <2>1, <2>2, <2>3, <3>1 DEF Sent
    <3> QED BY <1>4, <3>2, OneMoved DEF Moved
  <2> QED BY <2>4, <2>5
<1> QED BY <1>8, <1>9

(* One frame of a chunk. *)
LEMMA Parsed ==
    ASSUME TypeOK, SessionInv, ParseFrame
    PROVE  (\A g \in Fds : Unmoved(g)) \/ Promise!Next
<1>0. PICK c \in Fds : c = cur
  BY DEF TypeOK
<1>1. /\ HasSession(c)
      /\ gen[c] \in Nat /\ next_req_seq[c] \in Nat
      /\ resp_queue[c] \in Seq(Slot)
  BY <1>0 DEF TypeOK, SessionInv, ParseFrame
<1>2. /\ UNCHANGED <<clean, sess>>
      /\ next_req_seq' = [next_req_seq EXCEPT ![c] = @ + 1]
  <2>1. CASE RejectFrame \/ SubmitFrame
    BY <1>0, <2>1 DEF RejectFrame, SubmitFrame, TakeSeq, connVars
  <2>2. CASE AnswerNow
    BY <1>0, <2>2 DEF AnswerNow, TakeSeq, connVars
  <2>3. CASE AnswerLater
    BY <1>0, <2>3 DEF AnswerLater, TakeSeq, xlab_epoll_change_mode
  <2> QED BY <2>1, <2>2, <2>3 DEF ParseFrame
<1>3. /\ Live(c)' = Live(c)
      /\ next_req_seq'[c] = next_req_seq[c] + 1
  BY <1>2 DEF TypeOK, Live, HasSession
<1>4. ASSUME NEW g \in Fds, g # c, SameWork(g) PROVE Unmoved(g)
  <2>1. /\ next_req_seq'[g] = next_req_seq[g]
        /\ resp_seq_expected'[g] = resp_seq_expected[g]
        /\ resp_queue'[g] = resp_queue[g]
    BY <1>0, <1>2, <1>4 DEF TypeOK, ParseFrame, RejectFrame, SubmitFrame,
       AnswerNow, AnswerLater
  <2> QED BY <1>2, <1>4, <2>1, SameSession
<1>5. CASE SubmitFrame
  <2> DEFINE new == [st |-> "ready", fd |-> c, seq |-> next_req_seq[c],
                     cs |-> sess[c], org |-> gen[c], fresh |-> FALSE]
  <2>1. PICK i \in Slots :
          ~Occupied(i) /\ g_async_queue' = [g_async_queue EXCEPT ![i] = new]
    BY <1>0, <1>5 DEF SubmitFrame, xlab_async_submit
  <2>2. /\ \A j \in Slots : j # i => g_async_queue'[j] = g_async_queue[j]
        /\ g_async_queue'[i] = new
    BY <2>1 DEF TypeOK, AsyncTypeOK
  <2>3. ASSUME NEW g \in Fds, g # c PROVE Unmoved(g)
    <3>1. SameWork(g)
      BY <2>1, <2>2, <2>3 DEF SameWork, TasksOf, Occupied
    <3> QED BY <1>4, <2>3, <3>1
  <2>4. CASE ~Live(c)
    BY <1>3, <2>3, <2>4, NoClient
  <2>5. CASE Live(c)
    <3>1. TasksOf(c)' = TasksOf(c) \cup {i}
      BY <2>1, <2>2 DEF TasksOf, Occupied
    <3>2. {g_async_queue[j].seq : j \in TasksOf(c)}'
            = {g_async_queue[j].seq : j \in TasksOf(c)} \cup {next_req_seq[c]}
      <4>1. i \notin TasksOf(c) /\ TasksOf(c) \subseteq Slots
        BY <2>1 DEF TasksOf
      <4>2. \A j \in TasksOf(c) : g_async_queue'[j].seq = g_async_queue[j].seq
        BY <2>2, <4>1
      <4>3. g_async_queue'[i].seq = next_req_seq[c]
        BY <2>2
      <4> QED BY <3>1, <4>2, <4>3
    <3>3. UNCHANGED <<resp_seq_expected, resp_queue>>
      BY <1>5 DEF SubmitFrame
    <3>4. Started(c)
      BY <1>3, <2>5, <3>2, <3>3
         DEF Started, AskedBy, TurnOf, WorkFor, QueueOf, Numbers
    <3> QED BY <2>3, <3>4, OneMoved DEF Moved
  <2> QED BY <2>4, <2>5
<1>6. CASE RejectFrame \/ AnswerNow \/ AnswerLater
  <2>1. ASSUME NEW g \in Fds PROVE SameWork(g)
    BY <1>6 DEF RejectFrame, AnswerNow, AnswerLater, asyncVars, SameWork,
       TasksOf, Occupied
  <2>2. \A g \in Fds : g # c => Unmoved(g)
    BY <1>4, <2>1
  <2>3. CASE ~Live(c)
    BY <1>3, <2>2, <2>3, NoClient
  <2>4. CASE Live(c)
    <3>1. /\ AskedBy(c) = next_req_seq[c] /\ AskedBy(c)' = AskedBy(c) + 1
          /\ TurnOf(c) = resp_seq_expected[c]
          /\ TurnOf(c)' = resp_seq_expected'[c]
          /\ QueueOf(c) = Numbers(resp_queue[c])
          /\ QueueOf(c)' = Numbers(resp_queue'[c])
      BY <1>3, <2>4 DEF AskedBy, TurnOf, QueueOf, Numbers
    <3>2. WorkFor(c)' = WorkFor(c)
      BY <1>3, <2>1, <2>4, SameWorkOf DEF WorkFor
    <3>3. CASE RejectFrame
      <4>1. Refused(c)
        BY <3>1, <3>2, <3>3 DEF RejectFrame, Refused
      <4> QED BY <2>2, <4>1, OneMoved DEF Moved
    <3>4. CASE AnswerNow
      <4>1. resp_seq_expected'[c] = next_req_seq[c] + 1 /\ UNCHANGED resp_queue
        BY <1>0, <3>4 DEF TypeOK, AnswerNow
      <4>2. Replied(c)
        BY <3>1, <3>2, <4>1 DEF Replied
      <4> QED BY <2>2, <4>2, OneMoved DEF Moved
    <3>5. CASE AnswerLater
      <4> DEFINE s == [seq |-> next_req_seq[c], org |-> gen[c], part |-> FALSE]
      <4>1. /\ resp_seq_expected'[c] = next_req_seq[c] + 1
            /\ resp_queue'[c] = Append(resp_queue[c], s)
        BY <1>0, <3>5 DEF TypeOK, AnswerLater
      <4>2. s \in Slot /\ s.seq = next_req_seq[c]
        BY <1>1 DEF Slot
      <4> HIDE DEF s
      <4>3. Numbers(resp_queue'[c]) = Append(Numbers(resp_queue[c]), AskedBy(c))
        BY <1>1, <3>1, <4>1, <4>2, NumbersAppend
      <4>4. Replied(c)
        BY <3>1, <3>2, <4>1, <4>3 DEF Replied
      <4> QED BY <2>2, <4>4, OneMoved DEF Moved
    <3> QED BY <1>6, <3>3, <3>4, <3>5
  <2> QED BY <2>3, <2>4
<1> QED BY <1>5, <1>6 DEF ParseFrame

(* The flush leaves the tasks of every descriptor but the one it handles;  *)
(* there, it leaves them or frees the slot it looks at.                    *)
LEMMA FlushWork ==
    ASSUME TypeOK, FlushSlot
    PROVE  /\ LeaveTask(idx) => \A g \in Fds : SameWork(g)
           /\ \A g \in Fds : Completed /\ g # TaskFd => SameWork(g)
<1>1. /\ g_async_queue \in [Slots -> Task \cup {Free}] /\ idx \in Slots
      /\ NoNewTask
      /\ LeaveTask(idx) \/ FreeTask(idx)
  <2>1. xlab_async_flush_completed
    BY DEF xlab_async_flush_completed
  <2> QED BY <2>1, FlushOldTasks DEF TypeOK, AsyncTypeOK, FlushSlot, FlushSkip,
         FlushDrop, FlushBusy, FlushQueue, FlushDangling
<1>2. ASSUME NEW i \in Slots, Occupied(i), i # idx \/ LeaveTask(idx)
      PROVE  Occupied(i)'
  <2>1. CASE i # idx
    BY <1>1, <1>2, <2>1 DEF LeaveTask, FreeTask, Occupied
  <2>2. CASE i = idx /\ LeaveTask(idx)
    <3>1. g_async_queue[i] \in Task
      BY <1>1, <1>2 DEF Occupied, Free
    <3>2. g_async_queue'[i] = [g_async_queue[i] EXCEPT !.fresh = FALSE]
      BY <1>1, <1>2, <2>2 DEF LeaveTask, Occupied
    <3> QED BY <3>1, <3>2, <1>2 DEF Occupied, Task
  <2> QED BY <1>2, <2>1, <2>2
<1>3. ASSUME LeaveTask(idx), NEW g \in Fds PROVE SameWork(g)
  <2>1. \A i \in TasksOf(g) : Occupied(i)'
    BY <1>2, <1>3 DEF TasksOf
  <2> QED BY <1>1, <2>1, KeptWork
<1>4. ASSUME Completed, NEW g \in Fds, g # TaskFd PROVE SameWork(g)
  <2>1. \A i \in TasksOf(g) : i \in Slots /\ Occupied(i) /\ i # idx
    BY <1>4 DEF TasksOf, TaskFd
  <2>2. \A i \in TasksOf(g) : Occupied(i)'
    BY <1>2, <2>1
  <2> QED BY <1>1, <2>2, KeptWork
<1> QED BY <1>3, <1>4

(* The work of a client loses the number of the task that is freed, and no *)
(* other: no two tasks of a client have the same number.                   *)
LEMMA FlushFinishes ==
    ASSUME TypeOK, OneTaskPerRequest, OrderInv, Completed, FreeTask(idx),
           NEW f \in Fds, f = TaskFd, NEW n \in Nat, n = TaskSeq, Live(f)
    PROVE  /\ n \in {g_async_queue[i].seq : i \in TasksOf(f)}
           /\ {g_async_queue[i].seq : i \in TasksOf(f)}' =
                {g_async_queue[i].seq : i \in TasksOf(f)} \ {n}
<1>1. idx \in Slots /\ g_async_queue \in [Slots -> Task \cup {Free}]
  BY DEF TypeOK, AsyncTypeOK
<1>2. idx \in TasksOf(f) /\ g_async_queue[idx].seq = n
  BY <1>1 DEF TasksOf, Completed, Occupied, TaskFd, TaskSeq
<1>3. OwnTasks(f)
  BY DEF OrderInv, FdOK, CleanOK, Live
<1>4. \A i \in TasksOf(f) : i # idx => g_async_queue[i].seq # n
  BY <1>2, <1>3 DEF TasksOf, OwnTasks, OneTaskPerRequest
<1>5. /\ \A i \in Slots : i # idx => g_async_queue'[i] = g_async_queue[i]
      /\ g_async_queue'[idx] = Free
  BY <1>1 DEF FreeTask
<1>6. TasksOf(f)' = TasksOf(f) \ {idx}
  BY <1>1, <1>5 DEF TasksOf, Occupied, Free
<1>7. {g_async_queue[i].seq : i \in TasksOf(f)}' =
        {g_async_queue[i].seq : i \in TasksOf(f)} \ {n}
  <2>1. \A i \in TasksOf(f) \ {idx} : g_async_queue'[i].seq = g_async_queue[i].seq
    BY <1>5 DEF TasksOf
  <2> QED BY <1>2, <1>4, <1>6, <2>1
<1> QED BY <1>2, <1>7

LEMMA Flushed ==
    ASSUME TypeOK, RequestInv, OrderInv, xlab_async_flush_completed
    PROVE  (\A g \in Fds : Unmoved(g)) \/ Promise!Next
<1>1. CASE FlushDrain \/ FlushLock
  BY <1>1, Still DEF FlushDrain, FlushLock, connVars
<1>2. CASE FlushSlot
  <2>1. UNCHANGED <<clean, sess, next_req_seq>>
    BY <1>2, FlushFrame
  <2>2. CASE FlushSkip
    <3>1. \A g \in Fds : SameWork(g)
      BY <1>2, <2>2, FlushWork DEF FlushSkip
    <3> QED BY <2>2, <3>1, SameSession DEF FlushSkip, connVars, sessVars
  <2>3. CASE Completed
    <3>0. PICK f \in Fds, n \in Nat, o \in Nat :
            f = TaskFd /\ n = TaskSeq /\ o = g_async_queue[idx].org
      <4>1. g_async_queue[idx] \in Task
        BY <2>3 DEF TypeOK, AsyncTypeOK, Completed, Free
      <4> QED BY <4>1 DEF TaskFd, TaskSeq, Task
    <3>1. ASSUME NEW g \in Fds, g # f PROVE SameWork(g)
      BY <1>2, <2>3, <3>0, <3>1, FlushWork
    <3>2. Live(f)' = Live(f)
      BY <2>1 DEF Live, HasSession
    <3>3. CASE FlushBusy \/ FlushQueue
      <4>1. /\ HasSession(f) /\ n = resp_seq_expected[f] /\ FreeTask(idx)
            /\ resp_seq_expected' = [resp_seq_expected EXCEPT ![f] = @ + 1]
        BY <3>0, <3>3 DEF FlushBusy, FlushQueue, InTurn, Advance
      <4>2. \/ resp_queue' = resp_queue
            \/ resp_queue' = [resp_queue EXCEPT ![f] =
                 Append(@, [seq |-> n, org |-> o, part |-> FALSE])]
        BY <3>0, <3>3 DEF FlushBusy, FlushQueue
      <4>3. ASSUME NEW g \in Fds, g # f PROVE Unmoved(g)
        <5>1. /\ resp_seq_expected'[g] = resp_seq_expected[g]
              /\ resp_queue'[g] = resp_queue[g]
          BY <4>1, <4>2, <4>3 DEF TypeOK
        <5> QED BY <2>1, <3>1, <4>3, <5>1, SameSession
      <4>4. CASE ~Live(f)
        BY <3>2, <4>3, <4>4, NoClient
      <4>5. CASE Live(f)
        <5>1. /\ n \in {g_async_queue[i].seq : i \in TasksOf(f)}
              /\ {g_async_queue[i].seq : i \in TasksOf(f)}' =
                   {g_async_queue[i].seq : i \in TasksOf(f)} \ {n}
          BY <2>3, <3>0, <4>1, <4>5, FlushFinishes DEF RequestInv
        <5>2. n \in WorkFor(f) /\ WorkFor(f)' = WorkFor(f) \ {n}
          BY <3>2, <4>5, <5>1 DEF WorkFor
        <5>3. /\ AskedBy(f)' = AskedBy(f)
              /\ TurnOf(f) = n /\ TurnOf(f)' = n + 1
          BY <2>1, <3>2, <4>1, <4>5 DEF TypeOK, AskedBy, TurnOf
        <5>4. \/ QueueOf(f)' = QueueOf(f)
              \/ QueueOf(f)' = Append(QueueOf(f), n)
          <6> DEFINE s == [seq |-> n, org |-> o, part |-> FALSE]
          <6>1. s \in Slot /\ s.seq = n
            BY DEF Slot
          <6>2. resp_queue[f] \in Seq(Slot)
            BY DEF TypeOK
          <6>3. \/ resp_queue'[f] = resp_queue[f]
                \/ resp_queue'[f] = Append(resp_queue[f], s)
            BY <4>2 DEF TypeOK
          <6> HIDE DEF s
          <6>4. \/ Numbers(resp_queue'[f]) = Numbers(resp_queue[f])
                \/ Numbers(resp_queue'[f]) = Append(Numbers(resp_queue[f]), n)
            BY <6>1, <6>2, <6>3, NumbersAppend
          <6>5. /\ QueueOf(f) = Numbers(resp_queue[f])
                /\ QueueOf(f)' = Numbers(resp_queue'[f])
            BY <3>2, <4>5 DEF QueueOf, Numbers
          <6> QED BY <6>4, <6>5
        <5>5. Finished(f)
          BY <5>2, <5>3, <5>4 DEF Finished
        <5> QED BY <4>3, <5>5, OneMoved DEF Moved
      <4> QED BY <4>4, <4>5
    <3>4. CASE FlushDrop \/ FlushDangling
      <4>1. UNCHANGED sessVars
        BY <3>4 DEF FlushDrop, FlushDangling
      <4>2. ~Live(f)
        <5>1. SUFFICES ASSUME FlushDangling, Live(f) PROVE FALSE
          BY <3>0, <3>4 DEF FlushDrop, Live
        <5>2. OwnTasks(f)
          BY <5>1 DEF OrderInv, FdOK, CleanOK, Live
        <5>3. sess[f] = gen[f]
          BY <5>1, <5>2 DEF OwnTasks, Live, HasSession
        <5>4. g_async_queue[idx].cs = gen[f]
          BY <2>3, <3>0, <5>2 DEF OwnTasks, TypeOK, Completed, Occupied, TaskFd
        <5> QED BY <3>0, <5>1, <5>3, <5>4 DEF FlushDangling, TargetAlive
      <4>3. ASSUME NEW g \in Fds PROVE Unmoved(g)
        <5>1. CASE g = f
          BY <3>2, <4>2, <5>1, NoClient
        <5>2. CASE g # f
          BY <2>1, <3>1, <4>1, <5>2, SameSession DEF sessVars
        <5> QED BY <5>1, <5>2
      <4> QED BY <4>3
    <3> QED BY <1>2, <2>2, <3>3, <3>4 DEF FlushSlot
  <2> QED BY <1>2, <2>2, <2>3 DEF FlushSlot, FlushDrop, FlushBusy, FlushQueue,
         FlushDangling
<1> QED BY <1>1, <1>2 DEF xlab_async_flush_completed

-----------------------------------------------------------------------------
(* Every step is the promise's, or moves no client. *)
LEMMA PromiseStep ==
    ASSUME TypeOK, EventInv, RequestInv, OrderInv, [Next]_vars
    PROVE  [Promise!Next]_(Promise!vars)
<1>0. SUFFICES (\A g \in Fds : Unmoved(g)) \/ Promise!Next
  BY AllUnmoved
<1> USE DEF RequestInv
<1>1. ASSUME NEW f \in Fds, Accept(f)
      PROVE  Promise!Next
  BY <1>1, Accepted
<1>2. CASE EpollWait
  BY <1>2, Still DEF EpollWait, asyncVars, connVars
<1>3. ASSUME NEW f \in Fds, xlab_conn_read(f)
      PROVE  (\A g \in Fds : Unmoved(g)) \/ Promise!Next
  <2>1. CASE ReadEnd(f)
    BY <2>1, Closed DEF ReadEnd
  <2>2. CASE ReadChunk(f) \/ ReadAgain(f)
    BY <2>2, FirstRead
  <2> QED BY <1>3, <2>1, <2>2 DEF xlab_conn_read
<1>4. ASSUME NEW f \in Fds, xlab_conn_write(f) \/ xlab_conn_error(f)
      PROVE  (\A g \in Fds : Unmoved(g)) \/ Promise!Next
  <2>1. CASE WriteRegister(f)
    BY <2>1, Still DEF WriteRegister, asyncVars
  <2>2. CASE WriteFail(f) \/ xlab_conn_error(f)
    BY <2>2, Closed DEF WriteFail, xlab_conn_error
  <2>3. CASE WriteSome(f)
    BY <2>3, Written
  <2> QED BY <1>4, <2>1, <2>2, <2>3 DEF xlab_conn_write
<1>5. CASE ParseFrame
  BY <1>5, Parsed
<1>6. CASE xlab_async_flush_completed
  BY <1>6, Flushed
<1>7. CASE Hardware
  BY <1>7, Still DEF Hardware, HwStep, HwLock, HwNotify, HwWake, connVars
<1>8. CASE UNCHANGED vars
  BY <1>8, Still DEF vars, asyncVars, connVars
<1> QED BY <1>1, <1>2, <1>3, <1>4, <1>5, <1>6, <1>7, <1>8 DEF Next, Handler

LEMMA PromiseInit == Init => Promise!Init
BY DEF Init, AsyncInit, Promise!Init, AskedBy, TurnOf, WorkFor, QueueOf, Live,
   HasSession

(* The gateway, with its task table, its two threads, its response rings   *)
(* and its epoll modes, implements the promise of ReplyOrder to every      *)
(* connection that found its descriptor clean.                             *)
THEOREM GatewayKeepsPromise == Spec => KeepsPromise
<1>1. TypeOK /\ EventInv /\ RequestInv /\ OrderInv /\ [Next]_vars
        => [Promise!Next]_(Promise!vars)
  BY PromiseStep
<1> QED BY <1>1, PromiseInit, TypeCorrect, EventInvariant, RequestInvariant,
       OrderInvariant, PTL DEF Spec, KeepsPromise, Promise!Spec

(* So no request of such a connection is answered twice.                   *)
THEOREM RepliesOnce == Spec => []AnsweredOnce
BY GatewayKeepsPromise, Promise!OnceInvariant DEF KeepsPromise, AnsweredOnce
=============================================================================
