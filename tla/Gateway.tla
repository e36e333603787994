------------------------------ MODULE Gateway ------------------------------
(***************************************************************************)
(* One epoll worker serving TCP clients (xlab_epoll.c, xlab_connection.c,  *)
(* sessions and response queue of xlab_request.c), composed with the       *)
(* hardware thread and the task table (AsyncTable) and with the main       *)
(* thread that accepts connections.  Workers = 1 is the shipped            *)
(* configuration (raifull.conf).                                           *)
(*                                                                         *)
(* A frame is its kind: "sync" and "block" are valid frames of a command   *)
(* without and with XLAB_CMD_FLAG_BLOCKING and a legal number of           *)
(* parameters; "reject" is what is answered with an F4 frame only (bad     *)
(* checksum, incomplete frame, unknown command, wrong number of            *)
(* parameters of a command without the flag).                              *)
(***************************************************************************)
EXTENDS AsyncTable, Sequences, FiniteSets

CONSTANTS
    EventFd,       \* the descriptor of the eventfd
    RingDepth,     \* XLAB_RESP_QUEUE_DEPTH, 64 in the code; one slot stays empty
    Kinds,         \* kinds of frames the clients send
    MaxReq,        \* bound: frames per session
    MaxGen,        \* bound: connections accepted per descriptor
    Window,        \* bound: requests a client has unanswered at a time
    SlowKernel,    \* may a send be short or return EAGAIN
    SpuriousRead   \* may a read after EPOLLIN return EAGAIN

ASSUME GatewayAssumption ==
    /\ EventFd \notin Fds
    /\ RingDepth \in Nat \ {0, 1}
    /\ Kinds \subseteq {"sync", "block", "reject"}
    /\ MaxReq \in Nat /\ MaxGen \in Nat /\ Window \in Nat
    /\ SlowKernel \in BOOLEAN /\ SpuriousRead \in BOOLEAN

VARIABLES
    conn,                \* per fd: "free", "new" (in epoll, not registered) or "open"
    gen,                 \* per fd: how many connections have had this descriptor
    clean,               \* per fd, history: nothing of an earlier connection was
                         \* left on the descriptor when it was accepted
    mode,                \* per fd: what the epoll instance waits for
    sess,                \* per fd: the session in the list, 0 when there is none
    next_req_seq,        \* per fd: proto_ctx.next_req_seq of the session
    resp_seq_expected,   \* per fd: resp_seq_expected of the session
    resp_queue,          \* per fd: the slots from resp_q_head to resp_q_tail
    pc,                  \* where the worker is
    revents,             \* the events of the last epoll_wait not yet dispatched
    cur,                 \* the descriptor whose frames are being parsed
    todo,                \* the frames of the chunk not yet parsed
    idx                  \* the slot the flush examines next

connVars == <<conn, gen, clean, mode>>
sessVars == <<sess, next_req_seq, resp_seq_expected, resp_queue>>
workVars == <<pc, revents, cur, todo, idx>>
vars == <<asyncVars, connVars, sessVars, workVars>>

Polled == Fds \cup {EventFd}
Quiet == [e \in Polled |-> "none"]

(* A response slot: the request it answers, the connection whose client    *)
(* asked (history), and whether part of it has been sent (sent_len > 0).   *)
Slot == [seq : Nat, org : Nat, part : BOOLEAN]

TypeOK ==
    /\ AsyncTypeOK
    /\ conn \in [Fds -> {"free", "new", "open"}]
    /\ gen \in [Fds -> Nat]
    /\ clean \in [Fds -> BOOLEAN]
    /\ mode \in [Fds -> {"READ", "WRITE"}]
    /\ sess \in [Fds -> Nat]
    /\ next_req_seq \in [Fds -> Nat]
    /\ resp_seq_expected \in [Fds -> Nat]
    /\ resp_queue \in [Fds -> Seq(Slot)]
    /\ pc \in {"loop", "parse", "flushlock", "flush"}
    /\ revents \in [Polled -> {"none", "IN", "OUT", "ERR"}]
    /\ cur \in Fds
    /\ todo \in Seq(Kinds)
    /\ idx \in Slots

Init ==
    /\ AsyncInit
    /\ conn = [f \in Fds |-> "free"]
    /\ gen = [f \in Fds |-> 0]
    /\ clean = [f \in Fds |-> TRUE]
    /\ mode = [f \in Fds |-> "READ"]
    /\ sess = [f \in Fds |-> 0]
    /\ next_req_seq = [f \in Fds |-> 0]
    /\ resp_seq_expected = [f \in Fds |-> 0]
    /\ resp_queue = [f \in Fds |-> <<>>]
    /\ pc = "loop"
    /\ revents = Quiet
    /\ cur \in Fds
    /\ todo = <<>>
    /\ idx = 1

(* A session is numbered by the connection that created it, so 0 is none.  *)
HasSession(f) == sess[f] # 0

(* next_tail = resp_q_head: one slot of the ring is never used. *)
RingFull(f) == Len(resp_queue[f]) = RingDepth - 1

TasksOf(f) == {i \in Slots : Occupied(i) /\ g_async_queue[i].fd = f}

-----------------------------------------------------------------------------
(* The main thread: accept a client; the descriptor goes into the worker's *)
(* epoll instance waiting for EPOLLOUT (xlab_sched_add_client).            *)
Accept(f) ==
    /\ conn[f] = "free"
    /\ gen[f] < MaxGen
    /\ conn' = [conn EXCEPT ![f] = "new"]
    /\ gen' = [gen EXCEPT ![f] = @ + 1]
    /\ clean' = [clean EXCEPT ![f] = TasksOf(f) = {} /\ ~HasSession(f)]
    /\ mode' = [mode EXCEPT ![f] = "WRITE"]
    /\ UNCHANGED <<asyncVars, sessVars, workVars>>

-----------------------------------------------------------------------------
(* The event loop, xlab_epoll_init.                                        *)

(* The events epoll_wait may find on a descriptor.  A fresh connection is  *)
(* writable; an error may be reported in either mode.                      *)
Reportable(f) ==
    CASE conn[f] = "free" -> {"none"}
      [] conn[f] = "new"  -> {"OUT"}
      [] conn[f] = "open" /\ mode[f] = "READ" -> {"none", "IN", "ERR"}
      [] conn[f] = "open" /\ mode[f] = "WRITE" ->
           {"OUT", "ERR"} \cup (IF SlowKernel THEN {"none"} ELSE {})

EpollWait ==
    /\ pc = "loop"
    /\ revents = Quiet
    /\ revents' \in [Polled -> {"none", "IN", "OUT", "ERR"}]
    /\ \A f \in Fds : revents'[f] \in Reportable(f)
    /\ revents'[EventFd] = IF g_event_fd THEN "IN" ELSE "none"
    /\ revents' # Quiet
    /\ UNCHANGED <<asyncVars, connVars, sessVars, pc, cur, todo, idx>>

Dispatch(e, event) ==
    /\ pc = "loop"
    /\ revents[e] = event
    /\ revents' = [revents EXCEPT ![e] = "none"]

(* Mutant of xlab_session_remove: the next session inherits the queue. *)
RemoveKeepsQueue(f) ==
    /\ sess' = [sess EXCEPT ![f] = 0]
    /\ next_req_seq' = [next_req_seq EXCEPT ![f] = 0]
    /\ resp_seq_expected' = [resp_seq_expected EXCEPT ![f] = 0]
    /\ UNCHANGED resp_queue

(* Mutant of xlab_session_remove: the next session inherits the turn. *)
RemoveKeepsTurn(f) ==
    /\ sess' = [sess EXCEPT ![f] = 0]
    /\ next_req_seq' = [next_req_seq EXCEPT ![f] = 0]
    /\ resp_queue' = [resp_queue EXCEPT ![f] = <<>>]
    /\ UNCHANGED resp_seq_expected

(* xlab_session_remove; the counters of a session die with it. *)
xlab_session_remove(f) ==
    /\ sess' = [sess EXCEPT ![f] = 0]
    /\ next_req_seq' = [next_req_seq EXCEPT ![f] = 0]
    /\ resp_seq_expected' = [resp_seq_expected EXCEPT ![f] = 0]
    /\ resp_queue' = [resp_queue EXCEPT ![f] = <<>>]

(* xlab_conn_close: the descriptor is closed and leaves epoll with it.     *)
xlab_conn_close(f) ==
    /\ conn' = [conn EXCEPT ![f] = "free"]
    /\ mode' = [mode EXCEPT ![f] = "READ"]
    /\ UNCHANGED <<gen, clean>>

xlab_epoll_change_mode(f, m) ==
    /\ mode' = [mode EXCEPT ![f] = m]
    /\ UNCHANGED <<conn, gen, clean>>

-----------------------------------------------------------------------------
(* xlab_conn_read on a client socket.                                      *)

(* Requests the client of f has not been answered yet. *)
Unanswered(f) == {i \in TasksOf(f) : g_async_queue[i].org = gen[f]}

WithinWindow(f, n) ==
    Cardinality(Unanswered(f)) + Len(resp_queue[f]) + n <= Window

(* A chunk arrives; the first one creates the session. *)
ReadChunk(f) ==
    /\ Dispatch(f, "IN")
    /\ \E n \in 0 .. Window : \E chunk \in [1 .. n -> Kinds] :
         /\ WithinWindow(f, n)
         /\ next_req_seq[f] + n <= MaxReq
         /\ todo' = chunk
         /\ pc' = IF n = 0 THEN "loop" ELSE "parse"
    /\ cur' = f
    /\ sess' = [sess EXCEPT ![f] = IF @ = 0 THEN gen[f] ELSE @]
    /\ UNCHANGED <<asyncVars, connVars, next_req_seq, resp_seq_expected,
                   resp_queue, idx>>

(* End of file or a read error. *)
ReadEnd(f) ==
    /\ Dispatch(f, "IN")
    /\ xlab_session_remove(f)
    /\ xlab_conn_close(f)
    /\ UNCHANGED <<asyncVars, pc, cur, todo, idx>>

(* EAGAIN leaves ret at -1: the loop closes the connection although its    *)
(* session stays in the list.                                              *)
ReadAgain(f) ==
    /\ SpuriousRead
    /\ Dispatch(f, "IN")
    /\ sess' = [sess EXCEPT ![f] = IF @ = 0 THEN gen[f] ELSE @]
    /\ xlab_conn_close(f)
    /\ UNCHANGED <<asyncVars, next_req_seq, resp_seq_expected, resp_queue,
                   pc, cur, todo, idx>>

xlab_conn_read(f) == ReadChunk(f) \/ ReadEnd(f) \/ ReadAgain(f)

-----------------------------------------------------------------------------
(* The frame loop of xlab_conn_read.                                       *)

TakeSeq(f) == next_req_seq' = [next_req_seq EXCEPT ![f] = @ + 1]

(* Mutant of RejectFrame: the frame takes a number in the frame loop and   *)
(* another one for the F4 frame.                                           *)
RejectTakesTwo ==
    /\ Head(todo) = "reject"
    /\ next_req_seq' = [next_req_seq EXCEPT ![cur] = @ + 2]
    /\ UNCHANGED <<asyncVars, connVars, sess, resp_seq_expected, resp_queue>>

(* An F4 frame is sent directly; resp_seq_expected is not touched.         *)
RejectFrame ==
    /\ Head(todo) = "reject"
    /\ TakeSeq(cur)
    /\ UNCHANGED <<asyncVars, connVars, sess, resp_seq_expected, resp_queue>>

(* Mutant of SubmitFrame: the sequence number is read and not taken. *)
SubmitSameSeq ==
    /\ Head(todo) = "block"
    /\ g_async_mutex = "none"
    /\ ~TableFull
    /\ xlab_async_submit(cur, sess[cur], gen[cur], next_req_seq[cur])
    /\ UNCHANGED <<connVars, sess, next_req_seq, resp_seq_expected, resp_queue>>

SubmitFrame ==
    /\ Head(todo) = "block"
    /\ g_async_mutex = "none"
    /\ ~TableFull
    /\ xlab_async_submit(cur, sess[cur], gen[cur], next_req_seq[cur])
    /\ TakeSeq(cur)
    /\ UNCHANGED <<connVars, sess, resp_seq_expected, resp_queue>>

(* A frame that is executed and answered at once: one without the blocking *)
(* flag, or one the full table did not take.                               *)
AnsweredInline ==
    \/ Head(todo) = "sync"
    \/ Head(todo) = "block" /\ g_async_mutex = "none" /\ TableFull

(* Mutant of AnswerNow: the turn is not moved past the answer. *)
AnswerOutOfTurn ==
    /\ AnsweredInline
    /\ TakeSeq(cur)
    /\ UNCHANGED <<asyncVars, connVars, sess, resp_seq_expected, resp_queue>>

(* The answer leaves the process, or is given up for an F4 frame.          *)
AnswerNow ==
    /\ AnsweredInline
    /\ TakeSeq(cur)
    /\ resp_seq_expected' =
         [resp_seq_expected EXCEPT ![cur] = next_req_seq[cur] + 1]
    /\ UNCHANGED <<asyncVars, connVars, sess, resp_queue>>

(* The kernel buffer is full: the answer goes into the response queue.     *)
AnswerLater ==
    /\ SlowKernel
    /\ AnsweredInline
    /\ ~RingFull(cur)
    /\ TakeSeq(cur)
    /\ resp_seq_expected' =
         [resp_seq_expected EXCEPT ![cur] = next_req_seq[cur] + 1]
    /\ resp_queue' = [resp_queue EXCEPT ![cur] = Append(@,
         [seq |-> next_req_seq[cur], org |-> gen[cur], part |-> FALSE])]
    /\ xlab_epoll_change_mode(cur, "WRITE")
    /\ UNCHANGED <<asyncVars, sess>>

ParseFrame ==
    /\ pc = "parse"
    /\ RejectFrame \/ SubmitFrame \/ AnswerNow \/ AnswerLater
    /\ todo' = Tail(todo)
    /\ pc' = IF Len(todo) = 1 THEN "loop" ELSE "parse"
    /\ UNCHANGED <<revents, cur, idx>>

-----------------------------------------------------------------------------
(* xlab_conn_write.                                                        *)

(* The first event of a new connection registers it and waits for input.   *)
WriteRegister(f) ==
    /\ conn[f] = "new"
    /\ Dispatch(f, "OUT")
    /\ conn' = [conn EXCEPT ![f] = "open"]
    /\ mode' = [mode EXCEPT ![f] = "READ"]
    /\ UNCHANGED <<asyncVars, gen, clean, sessVars, pc, cur, todo, idx>>

(* xlab_handler_write has something to gather: a slot is waiting and the   *)
(* first one is not half sent, at which the gathering loop stops.          *)
Gathered(f) == resp_queue[f] # <<>> /\ ~Head(resp_queue[f]).part

(* No session, nothing gathered, EAGAIN at the first writev, or a fatal    *)
(* error (the peer may reset at any time): remove the session and close.   *)
WriteFail(f) ==
    /\ conn[f] = "open"
    /\ Dispatch(f, "OUT")
    /\ xlab_session_remove(f)
    /\ xlab_conn_close(f)
    /\ UNCHANGED <<asyncVars, pc, cur, todo, idx>>

(* Mutant of WriteSome: the queue is sent and the socket stays armed. *)
WriteStaysArmed(f) ==
    /\ conn[f] = "open"
    /\ Dispatch(f, "OUT")
    /\ HasSession(f)
    /\ Gathered(f)
    /\ resp_queue' = [resp_queue EXCEPT ![f] = <<>>]
    /\ UNCHANGED <<asyncVars, connVars, sess, next_req_seq,
                   resp_seq_expected, pc, cur, todo, idx>>

(* writev takes some whole slots and perhaps the beginning of another one. *)
(* Something was sent, so the session goes back to reading whatever is     *)
(* left in the queue.                                                      *)
WriteSome(f) ==
    /\ conn[f] = "open"
    /\ Dispatch(f, "OUT")
    /\ HasSession(f)
    /\ Gathered(f)
    /\ \E n \in 0 .. Len(resp_queue[f]) : \E half \in BOOLEAN :
         LET rest == SubSeq(resp_queue[f], n + 1, Len(resp_queue[f]))
         IN /\ n > 0 \/ half
            /\ half => rest # <<>>
            /\ ~SlowKernel => rest = <<>>
            /\ resp_queue' = [resp_queue EXCEPT ![f] =
                 IF half THEN [rest EXCEPT ![1].part = TRUE] ELSE rest]
    /\ xlab_epoll_change_mode(f, "READ")
    /\ UNCHANGED <<asyncVars, sess, next_req_seq, resp_seq_expected,
                   pc, cur, todo, idx>>

xlab_conn_write(f) == WriteRegister(f) \/ WriteFail(f) \/ WriteSome(f)

(* xlab_conn_error: close the socket, then drop its session. *)
xlab_conn_error(f) ==
    /\ Dispatch(f, "ERR")
    /\ xlab_session_remove(f)
    /\ xlab_conn_close(f)
    /\ UNCHANGED <<asyncVars, pc, cur, todo, idx>>

-----------------------------------------------------------------------------
(* xlab_async_flush_completed, entered by xlab_conn_read on the eventfd.   *)

(* Read the eventfd until it is empty, then wait for the mutex. *)
FlushDrain ==
    /\ Dispatch(EventFd, "IN")
    /\ g_event_fd' = FALSE
    /\ pc' = "flushlock"
    /\ UNCHANGED <<g_async_queue, g_async_mutex, hw, connVars, sessVars,
                   cur, todo, idx>>

FlushLock ==
    /\ pc = "flushlock"
    /\ g_async_mutex = "none"
    /\ g_async_mutex' = "worker"
    /\ pc' = "flush"
    /\ idx' = 1
    /\ UNCHANGED <<g_async_queue, g_event_fd, hw, connVars, sessVars,
                   revents, cur, todo>>

(* Mutant of NextSlot: the scan runs one slot too far. *)
NextSlotTooFar ==
    /\ IF idx > Depth
         THEN pc' = "loop" /\ idx' = 1 /\ g_async_mutex' = "none"
         ELSE idx' = idx + 1 /\ UNCHANGED <<pc, g_async_mutex>>
    /\ UNCHANGED <<g_event_fd, hw, revents, cur, todo>>

(* On to the next slot, or unlock and back to the event loop.              *)
NextSlot ==
    /\ IF idx = Depth
         THEN pc' = "loop" /\ idx' = 1 /\ g_async_mutex' = "none"
         ELSE idx' = idx + 1 /\ UNCHANGED <<pc, g_async_mutex>>
    /\ UNCHANGED <<g_event_fd, hw, revents, cur, todo>>

Completed == g_async_queue[idx].st = "done"
TaskFd == g_async_queue[idx].fd
TaskSeq == g_async_queue[idx].seq

(* Mutants of InTurn: a result that is late, or any result, is answered. *)
InTurnOrLate == TaskSeq <= resp_seq_expected[TaskFd]
AnyTurn == TaskFd \in Fds

InTurn == TaskSeq = resp_seq_expected[TaskFd]

(* Whether target_cs still is the session in the list.  If not, it dangles *)
(* and the comparison of its socket reads freed memory, with either result.*)
(* When it differs, the session in the list is taken instead.              *)
TargetAlive == g_async_queue[idx].cs = sess[TaskFd]

(* Free or running slots are passed over, and so is a completed task whose *)
(* turn it is not.                                                         *)
FlushSkip ==
    /\ Completed => HasSession(TaskFd) /\ ~InTurn
    /\ LeaveTask(idx)
    /\ UNCHANGED <<connVars, sessVars>>

(* Mutant of FlushDrop: the socket of the lost session is closed as well. *)
FlushDropAndClose ==
    /\ Completed
    /\ ~HasSession(TaskFd)
    /\ FreeTask(idx)
    /\ xlab_conn_close(TaskFd)
    /\ UNCHANGED sessVars

(* The session is gone: the result is discarded. *)
FlushDrop ==
    /\ Completed
    /\ ~HasSession(TaskFd)
    /\ FreeTask(idx)
    /\ UNCHANGED <<connVars, sessVars>>

Advance(f) ==
    resp_seq_expected' = [resp_seq_expected EXCEPT ![f] = @ + 1]

(* The response queue is full: BUSY is sent and the turn passes on.        *)
FlushBusy ==
    /\ Completed
    /\ HasSession(TaskFd)
    /\ InTurn
    /\ RingFull(TaskFd)
    /\ FreeTask(idx)
    /\ Advance(TaskFd)
    /\ UNCHANGED <<connVars, sess, next_req_seq, resp_queue>>

(* EPOLL_CTL_MOD fails on a descriptor that is closed. *)
ArmWrite(f) ==
    IF conn[f] = "free"
      THEN UNCHANGED connVars
      ELSE xlab_epoll_change_mode(f, "WRITE")

(* Mutant of FlushQueue: the task is queued and its slot is not freed. *)
FlushQueueAgain ==
    /\ Completed
    /\ HasSession(TaskFd)
    /\ InTurn
    /\ ~RingFull(TaskFd)
    /\ resp_queue' = [resp_queue EXCEPT ![TaskFd] = Append(@,
         [seq |-> TaskSeq, org |-> g_async_queue[idx].org, part |-> FALSE])]
    /\ Advance(TaskFd)
    /\ LeaveTask(idx)
    /\ ArmWrite(TaskFd)
    /\ UNCHANGED <<sess, next_req_seq>>

FlushQueue ==
    /\ Completed
    /\ HasSession(TaskFd)
    /\ InTurn
    /\ ~RingFull(TaskFd)
    /\ resp_queue' = [resp_queue EXCEPT ![TaskFd] = Append(@,
         [seq |-> TaskSeq, org |-> g_async_queue[idx].org, part |-> FALSE])]
    /\ Advance(TaskFd)
    /\ FreeTask(idx)
    /\ ArmWrite(TaskFd)
    /\ UNCHANGED <<sess, next_req_seq>>

(* The freed session still shows the descriptor: it is used as if alive.   *)
(* The result waits forever on a dead counter, vanishes into the dead      *)
(* queue (arming whatever connection has the descriptor now) or is         *)
(* answered BUSY.                                                          *)
FlushDangling ==
    /\ Completed
    /\ ~TargetAlive
    /\ \/ LeaveTask(idx) /\ UNCHANGED connVars
       \/ FreeTask(idx) /\ ArmWrite(TaskFd)
       \/ FreeTask(idx) /\ UNCHANGED connVars
    /\ UNCHANGED sessVars

FlushSlot ==
    /\ pc = "flush"
    /\ FlushSkip \/ FlushDrop \/ FlushBusy \/ FlushQueue \/ FlushDangling
    /\ NextSlot

xlab_async_flush_completed == FlushDrain \/ FlushLock \/ FlushSlot

-----------------------------------------------------------------------------
Handler ==
    \/ \E f \in Fds :
         xlab_conn_read(f) \/ xlab_conn_write(f) \/ xlab_conn_error(f)
    \/ ParseFrame
    \/ xlab_async_flush_completed

Hardware ==
    /\ HwStep \/ HwWake
    /\ UNCHANGED <<connVars, sessVars, workVars>>

Next ==
    \/ \E f \in Fds : Accept(f)
    \/ EpollWait
    \/ Handler
    \/ Hardware

Spec == Init /\ [][Next]_vars

(***************************************************************************)
(* The two threads of the gateway keep running; clients owe nothing.       *)
(* epoll_wait must return when the eventfd counts, a connection is new, or *)
(* a socket that waits for output can take some.                           *)
(***************************************************************************)
MustReport ==
    \/ g_event_fd
    \/ \E f \in Fds : conn[f] # "free" /\ "none" \notin Reportable(f)

Fairness ==
    /\ WF_vars(EpollWait /\ MustReport)
    /\ WF_vars(Handler)
    /\ WF_vars(HwStep /\ UNCHANGED <<connVars, sessVars, workVars>>)

FairSpec == Spec /\ Fairness

-----------------------------------------------------------------------------
(* Safety.                                                                 *)

(***************************************************************************)
(* No wakeup is lost.  A completed task no flush has looked at always has  *)
(* one on its way: the eventfd counts, the hardware thread is about to     *)
(* write it, the worker waits for the mutex, or the flush has not reached  *)
(* the slot yet (xlab_async.c: unlock before write, drain before lock).    *)
(***************************************************************************)
Announced(i) ==
    \/ g_event_fd
    \/ hw = "notify"
    \/ pc = "flushlock"
    \/ pc = "flush" /\ i >= idx

NoLostCompletion ==
    \A i \in Slots :
        g_async_queue[i].st = "done" /\ g_async_queue[i].fresh => Announced(i)

(***************************************************************************)
(* A session's request is in the table at most once, however descriptors   *)
(* and slots are reused: the flush tells tasks apart by session and        *)
(* sequence number only.                                                   *)
(***************************************************************************)
OneTaskPerRequest ==
    \A i, j \in Slots :
        /\ i # j /\ Occupied(i) /\ Occupied(j)
        /\ g_async_queue[i].fd = g_async_queue[j].fd
        /\ g_async_queue[i].cs = g_async_queue[j].cs
        => g_async_queue[i].seq # g_async_queue[j].seq

(***************************************************************************)
(* The turn of a connection never passes the requests it has received:     *)
(* xlab_conn_read and the flush move resp_seq_expected independently.      *)
(***************************************************************************)
CounterOrder ==
    \A f \in Fds :
        clean[f] => resp_seq_expected[f] <= next_req_seq[f]

(***************************************************************************)
(* The response queue holds the answers in the order of their requests,    *)
(* each at most once, whichever of xlab_conn_read and the flush put them   *)
(* there, and all of them are before the turn.                             *)
(***************************************************************************)
RingInOrder ==
    \A f \in Fds : clean[f] =>
        \A i \in 1 .. Len(resp_queue[f]) :
            /\ resp_queue[f][i].seq < resp_seq_expected[f]
            /\ \A j \in 1 .. i - 1 :
                   resp_queue[f][j].seq < resp_queue[f][i].seq

(***************************************************************************)
(* A connection that found its descriptor clean is never sent the answer   *)
(* to another client's request: the flush finds connections by descriptor  *)
(* and by target_cs, and both outlive the connection they were taken from. *)
(***************************************************************************)
OwnAnswers ==
    \A f \in Fds : clean[f] =>
        \A i \in 1 .. Len(resp_queue[f]) : resp_queue[f][i].org = gen[f]

(***************************************************************************)
(* A registered connection that waits for output has a session with        *)
(* something to send: otherwise the next EPOLLOUT makes xlab_conn_write    *)
(* close a healthy client (sent_any = 0).                                  *)
(***************************************************************************)
WriteArmedHasWork ==
    \A f \in Fds :
        clean[f] /\ conn[f] = "open" /\ mode[f] = "WRITE" =>
            HasSession(f) /\ resp_queue[f] # <<>>

(***************************************************************************)
(* On a connection that found its descriptor clean, a task's target_cs is  *)
(* the session in the list for as long as there is one: the flush never    *)
(* meets a dangling pointer there.                                         *)
(***************************************************************************)
TargetsAlive ==
    \A i \in Slots :
        LET t == g_async_queue[i]
        IN Occupied(i) /\ clean[t.fd] /\ HasSession(t.fd) => t.cs = sess[t.fd]

(***************************************************************************)
(* A client that waits for each answer before it asks again, and sends no  *)
(* damaged frame, never has a result that must wait for its turn, although *)
(* xlab_conn_read and the flush move the turn without knowing each other.  *)
(***************************************************************************)
WaiterInTurn ==
    Window = 1 /\ "reject" \notin Kinds =>
        \A i \in Slots :
            LET t == g_async_queue[i]
            IN Occupied(i) /\ clean[t.fd] /\ HasSession(t.fd) =>
                  t.seq = resp_seq_expected[t.fd]

(***************************************************************************)
(* A client with fewer requests open than the ring has slots is never told *)
(* BUSY by the flush: tasks, queued answers and frames in hand share the   *)
(* client's window, whoever moves one from one place to the next.          *)
(***************************************************************************)
RoomForAnswers ==
    Window < RingDepth =>
        \A i \in Slots :
            LET t == g_async_queue[i]
            IN Occupied(i) /\ clean[t.fd] => ~RingFull(t.fd)

(***************************************************************************)
(* The events of one epoll_wait stay valid while the earlier ones of the   *)
(* same batch are handled: no handler runs for a descriptor that has been  *)
(* closed, and none but the first write for one that is not registered.    *)
(***************************************************************************)
EventsNotStale ==
    \A f \in Fds :
        /\ revents[f] \in {"IN", "ERR"} => conn[f] = "open"
        /\ revents[f] = "OUT" => conn[f] # "free" /\ mode[f] = "WRITE"

(***************************************************************************)
(* A task keeps its slot and its identity until the slot is freed, and     *)
(* only the worker frees it, only after it is done, only under the mutex.  *)
(***************************************************************************)
SameTask(s, t) ==
    s.fd = t.fd /\ s.seq = t.seq /\ s.cs = t.cs /\ s.org = t.org

TaskStable ==
    [][\A i \in Slots : Occupied(i) =>
          \/ Occupied(i)' /\ SameTask(g_async_queue[i], g_async_queue'[i])
          \/ /\ g_async_queue'[i] = Free
             /\ g_async_queue[i].st = "done"
             /\ g_async_mutex = "worker"]_vars

(***************************************************************************)
(* What the comments promise and the code does not keep.                   *)
(***************************************************************************)

(* A task that waits for its turn has its turn still ahead: the sequence   *)
(* number of a synchronous answer is aligned with the flush                *)
(* (xlab_connection.c, before resp_seq_expected = seq + 1).                *)
NotStranded ==
    \A i \in Slots :
        LET t == g_async_queue[i]
        IN Occupied(i) /\ clean[t.fd] /\ t.cs = sess[t.fd] =>
              t.seq >= resp_seq_expected[t.fd]

(* Every answer in a response queue answers the client it will be sent to  *)
(* (xlab_async.c, the defence against a dangling target_cs).               *)
OwnResponsesOnly ==
    \A f \in Fds : conn[f] # "free" =>
        \A i \in 1 .. Len(resp_queue[f]) : resp_queue[f][i].org = gen[f]

(* While something is queued the worker waits for EPOLLOUT                 *)
(* (xlab_request.c, after the sending loop of xlab_handler_write).         *)
QueuedImpliesArmed ==
    \A f \in Fds :
        clean[f] /\ conn[f] = "open" /\ resp_queue[f] # <<>> =>
            mode[f] = "WRITE"

-----------------------------------------------------------------------------
(***************************************************************************)
(* Liveness.  A request of a live connection that was put into the table   *)
(* leaves it: it is answered or its connection goes (xlab_async.c, the     *)
(* turn passes on).                                                        *)
(***************************************************************************)
Pending(f, n) ==
    /\ clean[f] /\ conn[f] = "open"
    /\ \E i \in TasksOf(f) :
          g_async_queue[i].cs = sess[f] /\ g_async_queue[i].seq = n

Answered ==
    \A f \in Fds : \A n \in 0 .. MaxReq - 1 : Pending(f, n) ~> ~Pending(f, n)
=============================================================================
