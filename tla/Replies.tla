------------------------------ MODULE Replies --------------------------------
(***************************************************************************)
(* Gateway implements ReplyOrder, for every connection that found its      *)
(* descriptor clean.  A client of ReplyOrder is a descriptor; it has asked *)
(* nothing while the descriptor has no session, or the connection that has *)
(* it found something of an earlier one (the run Reuse shows what happens  *)
(* then).                                                                  *)
(***************************************************************************)
EXTENDS Gateway

Live(f) == clean[f] /\ HasSession(f)

(* The refinement mapping, one descriptor at a time.  A task stays "worked *)
(* on" until the flush has freed its slot, whoever runs it and however     *)
(* often the flush skips it.                                               *)
Numbers(q) == [i \in 1 .. Len(q) |-> q[i].seq]
AskedBy(f) == IF Live(f) THEN next_req_seq[f] ELSE 0
TurnOf(f) == IF Live(f) THEN resp_seq_expected[f] ELSE 0
WorkFor(f) ==
    IF Live(f) THEN {g_async_queue[i].seq : i \in TasksOf(f)} ELSE {}
QueueOf(f) == IF Live(f) THEN Numbers(resp_queue[f]) ELSE <<>>

Promise == INSTANCE ReplyOrder WITH
    Clients <- Fds,
    asked   <- [f \in Fds |-> AskedBy(f)],
    turn    <- [f \in Fds |-> TurnOf(f)],
    working <- [f \in Fds |-> WorkFor(f)],
    queued  <- [f \in Fds |-> QueueOf(f)]

(***************************************************************************)
(* Every step of the gateway is one the promise allows, or is none of the  *)
(* client's business: a result is never queued without its slot being      *)
(* freed, nor behind the answer to a later request, nor by way of a        *)
(* session that has been removed.                                          *)
(***************************************************************************)
KeepsPromise == Promise!Spec

(***************************************************************************)
(* A request whose answer is in the response queue has no task any more,   *)
(* and is not in the queue twice: the flush of xlab_async.c can not answer *)
(* again what is already answered.                                         *)
(***************************************************************************)
AnsweredOnce == Promise!AnsweredOnce
=============================================================================
