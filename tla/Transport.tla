----------------------------- MODULE Transport ------------------------------
(***************************************************************************)
(* The UDP driver (xlab_trans_udp.c, xlab_trans.c) and the UDP branch of   *)
(* xlab_conn_read, which every worker runs on the one socket and the one   *)
(* context of the driver.                                                  *)
(*                                                                         *)
(* The state is that of one descriptor number, the one the driver opened.  *)
(* The event loop closes it when a receive fails; the driver and           *)
(* g_trans_fds keep the number, and a TCP connection may get it next.      *)
(***************************************************************************)
EXTENDS Naturals, Sequences

CONSTANTS
    Workers,
    Devices,           \* the addresses datagrams come from
    Peer,              \* the other end of a TCP connection
    Payloads,          \* what a datagram, or a chunk of a stream, may hold
    MaxInput,          \* bound: datagrams and chunks
    ReadErrors         \* whether the kernel may fail a receive

Fields == {"host", "port"}
Frames == {"intact", "damaged", "unknown"}
NoSource == [host |-> "0.0.0.0", port |-> "0"]

(* What last_src can hold: its fields are filled one by one.               *)
Source == [host : {d.host : d \in Devices \cup {NoSource}},
           port : {d.port : d \in Devices \cup {NoSource}}]

ASSUME TransportAssumption ==
    /\ Payloads \subseteq Seq(Frames)
    /\ MaxInput \in Nat
    /\ ReadErrors \in BOOLEAN
    /\ Devices \subseteq Source
    /\ Peer \notin Source

VARIABLES
    fd,        \* what the number refers to: "udp", "free" or "tcp"
    polled,    \* the workers in whose epoll it is
    queue,     \* what can be received on it
    lastSrc,   \* udp_ctx.last_src, shared by all workers
    pc,        \* per worker: in the event loop, or a place in its handler
    left,      \* per worker: the fields of last_src recvfrom has yet to fill
    mine,      \* per worker: what its handler has received
    inputs,    \* bound: how often something was sent to the gateway
    failed,    \* history: the kernel failed a receive
    since,     \* history, per worker: received from with or after mine
    sent       \* history, per worker: its last answer

vars == <<fd, polled, queue, lastSrc, pc, left, mine, inputs, failed, since, sent>>

Input == [from : Devices \cup {Peer}, frames : Seq(Frames)]
Answer == [to : Source \cup {Peer}, own : Devices \cup {Peer}, since : SUBSET Devices]

TypeOK ==
    /\ fd \in {"udp", "free", "tcp"}
    /\ polled \subseteq Workers
    /\ fd = "free" => polled = {} /\ queue = <<>>
    /\ fd = "tcp" => \A v, w \in polled : v = w
    /\ queue \in Seq(Input)
    /\ lastSrc \in Source
    /\ pc \in [Workers -> {"loop", "receive", "address", "parse", "close"}]
    /\ left \in [Workers -> SUBSET Fields]
    /\ mine \in [Workers -> Input]
    /\ inputs \in Nat
    /\ failed \in BOOLEAN
    /\ since \in [Workers -> SUBSET Devices]
    /\ sent \in [Workers -> Answer]

(* xlab_trans_udp_init has bound the socket and every worker polls it.     *)
Init ==
    /\ fd = "udp"
    /\ polled = Workers
    /\ queue = <<>>
    /\ lastSrc = NoSource
    /\ pc = [w \in Workers |-> "loop"]
    /\ left = [w \in Workers |-> {}]
    /\ mine = [w \in Workers |-> [from |-> Peer, frames |-> <<>>]]
    /\ inputs = 0
    /\ failed = FALSE
    /\ since = [w \in Workers |-> {}]
    /\ sent = [w \in Workers |-> [to |-> Peer, own |-> Peer, since |-> {}]]

-----------------------------------------------------------------------------
(* The devices and the main thread.                                        *)

Arrive ==
    /\ inputs < MaxInput
    /\ fd # "free"
    /\ \E from \in IF fd = "udp" THEN Devices ELSE {Peer}, p \in Payloads :
           queue' = Append(queue, [from |-> from, frames |-> p])
    /\ inputs' = inputs + 1
    /\ UNCHANGED <<fd, polled, lastSrc, pc, left, mine, failed, since, sent>>

(* Mutant of Accept: the connection is added to every epoll. *)
AcceptEverywhere ==
    /\ fd = "free"
    /\ fd' = "tcp"
    /\ polled' = Workers
    /\ UNCHANGED <<queue, lastSrc, pc, left, mine, inputs, failed, since, sent>>

(* A TCP connection is accepted with the number and given to one worker.   *)
Accept ==
    /\ fd = "free"
    /\ fd' = "tcp"
    /\ \E w \in Workers : polled' = {w}
    /\ UNCHANGED <<queue, lastSrc, pc, left, mine, inputs, failed, since, sent>>

-----------------------------------------------------------------------------
(* A worker.                                                               *)

Goto(w, place) == pc' = [pc EXCEPT ![w] = place]

(* epoll_wait reports input; another worker may be quicker to receive it.  *)
Wake(w) ==
    /\ pc[w] = "loop"
    /\ w \in polled
    /\ queue # <<>>
    /\ Goto(w, "receive")
    /\ UNCHANGED <<fd, polled, queue, lastSrc, left, mine, inputs, failed, since, sent>>

Filling == {v \in Workers : pc[v] = "address"}

(* recvfrom takes a datagram and fills in last_src; a receive by another   *)
(* worker may be half way through the same.                                *)
RecvDatagram(w) ==
    /\ pc[w] = "receive"
    /\ fd = "udp"
    /\ queue # <<>>
    /\ mine' = [mine EXCEPT ![w] = Head(queue)]
    /\ queue' = Tail(queue)
    /\ left' = [left EXCEPT ![w] = Fields]
    /\ since' = [v \in Workers |->
                   IF v = w
                     THEN {Head(queue).from} \cup {mine[u].from : u \in Filling}
                   ELSE IF pc[v] \in {"address", "parse"}
                     THEN {Head(queue).from} \cup since[v]
                   ELSE since[v]]
    /\ Goto(w, "address")
    /\ UNCHANGED <<fd, polled, lastSrc, inputs, failed, sent>>

(* Mutant of RecvAddress: the address is not asked for a second time. *)
RecvAddressOnce(w) ==
    /\ pc[w] = "address"
    /\ \E f \in left[w] :
         /\ lastSrc' = IF lastSrc[f] = NoSource[f]
                         THEN [lastSrc EXCEPT ![f] = mine[w].from[f]] ELSE lastSrc
         /\ left' = [left EXCEPT ![w] = @ \ {f}]
         /\ Goto(w, IF left[w] = {f} THEN "parse" ELSE "address")
    /\ UNCHANGED <<fd, polled, queue, mine, inputs, failed, since, sent>>

RecvAddress(w) ==
    /\ pc[w] = "address"
    /\ \E f \in left[w] :
         /\ lastSrc' = [lastSrc EXCEPT ![f] = mine[w].from[f]]
         /\ left' = [left EXCEPT ![w] = @ \ {f}]
         /\ Goto(w, IF left[w] = {f} THEN "parse" ELSE "address")
    /\ UNCHANGED <<fd, polled, queue, mine, inputs, failed, since, sent>>

(* The number is a TCP connection's.  The descriptor map still has it as   *)
(* the UDP socket, so the dispatch takes the UDP driver; no address comes  *)
(* with the bytes.                                                         *)
RecvStream(w) ==
    /\ pc[w] = "receive"
    /\ fd = "tcp"
    /\ queue # <<>>
    /\ mine' = [mine EXCEPT ![w] = Head(queue)]
    /\ queue' = Tail(queue)
    /\ Goto(w, "parse")
    /\ UNCHANGED <<fd, polled, lastSrc, left, inputs, failed, since, sent>>

(* Mutant of RecvNothing: EAGAIN is an error like any other. *)
RecvNothingFails(w) ==
    /\ pc[w] = "receive"
    /\ fd # "free"
    /\ queue = <<>>
    /\ Goto(w, "close")
    /\ UNCHANGED <<fd, polled, queue, lastSrc, left, mine, inputs, failed, since, sent>>

(* Another worker has taken it: EAGAIN counts as zero bytes.               *)
RecvNothing(w) ==
    /\ pc[w] = "receive"
    /\ fd # "free"
    /\ queue = <<>>
    /\ Goto(w, "loop")
    /\ UNCHANGED <<fd, polled, queue, lastSrc, left, mine, inputs, failed, since, sent>>

(* -1 is returned to the event loop, which will close the descriptor; a    *)
(* number that is free meanwhile is a bad descriptor.                      *)
RecvFails(w) ==
    /\ pc[w] = "receive"
    /\ \/ fd = "free" /\ UNCHANGED failed
       \/ fd # "free" /\ ReadErrors /\ failed' = TRUE
    /\ Goto(w, "close")
    /\ UNCHANGED <<fd, polled, queue, lastSrc, left, mine, inputs, since, sent>>

(* close(2) of the number, whatever it refers to by now.                   *)
Close(w) ==
    /\ pc[w] = "close"
    /\ fd' = "free"
    /\ polled' = {}
    /\ queue' = <<>>
    /\ Goto(w, "loop")
    /\ UNCHANGED <<lastSrc, left, mine, inputs, failed, since, sent>>

(* EPOLLERR: xlab_conn_error closes the descriptor.                        *)
ErrorEvent(w) ==
    /\ pc[w] = "loop"
    /\ w \in polled
    /\ ReadErrors
    /\ failed' = TRUE
    /\ Goto(w, "close")
    /\ UNCHANGED <<fd, polled, queue, lastSrc, left, mine, inputs, since, sent>>

(* sendto(ctx->sock_fd, ..., &ctx->last_src): the address is ignored on a  *)
(* connected socket.                                                       *)
Destination == IF fd = "udp" THEN lastSrc ELSE Peer

(* What the dispatch returns is not looked at, so a send may fail.         *)
Reply(w) ==
    \/ UNCHANGED sent
    \/ /\ fd # "free"
       /\ sent' = [sent EXCEPT ![w] =
                     [to |-> Destination, own |-> mine[w].from, since |-> since[w]]]

(* Mutant of Parse: the boot code of a damaged frame is not skipped. *)
ParseDamagedAgain(w) ==
    /\ pc[w] = "parse"
    /\ mine[w].frames # <<>>
    /\ IF Head(mine[w].frames) = "unknown" THEN UNCHANGED sent ELSE Reply(w)
    /\ mine' = IF Head(mine[w].frames) = "damaged" THEN mine
                 ELSE [mine EXCEPT ![w].frames = Tail(@)]
    /\ UNCHANGED <<fd, polled, queue, lastSrc, pc, left, inputs, failed, since>>

(* An intact frame is answered and a damaged one refused; a frame the      *)
(* router has no command for gets no answer at all.                        *)
Parse(w) ==
    /\ pc[w] = "parse"
    /\ mine[w].frames # <<>>
    /\ IF Head(mine[w].frames) = "unknown" THEN UNCHANGED sent ELSE Reply(w)
    /\ mine' = [mine EXCEPT ![w].frames = Tail(@)]
    /\ UNCHANGED <<fd, polled, queue, lastSrc, pc, left, inputs, failed, since>>

ParseEnd(w) ==
    /\ pc[w] = "parse"
    /\ mine[w].frames = <<>>
    /\ Goto(w, "loop")
    /\ UNCHANGED <<fd, polled, queue, lastSrc, left, mine, inputs, failed, since, sent>>

Handler(w) ==
    \/ Wake(w)
    \/ RecvDatagram(w) \/ RecvAddress(w) \/ RecvStream(w) \/ RecvNothing(w)
    \/ RecvFails(w) \/ Close(w)
    \/ Parse(w) \/ ParseEnd(w)

Next ==
    \/ Arrive \/ Accept
    \/ \E w \in Workers : Handler(w) \/ ErrorEvent(w)

Spec == Init /\ [][Next]_vars

(* The workers' threads run and their handlers do not block.               *)
Fairness == \A w \in Workers : WF_vars(Handler(w))

FairSpec == Spec /\ Fairness
-----------------------------------------------------------------------------
(***************************************************************************)
(* An answer goes to a device, or to the host of one and the port of       *)
(* another, that was received from together with the datagram in hand or   *)
(* after it: never to an address that was stale when the datagram came.    *)
(* It goes to a TCP connection only after a receive has failed.            *)
(***************************************************************************)
Overlapping(a) == \A f \in Fields : \E s \in a.since : s[f] = a.to[f]

AnswersAReader ==
    \A w \in Workers :
        IF sent[w].to = Peer THEN sent[w].own = Peer \/ failed
        ELSE sent[w].own \in sent[w].since /\ Overlapping(sent[w])

(***************************************************************************)
(* All workers are woken for one datagram; those that come too late do no  *)
(* harm.  The socket stays open, and in every epoll, until the kernel      *)
(* fails a receive.                                                        *)
(***************************************************************************)
OpenUnlessFailed == (fd = "udp" /\ polled = Workers) \/ failed

(***************************************************************************)
(* What is received is handled: no mix of frames keeps the workers busy    *)
(* with one datagram, no lost race leaves one in the queue.                *)
(***************************************************************************)
Drained == (queue # <<>>) ~> (queue = <<>>)

(***************************************************************************)
(* What the code says and does not keep: the address of the last datagram  *)
(* is kept to answer it (xlab_trans_udp.c).                                *)
(***************************************************************************)
AnswersTheSender ==
    \A w \in Workers : sent[w].to = sent[w].own \/ sent[w].to = Peer
=============================================================================
