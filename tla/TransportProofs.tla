-------------------------- MODULE TransportProofs ---------------------------
(***************************************************************************)
(* Theorems about Transport for any set of workers and devices and any     *)
(* amount of input, with their proofs.                                     *)
(***************************************************************************)
EXTENDS Transport, SequenceTheorems, TLAPS

-----------------------------------------------------------------------------
(* Nothing is closed before a receive has failed.                          *)
OpenInv == OpenUnlessFailed /\ \A w \in Workers : pc[w] = "close" => failed

(* What waits on the UDP socket, or was received from it, is a datagram.   *)
UdpInv ==
    /\ fd = "udp" => \A i \in DOMAIN queue : queue[i].from \in Devices
    /\ fd = "tcp" => \A i \in DOMAIN queue : queue[i].from = Peer
    /\ \A w \in Workers :
        /\ pc[w] = "address" => mine[w].from \in Devices
        /\ pc[w] = "parse" /\ fd = "udp" => mine[w].from \in Devices

(* A worker with a datagram in hand: every field of last_src that it no    *)
(* longer has to fill came with a datagram of since, and so will every     *)
(* field another worker is about to fill.                                  *)
Reading(w) == pc[w] \in {"address", "parse"} /\ mine[w].from \in Devices

SinceInv ==
    \A w \in Workers :
        /\ pc[w] # "address" => left[w] = {}
        /\ Reading(w) =>
            /\ mine[w].from \in since[w]
            /\ \A v \in Workers : pc[v] = "address" => mine[v].from \in since[w]
            /\ \A f \in Fields : f \in left[w] \/ \E s \in since[w] : s[f] = lastSrc[f]

AnswerInv == TypeOK /\ OpenInv /\ UdpInv /\ SinceInv /\ AnswersAReader

LEMMA AnswerInit == Init => AnswerInv
<1> SUFFICES ASSUME Init PROVE AnswerInv
  OBVIOUS
<1>1. TypeOK
  <2>1. NoSource \in Source
    BY DEF NoSource, Source
  <2>2. [from |-> Peer, frames |-> <<>>] \in Input
    BY DEF Input
  <2>3. [to |-> Peer, own |-> Peer, since |-> {}] \in Answer
    BY DEF Answer
  <2>4. mine \in [Workers -> Input] /\ sent \in [Workers -> Answer]
    BY <2>2, <2>3 DEF Init
  <2>5. queue \in Seq(Input)
    BY DEF Init
  <2> QED BY <2>1, <2>4, <2>5 DEF Init, TypeOK
<1>2. OpenInv /\ UdpInv /\ SinceInv
  BY DEF Init, OpenInv, OpenUnlessFailed, UdpInv, SinceInv, Reading
<1>3. AnswersAReader
  BY DEF Init, AnswersAReader
<1> QED BY <1>1, <1>2, <1>3 DEF AnswerInv

-----------------------------------------------------------------------------
LEMMA TypesNext == TypeOK /\ UdpInv /\ [Next]_vars => TypeOK'
<1> SUFFICES ASSUME TypeOK, UdpInv, [Next]_vars PROVE TypeOK'
  OBVIOUS
<1> USE DEF TypeOK
<1>1. CASE Arrive
  <2>1. PICK from \in Devices \cup {Peer}, p \in Payloads :
            queue' = Append(queue, [from |-> from, frames |-> p])
    BY <1>1 DEF Arrive
  <2>2. [from |-> from, frames |-> p] \in Input
    BY TransportAssumption DEF Input
  <2>3. queue' \in Seq(Input)
    BY <2>1, <2>2, AppendProperties
  <2> QED BY <1>1, <2>3 DEF Arrive
<1>2. CASE Accept
  BY <1>2 DEF Accept
<1>3. ASSUME NEW w \in Workers, Handler(w) \/ ErrorEvent(w) PROVE TypeOK'
  <2>1. CASE Wake(w) \/ RecvNothing(w) \/ RecvFails(w) \/ ParseEnd(w) \/ ErrorEvent(w)
    BY <2>1 DEF Wake, RecvNothing, RecvFails, ParseEnd, ErrorEvent, Goto
  <2>2. CASE Close(w)
    BY <2>2 DEF Close, Goto
  <2>3. CASE RecvDatagram(w)
    <3>1. Head(queue) \in Input /\ Tail(queue) \in Seq(Input)
      BY <2>3 DEF RecvDatagram
    <3>2. Head(queue).from \in Devices
      BY <2>3 DEF RecvDatagram, UdpInv
    <3>3. {mine[u].from : u \in Filling} \subseteq Devices
      BY DEF Filling, UdpInv
    <3>4. since' \in [Workers -> SUBSET Devices]
      BY <2>3, <3>2, <3>3 DEF RecvDatagram
    <3> QED BY <2>3, <3>1, <3>4 DEF RecvDatagram, Goto
  <2>4. CASE RecvAddress(w)
    <3>1. PICK f \in left[w] :
            /\ lastSrc' = [lastSrc EXCEPT ![f] = mine[w].from[f]]
            /\ left' = [left EXCEPT ![w] = @ \ {f}]
            /\ Goto(w, IF left[w] = {f} THEN "parse" ELSE "address")
      BY <2>4 DEF RecvAddress
    <3>2. mine[w].from \in Source
      BY <2>4, TransportAssumption DEF RecvAddress, UdpInv
    <3>3. lastSrc' \in Source
      <4>1. CASE f = "host"
        BY <3>1, <3>2, <4>1 DEF Source
      <4>2. CASE f = "port"
        BY <3>1, <3>2, <4>2 DEF Source
      <4> QED BY <4>1, <4>2 DEF Fields
    <3> QED BY <2>4, <3>1, <3>3 DEF RecvAddress, Goto
  <2>5. CASE RecvStream(w)
    <3>1. Head(queue) \in Input /\ Tail(queue) \in Seq(Input)
      BY <2>5 DEF RecvStream
    <3> QED BY <2>5, <3>1 DEF RecvStream, Goto
  <2>6. CASE Parse(w)
    <3>1. mine' \in [Workers -> Input]
      <4>1. mine[w].from \in Devices \cup {Peer} /\ mine[w].frames \in Seq(Frames)
        BY DEF Input
      <4>2. Tail(mine[w].frames) \in Seq(Frames)
        BY <2>6, <4>1 DEF Parse
      <4> QED BY <2>6, <4>1, <4>2 DEF Parse, Input
    <3>2. sent' \in [Workers -> Answer]
      <4>1. mine[w].from \in Devices \cup {Peer}
        BY DEF Input
      <4>2. lastSrc \in Source \cup {Peer} /\ Peer \in Source \cup {Peer}
        OBVIOUS
      <4>3. [to |-> IF fd = "udp" THEN lastSrc ELSE Peer,
             own |-> mine[w].from, since |-> since[w]] \in Answer
        BY <4>1, <4>2 DEF Answer
      <4> QED BY <2>6, <4>3 DEF Parse, Reply, Destination
    <3> QED BY <2>6, <3>1, <3>2 DEF Parse
  <2> QED BY <1>3, <2>1, <2>2, <2>3, <2>4, <2>5, <2>6 DEF Handler
<1>4. CASE UNCHANGED vars
  BY <1>4 DEF vars
<1> QED BY <1>1, <1>2, <1>3, <1>4 DEF Next

LEMMA OpenNext == TypeOK /\ OpenInv /\ [Next]_vars => OpenInv'
<1> SUFFICES ASSUME TypeOK, OpenInv, [Next]_vars PROVE OpenInv'
  OBVIOUS
<1> USE DEF TypeOK, OpenInv, OpenUnlessFailed
<1>1. CASE Arrive \/ Accept
  BY <1>1 DEF Arrive, Accept
<1>2. ASSUME NEW w \in Workers, Handler(w) \/ ErrorEvent(w) PROVE OpenInv'
  BY <1>2 DEF Handler, Wake, RecvDatagram, RecvAddress, RecvStream, RecvNothing,
              RecvFails, Close, Parse, ParseEnd, ErrorEvent, Goto
<1>3. CASE UNCHANGED vars
  BY <1>3 DEF vars
<1> QED BY <1>1, <1>2, <1>3 DEF Next

LEMMA UdpNext == TypeOK /\ UdpInv /\ [Next]_vars => UdpInv'
<1> SUFFICES ASSUME TypeOK, UdpInv, [Next]_vars PROVE UdpInv'
  OBVIOUS
<1> USE DEF TypeOK, UdpInv
<1>1. CASE Arrive
  <2>1. PICK from \in IF fd = "udp" THEN Devices ELSE {Peer}, p \in Payloads :
            queue' = Append(queue, [from |-> from, frames |-> p])
    BY <1>1 DEF Arrive
  <2>2. \A i \in DOMAIN queue' :
           queue'[i] = IF i = Len(queue) + 1 THEN [from |-> from, frames |-> p]
                       ELSE queue[i]
    BY <2>1
  <2>3. \A i \in DOMAIN queue' : i # Len(queue) + 1 => i \in DOMAIN queue
    BY <2>1
  <2> QED BY <1>1, <2>1, <2>2, <2>3 DEF Arrive
<1>2. CASE Accept
  BY <1>2 DEF Accept
<1>3. ASSUME NEW w \in Workers, Handler(w) \/ ErrorEvent(w) PROVE UdpInv'
  <2>1. CASE Wake(w) \/ RecvNothing(w) \/ RecvFails(w) \/ ParseEnd(w) \/ ErrorEvent(w)
    BY <2>1 DEF Wake, RecvNothing, RecvFails, ParseEnd, ErrorEvent, Goto
  <2>2. CASE Close(w)
    BY <2>2 DEF Close, Goto
  <2>3. ASSUME queue # <<>>, queue' = Tail(queue), fd' = fd
        PROVE  /\ fd' = "udp" => Head(queue).from \in Devices
               /\ fd' = "udp" => \A i \in DOMAIN queue' : queue'[i].from \in Devices
               /\ fd' = "tcp" => \A i \in DOMAIN queue' : queue'[i].from = Peer
    <3>1. \A i \in DOMAIN queue' : queue'[i] = queue[i + 1] /\ i + 1 \in DOMAIN queue
      BY <2>3
    <3>2. Head(queue) = queue[1] /\ 1 \in DOMAIN queue
      BY <2>3
    <3> QED BY <2>3, <3>1, <3>2
  <2>4. CASE RecvDatagram(w)
    BY <2>3, <2>4 DEF RecvDatagram, Goto
  <2>5. CASE RecvStream(w)
    BY <2>3, <2>5 DEF RecvStream, Goto
  <2>6. CASE RecvAddress(w)
    BY <2>6 DEF RecvAddress, Goto
  <2>7. CASE Parse(w)
    <3>1. \A v \in Workers : mine'[v].from = mine[v].from
      BY <2>7 DEF Parse, Input
    <3> QED BY <2>7, <3>1 DEF Parse
  <2> QED BY <1>3, <2>1, <2>2, <2>4, <2>5, <2>6, <2>7 DEF Handler
<1>4. CASE UNCHANGED vars
  BY <1>4 DEF vars
<1> QED BY <1>1, <1>2, <1>3, <1>4 DEF Next

-----------------------------------------------------------------------------
LEMMA SinceNext == TypeOK /\ UdpInv /\ SinceInv /\ [Next]_vars => SinceInv'
<1> SUFFICES ASSUME TypeOK, UdpInv, SinceInv, [Next]_vars PROVE SinceInv'
  OBVIOUS
<1> USE DEF TypeOK
<1>1. CASE Arrive \/ Accept \/ UNCHANGED vars
  BY <1>1 DEF Arrive, Accept, vars, SinceInv, Reading
<1>2. ASSUME NEW w \in Workers, Handler(w) \/ ErrorEvent(w) PROVE SinceInv'
  (* These enter no place where a worker reads.                            *)
  <2>1. CASE Wake(w) \/ RecvNothing(w) \/ RecvFails(w) \/ Close(w) \/ ParseEnd(w)
             \/ ErrorEvent(w)
    BY <2>1 DEF Wake, RecvNothing, RecvFails, Close, ParseEnd, ErrorEvent, Goto,
                SinceInv, Reading
  <2>2. CASE RecvStream(w)
    <3>1. Head(queue).from \notin Devices
      BY <2>2, TransportAssumption DEF RecvStream, UdpInv
    <3>2. mine'[w].from \notin Devices /\ pc'[w] = "parse"
      BY <2>2, <3>1 DEF RecvStream, Goto
    <3>3. \A v \in Workers : v # w => mine'[v] = mine[v] /\ pc'[v] = pc[v]
      BY <2>2 DEF RecvStream, Goto
    <3>4. left'[w] = {}
      BY <2>2 DEF RecvStream, SinceInv
    <3> QED BY <2>2, <3>2, <3>3, <3>4 DEF RecvStream, SinceInv, Reading
  <2>3. CASE RecvDatagram(w)
    <3> DEFINE from == Head(queue).from
    <3>1. /\ pc'[w] = "address" /\ mine'[w].from = from /\ left'[w] = Fields
          /\ lastSrc' = lastSrc
          /\ since'[w] = {from} \cup {mine[u].from : u \in Filling}
      BY <2>3 DEF RecvDatagram, Goto
    <3>2. \A v \in Workers : v # w =>
             /\ pc'[v] = pc[v] /\ mine'[v] = mine[v] /\ left'[v] = left[v]
             /\ Reading(v) => since'[v] = {from} \cup since[v]
      BY <2>3 DEF RecvDatagram, Goto, Reading
    <3>3. \A v \in Workers : pc'[v] = "address" => v = w \/ v \in Filling
      BY <3>2 DEF Filling
    <3>4. \A v \in Workers : pc'[v] = "address" => mine'[v].from \in since'[w]
      BY <3>1, <3>2, <3>3
    <3>5. ASSUME NEW v \in Workers, v # w
          PROVE  /\ pc'[v] # "address" => left'[v] = {}
                 /\ Reading(v)' =>
                     /\ mine'[v].from \in since'[v]
                     /\ \A u \in Workers : pc'[u] = "address" => mine'[u].from \in since'[v]
                     /\ \A f \in Fields :
                          f \in left'[v] \/ \E s \in since'[v] : s[f] = lastSrc'[f]
      <4>1. pc'[v] # "address" => left'[v] = {}
        BY <3>2, <3>5 DEF SinceInv
      <4>2. ASSUME Reading(v)'
            PROVE  Reading(v) /\ since'[v] = {from} \cup since[v]
        BY <3>2, <3>5, <4>2 DEF Reading
      <4>3. ASSUME Reading(v)', NEW u \in Workers, pc'[u] = "address"
            PROVE  mine'[u].from \in since'[v]
        BY <3>1, <3>2, <4>2, <4>3 DEF SinceInv
      <4> QED BY <3>1, <3>2, <3>5, <4>1, <4>2, <4>3 DEF SinceInv
    <3> QED BY <3>1, <3>4, <3>5 DEF SinceInv, Reading
  <2>4. CASE RecvAddress(w)
    <3>1. PICK f \in left[w] :
            /\ lastSrc' = [lastSrc EXCEPT ![f] = mine[w].from[f]]
            /\ left' = [left EXCEPT ![w] = @ \ {f}]
            /\ Goto(w, IF left[w] = {f} THEN "parse" ELSE "address")
      BY <2>4 DEF RecvAddress
    <3>2. pc[w] = "address" /\ Reading(w) /\ mine' = mine /\ since' = since
      BY <2>4 DEF RecvAddress, UdpInv, Reading
    <3>3. /\ lastSrc'[f] = mine[w].from[f]
          /\ \A g \in Fields : g # f => lastSrc'[g] = lastSrc[g]
      BY <3>1 DEF Source, Fields
    <3>4. /\ left'[w] = left[w] \ {f}
          /\ pc'[w] = IF left[w] = {f} THEN "parse" ELSE "address"
          /\ \A v \in Workers : v # w => left'[v] = left[v] /\ pc'[v] = pc[v]
      BY <3>1 DEF Goto
    <3>5. \A v \in Workers : Reading(v)' => Reading(v) /\ mine[w].from \in since[v]
      BY <3>2, <3>4 DEF Reading, SinceInv
    <3>6. \A v \in Workers : pc'[v] = "address" => pc[v] = "address"
      BY <3>2, <3>4
    <3>7. ASSUME NEW v \in Workers, Reading(v)', NEW g \in Fields
          PROVE  g \in left'[v] \/ \E s \in since'[v] : s[g] = lastSrc'[g]
      <4>1. CASE g = f
        BY <3>2, <3>3, <3>5, <3>7, <4>1
      <4>2. CASE g # f
        BY <3>2, <3>3, <3>4, <3>5, <3>7, <4>2 DEF SinceInv
      <4> QED BY <4>1, <4>2
    <3>8. \A v \in Workers : pc'[v] # "address" => left'[v] = {}
      BY <3>2, <3>4 DEF SinceInv
    <3> QED BY <3>2, <3>5, <3>6, <3>7, <3>8 DEF SinceInv
  <2>5. CASE Parse(w)
    <3>1. \A v \in Workers : mine'[v].from = mine[v].from
      BY <2>5 DEF Parse, Input
    <3> QED BY <2>5, <3>1 DEF Parse, SinceInv, Reading
  <2> QED BY <1>2, <2>1, <2>2, <2>3, <2>4, <2>5 DEF Handler
<1> QED BY <1>1, <1>2 DEF Next

-----------------------------------------------------------------------------
LEMMA AnswersNext == AnswerInv /\ [Next]_vars => AnswersAReader'
<1> SUFFICES ASSUME AnswerInv, [Next]_vars PROVE AnswersAReader'
  OBVIOUS
<1> USE DEF AnswerInv, TypeOK
<1>1. failed => failed'
  BY DEF Next, Arrive, Accept, Handler, Wake, RecvDatagram, RecvAddress, RecvStream,
         RecvNothing, RecvFails, Close, Parse, ParseEnd, ErrorEvent, vars
<1>2. CASE UNCHANGED sent
  BY <1>1, <1>2 DEF AnswersAReader, Overlapping
<1>3. ASSUME NEW w \in Workers, Parse(w), ~UNCHANGED sent PROVE AnswersAReader'
  <2>1. /\ pc[w] = "parse" /\ fd # "free"
        /\ sent' = [sent EXCEPT ![w] =
                      [to |-> IF fd = "udp" THEN lastSrc ELSE Peer,
                       own |-> mine[w].from, since |-> since[w]]]
    BY <1>3 DEF Parse, Reply, Destination
  <2>2. ASSUME NEW v \in Workers, v # w
        PROVE  IF sent'[v].to = Peer THEN sent'[v].own = Peer \/ failed'
               ELSE sent'[v].own \in sent'[v].since /\ Overlapping(sent'[v])
    <3>1. sent'[v] = sent[v]
      BY <2>1, <2>2
    <3> QED BY <1>1, <3>1 DEF AnswersAReader
  <2>3. CASE fd = "tcp"
    <3>1. failed
      BY <2>3 DEF OpenInv, OpenUnlessFailed
    <3>2. sent'[w].to = Peer
      BY <2>1, <2>3
    <3> QED BY <1>1, <2>2, <3>1, <3>2 DEF AnswersAReader
  <2>4. CASE fd = "udp"
    <3>1. sent'[w] = [to |-> lastSrc, own |-> mine[w].from, since |-> since[w]]
      BY <2>1, <2>4
    <3>2. Reading(w) /\ left[w] = {}
      BY <2>1, <2>4 DEF UdpInv, Reading, SinceInv
    <3>3. mine[w].from \in since[w] /\ \A f \in Fields : \E s \in since[w] : s[f] = lastSrc[f]
      BY <3>2 DEF SinceInv
    <3>4. sent'[w].own \in sent'[w].since /\ Overlapping(sent'[w])
      BY <3>1, <3>3 DEF Overlapping
    <3>5. sent'[w].to # Peer
      BY <3>1, TransportAssumption
    <3> QED BY <2>2, <3>4, <3>5 DEF AnswersAReader
  <2> QED BY <2>1, <2>3, <2>4
<1> QED BY <1>2, <1>3 DEF Next, Arrive, Accept, Handler, Wake, RecvDatagram, RecvAddress,
            RecvStream, RecvNothing, RecvFails, Close, ParseEnd, ErrorEvent, vars

-----------------------------------------------------------------------------
LEMMA AnswerInvariant == Spec => []AnswerInv
<1>1. AnswerInv /\ [Next]_vars => AnswerInv'
  BY TypesNext, OpenNext, UdpNext, SinceNext, AnswersNext DEF AnswerInv
<1> QED BY AnswerInit, <1>1, PTL DEF Spec

(* The state of the descriptor and of the workers has its types; once it   *)
(* is a connection's, at most one worker polls it.                         *)
THEOREM TransportTypes == Spec => []TypeOK
<1>1. AnswerInv => TypeOK
  BY DEF AnswerInv
<1> QED BY AnswerInvariant, <1>1, PTL

(* A lost race for a datagram is no error: the socket stays open, and in   *)
(* every epoll, until the kernel fails a receive.                          *)
THEOREM StaysOpen == Spec => []OpenUnlessFailed
<1>1. AnswerInv => OpenUnlessFailed
  BY DEF AnswerInv, OpenInv
<1> QED BY AnswerInvariant, <1>1, PTL

(* No answer to a datagram goes to an address that was stale when the      *)
(* datagram came, however many workers share last_src.                     *)
THEOREM NoStaleAddress == Spec => []AnswersAReader
<1>1. AnswerInv => AnswersAReader
  BY DEF AnswerInv
<1> QED BY AnswerInvariant, <1>1, PTL
-----------------------------------------------------------------------------
(* One worker, as in the shipped configuration: since tells nothing but    *)
(* the datagram in hand, because no other receive overlaps it.             *)
AloneInv ==
    \A w \in Workers :
        /\ Reading(w) => since[w] = {mine[w].from}
        /\ sent[w].to # Peer => sent[w].since = {sent[w].own}

LEMMA AloneInit == Init => AloneInv
<1> SUFFICES ASSUME Init PROVE AloneInv
  OBVIOUS
<1>1. /\ pc = [w \in Workers |-> "loop"]
      /\ sent = [w \in Workers |-> [to |-> Peer, own |-> Peer, since |-> {}]]
  BY Zenon DEF Init
<1>2. \A w \in Workers : pc[w] = "loop" /\ sent[w].to = Peer
  BY <1>1
<1> QED BY <1>2 DEF AloneInv, Reading

LEMMA AloneNext ==
    ASSUME \A v, w \in Workers : v = w, AnswerInv, AloneInv, [Next]_vars
    PROVE  AloneInv'
<1> USE DEF AnswerInv, TypeOK
<1>1. CASE Arrive \/ Accept \/ UNCHANGED vars
  BY <1>1 DEF Arrive, Accept, vars, AloneInv, Reading
<1>2. ASSUME NEW w \in Workers, Handler(w) \/ ErrorEvent(w) PROVE AloneInv'
  <2>1. CASE Wake(w) \/ RecvNothing(w) \/ RecvFails(w) \/ Close(w) \/ ParseEnd(w)
             \/ ErrorEvent(w)
    BY <2>1 DEF Wake, RecvNothing, RecvFails, Close, ParseEnd, ErrorEvent, Goto,
                AloneInv, Reading
  <2>2. CASE RecvStream(w)
    <3>1. Head(queue).from \notin Devices
      BY <2>2, TransportAssumption DEF RecvStream, UdpInv
    <3>2. ~Reading(w)'
      BY <2>2, <3>1 DEF RecvStream, Reading
    <3> QED BY <1>2, <2>2, <3>2 DEF RecvStream, AloneInv
  <2>3. CASE RecvDatagram(w)
    <3>1. Filling = {}
      BY <2>3 DEF RecvDatagram, Filling
    <3>2. since'[w] = {mine'[w].from} /\ sent' = sent
      BY <2>3, <3>1 DEF RecvDatagram
    <3> QED BY <1>2, <3>2 DEF AloneInv
  <2>4. CASE RecvAddress(w)
    BY <2>4 DEF RecvAddress, Goto, AloneInv, Reading
  <2>5. CASE Parse(w)
    <3>1. mine'[w].from = mine[w].from /\ since' = since /\ pc' = pc
      BY <2>5 DEF Parse, Input
    <3>2. CASE UNCHANGED sent
      BY <1>2, <3>1, <3>2 DEF AloneInv, Reading
    <3>3. CASE sent' = [sent EXCEPT ![w] =
                 [to |-> Destination, own |-> mine[w].from, since |-> since[w]]]
      <4>1. sent'[w].to # Peer => Reading(w)
        BY <2>5, <3>3 DEF Destination, Parse, Reading, UdpInv
      <4> QED BY <1>2, <3>1, <3>3, <4>1 DEF AloneInv, Reading
    <3> QED BY <2>5, <3>2, <3>3 DEF Parse, Reply
  <2> QED BY <1>2, <2>1, <2>2, <2>3, <2>4, <2>5 DEF Handler
<1> QED BY <1>1, <1>2 DEF Next

(* An answer that overlapped no other receive goes to its sender. *)
LEMMA AloneToSender ==
    ASSUME AnswerInv, AloneInv
    PROVE  AnswersTheSender
<1>1. ASSUME NEW w \in Workers, sent[w].to # Peer
      PROVE  sent[w].to = sent[w].own
  <2> DEFINE a == sent[w]
  <2>1. a.since = {a.own} /\ Overlapping(a) /\ a.own \in a.since
    BY <1>1 DEF AnswerInv, AloneInv, AnswersAReader
  <2>2. a \in Answer
    BY DEF AnswerInv, TypeOK
  <2>3. a.to \in Source /\ a.own \in Source
    BY <1>1, <2>1, <2>2, TransportAssumption DEF Answer
  <2>4. a.own.host = a.to.host /\ a.own.port = a.to.port
    BY <2>1 DEF Overlapping, Fields
  <2> QED BY <2>3, <2>4 DEF Source
<1> QED BY <1>1, Zenon DEF AnswersTheSender

(* With one worker every answer to a datagram goes to the device that sent *)
(* it, as the comment at last_src says; Astray shows what two workers do.  *)
THEOREM OneWorkerAnswersTheSender ==
    ASSUME \A v, w \in Workers : v = w
    PROVE  Spec => []AnswersTheSender
<1>1. Init => AloneInv
  BY AloneInit
<1>2. AnswerInv /\ AloneInv /\ [Next]_vars => AloneInv'
  BY AloneNext
<1>3. AnswerInv /\ AloneInv => AnswersTheSender
  BY AloneToSender
<1> QED BY <1>1, <1>2, <1>3, AnswerInvariant, PTL DEF Spec
=============================================================================
