----------------------------- MODULE ReplyOrder ------------------------------
(***************************************************************************)
(* What the gateway promises a client about its requests, with nothing of  *)
(* tasks, slots, wakeups and epoll in it: xlab_async.h:49, responses are   *)
(* built in the order of the requests.  Requests are numbered in the order *)
(* they arrive.  Each one is answered on the spot, refused, or worked on;  *)
(* an answer that cannot go out at once is queued.  A request worked on is *)
(* queued at most once, and never behind the answer to a later request.    *)
(* Module Replies shows that Gateway implements it.                        *)
(***************************************************************************)
EXTENDS Integers, Sequences, SequenceTheorems, TLAPS

CONSTANT Clients

VARIABLES
    asked,      \* per client: the number of requests received
    turn,       \* per client: no answer to a request before this one is queued
    working,    \* per client: the requests being worked on
    queued      \* per client: the requests whose answers wait to be sent

vars == <<asked, turn, working, queued>>

Init ==
    /\ asked = [c \in Clients |-> 0]
    /\ turn = [c \in Clients |-> 0]
    /\ working = [c \in Clients |-> {}]
    /\ queued = [c \in Clients |-> <<>>]

Ask(c) == asked' = [asked EXCEPT ![c] = @ + 1]

(* A request is refused; the turn stays where it is. *)
Refuse(c) ==
    /\ Ask(c)
    /\ UNCHANGED <<turn, working, queued>>

(* A request is answered at once, or its answer goes behind the others.    *)
(* Either way the turn is behind it, whatever is still worked on.          *)
AnswerAtOnce(c) ==
    /\ Ask(c)
    /\ turn' = [turn EXCEPT ![c] = asked[c] + 1]
    /\ queued' \in {queued, [queued EXCEPT ![c] = Append(@, asked[c])]}
    /\ UNCHANGED working

StartWork(c) ==
    /\ Ask(c)
    /\ working' = [working EXCEPT ![c] = @ \cup {asked[c]}]
    /\ UNCHANGED <<turn, queued>>

(* Work whose turn has not passed is done: queue the answer, or drop it    *)
(* for a BUSY when there is no room.                                       *)
FinishWork(c) ==
    /\ \E n \in working[c] :
         /\ n >= turn[c]
         /\ working' = [working EXCEPT ![c] = @ \ {n}]
         /\ turn' = [turn EXCEPT ![c] = n + 1]
         /\ queued' \in {queued, [queued EXCEPT ![c] = Append(@, n)]}
    /\ UNCHANGED asked

(* Answers leave from the front. *)
Send(c) ==
    /\ \E n \in 1 .. Len(queued[c]) :
         queued' = [queued EXCEPT ![c] = SubSeq(@, n + 1, Len(@))]
    /\ UNCHANGED <<asked, turn, working>>

(* The client is gone, and with it everything it asked. *)
Leave(c) ==
    /\ asked' = [asked EXCEPT ![c] = 0]
    /\ turn' = [turn EXCEPT ![c] = 0]
    /\ working' = [working EXCEPT ![c] = {}]
    /\ queued' = [queued EXCEPT ![c] = <<>>]

Next ==
    \E c \in Clients :
        \/ Refuse(c) \/ AnswerAtOnce(c) \/ StartWork(c) \/ FinishWork(c)
        \/ Send(c) \/ Leave(c)

Spec == Init /\ [][Next]_vars

-----------------------------------------------------------------------------
TypeOK ==
    /\ asked \in [Clients -> Nat]
    /\ turn \in [Clients -> Nat]
    /\ working \in [Clients -> SUBSET Nat]
    /\ queued \in [Clients -> Seq(Nat)]

(***************************************************************************)
(* A request whose answer waits to be sent is not worked on any more, and  *)
(* no other answer to it waits: nothing can answer it a second time.       *)
(***************************************************************************)
AnsweredOnce ==
    \A c \in Clients : \A i \in 1 .. Len(queued[c]) :
        /\ queued[c][i] \notin working[c]
        /\ \A j \in 1 .. i - 1 : queued[c][j] < queued[c][i]

-----------------------------------------------------------------------------
(* AnsweredOnce is inductive together with the place of both sets: what is *)
(* worked on has been asked, what is queued is behind the turn.            *)
Placed(a, t, w, q) ==
    /\ a \in Nat /\ t \in Nat /\ w \in SUBSET Nat /\ q \in Seq(Nat)
    /\ t <= a
    /\ \A n \in w : n < a
    /\ \A i \in 1 .. Len(q) :
          /\ q[i] < t
          /\ q[i] \notin w
          /\ \A j \in 1 .. i - 1 : q[j] < q[i]

OnceInv ==
    /\ TypeOK
    /\ \A c \in Clients : Placed(asked[c], turn[c], working[c], queued[c])

LEMMA QueueGrows ==
    ASSUME NEW q \in Seq(Nat), NEW n \in Nat
    PROVE  /\ Append(q, n) \in Seq(Nat)
           /\ Len(q) \in Nat /\ Len(Append(q, n)) = Len(q) + 1
           /\ \A i \in 1 .. Len(q) : Append(q, n)[i] = q[i] /\ q[i] \in Nat
           /\ Append(q, n)[Len(q) + 1] = n
BY AppendProperties, LenProperties, ElementOfSeq

LEMMA QueueShrinks ==
    ASSUME NEW q \in Seq(Nat), NEW n \in 1 .. Len(q)
    PROVE  LET r == SubSeq(q, n + 1, Len(q))
           IN /\ r \in Seq(Nat)
              /\ Len(q) \in Nat /\ Len(r) = Len(q) - n
              /\ \A i \in 1 .. Len(q) - n : r[i] = q[n + i]
<1>1. Len(q) \in Nat /\ \A i \in n + 1 .. Len(q) : q[i] \in Nat
  BY LenProperties, ElementOfSeq
<1> QED BY <1>1, SubSeqProperties

(* An answer goes behind the others when its number is not before the      *)
(* turn and nobody works on it any more.                                   *)
LEMMA PlacedAppend ==
    ASSUME NEW a \in Nat, NEW t \in Nat, NEW w \in SUBSET Nat,
           NEW q \in Seq(Nat), Placed(a, t, w, q),
           NEW b \in Nat, NEW n \in Nat, NEW m \in Nat, NEW v \in SUBSET w,
           t <= n, m = n + 1, m <= b, a <= b, n \notin v
    PROVE  Placed(b, m, v, q) /\ Placed(b, m, v, Append(q, n))
<1> SUFFICES ASSUME NEW r, r = q \/ r = Append(q, n)
             PROVE  Placed(b, m, v, r)
  OBVIOUS
<1>0. /\ a \in Nat /\ t \in Nat /\ w \in SUBSET Nat /\ q \in Seq(Nat)
      /\ \A i \in 1 .. Len(q) : q[i] < t /\ q[i] \notin w
      /\ \A i \in 1 .. Len(q) : \A j \in 1 .. i - 1 : q[j] < q[i]
      /\ \A k \in w : k < a
  BY DEF Placed
<1>1. /\ Append(q, n) \in Seq(Nat)
      /\ Len(q) \in Nat /\ Len(Append(q, n)) = Len(q) + 1
      /\ \A i \in 1 .. Len(q) : Append(q, n)[i] = q[i] /\ q[i] \in Nat
      /\ Append(q, n)[Len(q) + 1] = n
  BY <1>0, QueueGrows
<1>2. /\ r \in Seq(Nat) /\ Len(q) <= Len(r) /\ Len(r) <= Len(q) + 1
      /\ \A i \in 1 .. Len(q) : r[i] = q[i]
      /\ Len(r) = Len(q) + 1 => r[Len(q) + 1] = n
      /\ Len(r) \in Nat
  <2>1. CASE r = q
    BY <1>0, <1>1, <2>1
  <2>2. CASE r = Append(q, n)
    BY <1>1, <2>2
  <2> QED BY <2>1, <2>2
<1>3. ASSUME NEW i \in 1 .. Len(r)
      PROVE  /\ r[i] < m /\ r[i] \notin v
             /\ \A j \in 1 .. i - 1 : r[j] < r[i]
  <2>1. CASE i \in 1 .. Len(q)
    <3>1. \A j \in 1 .. i - 1 : j \in 1 .. Len(q)
      BY <1>1, <2>1
    <3> QED BY <1>0, <1>1, <1>2, <2>1, <3>1
  <2>2. CASE i = Len(q) + 1 /\ Len(r) = Len(q) + 1
    <3>1. \A j \in 1 .. i - 1 : r[j] < t /\ r[j] \in Nat
      BY <1>0, <1>1, <1>2, <2>2
    <3> QED BY <1>0, <1>1, <1>2, <2>2, <3>1
  <2> QED BY <1>1, <1>2, <2>1, <2>2
<1>4. v \in SUBSET Nat /\ \A k \in v : k < b
  BY <1>0
<1> QED BY <1>0, <1>2, <1>3, <1>4 DEF Placed

LEMMA PlacedRest ==
    ASSUME NEW a, NEW t, NEW w, NEW q, Placed(a, t, w, q),
           NEW n \in 1 .. Len(q)
    PROVE  Placed(a, t, w, SubSeq(q, n + 1, Len(q)))
<1> DEFINE r == SubSeq(q, n + 1, Len(q))
<1>1. /\ r \in Seq(Nat)
      /\ Len(q) \in Nat /\ Len(r) = Len(q) - n
      /\ \A i \in 1 .. Len(q) - n : r[i] = q[n + i]
  BY QueueShrinks DEF Placed
<1> HIDE DEF r
<1>2. ASSUME NEW i \in 1 .. Len(r)
      PROVE  /\ r[i] < t /\ r[i] \notin w
             /\ \A j \in 1 .. i - 1 : r[j] < r[i]
  <2>1. n + i \in 1 .. Len(q) /\ r[i] = q[n + i]
    BY <1>1
  <2>2. \A j \in 1 .. i - 1 :
          n + j \in 1 .. (n + i) - 1 /\ j \in 1 .. Len(q) - n
    BY <1>1
  <2>3. \A j \in 1 .. i - 1 : r[j] = q[n + j]
    BY <1>1, <2>2
  <2> QED BY <2>1, <2>2, <2>3 DEF Placed
<1>3. Placed(a, t, w, r)
  BY <1>1, <1>2 DEF Placed
<1> QED BY <1>3 DEF r

(* One step of one client. *)
LEMMA OnceStep ==
    ASSUME OnceInv, NEW c \in Clients,
           \/ Refuse(c) \/ AnswerAtOnce(c) \/ StartWork(c) \/ FinishWork(c)
           \/ Send(c) \/ Leave(c)
    PROVE  OnceInv'
<1> DEFINE P == Placed(asked[c], turn[c], working[c], queued[c])
<1>0. P
  BY DEF OnceInv
<1>1. /\ asked[c] \in Nat /\ turn[c] \in Nat /\ turn[c] <= asked[c]
      /\ working[c] \in SUBSET Nat /\ queued[c] \in Seq(Nat)
      /\ asked[c] \notin working[c]
  BY <1>0 DEF Placed
<1> SUFFICES
      /\ \A d \in Clients : d # c =>
            /\ asked'[d] = asked[d] /\ turn'[d] = turn[d]
            /\ working'[d] = working[d] /\ queued'[d] = queued[d]
      /\ P'
      /\ asked' = [d \in Clients |-> asked'[d]]
      /\ turn' = [d \in Clients |-> turn'[d]]
      /\ working' = [d \in Clients |-> working'[d]]
      /\ queued' = [d \in Clients |-> queued'[d]]
  <2>1. \A d \in Clients : Placed(asked[d], turn[d], working[d], queued[d])'
    BY DEF OnceInv
  <2>2. TypeOK'
    BY <2>1 DEF TypeOK, Placed
  <2> QED BY <2>1, <2>2 DEF OnceInv
<1>2. CASE Refuse(c)
  <2>1. asked'[c] = asked[c] + 1
    BY <1>2 DEF Refuse, Ask, OnceInv, TypeOK
  <2>2. P'
    BY <1>0, <1>2, <2>1 DEF Refuse, Placed
  <2> QED BY <1>2, <2>2 DEF Refuse, Ask, OnceInv, TypeOK
<1>3. CASE AnswerAtOnce(c)
  <2>1. /\ asked'[c] = asked[c] + 1 /\ turn'[c] = asked[c] + 1
        /\ working'[c] = working[c]
        /\ queued'[c] \in {queued[c], Append(queued[c], asked[c])}
    BY <1>3 DEF AnswerAtOnce, Ask, OnceInv, TypeOK
  <2>2. P'
    <3>1. /\ Placed(asked[c] + 1, asked[c] + 1, working[c], queued[c])
          /\ Placed(asked[c] + 1, asked[c] + 1, working[c],
                    Append(queued[c], asked[c]))
      <4>1. /\ asked[c] + 1 \in Nat /\ asked[c] <= asked[c] + 1
            /\ asked[c] + 1 <= asked[c] + 1
            /\ working[c] \in SUBSET working[c]
        BY <1>1
      <4> QED BY <1>0, <1>1, <4>1, PlacedAppend, ZenonT(20)
    <3> QED BY <2>1, <3>1
  <2> QED BY <1>3, <2>2 DEF AnswerAtOnce, Ask, OnceInv, TypeOK
<1>4. CASE StartWork(c)
  <2>1. /\ asked'[c] = asked[c] + 1 /\ turn' = turn /\ queued' = queued
        /\ working'[c] = working[c] \cup {asked[c]}
    BY <1>4 DEF StartWork, Ask, OnceInv, TypeOK
  <2>2. ASSUME NEW i \in 1 .. Len(queued[c])
        PROVE  queued[c][i] # asked[c]
    <3>1. queued[c][i] < turn[c] /\ queued[c][i] \in Nat
      BY <1>0, ElementOfSeq DEF Placed
    <3> QED BY <1>1, <3>1
  <2>3. P'
    BY <1>0, <1>1, <2>1, <2>2 DEF Placed
  <2> QED BY <1>4, <2>3 DEF StartWork, Ask, OnceInv, TypeOK
<1>5. CASE FinishWork(c)
  <2>1. PICK n \in working[c] :
          /\ n >= turn[c]
          /\ working' = [working EXCEPT ![c] = @ \ {n}]
          /\ turn' = [turn EXCEPT ![c] = n + 1]
          /\ queued' \in {queued, [queued EXCEPT ![c] = Append(@, n)]}
    BY <1>5 DEF FinishWork
  <2>2. /\ asked' = asked /\ turn'[c] = n + 1
        /\ working'[c] = working[c] \ {n}
        /\ queued'[c] \in {queued[c], Append(queued[c], n)}
    BY <1>5, <2>1 DEF FinishWork, OnceInv, TypeOK
  <2>3. n \in Nat /\ n < asked[c] /\ turn[c] <= n
    BY <1>0, <1>1, <2>1 DEF Placed
  <2>4. P'
    <3>1. /\ Placed(asked[c], n + 1, working[c] \ {n}, queued[c])
          /\ Placed(asked[c], n + 1, working[c] \ {n}, Append(queued[c], n))
      <4>1. /\ n + 1 \in Nat /\ n + 1 <= asked[c] /\ asked[c] <= asked[c]
            /\ working[c] \ {n} \in SUBSET working[c]
            /\ n \notin working[c] \ {n}
        BY <1>1, <2>3
      <4> QED BY <1>0, <1>1, <2>3, <4>1, PlacedAppend, ZenonT(20)
    <3> QED BY <2>2, <3>1
  <2> QED BY <1>5, <2>1, <2>4 DEF FinishWork, OnceInv, TypeOK
<1>6. CASE Send(c)
  <2>1. PICK n \in 1 .. Len(queued[c]) :
          queued' = [queued EXCEPT ![c] = SubSeq(@, n + 1, Len(@))]
    BY <1>6 DEF Send
  <2>2. queued'[c] = SubSeq(queued[c], n + 1, Len(queued[c]))
    BY <2>1 DEF OnceInv, TypeOK
  <2>3. P'
    BY <1>0, <1>6, <2>2, PlacedRest DEF Send
  <2> QED BY <1>6, <2>1, <2>3 DEF Send, OnceInv, TypeOK
<1>7. CASE Leave(c)
  <2>1. asked'[c] = 0 /\ turn'[c] = 0 /\ working'[c] = {} /\ queued'[c] = <<>>
    BY <1>7 DEF Leave, OnceInv, TypeOK
  <2>2. P'
    BY <2>1, EmptySeq DEF Placed
  <2> QED BY <1>7, <2>2 DEF Leave, OnceInv, TypeOK
<1> QED BY <1>2, <1>3, <1>4, <1>5, <1>6, <1>7

(* Whoever keeps the promise answers no request twice. *)
THEOREM OnceInvariant == Spec => []AnsweredOnce
<1>1. Init => OnceInv
  BY EmptySeq DEF Init, OnceInv, TypeOK, Placed
<1>2. OnceInv /\ [Next]_vars => OnceInv'
  <2>1. OnceInv /\ UNCHANGED vars => OnceInv'
    BY DEF OnceInv, TypeOK, Placed, vars
  <2> QED BY <2>1, OnceStep DEF Next
<1>3. OnceInv => AnsweredOnce
  BY DEF OnceInv, Placed, AnsweredOnce
<1> QED BY <1>1, <1>2, <1>3, PTL DEF Spec
=============================================================================
