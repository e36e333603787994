------------------------------ MODULE Placement ------------------------------
(***************************************************************************)
(* Scheduler implements Admission: what the main thread reads of two       *)
(* unlocked counters, worker after worker, while the workers close         *)
(* connections, is enough to keep its promise.                             *)
(***************************************************************************)
EXTENDS Scheduler

(* What worker w has or is closing. *)
Used(w) == Cardinality(Clients(w)) + Cardinality(closing[w])

Searching == pc \in {"first", "scan", "check"}

(* As long as the least load read is no less than the capacity, every      *)
(* worker read so far was full when it was read.                           *)
SeenFull ==
    IF pc \in {"scan", "check"} /\ cur >= Capacity THEN 0 .. next - 1 ELSE {}

Quota == INSTANCE Admission WITH
    Workers <- Wids,
    load    <- [w \in Wids |-> Used(w)],
    looking <- Searching,
    full    <- SeenFull,
    choice  <- IF pc = "add" THEN target ELSE None

(***************************************************************************)
(* No client is refused while a worker had room all the time, none is      *)
(* given to a worker without a free record, and a worker that was found    *)
(* for a client gets it unless epoll_ctl fails, whatever the workers do    *)
(* between the readings of their counters.                                 *)
(***************************************************************************)
KeepsQuota == Quota!Spec
=============================================================================
