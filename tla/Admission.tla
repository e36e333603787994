------------------------------ MODULE Admission ------------------------------
(***************************************************************************)
(* What the scheduler promises the clients that knock and the workers that *)
(* get them (the capacity check of _next_target): a worker never has more  *)
(* connections than records, a client is refused only when every worker    *)
(* has been found full since it knocked, and one that was accepted for a   *)
(* worker is lost only if epoll_ctl fails.  Counters, lists and threads    *)
(* are not told.  Module Placement shows that Scheduler implements it.     *)
(***************************************************************************)
EXTENDS Naturals

CONSTANTS
    Workers,     \* the workers
    Capacity,    \* the connections a worker may have
    None         \* no worker

VARIABLES
    load,        \* per worker: the connections it has or is closing
    looking,     \* a client waits for a worker to be found
    full,        \* workers that have been full since it knocked
    choice       \* the worker found for it, or None

vars == <<load, looking, full, choice>>

Init ==
    /\ load = [w \in Workers |-> 0]
    /\ looking = FALSE
    /\ full = {}
    /\ choice = None

Knock ==
    /\ ~looking /\ choice = None
    /\ looking' = TRUE
    /\ UNCHANGED <<load, full, choice>>

(* Look at some of the workers, and perhaps forget what others were like.  *)
Look ==
    /\ looking
    /\ full' \in SUBSET (full \cup {w \in Workers : load[w] = Capacity})
    /\ UNCHANGED <<load, looking, choice>>

Refuse ==
    /\ looking
    /\ full = Workers
    /\ looking' = FALSE
    /\ full' = {}
    /\ UNCHANGED <<load, choice>>

Choose(w) ==
    /\ looking
    /\ load[w] < Capacity
    /\ looking' = FALSE
    /\ full' = {}
    /\ choice' = w
    /\ UNCHANGED load

(* The worker still has room: nobody else gives it connections. *)
Admit ==
    /\ choice # None
    /\ load[choice] < Capacity
    /\ load' = [load EXCEPT ![choice] = @ + 1]
    /\ choice' = None
    /\ UNCHANGED <<looking, full>>

Fail ==
    /\ choice # None
    /\ choice' = None
    /\ UNCHANGED <<load, looking, full>>

Leave(w) ==
    /\ load[w] > 0
    /\ load' = [load EXCEPT ![w] = @ - 1]
    /\ UNCHANGED <<looking, full, choice>>

Next ==
    \/ Knock \/ Look \/ Refuse \/ Admit \/ Fail
    \/ \E w \in Workers : Choose(w) \/ Leave(w)

Spec == Init /\ [][Next]_vars
=============================================================================
