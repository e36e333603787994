---------------------------- MODULE MCScheduler ----------------------------
(* Instance of Scheduler and Placement for TLC. *)
EXTENDS Placement

CONSTANTS f1, f2, f3, f4

FourFds == {f1, f2, f3, f4}
=============================================================================
