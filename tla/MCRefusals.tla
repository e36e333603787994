----------------------------- MODULE MCRefusals ------------------------------
(* The instance of Refusals that TLC checks, with what Replies adds to the *)
(* same specification; the bounds are in Pipeline.cfg.                     *)
EXTENDS Refusals, Replies

CONSTANT f1

OneClient == {f1}
=============================================================================
