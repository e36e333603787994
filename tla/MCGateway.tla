----------------------------- MODULE MCGateway ------------------------------
(* The instances of Gateway that TLC checks; the bounds are in the .cfg    *)
(* files.                                                                  *)
EXTENDS Replies

CONSTANTS f1, f2

OneClient == {f1}
TwoClients == {f1, f2}
=============================================================================
