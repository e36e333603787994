---------------------------- MODULE MCTransport -----------------------------
(* Instance of Transport for TLC: datagrams of one or two frames.          *)
EXTENDS Transport

TwoDevices == {[host |-> "h1", port |-> "p1"], [host |-> "h2", port |-> "p2"]}

OneOrTwoFrames == {<<"intact">>, <<"unknown", "damaged">>}
=============================================================================
