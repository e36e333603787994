---------------------------- MODULE MCFrameScan ----------------------------
(* Instance of FrameScan for TLC: three-bit bytes, boot code 4; command 2  *)
(* takes no parameter, the blocking command 6 takes one.                   *)
EXTENDS FrameScan, SequencesExt

CONSTANT MaxPieces   \* bound: pieces in a client's stream

TwoCommands == {2, 6}
Limits == [c \in TwoCommands |-> IF c = 2 THEN {0} ELSE {1}]
Slow == {6}

(* What streams are put together from: frames with none, one (a boot code) *)
(* and too many parameters, of a command nobody has, damaged, and pieces   *)
(* of frames.                                                              *)
Pieces == {<<4, 2, 2, 0>>, <<4, 3, 6, 4, 7>>, <<4, 4, 6, 4, 2, 4>>,
           <<4, 2, 5, 5>>, <<4, 3, 4, 2, 1>>, <<4, 2>>, <<4, 1>>, <<4>>, <<0>>}

Clients == {FlattenSeq(p) : p \in BoundedSeq(Pieces, MaxPieces)}
=============================================================================
