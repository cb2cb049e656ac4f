----------------------------- MODULE MCFraming ------------------------------
(* Frames for model checking ByteStuffer: no byte between two of them that *)
(* a damaged byte or two could turn one into the other, as with a CRC.     *)
EXTENDS ByteStuffer

FewFrames == {<<0, 3, 0, 0>>, <<3, 3, 2, 1, 1>>, <<2, 1, 3, 0, 2, 2>>}
=============================================================================
