------------------------- MODULE MCSequenceManager --------------------------
(***************************************************************************)
(* Instances of the sequences of a stateful model for TLC.                 *)
(***************************************************************************)
EXTENDS SequenceManager, TLC

CONSTANTS r1, r2, r3, i1, i2, i3

RequestSymmetry == Permutations(Requests) \cup Permutations(Streams)
=============================================================================
