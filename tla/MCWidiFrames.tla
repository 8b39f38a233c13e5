---------------------------- MODULE MCWidiFrames ----------------------------
(* Symmetry for the model checking of WidiFrames.                           *)
EXTENDS WidiFrames, TLC

Same == Permutations(Buffers)
=============================================================================
