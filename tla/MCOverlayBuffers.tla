-------------------------- MODULE MCOverlayBuffers --------------------------
(* Two buffers of each sort are interchangeable.                            *)
EXTENDS OverlayBuffers, TLC

Symmetry == Permutations(Buffers) \cup Permutations(Objects)
=============================================================================
