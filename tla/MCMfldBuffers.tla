---------------------------- MODULE MCMfldBuffers ----------------------------
(* Values for the constants of MfldBuffers.                                *)
EXTENDS MfldBuffers, TLC

CONSTANTS s1, s2, s3, m1, m2, m3, m4

Clients == [u \in Users |-> CASE u = "overlay" -> {s1}
                              [] u = "rgb" -> {s1, s2}
                              [] OTHER -> {s1, s2, s3}]
FourMade == {m1, m2, m3, m4}
Rings == [u \in Users |-> IF u = "overlay" THEN 3 ELSE 2]
Same == Permutations(FourMade)
=============================================================================
