---------------------------- MODULE MCHwcomposer ----------------------------
(* Values for the constants of Hwcomposer.                                 *)
EXTENDS Hwcomposer

\* MrflDisplayPlaneManager::detect(): the third primary plane is never used
\* by a device and stays on the free bitmap.
MrflPlanes == [k \in Kinds |-> CASE k = "sprite"  -> 0
                                 [] k = "primary" -> 3
                                 [] k = "overlay" -> 1]
=============================================================================
