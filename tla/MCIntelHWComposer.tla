------------------------- MODULE MCIntelHWComposer --------------------------
(* Values for the constants of IntelHWComposer.                            *)
EXTENDS IntelHWComposer

AllModes == {"none", "video", "hdmi", "extend"}
=============================================================================
