--------------------------- MODULE MCHwcLayerList ---------------------------
(* Values for the constants of HwcLayerList.                               *)
EXTENDS HwcLayerList

PlanesFail == {"video", "rgb"}
=============================================================================
