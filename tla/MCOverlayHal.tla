---------------------------- MODULE MCOverlayHal ----------------------------
(* Values for the constants of OverlayHal.                                 *)
EXTENDS OverlayHal, TLC

CONSTANTS d1, d2, t1, t2

TwoDevs == {d1, d2}
OneOrTwo == [d \in TwoDevs |-> IF d = d1 THEN {t1, t2} ELSE {}]
\* Lines that end inside a unit of 64 bytes, planes that end inside a page, the
\* largest picture and the smallest.
SomeShapes ==
  [format : {"I420", "YUY2"}, width : {1, 66, 128}, height : {1, 34, 64}]
    \cup [format : {"NV12"}, width : {66, 128}, height : {64, 128}]
    \cup [format : Formats, width : {MaxDim}, height : {MaxDim}]
Panels(second, hdmi) == [mipi0 |-> "on", mipi1 |-> second, hdmi |-> hdmi]
TwoPanelsOrHdmi == {Panels("on", "off"), Panels("off", "on")}
\* HDMI comes with or without a mode, and the second panel goes.
Some == {<<"hdmi", "on">>, <<"hdmi", "dark">>, <<"hdmi", "off">>, <<"mipi1", "off">>}
\* Partly past the edge of the panel.
OneSpan == {[x |-> 40, w |-> 32]}
=============================================================================
