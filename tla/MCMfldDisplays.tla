--------------------------- MODULE MCMfldDisplays ---------------------------
(* Values for the constants of MfldDisplays.                               *)
EXTENDS MfldDisplays

TwoOverlays == {0, 1}
NoSprites == {}
OnePrimary == {0}
PanelLists == {<<"video", "ui">>, <<"prot", "gles", "video">>,
               <<"gles", "apart">>, <<"apart", "dim">>}
HdmiShows == {<<"video", "ui">>}
=============================================================================
