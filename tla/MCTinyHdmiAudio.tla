-------------------------- MODULE MCTinyHdmiAudio ---------------------------
(* The instance of TinyHdmiAudio: a stereo and a multichannel stream, as    *)
(* the audio policy opens them.                                             *)
EXTENDS TinyHdmiAudio

CONSTANTS mix, direct

StereoAndMulti == [s \in Streams |-> IF s = mix THEN {2} ELSE {6}]
=============================================================================
