------------------------------ MODULE ActivePcm -----------------------------
(***************************************************************************)
(* What the streams of the tinyalsa HAL share (tinyaudio_hw.c:53-61): the  *)
(* globals activePcm and activeChannel, and in tinyalsa the pcms that are  *)
(* open.                                                                   *)
(***************************************************************************)
EXTENDS PcmAddresses

VARIABLES
  activePcm, activeChannel,
  opened          \* the pcms that are open

pcmVars == <<activePcm, activeChannel, opened>>

\* "This makes sure only one stream is active at a time": the pcm that plays
\* is the only one that is open, and none is lost open.
OnePcm == opened = {activePcm} \ {NoPcm}
=============================================================================
