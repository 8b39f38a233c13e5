---------------------------- MODULE PcmAddresses ----------------------------
(* What the audio HALs have in common: addresses of streams and of pcms.   *)

CONSTANTS
  Streams,  \* the streams audio flinger may have open
  Pcms,     \* addresses a pcm may be opened at
  NoStream,
  NoPcm,    \* NULL
  BadPcm    \* tinyalsa's pcm that could not be opened, and is never ready

ASSUME StreamAssumption == NoStream \notin Streams
ASSUME PcmAssumption == NoPcm \notin Pcms /\ BadPcm \notin Pcms /\ NoPcm # BadPcm
=============================================================================
