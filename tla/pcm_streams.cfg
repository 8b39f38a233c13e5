SPECIFICATION FairSpec
CONSTANTS
  Streams = {s1, s2}
  Pcms = {p1, p2}
  Hals = {"hdmi", "widi", "usb"}
  NoStream = NoStream
  NoPcm = NoPcm
  BadPcm = BadPcm
INVARIANTS
  EveryPcmHeld
PROPERTIES
  SoleStreamHeard
