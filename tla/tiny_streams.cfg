SPECIFICATION FairSpec
CONSTANTS
  mix = mix
  direct = direct
  Streams = {mix, direct}
  ChannelsOf <- StereoAndMulti
  Pcms = {p1, p2}
  NoPcm = NoPcm
  BadPcm = BadPcm
  NoStream = NoStream
  Sinks = {2, 6, 8}
INVARIANTS
  OnePcm
PROPERTIES
  SoleStreamHeard
