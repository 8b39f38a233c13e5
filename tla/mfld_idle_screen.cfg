SPECIFICATION IdleScreenSpec
CONSTANTS
  Timings = {t1, t2}
  Preferred = t1
  NoTiming = NoTiming
  MdsModes <- AllModes
  MaxFaults = 0
  MaxRefused = 0
PROPERTIES
  WaitEnds
