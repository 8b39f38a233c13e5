SPECIFICATION BusyScreenSpec
CONSTANTS
  Timings = {t1, t2}
  Preferred = t1
  NoTiming = NoTiming
  MdsModes <- AllModes
  MaxFaults = 1
  MaxRefused = 1
INVARIANTS
  PlugInIsNews
  FramebuffersKept
  RunningIsActive
  VsyncFollowsMode
PROPERTIES
  MessageHandled
  ConnectedIsShown
