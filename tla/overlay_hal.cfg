SPECIFICATION Spec
CONSTANTS
  None = None
  d1 = d1
  d2 = d2
  t1 = t1
  t2 = t2
  Devs <- TwoDevs
  Threads <- OneOrTwo
  Shapes <- SomeShapes
  Starts <- TwoPanelsOrHdmi
  Changes <- Some
  Spans <- OneSpan
  BufferNum = 1
  MaxRefused = 1
  MaxPlugs = 1
  MaxAlloc = 3
CHECK_DEADLOCK FALSE
INVARIANTS
  AllocationsHeld
  LitIsHeld
  SleeperHasWaker
  FetchedIsWritten
PROPERTY PipeMovesDark
