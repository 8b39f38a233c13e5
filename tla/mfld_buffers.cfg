SPECIFICATION Spec
CONSTANTS
  None = None
  s1 = s1
  s2 = s2
  s3 = s3
  m1 = m1
  m2 = m2
  m3 = m3
  m4 = m4
  Client <- Clients
  Made <- FourMade
  RingOf <- Rings
  Targets = 3
  FlipDepth = 1
  MaxFails = 2
SYMMETRY Same
CHECK_DEADLOCK FALSE
INVARIANTS
  MappingsHeld
  RotationWritesUnseen
  MadeBuffersHeld
  StartHoldsManagers
PROPERTY LastShownStaysMapped
