SPECIFICATION Spec
CONSTANTS
  PlaneCount <- MrflPlanes
  ExtendVideo = FALSE
INVARIANTS
  OneOwner
  FreePlanesDark
  FlippedPlanesKept
  FlipsOnOwnPipe
  DisconnectedHoldsNothing
