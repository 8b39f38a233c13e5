SPECIFICATION FairSpec
CONSTANTS
  MaxLayers = 4
  OverlayCount = 2
  Panel = TRUE
  ExtendVideo = TRUE
  Failing <- PlanesFail
INVARIANTS
  OverlaysKept
  EveryLayerShown
PROPERTIES
  UpdateReturns
