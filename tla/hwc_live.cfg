SPECIFICATION FairSpec
CONSTANTS
  PlaneCount <- MrflPlanes
  ExtendVideo = TRUE
PROPERTIES
  ImplementsLedger
  
