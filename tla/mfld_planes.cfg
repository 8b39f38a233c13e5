SPECIFICATION Spec
CONSTANTS
  Overlays <- TwoOverlays
  Sprites <- NoSprites
  Primaries <- OnePrimary
  Lists <- PanelLists
  HdmiLists <- HdmiShows
  MaxEvents = 2
INVARIANTS
  PlanesHeld
  FreeOverlaysDark
  ScannedIsMapped
  PanelFlipsOnPanel
  PrimaryCoversNothing
