SPECIFICATION Spec
CONSTANTS
  Buffers = {b1, b2}
  Handles = {h1}
  Objects = {o1, o2}
  Crops = {c1}
  None = None
SYMMETRY Symmetry
INVARIANTS
  ShownIsMapped
  CachedIsCurrent
