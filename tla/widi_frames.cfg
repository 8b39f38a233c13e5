SPECIFICATION Spec
CONSTANTS
  Videos = {v1}
  Buffers = {b1, b2, b3}
  Sizes = {hd}
  Listeners = {l1, l2}
  None = None
  PoolSize = 2
  MaxCalls = 4
SYMMETRY Same
INVARIANTS
  PoolWhole
  RenderStatusHolds
  DeliveredAsAgreed
