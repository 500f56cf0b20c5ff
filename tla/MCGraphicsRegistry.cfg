SPECIFICATION Spec
CONSTANTS
  Sessions = {s1}
  Kernels = {k1, k2}
  Renderers = {c1, c2}
  Buffers = {b1}
  None = None
  MaxGeneration = 2
  MaxOpened = 1
SYMMETRY MCSymmetry
INVARIANTS RegistryConsistent OneRenderer LeaseAccounting RetainedExactly AtMostOneStaleRequest
CHECK_DEADLOCK FALSE
