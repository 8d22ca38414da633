CONSTANTS
  a = a
  b = b
  c = c
  k = k
  BOs = {a, b, c}
  BoRange <- MCBoRange
  BoKfd <- MCBoKfd
  Inval = {i1, i2}
  Submitters = {}
  HostRanges <- MCHostRanges
  Gfx = Gfx
  Hsa = Hsa
  NoThread = NoThread
  NoMn = NoMn
SPECIFICATION Spec
INVARIANT
  NodeRangeIsUnion
