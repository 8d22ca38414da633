CONSTANTS
  a = a
  b = b
  c = c
  k = k
  BOs = {k}
  BoRange <- MCBoRange
  BoKfd <- MCBoKfd
  Inval = {i1}
  Submitters = {}
  HostRanges <- MCHostRanges
  Gfx = Gfx
  Hsa = Hsa
  NoThread = NoThread
  NoMn = NoMn
SPECIFICATION Spec
INVARIANT
  HsaReadHeldOnlyDuringWalk
