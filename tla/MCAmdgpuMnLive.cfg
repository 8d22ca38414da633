CONSTANTS
  a = a
  b = b
  c = c
  k = k
  BOs = {a}
  BoRange <- MCBoRange
  BoKfd <- MCBoKfd
  Inval = {i1, i2}
  Submitters = {s1}
  HostRanges <- MCHostRanges
  Gfx = Gfx
  Hsa = Hsa
  NoThread = NoThread
  NoMn = NoMn
SPECIFICATION Spec
PROPERTIES
  EveryOperationCompletes
CHECK_DEADLOCK FALSE
