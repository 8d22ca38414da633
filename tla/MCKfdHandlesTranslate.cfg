CONSTANTS
  Devices = {d1, d2}
  Objs = {o1, o2, o3}
  Ranges <- MCRanges
  MaxIdr = 3
  IdrCanFail = FALSE
  NoObj = NoObj
SPECIFICATION Spec
INVARIANT TranslateNeverFaults
