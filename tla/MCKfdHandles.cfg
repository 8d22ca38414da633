CONSTANTS
  Devices = {d1, d2}
  Objs = {o1, o2, o3}
  Ranges <- MCRanges
  MaxIdr = 3
  IdrCanFail = TRUE
  NoObj = NoObj
SPECIFICATION Spec
INVARIANT TypeOK MirrorsUntilIdrFails FoundUniqueUntilIdrFails HandlesNameLiveRecords
