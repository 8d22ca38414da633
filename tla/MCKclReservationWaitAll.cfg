CONSTANTS
  a1 = a1  a2 = a2  b1 = b1  d1 = d1
  Fences = {a1, a2, b1}
  DstInit = {}
  Ctx <- MCCtx
  Cap0 = 1
  MaxVer = 2
  Timeout = 2
  CopyOn = FALSE
  WaitOn = TRUE
  NoFence = NoFence
SPECIFICATION Spec
INVARIANT WaitComplete
