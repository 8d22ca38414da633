CONSTANTS
    f1 = f1  f2 = f2
    Flippers = {f1}
    HwCanHang = FALSE
    Forced = TRUE
    MaxSinks = 2
SPECIFICATION ConnSpec
INVARIANT SinkNeverUsedFreed
