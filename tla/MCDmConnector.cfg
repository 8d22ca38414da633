CONSTANTS
    f1 = f1  f2 = f2
    Flippers = {f1, f2}
    HwCanHang = TRUE
    Forced = FALSE
    MaxSinks = 3
SPECIFICATION ConnSpec
INVARIANTS TypeOK ConnTypeOK ConnIrqFollowsStream SinkRefsExact
PROPERTIES StatusSteps
