CONSTANTS
    f1 = f1  f2 = f2
    Flippers = {f1, f2}
    HwCanHang = TRUE
SPECIFICATION Spec
INVARIANTS TypeOK IrqFollowsStream
PROPERTIES StatusSteps
