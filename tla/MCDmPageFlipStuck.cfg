CONSTANTS
    f1 = f1  f2 = f2
    Flippers = {f1}
    HwCanHang = FALSE
SPECIFICATION Spec
PROPERTY FlipEventDelivered
