CONSTANTS
    p1 = p1  p2 = p2  p3 = p3  b1 = b1  b2 = b2  b3 = b3  c1 = c1  c2 = c2
    Null = Null  Unborn = Unborn  Swept = Swept
    Packs = {p1, p2}
    Bodies = {b1, b2}
    Clients = {c1}
    MaxEpochs = 1
    MaxSweeps = 2
SPECIFICATION Spec
INVARIANTS
    InterruptedRemovalsComplete
CHECK_DEADLOCK FALSE
