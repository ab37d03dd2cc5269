\* Two fibers against one fiber and a plain thread, over two mutexes.
CONSTANTS
    a1 = a1
    a2 = a2
    b1 = b1
    wa = wa
    wb = wb
    p1 = p1
    m1 = m1
    m2 = m2
    Left = {a1, a2, wa}
    Right = {b1, wb}
    LeftWaker = wa
    RightWaker = wb
    Internal = {wa, wb}
    Fibers = {a1, a2, b1, wa, wb}
    None = None
    Rings = {"ready", "timer"}
    Plains = {p1}
    Mutexes = {m1, m2}
    Once = {m2}
    Victims = {a1}
SPECIFICATION Spec
INVARIANTS
    WaitersAsleep
    NoneStranded
    NoFiberLost
    DeadlockReported
CHECK_DEADLOCK FALSE
