\* Two fibers of one thread, one of which may be killed, and a plain thread.
CONSTANTS
    a1 = a1
    a2 = a2
    wa = wa
    ta = ta
    p1 = p1
    m1 = m1
    Left = {a1, a2, wa, ta}
    Right = {}
    LeftWaker = wa
    RightWaker = None
    LeftTimer = ta
    RightTimer = None
    Internal = {wa, ta}
    Fibers = {a1, a2, wa, ta}
    None = None
    Rings = {"ready", "timer"}
    Plains = {p1}
    Mutexes = {m1}
    Once = {}
    Guard = m1
    MaxMail = 2
    Victims = {a1}
SPECIFICATION CondSpec
CONSTRAINT Unharmed
INVARIANTS
    WaitersKnown
    SleeperSignalled
    ResultTrue
CHECK_DEADLOCK FALSE
