\* Two of the fibers, in any role, may be killed at any time and again.
CONSTANTS
    f1 = f1
    f2 = f2
    f3 = f3
    Fibers = {f1, f2, f3}
    None = None
    Rings = {"ready", "timer"}
    Places = {"run", "delay", "wait", "timed"}
    Victims = {f1, f2}
    MaxNum = 2
    Bufs = {0, 2, 3}
SPECIFICATION FairSpec
INVARIANTS
    StateIntact
    ChosenNotTimedOut
    LossNeedsKill
PROPERTIES
    PositiveServes
CHECK_DEADLOCK FALSE
