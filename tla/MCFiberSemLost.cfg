\* A post is spent on a killed waiter.
CONSTANTS
    f1 = f1
    f2 = f2
    f3 = f3
    Fibers = {f1, f2, f3}
    None = None
    Rings = {"ready", "timer"}
    Places = {"run", "delay", "wait", "timed"}
    Victims = {f1, f2, f3}
    MaxNum = 2
    Bufs = {0, 2, 3}
SPECIFICATION Spec
INVARIANTS
    NoLostWakeup
CHECK_DEADLOCK FALSE
