\* One of the fibers, in any role, may be killed at any time and again.
CONSTANTS
    f1 = f1
    f2 = f2
    f3 = f3
    Fibers = {f1, f2, f3}
    None = None
    Rings = {"ready", "timer", "rwaiting", "wwaiting"}
    Places = {"run", "delay", "rlock", "wlock"}
    Victims = {f1}
SPECIFICATION FairSpec
INVARIANTS
    StateIntact
    Exclusion
    NoneStranded
    LeakNeedsKill
PROPERTIES
    CallsReturn
CHECK_DEADLOCK FALSE
