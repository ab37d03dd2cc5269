\* Three fibers: an owner, and two waiters whose order matters.  One of them
\* is misled by trylock; it may end the process, hence no deadlock check.
CONSTANTS
    f1 = f1
    f2 = f2
    f3 = f3
    Fibers = {f1, f2, f3}
    None = None
    Rings = {"ready", "timer", "waiting"}
    Places = {"run", "delay", "lock"}
    Victims = {f1, f2, f3}
    Misled = {f3}
SPECIFICATION FairSpec
CHECK_DEADLOCK FALSE
INVARIANTS
    MutualExclusion
    OwnerKnows
    NoStrandedWaiter
    NoFiberLost
    FatalIfMisled
PROPERTIES
    ImplementsFairLock
    LockReturns
