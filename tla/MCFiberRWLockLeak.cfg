\* A killed waiter keeps the lock it was granted.
CONSTANTS
    f1 = f1
    f2 = f2
    f3 = f3
    Fibers = {f1, f2, f3}
    None = None
    Rings = {"ready", "timer", "rwaiting", "wwaiting"}
    Places = {"run", "delay", "rlock", "wlock"}
    Victims = {f1, f2, f3}
SPECIFICATION Spec
INVARIANTS
    NothingLeaked
