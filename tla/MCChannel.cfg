\* Three fibers, of which two may be killed, and buffers of up to two.
CONSTANTS
    f1 = f1
    f2 = f2
    f3 = f3
    Fibers = {f1, f2, f3}
    None = None
    Rings = {"ready", "timer"}
    Places = {"run", "delay", "send", "recv"}
    Victims = {f1, f3}
    BufSizes = {0, 1, 2}
    Senders = {f1, f2}
    MaxSends = 3
SPECIFICATION FairSpec
INVARIANTS
    WaitsForCause
    Conserved
    NoWaiterLost
    StaleNeedsCancel
PROPERTIES
    InOrder
    ResultTrue
    DoneReturns
CHECK_DEADLOCK FALSE
