\* The counter of idle workers, with batches.
CONSTANTS
    p1 = p1
    p2 = p2
    None = None
    Producers = {p1, p2}
    Batchers = {p1}
    MaxThreads = 3
    MaxJobs = 4
    MaxBatch = 2
    Parallelism = 2
    Timed = TRUE
    Failures = {"create", "init"}
SPECIFICATION Spec
INVARIANT
    IdleCounted
CHECK_DEADLOCK FALSE
