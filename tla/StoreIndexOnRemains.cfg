\* An index that waits while a rebuild and its restore both fail.
SPECIFICATION Spec
CONSTANTS
    Threads = {t1, t2}
    MaxOps = 2
    MaxFaults = 2
INVARIANT IndexRefusesRemains
CHECK_DEADLOCK FALSE
