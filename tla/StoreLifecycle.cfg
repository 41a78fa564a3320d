SPECIFICATION Spec
CONSTANTS
    Threads = {t1, t2}
    MaxOps = 4
    MaxFaults = 2
SYMMETRY Symmetry
INVARIANTS
    TypeOK
    ServedStoreIsWhole
    WritersExcludeUntilForget
    OrphanOnlyByLateWriter
CHECK_DEADLOCK FALSE
