\* Three threads, without symmetry: liveness is checked.
CONSTANT Threads = {t1, t2, t3}
SPECIFICATION FairSpec
INVARIANT TypeOK
INVARIANT StateMatchesGuards
INVARIANT NeverPanics
INVARIANT NoStaleTickets
INVARIANT NoOrphanedSleeper
INVARIANT IdleHandsOver
PROPERTY ImplementsRepoLock
PROPERTY WritersAreServed
PROPERTY ReadersAreServed
