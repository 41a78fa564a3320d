\* Two writers, two snapshots, two attempts of every hop.
SPECIFICATION Spec
ACTION_CONSTRAINT ReseedFirst
CONSTANTS
    MaxCommits = 2
    MaxAttempts = 2
    NoOne = NoOne
    Writers = {w1, w2}
INVARIANTS
    TypeOK
    YieldIsHonoured
    NoSpuriousYield
    EnrichesTheNewest
    StaleSeedIsCancelled
PROPERTIES
    ChainReachesRetention
CHECK_DEADLOCK FALSE
