SPECIFICATION Spec
CONSTANTS
    Keys = {k1, k2}
    Locked = {k2}
    Clients = {c1, c2}
    MaxWrites = 2
    MaxForgets = 1
    None = None
INVARIANTS
    TypeOK
PROPERTIES
    AutoStartsAlone
    RevivedOnlyInWindow
    JobsSettle
CHECK_DEADLOCK FALSE
