\* Three snapshots: a stamped one, a delta base and the one that is served.
CONSTANT MaxSnapshots = 3
CONSTANT MaxOverlapped = 2
CONSTANT MaxUpgrades = 1
SPECIFICATION Spec
CONSTRAINT Bounded
INVARIANT TypeOK
INVARIANT LiveBuildSurvives
INVARIANT RefreshKeepsItsBase
INVARIANT SerialMarksSurvive
INVARIANT ServedHasRows
INVARIANT SteadyState
PROPERTY ServedIsKept
