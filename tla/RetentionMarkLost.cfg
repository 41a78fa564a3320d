\* A mutex-only job beside a coordinator-only one, on two snapshots.
CONSTANT MaxSnapshots = 2
CONSTANT MaxOverlapped = 2
CONSTANT MaxUpgrades = 0
SPECIFICATION Spec
CONSTRAINT Bounded
INVARIANT MarksSurvive
