\* One job at a time, and one daemon upgrade.
CONSTANT MaxSnapshots = 2
CONSTANT MaxOverlapped = 0
CONSTANT MaxUpgrades = 1
SPECIFICATION Spec
CONSTRAINT Bounded
INVARIANT NarrowingKeepsServing
