\* Every operation; four threads: a holder, a waiter in each line and a passer-by.
CONSTANT Threads = {t1, t2, t3, t4}
CONSTANT Nobody = Nobody
CONSTANT Ops = {"read", "index", "refresh", "preload", "assess", "rebuild", "mark", "classify", "retention_pass", "enrich_pass", "reconcile", "forget", "publish", "rebuild_unloaded"}
SYMMETRY ThreadSymmetry
SPECIFICATION Spec
INVARIANT TypeOK
INVARIANT VacuumIsAlone
INVARIANT RegistryNamesTheHolder
