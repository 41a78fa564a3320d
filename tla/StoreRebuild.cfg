CONSTANT Threads = {t1, t2}
CONSTANT Nobody = Nobody
CONSTANT Ops = {"read", "refresh", "rebuild"}
SPECIFICATION Spec
INVARIANT RebuildExcludesReaders
