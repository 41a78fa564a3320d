\* One operation per way of taking the locks.
CONSTANT Threads = {t1, t2, t3}
CONSTANT Nobody = Nobody
CONSTANT Ops = {"read", "refresh", "assess", "forget", "classify", "enrich_pass"}
SPECIFICATION FairSpec
PROPERTY WritersFinish
PROPERTY ForegroundNeverHangs
