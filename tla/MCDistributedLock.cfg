CONSTANTS
    l1 = l1
    l2 = l2
    Locks = {l1, l2}
    NoLock = NoLock
    TTL = 3
    MaxMiss = 1
SPECIFICATION FairSpec
INVARIANTS TypeOK HeldIsKept ReleasedIsGone
PROPERTIES OnlyOwnKey LeaseSpec AbandonedIsFreed
\* Every lock object is used once, so the system stops when all are used up.
CHECK_DEADLOCK FALSE
