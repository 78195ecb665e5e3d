SPECIFICATION FairSpec
CONSTANTS
    t1 = t1
    t2 = t2
    Topics = {t1, t2}
    QueueMax = 2
    MaxUpdates = 2
    MaxPubErrors = 1
    MaxDrops = 1
CHECK_DEADLOCK FALSE
INVARIANTS TypeOK NothingLost ContextSettles
PROPERTIES QueueDrains
