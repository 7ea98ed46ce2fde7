\* One replica, one order, no retries: the default offset policy alone.
SPECIFICATION FairSpec
CONSTANTS
    r1 = r1
    r2 = r2
    o1 = o1
    o2 = o2
    NoOne = NoOne
    Members = {r1}
    Orders = {o1, o2}
    GroupEnv <- MCGroupEnv
    Hash <- MCHash
    Environments <- MCPlainEnvironment
    TargetPartitions = 2
    MaxRecords = 2
    MaxThrows = 0
    MaxFaults = 1
INVARIANTS
    EveryRecordIsDelivered
CHECK_DEADLOCK FALSE
