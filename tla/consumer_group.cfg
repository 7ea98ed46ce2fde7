\* Two replicas, a topic that may be created with one partition and altered to two, one crash.
SPECIFICATION FairSpec
CONSTANTS
    r1 = r1
    r2 = r2
    o1 = o1
    o2 = o2
    NoOne = NoOne
    Members = {r1, r2}
    Orders = {o1, o2}
    GroupEnv <- MCGroupEnv
    Hash <- MCHash
    Environments <- MCEnvironments
    TargetPartitions = 2
    MaxRecords = 2
    MaxThrows = 1
    MaxFaults = 1
INVARIANTS
    TypeOK
    SettingsTellExpulsion
    OneReplicaPerOrder
PROPERTIES
    NoLossOnceCommitted
    EventuallyConsumed
\* Everything published is consumed and no replica is left to die.
CHECK_DEADLOCK FALSE
