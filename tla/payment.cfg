\* Two replicas, two envelopes of one order, either of which may be approved or failed, two faults.
SPECIFICATION FairSpec
CONSTANTS
    p1 = p1
    p2 = p2
    e1 = e1
    e2 = e2
    o1 = o1
    Instances = {p1, p2}
    Events = {e1, e2}
    Orders = {o1}
    OrderOf <- MCOrderOf
    RuleViolating = {}
    MaxAttempts = 2
    MaxFaults = 2
INVARIANTS
    TypeOK
    LedgerIsHonest
    PaymentIdsAreUnambiguous
    OneVerdict
    NothingVanishes
    OneChargePerFault
PROPERTIES
    ApprovalStands
    ImplementsAtLeastOnce
    EventuallyAnswered
\* The partition is drained and every envelope answered.
CHECK_DEADLOCK FALSE
