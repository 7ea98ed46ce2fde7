SPECIFICATION Spec
CONSTANTS
    p1 = p1
    p2 = p2
    e1 = e1
    e2 = e2
    o1 = o1
    Instances = {p1}
    Events = {e1}
    Orders = {o1}
    OrderOf <- MCOrderOf
    RuleViolating = {}
    MaxAttempts = 2
    MaxFaults = 1
INVARIANT NoDoubleCharge
CHECK_DEADLOCK FALSE
