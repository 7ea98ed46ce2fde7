\* A paid and an unpaid order share the topics, one fault.
SPECIFICATION Spec
CONSTANTS
    o1 = o1
    o2 = o2
    Orders = {o1, o2}
    Verdicts <- MCPaidAndUnpaid
    MaxAttempts <- MCRetryOnce
    MaxFaults = 1
INVARIANTS
    StatusFollowsVerdict
\* The saga ends when every order is decided.
CHECK_DEADLOCK FALSE
