\* One paid order, two faults.
SPECIFICATION FairSpec
CONSTANTS
    o1 = o1
    o2 = o2
    Orders = {o1}
    Verdicts <- MCPaid
    MaxAttempts <- MCMixedBudgets
    MaxFaults = 2
INVARIANTS
    TypeOK
    CausalChain
    EachFaultAtMostDoubles
PROPERTY EventuallyCompleted
\* The saga ends when every order is decided.
CHECK_DEADLOCK FALSE
