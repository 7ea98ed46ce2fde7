\* One paid order whose reservation fails once.
SPECIFICATION Spec
CONSTANTS
    o1 = o1
    o2 = o2
    Orders = {o1}
    Verdicts <- MCPaid
    MaxAttempts <- MCMixedBudgets
    MaxFaults = 1
INVARIANTS
    DeadLettersAreRead
\* The saga ends when every order is decided.
CHECK_DEADLOCK FALSE
