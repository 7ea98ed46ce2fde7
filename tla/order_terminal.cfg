SPECIFICATION Spec
CONSTANTS
    c1 = c1
    c2 = c2
    o1 = o1
    o2 = o2
    Nobody = Nobody
    Clients = {c1}
    Orders = {o1}
    Answers = {"payment.failed", "notification.sent"}
    MaxAttempts = 2
    MaxFaults = 0
PROPERTY TerminalIsFinal
CHECK_DEADLOCK FALSE
