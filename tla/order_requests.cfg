SPECIFICATION FairSpec
CONSTANTS
    c1 = c1
    c2 = c2
    o1 = o1
    o2 = o2
    Nobody = Nobody
    Clients = {c1, c2}
    Orders = {o1, o2}
    Answers = {"payment.failed", "notification.sent"}
    MaxAttempts = 2
    MaxFaults = 1
INVARIANTS
    TypeOK
    EventsAreBacked
    CopiesAreBounded
    PendingMeansUnderway
    StatusIsEarned
PROPERTIES
    NeverReopened
    OrdersAreDecided
CHECK_DEADLOCK FALSE
