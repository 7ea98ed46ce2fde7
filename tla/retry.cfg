\* Two groups on one topic, each of which can fail on an event of its own, with one fault.
SPECIFICATION FairSpec
CONSTANTS
    orders = orders
    stock = stock
    e1 = e1
    e2 = e2
    Groups <- MCGroups
    Events <- MCEvents
    Interest <- MCInterest
    Fallible <- MCInterest
    MaxAttempts = 2
    MaxFaults = 1
INVARIANTS
    TypeOK
    NothingVanishes
    DeadLetterMeansExhausted
    RetriesAreBounded
PROPERTIES
    ImplementsAtLeastOnce
    EventuallyDrained
\* The topic is drained and no producer has anything left to publish.
CHECK_DEADLOCK FALSE
