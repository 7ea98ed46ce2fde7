\* One order, one probe; the draws are the ends of 0..99 and the two sides of the default rate.
SPECIFICATION Spec
CONSTANTS
    Orders = {"o1"}
    Requests <- MCRequests
    Environments <- MCEnvironments
    Draws = {0, 19, 20, 99}
    MaxFinite = 1000000000
    MaxProbes = 1
INVARIANTS
    TypeOK
    OnlyTheseAreStranded
    OnlyBoundsRefuse
    ApprovedWithinBounds
    SettingsDecide
    VerdictsAreUnderstood
    AnswersTellTheRoutes
    PolicyIsLayered
\* Clients may stop posting, and every record be read.
CHECK_DEADLOCK FALSE
