CONSTANTS
    Paths = {p1, p2}
    kMaxSubscriptionTimeouts = 2
    kMaxConsecutiveTimeouts = 1
    MaxContexts = 3
    MaxReports = 1
SPECIFICATION FairSpec
INVARIANTS
    TypeOK
    SilencedAtLimit
    ReportsFollowResponse
    CallbacksMeetTheirContext
PROPERTIES
    TerminatedContextIsFrozen
    CommandEnds
CHECK_DEADLOCK FALSE
