CONSTANTS
    Paths = {p1, p2}
    kMaxSubscriptionTimeouts = 2
    kMaxConsecutiveTimeouts = 1
    MaxContexts = 3
    MaxReports = 1
SPECIFICATION Spec
PROPERTIES
    ReportWakesSender
CHECK_DEADLOCK FALSE
