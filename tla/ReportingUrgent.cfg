CONSTANTS
    MaxSubscriptions = 1
    MaxReads = 1
    MaxInFlight = 1
    MaxDirtySet = 2
    IndexModulus = 4
    NumAttributes = 4
    ClusterPaths <- Clusters
    EndpointPaths <- Endpoints
    Requests <- Wants
    MinInterval = 1
    MaxInterval = 2
    MaxInputs = 4
SPECIFICATION Spec
INVARIANTS
    UrgentEventsStayDirty
