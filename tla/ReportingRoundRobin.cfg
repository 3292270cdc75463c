CONSTANTS
    MaxSubscriptions = 1
    MaxReads = 2
    MaxInFlight = 2
    MaxDirtySet = 2
    IndexModulus = 16
    NumAttributes = 4
    ClusterPaths <- Clusters
    EndpointPaths <- Endpoints
    Requests <- LongWants
    MinInterval = 1
    MaxInterval = 2
    MaxInputs = 3
SPECIFICATION Spec
INVARIANTS
    RunVisitsAll
