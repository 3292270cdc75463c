SPECIFICATION Spec
CONSTANTS
    Nodes = {a, b}
    Initiators = {a}
    MaxCounter = 3
    WindowSize = 1
    MaxExchanges = 3
    MaxRetrans = 1
    RetransTableSize = 2
    MaxExchangeContexts = 2
    FlakyNodes = {}
    EvictingNodes = {}
    AppFlags <- OneWay
    AppKinds = {"refuse", "none"}
INVARIANTS
    AckMeansReceived
CHECK_DEADLOCK FALSE
