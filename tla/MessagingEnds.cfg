SPECIFICATION FairSpec
CONSTANTS
    Nodes = {a, b}
    Initiators = {a}
    MaxCounter = 3
    WindowSize = 1
    MaxExchanges = 1
    MaxRetrans = 1
    RetransTableSize = 1
    MaxExchangeContexts = 1
    FlakyNodes = {b}
    EvictingNodes = {b}
    AppFlags <- RequestsOnly
    AppKinds = {"refuse", "none", "SendMessage"}
PROPERTIES
    EveryExchangeEnds
CHECK_DEADLOCK FALSE
