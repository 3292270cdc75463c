SPECIFICATION Spec
CONSTANTS
    Nodes = {a, b}
    Initiators = {a}
    MaxCounter = 3
    WindowSize = 1
    MaxExchanges = 1
    MaxRetrans = 1
    RetransTableSize = 1
    MaxExchangeContexts = 1
    FlakyNodes = {}
    EvictingNodes = {b}
    AppFlags <- RequestResponse
    AppKinds = {"refuse", "none", "WillSendMessage", "SendMessage"}
INVARIANTS
    TypeOK
    AtMostOnceDelivery
    AnswerCarriesAck
    ExchangeLifetime
    RetransEntryHasSession
PROPERTIES
    PendingSendKeepsContext
    ConversationSpec
CHECK_DEADLOCK FALSE
