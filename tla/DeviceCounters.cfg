CONSTANTS
    MaxValue = 10
    Epoch = 2
    InitialValues = {0, 3}
    WriteResults = {TRUE, FALSE}
    MaxGroupCounter = 9
    MinIncrement = 2
    RandomStarts = {1}
    StoreResults = {TRUE, FALSE}
    MaxCounter = 7
    WindowSize = 3
    MaxTop = 15
SPECIFICATION CountersSpec
INVARIANTS
    ClientInvariant
    FreshEventNumber
    FreshCheckInValue
    VerifyNeverFails
    FreshGroupCounter
    WindowExact
CHECK_DEADLOCK FALSE
