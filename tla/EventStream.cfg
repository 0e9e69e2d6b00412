SPECIFICATION Spec
CONSTANTS
    Tab = {"t1", "t2"}
    Managed = {"t2"}
    Attached = {"t1"}
    PageSize = 2
    MaxEvents = 2
    MaxGeneration = 2
    MaxEpoch = 2
    MaxMoves = 3
    MaxWire = 1
INVARIANTS
    StreamsInOrder
    ReadsStayInEpoch
    FactsAreReadable
    FreshAfterOutage
CHECK_DEADLOCK FALSE
