SPECIFICATION FairSpec
CONSTANTS
    Capacity = 1
    MaxChunks = 2
    MaxInputs = 2
INVARIANTS
    StreamsInOrder
    NothingOutlivesProxy
PROPERTIES
    ServerHeardToTheEnd
    ProxyEnds
CHECK_DEADLOCK FALSE
