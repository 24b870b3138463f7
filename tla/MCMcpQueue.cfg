SPECIFICATION FairSpec
CONSTANTS
    Client = {c1, c2}
    Key = {k1}
    TickLimit = 2
    MaxCalls = 2
    NoCall = NoCall
INVARIANTS
    TypeOK
    RunsInCallOrder
    ClosedMeansNeverRun
    RetriesApplyOnce
PROPERTIES
    SentCallsRun
    LeavingEnds
CHECK_DEADLOCK FALSE
