SPECIFICATION FairSpec
CONSTANTS
    Connect = {c1, c2, c3}
    Socket = {s1, s2, s3}
    MaxPending = 2
    NoConnect = NoConnect
INVARIANTS
    TypeOK
    OneOwner
    TokenSpentOnce
PROPERTIES
    ConnectEnds
CHECK_DEADLOCK FALSE
