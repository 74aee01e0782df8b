\* One call, two variables and a batch of two files; one fault of any kind.
CONSTANTS
    Polls = {}
    Requests = {c1}
    VarNames <- MCVarNames
    Copies <- MCCopies
    v1 = v1
    v2 = v2
    k1 = k1
    k2 = k2
    Boot = Boot
    NoCopy = NoCopy
    NoConn = NoConn
    FaultKinds = {"connect", "close", "error", "refused", "sftp"}
    MaxFaults = 1
SPECIFICATION FairSpec
CHECK_DEADLOCK FALSE
INVARIANT InFlightExact
INVARIANT TwiceOnlyAcross
INVARIANT SentOnce
INVARIANT BatchComplete
PROPERTY CallsAreAnswered
