\* Is a callback called once?
CONSTANTS
    Polls = {c1}
    Requests = {}
    VarNames <- MCVarNames
    Copies <- MCCopies
    v1 = v1
    v2 = v2
    k1 = k1
    k2 = k2
    Boot = Boot
    NoCopy = NoCopy
    NoConn = NoConn
    FaultKinds = {"connect", "close", "error", "refused", "sftp"}
    MaxFaults = 1
SPECIFICATION Spec
CHECK_DEADLOCK FALSE
INVARIANT CallbackOnce
