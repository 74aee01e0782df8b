\* Two runs, of which one is never answered; one worker; two faults of any kind.
\* Every thread may be waiting for work, so the Viola may stop.
CONSTANTS
    Runs = {r1, r2}
    NoRun = NoRun
    PoolSize = 1
    Hosts = {"localhost", "remote"}
    Refused = {r2}
    FaultKinds = {"disk", "copy", "timeout", "exception", "connection", "silence", "crash"}
    MaxFaults = 2
SPECIFICATION FairSpec
CHECK_DEADLOCK FALSE
INVARIANT OnePlacePerRun
INVARIANT SuccessIsReal
PROPERTY ImplementsService
PROPERTY AcceptedRunsEnd
