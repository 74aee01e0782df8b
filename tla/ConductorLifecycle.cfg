\* Two runs on SLURM; one crash of either machine, failed query or failed command.
CONSTANTS
    Runs = {r1, r2}
    Handlers = {h1}
    Cancels = {}
    Jobs = {1, 2}
    ClusterTypes = {"slurm"}
    FaultKinds = {"database", "failureQuery", "pollQuery", "cluster", "copy",
                  "conductor", "viola"}
    MaxFaults = 1
    JobEndings = {"COMPLETED", "TIMEOUT"}
    NoRun = NoRun
    NoJob = NoJob
    NoHandler = NoHandler
    NoAnswer = NoAnswer
    LocalJob = LocalJob
SPECIFICATION Spec
SYMMETRY Symmetry
INVARIANT OnClusterHasJob
PROPERTY RunLifecycleHolds
CHECK_DEADLOCK FALSE
