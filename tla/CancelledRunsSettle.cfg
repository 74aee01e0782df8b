\* No fault at all: a cancel finds the run pending on the Viola.
CONSTANTS
    Runs = {r1}
    Handlers = {h1}
    Cancels = {c1}
    Jobs = {1}
    ClusterTypes = {"slurm"}
    FaultKinds = {}
    MaxFaults = 0
    JobEndings = {"COMPLETED"}
    NoRun = NoRun
    NoJob = NoJob
    NoHandler = NoHandler
    NoAnswer = NoAnswer
    LocalJob = LocalJob
SPECIFICATION FairSpec
PROPERTY CancelledRunsSettle
