\* One run and a cancel on either cluster; one fault of any kind but a failed query of a request.
CONSTANTS
    Runs = {r1}
    Handlers = {h1, h2}
    Cancels = {c1}
    Jobs = {1, 2}
    ClusterTypes = {"slurm", "local"}
    FaultKinds = {"connection", "failureQuery", "pollQuery", "cluster", "copy", "mail",
                  "conductor", "viola"}
    MaxFaults = 1
    JobEndings = {"COMPLETED", "TIMEOUT", "NODE_FAIL"}
    NoRun = NoRun
    NoJob = NoJob
    NoHandler = NoHandler
    NoAnswer = NoAnswer
    LocalJob = LocalJob
SPECIFICATION FairSpec
INVARIANT FinishedMeansReported
INVARIANT CancelledOnlyOnRequest
INVARIANT NoJobForStoppedRuns
INVARIANT NotificationNotLost
PROPERTY SubmissionsSettle
PROPERTY PollKeepsGoing
