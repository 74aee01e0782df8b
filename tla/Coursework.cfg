\* Two requests, one report, two changes to the assignment, two reminders at once.
\* Two faults.  Requests end and need not come again.
CONSTANTS
    u1 = u1
    u2 = u2
    r1 = r1
    r2 = r2
    r3 = r3
    r4 = r4
    a1 = a1
    Users = {u1, u2}
    Assignments = {a1}
    Runs = {r1, r2, r3, r4}
    OwnerOf <- MCOwnerOf
    AssignmentOf <- MCAssignmentOf
    StartOf <- MCStartOf
    FilesReport <- MCFilesReport
    AllowedSlipDays <- MCAllowed
    Deadlines = {1, 2}
    Requests = {m1, m2}
    Day = 2
    Window = 1
    MaxTime = 2
    MaxEdits = 2
    Rounds = {1, 2}
    FaultKinds = {"query", "users", "mail", "flag", "copy", "crash"}
    MaxFaults = 2
SPECIFICATION MCSpec
CHECK_DEADLOCK FALSE
INVARIANT ReportIsSnapshot
INVARIANT SlipDaysAreLeast
INVARIANT FlagMeansMailed
PROPERTY OwnFinalsOnly
PROPERTY FrozenWhenDisabled
PROPERTY OutstandingIsMailed
