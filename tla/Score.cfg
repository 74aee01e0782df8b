\* One valid rubric and four to be refused; all combinations of log files of one
\* kind.  A request ends with its score.
CONSTANTS
    Rubrics <- MCRubrics
    Submissions <- MCSubmissions
    A = A
    B = B
    C = C
    D = D
    p = p
    q = q
    Killed = Killed
    NoFile = NoFile
    Null = Null
    Died = Died
    NotAsked = NotAsked
SPECIFICATION Spec
CHECK_DEADLOCK FALSE
INVARIANT LossesExplained
INVARIANT PartsInBounds
INVARIANT PassedTestsPayUnlessLone
INVARIANT ResultsPay
