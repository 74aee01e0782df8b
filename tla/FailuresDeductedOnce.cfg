\* Are the points those of the tests that did not fail?
CONSTANTS
    Rubrics <- MCRubrics
    Submissions <- MCSubmissions
    A = A
    B = B
    C = C
    D = D
    p = p
    q = q
    Killed = Killed
    NoFile = NoFile
    Null = Null
    Died = Died
    NotAsked = NotAsked
SPECIFICATION Spec
CHECK_DEADLOCK FALSE
INVARIANT PassedTestsPay
