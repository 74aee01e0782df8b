\* A cancel whose interrupt comes too late for its run.
CONSTANTS
    r1 = r1
    r2 = r2
    r3 = r3
    u1 = u1
    u2 = u2
    NoRun = NoRun
    Workers = {w1, w2}
    Cancellers = {c1}
    Runs = {r1, r2, r3}
    Users <- MCUsers
    UserOf <- MCUserOf
SPECIFICATION Spec
INVARIANT InterruptHitsOnlyItsRun
