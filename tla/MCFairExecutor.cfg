\* Safety and progress under every interleaving of 2 workers, 2 cancels and 2 runs.
CONSTANTS
    r1 = r1
    r2 = r2
    r3 = r3
    u1 = u1
    u2 = u2
    NoRun = NoRun
    Workers = {w1, w2}
    Cancellers = {c1, c2}
    Runs = {r1, r3}
    Users <- MCUsers
    UserOf <- MCUserOf
SPECIFICATION FairSpec
INVARIANT TypeOK
INVARIANT QueuesExact
INVARIANT OneWorkerPerRun
INVARIANT SomeoneIsAwake
INVARIANT CancellerSleepsOnLiveRun
INVARIANT CancelledIsOffThePool
PROPERTY NeverRunTwice
PROPERTY QueuedRunsAreServed
PROPERTY CancelReturns
