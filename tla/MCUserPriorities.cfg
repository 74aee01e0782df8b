\* The fair-share policy of the executor, 3 users and up to 4 recent runs.
CONSTANTS
    Users = {u1, u2, u3}
    MaxWindow = 4
SPECIFICATION FairSpec
INVARIANT CountsMatchWindow
CHECK_DEADLOCK FALSE
PROPERTY LeastActiveIsServed
PROPERTY NobodyStarves
INVARIANT HeapSound
