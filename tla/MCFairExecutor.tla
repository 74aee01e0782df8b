--------------------------- MODULE MCFairExecutor ---------------------------
(* FairExecutor on a small pool: 2 workers, up to 3 runs of 2 users, up to *)
(* 2 cancels at a time.                                                    *)
EXTENDS FairExecutor

CONSTANTS r1, r2, r3, u1, u2

MCUsers == {u1, u2}
MCUserOf == [r \in Runs |-> IF r = r3 THEN u2 ELSE u1]
=============================================================================
