---------------------------- MODULE RunLifecycle ----------------------------
(***************************************************************************)
(* What the runs table promises about the status of a run (conductor/      *)
(* score.js:7-12, views and /latest_complete_run read nothing else): a     *)
(* submission is tested for correctness, may then be queued and tested on  *)
(* the cluster, and is settled once.  A settled run never changes again:   *)
(* users are notified, scores computed and backups taken on that basis.    *)
(***************************************************************************)
CONSTANT Runs

VARIABLE status

SettledStatuses == {"FINISHED", "FAILED", "CANCELLED"}

Init == status = [r \in Runs |-> "none"]

Step(r, from, to) ==
    status[r] \in from /\ \E s \in to : status' = [status EXCEPT ![r] = s]

Submitted(r) == Step(r, {"none"}, {"TESTING CORRECTNESS"})

Queued(r) == Step(r, {"TESTING CORRECTNESS"}, {"IN CLUSTER QUEUE"})

Running(r) == Step(r, {"IN CLUSTER QUEUE"}, {"TESTING PERFORMANCE"})

Unsettled == {"TESTING CORRECTNESS", "IN CLUSTER QUEUE", "TESTING PERFORMANCE"}

Settled(r) == Step(r, Unsettled, SettledStatuses)

(* kill-running-jobs: everything that was in progress fails at once.       *)
AllFail ==
    status' = [r \in Runs |-> IF status[r] \in Unsettled THEN "FAILED" ELSE status[r]]

Next ==
    \/ \E r \in Runs : Submitted(r) \/ Queued(r) \/ Running(r) \/ Settled(r)
    \/ AllFail

Spec == Init /\ [][Next]_status
=============================================================================
