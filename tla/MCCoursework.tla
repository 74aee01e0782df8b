---------------------------- MODULE MCCoursework ----------------------------
(* Coursework with two students and one assignment: two runs of the first, *)
(* one of them late, one run of the second, and one without its files.     *)
EXTENDS Coursework, TLC

CONSTANTS u1, u2, r1, r2, r3, r4, a1

MCOwnerOf == r1 :> u1 @@ r2 :> u1 @@ r3 :> u2 @@ r4 :> u2
MCAssignmentOf == [r \in Runs |-> a1]
MCStartOf == r1 :> 1 @@ r2 :> 4 @@ r3 :> 3 @@ r4 :> 2
MCFilesReport == r1 :> "all found" @@ r2 :> "all found" @@ r3 :> "all found" @@ r4 :> "missing"
MCAllowed == [u \in Users |-> 1]

(* Requests and reminders share nothing but the assignments, which neither *)
(* changes: an instance with two requests and a report whose reminder has  *)
(* been sent, and one with reminders and no requests.                      *)
MCInit ==
    /\ Init
    /\ \E busy \in BOOLEAN :
          /\ flagged = [a \in Assignments |-> busy]
          /\ request = [m \in Requests |-> IF busy THEN Free ELSE Ended]
          /\ report = IF busy THEN Free ELSE Ended

MCSpec == MCInit /\ [][Next]_vars /\ Fairness
=============================================================================
