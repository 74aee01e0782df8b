---------------------------- MODULE ViolaService ----------------------------
(***************************************************************************)
(* What the Viola is to the conductor: a service that accepts a run, tests *)
(* it some time later and reports back.  This is the abstraction of the    *)
(* import, execute, export and notify stages (viola/*.java) the conductor's*)
(* model is built on; every action is a whole stage for one run.           *)
(*                                                                         *)
(* A module that uses it supplies the variables and conjoins its own part  *)
(* of a step (the HTTP handler on the conductor) where there is one.       *)
(***************************************************************************)
EXTENDS Naturals

CONSTANTS Runs

VARIABLES
    viola,      \* the stage a run is in
    held,       \* the runs in runningTasks: a worker has not dropped them yet
    flagged,    \* the runs whose beingCancelled is set
    report      \* errMsg: what the notification will say

violaVars == <<viola, held, flagged, report>>

Stages == {"absent", "importing", "queued", "running", "exporting",
           "reporting", "reported", "removed", "lost"}

(* "" is the empty message; "cancelled" is "Cancelled by user", which the  *)
(* conductor compares with; "error" is any other message.                  *)
Reports == {"", "error", "cancelled"}

ViolaTypeOK ==
    /\ viola \in [Runs -> Stages]
    /\ held \in SUBSET Runs
    /\ flagged \in SUBSET Runs
    /\ report \in [Runs -> Reports]

ViolaInit ==
    /\ viola = [r \in Runs |-> "absent"]
    /\ held = {}
    /\ flagged = {}
    /\ report = [r \in Runs |-> ""]

Move(r, from, to) == viola[r] = from /\ viola' = [viola EXCEPT ![r] = to]

(* GET /run: the run is put into toImport.                                 *)
Accept(r) ==
    /\ Move(r, "absent", "importing")
    /\ UNCHANGED <<held, flagged, report>>

(* The import thread has copied the files, or has given up copying them.   *)
Imported(r) ==
    /\ Move(r, "importing", "queued")
    /\ UNCHANGED <<held, flagged, report>>

(* What it reports may be empty: it is what scp wrote on stderr.           *)
ImportFails(r) ==
    /\ Move(r, "importing", "reporting")
    /\ \E msg \in {"", "error"} : report' = [report EXCEPT ![r] = msg]
    /\ UNCHANGED <<held, flagged>>

Start(r) ==
    /\ Move(r, "queued", "running")
    /\ held' = held \cup {r}
    /\ UNCHANGED <<flagged, report>>

(* The finally block of LocalTestRunner.run: the cancel flag decides, and  *)
(* what is flagged later changes nothing.                                  *)
TestsEnd(r) ==
    /\ Move(r, "running", "exporting")
    /\ \E msg \in IF r \in flagged THEN {"cancelled"} ELSE {"", "error"} :
          report' = [report EXCEPT ![r] = msg]
    /\ UNCHANGED <<held, flagged>>

Drop(r) ==
    /\ r \in held
    /\ viola[r] # "running"
    /\ held' = held \ {r}
    /\ UNCHANGED <<viola, flagged, report>>

(* The export thread has saved the log files on the conductor; if that     *)
(* fails its own message replaces whatever the run had to say.             *)
LogsLost(r) == report' = [report EXCEPT ![r] = "error"]

Exported(r) ==
    /\ Move(r, "exporting", "reporting")
    /\ UNCHANGED report \/ LogsLost(r)
    /\ UNCHANGED <<held, flagged>>

(* POST /local_run_finished has been answered.                             *)
Reported(r) ==
    /\ Move(r, "reporting", "reported")
    /\ UNCHANGED <<held, flagged, report>>

(* GET /cancel finds the run among the pending ones and drops it, without  *)
(* reporting it, ...                                                       *)
CancelQueued(r) ==
    /\ Move(r, "queued", "removed")
    /\ UNCHANGED <<held, flagged, report>>

(* ... or finds it in the hands of a worker, flags it and waits for Drop.  *)
CancelHeld(r) ==
    /\ r \in held
    /\ flagged' = flagged \cup {r}
    /\ UNCHANGED <<viola, held, report>>

(* Neither: "found" is false.                                              *)
Unknown(r) == viola[r] # "queued" /\ r \notin held

(* Nothing is persistent: when the Viola dies, the runs it has are gone.   *)
ViolaCrash ==
    /\ viola' = [r \in Runs |->
                   IF viola[r] \in {"importing", "queued", "running", "exporting",
                                    "reporting"} THEN "lost" ELSE viola[r]]
    /\ held' = {}
    /\ UNCHANGED <<flagged, report>>

(* The import or export thread dies of an exception, with the run it has.  *)
Lost(r) ==
    /\ Move(r, "importing", "lost") \/ Move(r, "exporting", "lost")
    /\ UNCHANGED <<held, flagged, report>>

(* The notify thread waits for ever for an answer.                         *)
Unanswered(r) ==
    /\ Move(r, "reporting", "lost")
    /\ UNCHANGED <<held, flagged, report>>

ViolaWork(r) ==
    \/ Imported(r) \/ ImportFails(r) \/ Start(r) \/ TestsEnd(r) \/ Drop(r)
    \/ Exported(r)

ViolaNext ==
    \/ \E r \in Runs : \/ Accept(r) \/ ViolaWork(r) \/ Reported(r)
                       \/ CancelQueued(r) \/ CancelHeld(r)
                       \/ Lost(r) \/ Unanswered(r)
    \/ ViolaCrash

ViolaSpec == ViolaInit /\ [][ViolaNext]_violaVars
=============================================================================
