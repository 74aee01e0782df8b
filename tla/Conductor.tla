----------------------------- MODULE Conductor -----------------------------
(***************************************************************************)
(* The life of a run on the conductor (conductor/app.js): submission, the  *)
(* Viola's notification, the launch on the cluster, the poll of the        *)
(* cluster, cancellation, and the end and the start of the conductor.      *)
(*                                                                         *)
(* Node runs one callback at a time: a step is what happens between two    *)
(* asynchronous calls, and a handler is a chain of them whose place is kept*)
(* in memory only.  The runs table is what survives.  The Viola is the     *)
(* module ViolaService; SLURM is a table of jobs.                          *)
(*                                                                         *)
(* Faults (a lost connection, a failed query, a failed cluster command or  *)
(* e-mail, a copy that is never heard of, a crash of either machine) are   *)
(* drawn from FaultKinds, MaxFaults at most.                               *)
(***************************************************************************)
EXTENDS ViolaService, FiniteSets

CONSTANTS
    Handlers,          \* chains started by POST /local_run_finished
    Cancels,           \* chains started by POST /cancel
    Jobs,              \* bound: the numbers of the cluster jobs there may be
    ClusterTypes,      \* the CLUSTER_TYPEs considered: "slurm", "local" or both
    FaultKinds,        \* subset of {"connection", "database" (a query of a
                       \* request), "failureQuery" (the one that stores that it
                       \* failed), "pollQuery" (one of the poll), "cluster",
                       \* "copy", "mail", "conductor", "viola"}
    MaxFaults,         \* bound
    JobEndings,        \* the ways a cluster job may end by itself
    NoRun, NoJob, NoHandler,
    NoAnswer,          \* stands for a chain that will never answer the Viola
    LocalJob           \* LOCAL_JOB_ID

ASSUME ConductorAssumption ==
    /\ ClusterTypes \subseteq {"slurm", "local"}
    /\ Jobs \subseteq Nat
    /\ MaxFaults \in Nat
    /\ JobEndings \subseteq {"COMPLETED", "FAILED", "TIMEOUT", "NODE_FAIL"}
    /\ NoRun \notin Runs /\ NoJob \notin Jobs /\ LocalJob \notin Jobs
    /\ LocalJob # NoJob /\ NoHandler \notin Handlers
    /\ NoAnswer \notin Handlers \cup {NoHandler}

VARIABLES
    status, jobId,     \* columns of the runs table
    correctnessOnly,   \* the runs submitted without performance tests
    submission,        \* per run, where submit_run and its continuation are
    handlers,          \* per chain of local_run_finished: run, place, job
    waiter,            \* the handler the Viola's notify thread waits for
    cancels,           \* per chain of cancel: run, place, job
    told,              \* history: the runs /cancel has answered "killed on Viola" for
    poll,              \* check_cluster: place, runs left, current run
    jobs,              \* SLURM: run and state of every job
    faults,
    clusterType        \* CLUSTER_TYPE, read once when the conductor is set up

rowVars == <<status, jobId, correctnessOnly>>
chainVars == <<submission, handlers, waiter, cancels, poll>>
stepVars == <<violaVars, rowVars, chainVars, told, jobs, faults>>
vars == <<stepVars, clusterType>>

Settled == {"FINISHED", "FAILED", "CANCELLED"}
OnCluster == {"IN CLUSTER QUEUE", "TESTING PERFORMANCE"}
Statuses == {"none", "TESTING CORRECTNESS"} \cup OnCluster \cup Settled

(* "NODE_FAIL" is any final state check_cluster_helper has no branch for.  *)
JobStates == {"unused", "PENDING", "RUNNING", "CANCELLED"} \cup JobEndings

NoChain == [run |-> NoRun, at |-> "idle", job |-> NoJob]
Resting(place) == [at |-> place, todo |-> {}, run |-> NoRun, verdict |-> "none"]
Asleep == Resting("asleep")

TypeOK ==
    /\ ViolaTypeOK
    /\ status \in [Runs -> Statuses]
    /\ correctnessOnly \in SUBSET Runs
    /\ jobId \in [Runs -> Jobs \cup {NoJob, LocalJob}]
    /\ submission \in [Runs -> {"none", "inserted", "asked", "failing"}]
    /\ handlers \in [Handlers ->
          [run : Runs, job : Jobs \cup {NoJob, LocalJob},
           at : {"checked", "launching", "running", "submitted", "failing"}]
          \cup {NoChain}]
    /\ waiter \in Handlers \cup {NoHandler, NoAnswer}
    /\ cancels \in [Cancels ->
          [run : Runs, job : Jobs \cup {NoJob},
           at : {"asking", "onViola", "missed", "scancel"}] \cup {NoChain}]
    /\ told \in SUBSET Runs
    /\ poll \in [at : {"asleep", "checking", "marking", "finishing", "storing",
                       "mailing", "hung", "down"},
                 todo : SUBSET [run : Runs, job : Jobs \cup {LocalJob}],
                 run : Runs \cup {NoRun}, verdict : Settled \cup {"none"}]
    /\ jobs \in [Jobs -> [run : Runs \cup {NoRun}, state : JobStates]]
    /\ faults \in 0 .. MaxFaults
    /\ clusterType \in ClusterTypes

ChainsInit ==
    /\ submission = [r \in Runs |-> "none"]
    /\ handlers = [h \in Handlers |-> NoChain]
    /\ waiter = NoHandler
    /\ cancels = [c \in Cancels |-> NoChain]
    /\ poll = Asleep

Init ==
    /\ ViolaInit
    /\ status = [r \in Runs |-> "none"]
    /\ jobId = [r \in Runs |-> NoJob]
    /\ correctnessOnly = {}
    /\ ChainsInit
    /\ told = {}
    /\ jobs = [j \in Jobs |-> [run |-> NoRun, state |-> "unused"]]
    /\ faults = 0
    /\ clusterType \in ClusterTypes

Fault(kind) ==
    /\ kind \in FaultKinds
    /\ faults < MaxFaults
    /\ faults' = faults + 1

SetStatus(r, s) == status' = [status EXCEPT ![r] = s]

(* The process runs: requests are accepted.                                *)
Up == poll.at # "down"

-----------------------------------------------------------------------------
(* submit_run, trigger_viola_run, viola_trigger_failed.                    *)

Submission(r, from, to) ==
    submission[r] = from /\ submission' = [submission EXCEPT ![r] = to]

SubmitRun(r) ==
    /\ Up
    /\ status[r] = "none"
    /\ SetStatus(r, "TESTING CORRECTNESS")
    /\ correctnessOnly' \in {correctnessOnly, correctnessOnly \cup {r}}
    /\ Submission(r, "none", "inserted")
    /\ UNCHANGED <<violaVars, jobId, handlers, waiter, cancels, poll, told,
                   jobs, faults>>

TriggerViolaRun(r) ==
    /\ Submission(r, "inserted", "asked")
    /\ Accept(r)
    /\ UNCHANGED <<rowVars, handlers, waiter, cancels, poll, told, jobs, faults>>

(* The export from SVN fails, or the Viola cannot be reached.              *)
TriggerImpossible(r) ==
    /\ Submission(r, "inserted", "failing")
    /\ UNCHANGED <<violaVars, rowVars, handlers, waiter, cancels, poll, told,
                   jobs, faults>>

TriggerAnswered(r) ==
    /\ Submission(r, "asked", "none")
    /\ UNCHANGED <<violaVars, rowVars, handlers, waiter, cancels, poll, told,
                   jobs, faults>>

(* The Viola has the run, and the connection breaks before its answer.     *)
TriggerAnswerLost(r) ==
    /\ Fault("connection")
    /\ Submission(r, "asked", "failing")
    /\ UNCHANGED <<violaVars, rowVars, handlers, waiter, cancels, poll, told, jobs>>

ViolaTriggerFailed(r) ==
    /\ Submission(r, "failing", "none")
    /\ SetStatus(r, "FAILED")
    /\ UNCHANGED <<violaVars, jobId, correctnessOnly, handlers, waiter, cancels,
                   poll, told, jobs, faults>>

(* The failure cannot be stored: it is only logged.                        *)
TriggerFailureNotStored(r) ==
    /\ Fault("failureQuery")
    /\ Submission(r, "failing", "none")
    /\ UNCHANGED <<violaVars, rowVars, handlers, waiter, cancels, poll, told, jobs>>

-----------------------------------------------------------------------------
(* POST /local_run_finished.                                               *)

At(h, place) == handlers[h].at = place

JobForgotten_(h, place, j) == handlers' = [handlers EXCEPT ![h].at = place]
Continue(h, place, j) ==
    handlers' = [handlers EXCEPT ![h].at = place, ![h].job = j]

(* The chain ends.  If the Viola still waits for it, its answer (whatever  *)
(* it says, redirects included) takes the run out of toNotify.             *)
Respond(h) ==
    /\ handlers' = [handlers EXCEPT ![h] = NoChain]
    /\ IF waiter = h
         THEN waiter' = NoHandler /\ Reported(handlers[h].run)
         ELSE UNCHANGED <<waiter, violaVars>>

(* The notify thread posts one run at a time.  A run that is not being     *)
(* tested any more has been reported before.                               *)
NoCheck_(r) == TRUE
MayLaunch(r) == status[r] = "TESTING CORRECTNESS"

AnswerAtOnce_(r, h) == Reported(r) /\ UNCHANGED waiter
AnswerLater(r, h) == waiter' = h /\ UNCHANGED violaVars

Notified(r, h) ==
    /\ Up
    /\ viola[r] = "reporting"
    /\ waiter = NoHandler
    /\ At(h, "idle")
    /\ IF MayLaunch(r)
         THEN /\ handlers' = [handlers EXCEPT ![h] =
                                [run |-> r, at |-> "checked", job |-> NoJob]]
              /\ AnswerLater(r, h)
         ELSE Reported(r) /\ UNCHANGED <<handlers, waiter>>
    /\ UNCHANGED <<rowVars, submission, cancels, poll, told, jobs, faults>>

(* The Viola's thread gives up on the connection, keeps the run in         *)
(* toNotify and will post it again; the chain on the conductor goes on.    *)
ConnectionLost ==
    /\ waiter # NoHandler
    /\ Fault("connection")
    /\ waiter' = NoHandler
    /\ UNCHANGED <<violaVars, rowVars, submission, handlers, cancels, poll,
                   told, jobs>>

StopsUncancelled_(r) == r \in correctnessOnly
StopsHere(r) == r \in correctnessOnly \/ report[r] = "cancelled"

FinishLocalRun(h) ==
    LET r == handlers[h].run IN
    /\ At(h, "checked")
    /\ StopsHere(r)
    /\ SetStatus(r, IF report[r] = "cancelled" THEN "CANCELLED" ELSE "FINISHED")
    /\ Respond(h)
    /\ UNCHANGED <<jobId, correctnessOnly, submission, cancels, poll, told, jobs, faults>>

(* The chain ends without an answer.                                       *)
FallsSilent(h) ==
    /\ handlers' = [handlers EXCEPT ![h] = NoChain]
    /\ waiter' = IF waiter = h THEN NoAnswer ELSE waiter
    /\ UNCHANGED violaVars

(* The queries, the commands and the copies before the launch: all of them *)
(* are answered, ...                                                       *)
Copies(h) == At(h, "checked") /\ ~ StopsHere(handlers[h].run)

CopyToCluster(h) ==
    /\ Copies(h)
    /\ Continue(h, "launching", NoJob)
    /\ UNCHANGED <<violaVars, rowVars, submission, waiter, cancels, poll,
                   told, jobs, faults>>

(* ... one with an error, ...                                              *)
CopyFails(h) ==
    /\ Copies(h)
    /\ Fault("cluster")
    /\ Continue(h, "failing", NoJob)
    /\ UNCHANGED <<violaVars, rowVars, submission, waiter, cancels, poll, told, jobs>>

(* ... or a copy is never heard of: its connection was closed, and copies  *)
(* are not among the in_flight_cmds that the close fails.                  *)
CopyHangs(h) ==
    /\ Copies(h)
    /\ clusterType = "slurm"
    /\ Fault("copy")
    /\ FallsSilent(h)
    /\ UNCHANGED <<rowVars, submission, cancels, poll, told, jobs>>

(* sbatch queues a job under the next number; on a local cluster the script*)
(* itself is run, and the callback comes when it has ended.                *)
NewJob(r, j) ==
    /\ jobs[j].state = "unused"
    /\ \A k \in Jobs : k < j => jobs[k].state # "unused"
    /\ jobs' = [jobs EXCEPT ![j] =
          [run |-> r, state |-> IF clusterType = "slurm" THEN "PENDING" ELSE "RUNNING"]]

Launch(h) ==
    /\ At(h, "launching")
    /\ \E j \in Jobs :
         /\ NewJob(handlers[h].run, j)
         /\ Continue(h, IF clusterType = "slurm" THEN "submitted" ELSE "running", j)
    /\ UNCHANGED <<violaVars, rowVars, submission, waiter, cancels, poll,
                   told, faults>>

LocalPerfRunEnds(h) ==
    /\ At(h, "running")
    /\ jobs[handlers[h].job].state \in JobEndings
    /\ IF jobs[handlers[h].job].state = "COMPLETED"
         THEN Continue(h, "submitted", LocalJob) ELSE Continue(h, "failing", NoJob)
    /\ UNCHANGED <<violaVars, rowVars, submission, waiter, cancels, poll,
                   told, jobs, faults>>

(* sbatch fails, with or without a job being queued.                       *)
LaunchFails(h) ==
    /\ At(h, "launching")
    /\ clusterType = "slurm"
    /\ Fault("cluster")
    /\ UNCHANGED jobs \/ \E j \in Jobs : NewJob(handlers[h].run, j)
    /\ Continue(h, "failing", NoJob)
    /\ UNCHANGED <<violaVars, rowVars, submission, waiter, cancels, poll, told>>

RecordJob(h) ==
    LET r == handlers[h].run IN
    /\ At(h, "submitted")
    /\ jobId' = [jobId EXCEPT ![r] = handlers[h].job]
    /\ IF clusterType = "slurm" THEN SetStatus(r, "IN CLUSTER QUEUE")
                                ELSE UNCHANGED status
    /\ Respond(h)
    /\ UNCHANGED <<correctnessOnly, submission, cancels, poll, told, jobs, faults>>

FailedStartingPerfTests(h) ==
    /\ At(h, "failing")
    /\ SetStatus(handlers[h].run, "FAILED")
    /\ Respond(h)
    /\ UNCHANGED <<jobId, correctnessOnly, submission, cancels, poll, told, jobs, faults>>

(* pgquery_no_err ends the chain with a redirect.                          *)
HandlerQueryFails(h) ==
    /\ handlers[h].at \in {"checked", "submitted"}
    /\ Fault("database")
    /\ Respond(h)
    /\ UNCHANGED <<rowVars, submission, cancels, poll, told, jobs>>

(* failed_starting_perf_tests cannot store the failure: it only logs it.   *)
FailureNotStored(h) ==
    /\ At(h, "failing")
    /\ Fault("failureQuery")
    /\ FallsSilent(h)
    /\ UNCHANGED <<rowVars, submission, cancels, poll, told, jobs>>

(* The connection of a request that nobody answers may be closed; the Viola*)
(* posts the run again.                                                    *)
TimesOut ==
    /\ waiter = NoAnswer
    /\ waiter' = NoHandler
    /\ UNCHANGED <<violaVars, rowVars, submission, handlers, cancels, poll,
                   told, jobs, faults>>

-----------------------------------------------------------------------------
(* POST /cancel.                                                           *)

CancelAt(c, place) == cancels[c].at = place

CancelGoesOn(c, r, place, j) ==
    cancels' = [cancels EXCEPT ![c] = [run |-> r, at |-> place, job |-> j]]

(* The page is rendered.  One of its messages is kept in the history: that *)
(* the run was killed or completed on the Viola, and will be cancelled.    *)
Tell(c, r, message) ==
    /\ told' = IF message = "cancelled on Viola" THEN told \cup {r} ELSE told
    /\ cancels' = [cancels EXCEPT ![c] = NoChain]

CancelRun(c, r) ==
    /\ Up
    /\ CancelAt(c, "idle")
    /\ status[r] # "none"
    /\ IF status[r] \in Settled
         THEN Tell(c, r, "completed")
         ELSE CancelGoesOn(c, r, "asking", NoJob) /\ UNCHANGED told
    /\ UNCHANGED <<violaVars, rowVars, submission, handlers, waiter, poll, jobs,
                   faults>>

(* The Viola's CancelHandler finds the run pending, ...                    *)
CancelFindsQueued(c) ==
    /\ CancelAt(c, "asking")
    /\ CancelQueued(cancels[c].run)
    /\ Tell(c, cancels[c].run, "cancelled on Viola")
    /\ UNCHANGED <<rowVars, submission, handlers, waiter, poll, jobs, faults>>

(* ... or in the hands of a worker, and answers when that has dropped it,  *)
CancelFindsHeld(c) ==
    /\ CancelAt(c, "asking")
    /\ CancelHeld(cancels[c].run)
    /\ CancelGoesOn(c, cancels[c].run, "onViola", NoJob)
    /\ UNCHANGED <<rowVars, submission, handlers, waiter, poll, told, jobs, faults>>

CancelHeldReturns(c) ==
    /\ CancelAt(c, "onViola")
    /\ cancels[c].run \notin held
    /\ Tell(c, cancels[c].run, "cancelled on Viola")
    /\ UNCHANGED <<violaVars, rowVars, submission, handlers, waiter, poll, jobs,
                   faults>>

(* ... or not at all.                                                      *)
CancelFindsNothing(c) ==
    LET r == cancels[c].run IN
    /\ CancelAt(c, "asking")
    /\ Unknown(r)
    /\ IF r \in correctnessOnly
         THEN Tell(c, r, "cancelled on Viola")
         ELSE CancelGoesOn(c, r, "missed", NoJob) /\ UNCHANGED told
    /\ UNCHANGED <<violaVars, rowVars, submission, handlers, waiter, poll, jobs,
                   faults>>

CancelLooksUpJob(c) ==
    LET r == cancels[c].run IN
    /\ CancelAt(c, "missed")
    /\ CASE jobId[r] = NoJob -> Tell(c, r, "again")
         [] jobId[r] = LocalJob -> Tell(c, r, "cancelled")
         [] OTHER -> CancelGoesOn(c, r, "scancel", jobId[r]) /\ UNCHANGED told
    /\ UNCHANGED <<violaVars, rowVars, submission, handlers, waiter, poll, jobs,
                   faults>>

Scancel(c) ==
    LET j == cancels[c].job IN
    /\ CancelAt(c, "scancel")
    /\ jobs' = IF jobs[j].state \in {"PENDING", "RUNNING"}
                 THEN [jobs EXCEPT ![j].state = "CANCELLED"] ELSE jobs
    /\ Tell(c, cancels[c].run, "cancelled")
    /\ UNCHANGED <<violaVars, rowVars, submission, handlers, waiter, poll, faults>>

(* The Viola or the cluster cannot be reached, or a query fails.           *)
CancelFails(c) ==
    /\ cancels[c].at \in {"asking", "onViola", "missed", "scancel"}
    /\ \E kind \in {"connection", "cluster", "database"} : Fault(kind)
    /\ cancels' = [cancels EXCEPT ![c] = NoChain]
    /\ UNCHANGED <<violaVars, rowVars, submission, handlers, waiter, poll,
                   told, jobs>>

-----------------------------------------------------------------------------
(* check_cluster, check_cluster_helper, finish_perf_tests.                 *)

PollAt(place, todo, r, verdict) ==
    poll' = [at |-> place, todo |-> todo, run |-> r, verdict |-> verdict]

PollUnchanged == UNCHANGED <<violaVars, submission, handlers, waiter, cancels, told>>

CheckCluster ==
    /\ poll.at = "asleep"
    /\ PollAt("checking",
              {[run |-> r, job |-> jobId[r]] : r \in
                  {r \in Runs : /\ jobId[r] # NoJob
                                /\ status[r] \in OnCluster \/ jobId[r] = LocalJob}},
              NoRun, "none")
    /\ UNCHANGED <<rowVars, jobs, faults>>
    /\ PollUnchanged

AnyEnd_(state) == IF state \in {"PENDING", "RUNNING"} THEN "none" ELSE "FINISHED"
TimeoutCancels_(state) ==
    CASE state \in {"TIMEOUT", "CANCELLED"} -> "CANCELLED"
      [] state = "COMPLETED" -> "FINISHED"
      [] state = "FAILED" -> "FAILED"
      [] OTHER -> "none"
Verdict(state) ==
    CASE state \in {"FAILED", "TIMEOUT"} -> "FAILED"
      [] state = "CANCELLED" -> "CANCELLED"
      [] state = "COMPLETED" -> "FINISHED"
      [] OTHER -> "none"

(* One run of the round, with the job it had when the round began.         *)
CheckRun(p) ==
    /\ poll.at = "checking"
    /\ p \in poll.todo
    /\ LET verdict == IF clusterType = "slurm" THEN Verdict(jobs[p.job].state)
                                              ELSE "FINISHED"
           rest    == poll.todo \ {p}
       IN  IF verdict # "none" THEN PollAt("finishing", rest, p.run, verdict)
           ELSE IF jobs[p.job].state = "RUNNING" THEN PollAt("marking", rest, p.run, "none")
           ELSE PollAt("checking", rest, NoRun, "none")
    /\ UNCHANGED <<rowVars, jobs, faults>>
    /\ PollUnchanged

MarkRunning ==
    /\ poll.at = "marking"
    /\ SetStatus(poll.run, "TESTING PERFORMANCE")
    /\ PollAt("checking", poll.todo, NoRun, "none")
    /\ UNCHANGED <<jobId, correctnessOnly, jobs, faults>>
    /\ PollUnchanged

(* The output files are back on the conductor; on SLURM a missing one is   *)
(* only noted.                                                             *)
CopiesBack ==
    /\ poll.at = "finishing"
    /\ PollAt("storing", poll.todo, poll.run, poll.verdict)
    /\ UNCHANGED <<rowVars, jobs, faults>>
    /\ PollUnchanged

(* A copy that is never heard of: nothing of this round goes on, and no    *)
(* timer is set for another one.                                           *)
PollHangs ==
    /\ poll.at = "finishing"
    /\ clusterType = "slurm"
    /\ Fault("copy")
    /\ poll' = Resting("hung")
    /\ UNCHANGED <<rowVars, jobs>>
    /\ PollUnchanged

(* The row gets its final status; ...                                      *)
FinishPerfTests ==
    /\ poll.at = "storing"
    /\ SetStatus(poll.run, poll.verdict)
    /\ PollAt("mailing", poll.todo, NoRun, "none")
    /\ UNCHANGED <<jobId, correctnessOnly, jobs, faults>>
    /\ PollUnchanged

(* ... the directory on the cluster is deleted, and an e-mail sent to those*)
(* who want one.                                                           *)
OwnerMailed ==
    /\ poll.at = "mailing"
    /\ PollAt("checking", poll.todo, NoRun, "none")
    /\ UNCHANGED <<rowVars, jobs, faults>>
    /\ PollUnchanged

(* set_check_cluster_timeout: every exit has to call it by itself.         *)
Reschedule == poll' = Asleep

RoundEnds ==
    /\ poll.at = "checking"
    /\ poll.todo = {}
    /\ Reschedule
    /\ UNCHANGED <<rowVars, jobs, faults>>
    /\ PollUnchanged

ErrorAt(place, kind) ==
    /\ poll.at = place
    /\ Fault(kind)
    /\ UNCHANGED <<rowVars, jobs>>
    /\ PollUnchanged

TimerForgotten_ == poll' = Resting("forgotten")

RunsNotRead == ErrorAt("asleep", "pollQuery") /\ Reschedule
SacctAsked == clusterType = "slurm" /\ poll.todo # {}
SacctFails_ == SacctAsked /\ ErrorAt("checking", "cluster") /\ TimerForgotten_
SacctFails == SacctAsked /\ ErrorAt("checking", "cluster") /\ Reschedule
MarkFails == ErrorAt("marking", "pollQuery") /\ Reschedule
UserNotFound == ErrorAt("finishing", "pollQuery") /\ Reschedule
OsUnknown == ErrorAt("finishing", "cluster") /\ Reschedule
CopiesFail ==
    clusterType = "slurm" /\ ErrorAt("finishing", "cluster") /\ Reschedule
ResultNotStored == ErrorAt("storing", "pollQuery") /\ Reschedule
MailFails_ == ErrorAt("mailing", "mail") /\ TimerForgotten_
MailFails == ErrorAt("mailing", "mail") /\ Reschedule

RoundAborted ==
    \/ RunsNotRead \/ SacctFails \/ MarkFails \/ UserNotFound \/ OsUnknown
    \/ CopiesFail \/ ResultNotStored \/ MailFails

-----------------------------------------------------------------------------
(* The cluster and the crashes.                                            *)

JobMoves(j) ==
    /\ \/ jobs[j].state = "PENDING" /\ jobs' = [jobs EXCEPT ![j].state = "RUNNING"]
       \/ jobs[j].state = "RUNNING" /\ \E e \in JobEndings :
                                         jobs' = [jobs EXCEPT ![j].state = e]
    /\ UNCHANGED <<violaVars, rowVars, chainVars, told, faults>>

(* The process ends: every chain is forgotten.                             *)
ConductorEnds ==
    /\ submission' = [r \in Runs |-> "none"]
    /\ handlers' = [h \in Handlers |-> NoChain]
    /\ waiter' = NoHandler
    /\ cancels' = [c \in Cancels |-> NoChain]
    /\ poll' = Resting("down")
    /\ UNCHANGED <<violaVars, rowVars, told, jobs>>

Crash ==
    /\ Up
    /\ Fault("conductor")
    /\ ConductorEnds

(* On a local cluster a copy is readFileSync, in a callback: a file that is*)
(* missing is an uncaught exception.                                       *)
CopyThrows ==
    /\ clusterType = "local"
    /\ poll.at = "finishing" \/ \E h \in Handlers : Copies(h)
    /\ Fault("copy")
    /\ ConductorEnds

(* Somebody starts it again.  With kill-running-jobs what was in progress  *)
(* is marked as failed.                                                    *)
Boot ==
    /\ ~ Up
    /\ poll' = Asleep
    /\ \/ UNCHANGED status
       \/ status' = [r \in Runs |->
             IF status[r] \in {"TESTING CORRECTNESS"} \cup OnCluster
               THEN "FAILED" ELSE status[r]]
    /\ UNCHANGED <<jobId, correctnessOnly, jobs, faults>>
    /\ PollUnchanged

(* The notify thread dies with the rest, its chain goes on.                *)
ViolaDies ==
    /\ Fault("viola")
    /\ ViolaCrash
    /\ waiter' = NoHandler
    /\ UNCHANGED <<rowVars, submission, handlers, cancels, poll, told, jobs>>

(* One of its threads dies of an exception, with the run it has.           *)
ViolaLoses(r) ==
    /\ Fault("viola")
    /\ Lost(r)
    /\ UNCHANGED <<rowVars, chainVars, told, jobs>>

ViolaWorks(r) ==
    /\ ViolaWork(r)
    /\ UNCHANGED <<rowVars, chainVars, told, jobs, faults>>

-----------------------------------------------------------------------------

SubmissionStep(r) ==
    TriggerViolaRun(r) \/ TriggerImpossible(r) \/ TriggerAnswered(r)
       \/ ViolaTriggerFailed(r)

HandlerStep(h) ==
    FinishLocalRun(h) \/ CopyToCluster(h) \/ Launch(h) \/ LocalPerfRunEnds(h)
       \/ RecordJob(h) \/ FailedStartingPerfTests(h)

CancelStep(c) ==
    CancelFindsQueued(c) \/ CancelFindsHeld(c) \/ CancelHeldReturns(c)
       \/ CancelFindsNothing(c) \/ CancelLooksUpJob(c) \/ Scancel(c)

PollStep ==
    \/ CheckCluster \/ MarkRunning \/ CopiesBack \/ FinishPerfTests
    \/ OwnerMailed \/ RoundEnds
    \/ \E p \in poll.todo : CheckRun(p)

Faults ==
    \/ \E r \in Runs : TriggerAnswerLost(r) \/ TriggerFailureNotStored(r)
                       \/ ViolaLoses(r)
    \/ \E h \in Handlers : \/ CopyFails(h) \/ CopyHangs(h) \/ LaunchFails(h)
                           \/ HandlerQueryFails(h) \/ FailureNotStored(h)
    \/ \E c \in Cancels : CancelFails(c)
    \/ ConnectionLost \/ RoundAborted \/ PollHangs \/ Crash \/ CopyThrows
    \/ ViolaDies

Step ==
    \/ \E r \in Runs : SubmitRun(r) \/ SubmissionStep(r) \/ ViolaWorks(r)
    \/ \E r \in Runs, h \in Handlers : Notified(r, h)
    \/ \E h \in Handlers : HandlerStep(h)
    \/ \E c \in Cancels, r \in Runs : CancelRun(c, r)
    \/ \E c \in Cancels : CancelStep(c)
    \/ PollStep
    \/ \E j \in Jobs : JobMoves(j)
    \/ TimesOut \/ Boot
    \/ Faults

Next == Step /\ UNCHANGED clusterType

(* Callbacks are called (one that never is, is a fault of its own), timers *)
(* fire, tests and jobs are bounded by their timeouts.  Users need not     *)
(* submit or cancel, faults need not happen, nobody need start a conductor *)
(* that has ended, and a connection without an answer may stay open.       *)
Fairness ==
    /\ \A r \in Runs : /\ WF_stepVars(SubmissionStep(r))
                       /\ WF_stepVars(ViolaWorks(r))
                       /\ WF_stepVars(\E h \in Handlers : Notified(r, h))
    /\ \A h \in Handlers : WF_stepVars(HandlerStep(h))
    /\ \A c \in Cancels : WF_stepVars(CancelStep(c))
    /\ WF_stepVars(PollStep)
    /\ \A j \in Jobs : WF_stepVars(JobMoves(j))

Spec == Init /\ [][Next]_vars
FairSpec == Spec /\ Fairness

-----------------------------------------------------------------------------
(* Properties.                                                             *)

JobOf(r, state) == \E j \in Jobs : jobs[j] = [run |-> r, state |-> state]

(* A run becomes FINISHED only when nothing of it is still to come: its    *)
(* performance job is COMPLETED, or it has none and the Viola has reported *)
(* it, and not as cancelled.  A report with an error counts: a run whose   *)
(* import failed is FINISHED without having been tested (app.js:2367).     *)
FinishedMeansReported ==
    \A r \in Runs : status[r] = "FINISHED" =>
       /\ report[r] # "cancelled"
       /\ IF r \in correctnessOnly THEN viola[r] \in {"reporting", "reported", "lost"}
                                   ELSE JobOf(r, "COMPLETED")

(* A run is CANCELLED only because somebody cancelled it, on the Viola or  *)
(* on the cluster: no error, timeout or reboot is taken for a cancellation.*)
CancelledOnlyOnRequest ==
    \A r \in Runs : status[r] = "CANCELLED" => r \in flagged \/ JobOf(r, "CANCELLED")

(* Cluster time goes to nobody who asked for correctness tests only, and   *)
(* to no run that the Viola reports as cancelled.                          *)
NoJobForStoppedRuns ==
    \A j \in Jobs : LET r == jobs[j].run IN
       r # NoRun => r \notin correctnessOnly /\ report[r] # "cancelled"

(* The poll can find every run that waits for the cluster: the row has a   *)
(* job, and it is a job of this run.                                       *)
OnClusterHasJob ==
    /\ TypeOK
    /\ \A r \in Runs : status[r] \in OnCluster =>
          jobId[r] \in Jobs /\ jobs[jobId[r]].run = r

(* "assert(responseCode == 200)" (LocalTestRunner.java:177): the Viola     *)
(* stops posting a run only when the conductor has acted on it.  Nothing   *)
(* else would take the run out of TESTING CORRECTNESS.  Failed queries are *)
(* excepted: they are answered by a redirect, which passes for a success.  *)
NotificationNotLost ==
    \A r \in Runs : viola[r] = "reported" =>
       status[r] # "TESTING CORRECTNESS" \/ jobId[r] # NoJob

Lifecycle == INSTANCE RunLifecycle

(* On SLURM and without lost connections the conductor implements          *)
(* RunLifecycle: crashes, failed queries and failed commands leave runs    *)
(* behind, but none goes back to an earlier status and no settled run is   *)
(* touched again.                                                          *)
RunLifecycleHolds == Lifecycle!Spec

(* Whatever goes wrong in a round, the exit it takes sets the timer of the *)
(* next one.  Only a copy that is never heard of stops the poll for good,  *)
(* and the end of the process until somebody starts it again.              *)
PollKeepsGoing == []<>(poll.at \in {"asleep", "hung", "down"})

(* A run nobody is working on: never sent to the Viola, lost with it, or   *)
(* taken from its queue by a cancel; one whose job ended in a state that   *)
(* the poll does not know, or is not polled any more; one the Viola cannot *)
(* report because its post gets no answer; any run of a conductor that has *)
(* ended.                                                                  *)
Stranded(r) ==
    \/ viola[r] \in {"absent", "lost", "removed"} /\ submission[r] = "none"
    \/ JobOf(r, "NODE_FAIL")
    \/ poll.at = "hung" /\ jobId[r] # NoJob
    \/ waiter = NoAnswer /\ viola[r] = "reporting"
    \/ ~ Up

(* Every submission settles, unless it is stranded.  A run that is stranded*)
(* for a while only (the post times out, the conductor is started again)   *)
(* still settles after that.                                               *)
SubmissionsSettle ==
    \A r \in Runs : status[r] # "none" ~> (status[r] \in Settled \/ Stranded(r))

(* "Successfully cancelled. Please give the job status a few minutes to    *)
(* update." (app.js:29-30): the status does become final.                  *)
CancelledRunsSettle ==
    \A r \in Runs : r \in told ~> status[r] \in Settled
=============================================================================
