-------------------------- MODULE ConductorProofs --------------------------
(***************************************************************************)
(* The safety of Conductor for any number of runs, chains, jobs and faults,*)
(* on either kind of cluster.                                              *)
(***************************************************************************)
EXTENDS Conductor, TLAPS

-----------------------------------------------------------------------------
(* What the properties need to be inductive.                               *)

Delivered == {"reporting", "reported", "lost"}

(* A run that was not submitted is nowhere, and one the Viola does not have*)
(* yet waits for that in a row.                                            *)
RowsFirst ==
    \A r \in Runs : status[r] = "none" => viola[r] = "absent" /\ submission[r] = "none"

(* Only a flagged run is reported as cancelled.                            *)
CancelsFlagged ==
    \A r \in Runs : report[r] = "cancelled" => r \in flagged

(* Every job is a job of a run that the Viola has let go, with a report    *)
(* that asks for it.                                                       *)
JobsWanted ==
    \A j \in Jobs : jobs[j].run # NoRun =>
       /\ jobs[j].state # "unused"
       /\ viola[jobs[j].run] \in Delivered
       /\ jobs[j].run \notin correctnessOnly
       /\ report[jobs[j].run] # "cancelled"

(* A chain of local_run_finished has a run that the Viola reports or has   *)
(* reported, and from "launching" on one that is to go to the cluster; the *)
(* job it holds is of that run.                                            *)
HandlersSound ==
    \A h \in Handlers : handlers[h] # NoChain =>
       LET r == handlers[h].run
           j == handlers[h].job
       IN /\ viola[r] \in Delivered
          /\ handlers[h].at \in {"launching", "running", "submitted"} => ~ StopsHere(r)
          /\ handlers[h].at = "running" =>
                clusterType = "local" /\ j \in Jobs /\ jobs[j].run = r
          /\ handlers[h].at = "submitted" =>
                \/ clusterType = "slurm" /\ j \in Jobs /\ jobs[j].run = r
                \/ clusterType = "local" /\ j = LocalJob /\ JobOf(r, "COMPLETED")

(* The job in a row is a job of its run; LOCAL is written when that has    *)
(* completed.                                                              *)
RowsSound ==
    \A r \in Runs :
       /\ jobId[r] \in Jobs => clusterType = "slurm" /\ jobs[jobId[r]].run = r
       /\ jobId[r] = LocalJob => clusterType = "local" /\ JobOf(r, "COMPLETED")
       /\ status[r] \in OnCluster => jobId[r] \in Jobs

(* The poll has a run in its hands.                                        *)
Busy == {"marking", "finishing", "storing"}

(* What a round of the poll has read of a run is still true when the run's *)
(* turn comes.                                                             *)
PollSound ==
    /\ \A p \in poll.todo :
          /\ p.job \in Jobs => jobs[p.job].run = p.run /\ jobId[p.run] \in Jobs
          /\ p.job = LocalJob => clusterType = "local" /\ JobOf(p.run, "COMPLETED")
    /\ poll.at \in Busy => poll.run \in Runs
    /\ poll.at = "marking" => jobId[poll.run] \in Jobs
    /\ poll.at \in {"finishing", "storing"} =>
          /\ poll.verdict \in Settled
          /\ poll.verdict = "FINISHED" => JobOf(poll.run, "COMPLETED")
          /\ poll.verdict = "CANCELLED" => JobOf(poll.run, "CANCELLED")

IInv ==
    /\ TypeOK
    /\ RowsFirst
    /\ CancelsFlagged
    /\ JobsWanted
    /\ HandlersSound
    /\ RowsSound
    /\ PollSound
    /\ FinishedMeansReported
    /\ CancelledOnlyOnRequest

(* On SLURM and without lost connections: a run has one chain at most, and *)
(* its row stays TESTING CORRECTNESS until that chain ends.                *)
OneChainPerRun ==
    /\ \A h \in Handlers : handlers[h] # NoChain =>
          /\ status[handlers[h].run] = "TESTING CORRECTNESS"
          /\ viola[handlers[h].run] = "reporting" => waiter = h
    /\ \A g, h \in Handlers :
          handlers[g] # NoChain /\ handlers[g].run = handlers[h].run => g = h

(* A submission that may still fail is of a run the Viola never got.       *)
FailuresUnsent ==
    \A r \in Runs : submission[r] \in {"inserted", "failing"} =>
       viola[r] = "absent" /\ status[r] = "TESTING CORRECTNESS"

(* Only the poll touches a run on the cluster.                             *)
PollOwnsRuns ==
    /\ \A p \in poll.todo : status[p.run] \in OnCluster
    /\ \A p, q \in poll.todo : p.run = q.run => p = q
    /\ poll.at \in Busy =>
          status[poll.run] \in OnCluster /\ \A p \in poll.todo : p.run # poll.run

(* A process that has ended has no chains.                                 *)
DownMeansIdle ==
    poll.at = "down" => /\ \A h \in Handlers : handlers[h] = NoChain
                        /\ \A r \in Runs : submission[r] = "none"

RInv == OneChainPerRun /\ FailuresUnsent /\ PollOwnsRuns /\ DownMeansIdle

-----------------------------------------------------------------------------
(* What a step may do to each part of the state.                           *)

(* The Viola takes one of its own steps or none, and learns of a run only  *)
(* from a submission, of an answer only from the end of a chain or at once.*)
ChainEnds(h) ==
    FinishLocalRun(h) \/ RecordJob(h) \/ FailedStartingPerfTests(h) \/ HandlerQueryFails(h)

Answers(r) ==
    /\ Reported(r)
    /\ \/ \E h \in Handlers : handlers[h].run = r /\ ChainEnds(h)
       \/ ~ MayLaunch(r) /\ UNCHANGED rowVars

ViolaStep ==
    \/ \E r \in Runs : \/ TriggerViolaRun(r) \/ ViolaWork(r) \/ Answers(r)
                       \/ CancelQueued(r) \/ CancelHeld(r) \/ Lost(r)
    \/ ViolaCrash

(* Every exit of a round sets the timer, whatever the error was.           *)
LEMMA RoundAborts ==
    ASSUME RoundAborted
    PROVE  /\ poll' = Asleep
           /\ UNCHANGED <<rowVars, jobs>>
           /\ PollUnchanged
           /\ \E kind : Fault(kind)
BY DEF RoundAborted, RunsNotRead, SacctFails, MarkFails, UserNotFound, OsUnknown, CopiesFail,
   ResultNotStored, MailFails, ErrorAt, Reschedule

LEMMA ProcessEnds ==
    ASSUME Crash \/ CopyThrows
    PROVE  ConductorEnds /\ \E kind : Fault(kind)
BY DEF Crash, CopyThrows

LEMMA ChainEndsViola ==
    ASSUME TypeOK, NEW h \in Handlers, ChainEnds(h)
    PROVE  [ViolaStep]_violaVars
<1>1. handlers[h].run \in Runs
  <2>1. handlers[h].at # "idle"
    BY DEF ChainEnds, FinishLocalRun, RecordJob, FailedStartingPerfTests, HandlerQueryFails, At
  <2> QED
    BY <2>1 DEF TypeOK, NoChain
<1>2. Respond(h)
  BY DEF ChainEnds, FinishLocalRun, RecordJob, FailedStartingPerfTests, HandlerQueryFails
<1>3. CASE waiter = h
  BY <1>1, <1>2, <1>3 DEF Respond, ViolaStep, Answers
<1>4. CASE waiter # h
  BY <1>2, <1>4 DEF Respond, violaVars
<1> QED
  BY <1>3, <1>4

LEMMA ViolaSteps ==
    ASSUME TypeOK, [Next]_vars
    PROVE  [ViolaStep]_violaVars
<1>1. ASSUME NEW r \in Runs,
             \/ SubmitRun(r) \/ SubmissionStep(r) \/ ViolaWorks(r)
             \/ TriggerAnswerLost(r) \/ TriggerFailureNotStored(r) \/ ViolaLoses(r)
      PROVE  [ViolaStep]_violaVars
  BY <1>1 DEF SubmitRun, SubmissionStep, TriggerViolaRun, TriggerImpossible,
       TriggerAnswered, ViolaTriggerFailed, ViolaWorks, TriggerAnswerLost,
       TriggerFailureNotStored, ViolaLoses, ViolaStep
<1>2. ASSUME NEW r \in Runs, NEW h \in Handlers, Notified(r, h)
      PROVE  [ViolaStep]_violaVars
  BY <1>2 DEF Notified, AnswerLater, Answers, ViolaStep, rowVars
<1>3. ASSUME NEW h \in Handlers, ChainEnds(h)
      PROVE  [ViolaStep]_violaVars
  BY <1>3, ChainEndsViola
<1>4. ASSUME NEW h \in Handlers,
             \/ CopyToCluster(h) \/ CopyFails(h) \/ CopyHangs(h) \/ Launch(h)
             \/ LocalPerfRunEnds(h) \/ LaunchFails(h) \/ FailureNotStored(h)
      PROVE  UNCHANGED violaVars
  BY <1>4 DEF CopyToCluster, CopyFails, CopyHangs, Launch, LocalPerfRunEnds, LaunchFails,
       FailureNotStored, FallsSilent
<1>5. ASSUME NEW c \in Cancels, CancelStep(c) \/ CancelFails(c)
      PROVE  [ViolaStep]_violaVars
  <2>1. cancels[c].at = "asking" => cancels[c].run \in Runs
    BY DEF TypeOK, NoChain
  <2>2. CASE CancelFindsQueued(c) \/ CancelFindsHeld(c)
    BY <2>1, <2>2 DEF CancelFindsQueued, CancelFindsHeld, CancelAt, ViolaStep
  <2> QED
    BY <1>5, <2>2 DEF CancelStep, CancelHeldReturns, CancelFindsNothing,
         CancelLooksUpJob, Scancel, CancelFails
<1>6. ASSUME NEW c \in Cancels, NEW r \in Runs, CancelRun(c, r)
      PROVE  UNCHANGED violaVars
  BY <1>6 DEF CancelRun
<1>7. CASE PollStep \/ RoundAborted \/ PollHangs \/ Boot
  BY <1>7, RoundAborts DEF PollStep, CheckCluster, CheckRun, MarkRunning, CopiesBack,
       FinishPerfTests, OwnerMailed, RoundEnds, PollHangs, Boot, PollUnchanged
<1>8. CASE \/ ConnectionLost \/ TimesOut \/ Crash \/ CopyThrows \/ ViolaDies
           \/ \E j \in Jobs : JobMoves(j)
  BY <1>8, ProcessEnds DEF ConnectionLost, TimesOut, ConductorEnds, ViolaDies, JobMoves,
       ViolaStep
<1>9. CASE UNCHANGED vars
  BY <1>9 DEF vars, stepVars
<1> QED
  BY <1>1, <1>2, <1>3, <1>4, <1>5, <1>6, <1>7, <1>8, <1>9
  DEF Next, Step, HandlerStep, Faults, ChainEnds

(* Once the Viola has let go of a run it does not take it back, nor change *)
(* what it says of it; a run it was not sent it does not get.              *)
LEMMA ViolaMoves ==
    ASSUME TypeOK, CancelsFlagged, [Next]_vars, NEW r \in Runs
    PROVE  /\ viola[r] \in Delivered => viola'[r] \in Delivered /\ report'[r] = report[r]
           /\ viola[r] = "absent" /\ submission[r] # "inserted" => viola'[r] = "absent"
           /\ viola'[r] = "reporting" => viola[r] \in {"importing", "exporting", "reporting"}
           /\ viola'[r] = "absent" => viola[r] = "absent"
           /\ report'[r] = "cancelled" => r \in flagged'
           /\ r \in flagged => r \in flagged'
<1> DEFINE Goal == /\ viola[r] \in Delivered => viola'[r] \in Delivered /\ report'[r] = report[r]
                   /\ viola[r] = "absent" /\ submission[r] # "inserted" => viola'[r] = "absent"
                   /\ viola'[r] = "reporting" => viola[r] \in {"importing", "exporting", "reporting"}
                   /\ viola'[r] = "absent" => viola[r] = "absent"
                   /\ report'[r] = "cancelled" => r \in flagged'
                   /\ r \in flagged => r \in flagged'
<1> USE DEF TypeOK, ViolaTypeOK, CancelsFlagged, Delivered
<1>1. CASE UNCHANGED violaVars
  BY <1>1 DEF violaVars
<1>2. CASE ViolaCrash
  BY <1>2 DEF ViolaCrash
<1>3. ASSUME NEW s \in Runs, ViolaWork(s)
      PROVE  Goal
  BY <1>3 DEF ViolaWork, Imported, ImportFails, Start, TestsEnd, Drop, Exported, LogsLost,
       Move
<1>4. ASSUME NEW s \in Runs,
             TriggerViolaRun(s) \/ Answers(s) \/ CancelQueued(s) \/ CancelHeld(s) \/ Lost(s)
      PROVE  Goal
  BY <1>4 DEF TriggerViolaRun, Submission, Accept, Answers, Reported, CancelQueued, CancelHeld, Lost, Move
<1> QED
  BY <1>1, <1>2, <1>3, <1>4, ViolaSteps DEF ViolaStep

(* A job is made by a chain that launches one, for its run; it moves on,   *)
(* and its last state is its last.                                         *)
JobStep(j) ==
    \/ jobs'[j] = jobs[j]
    \/ \E h \in Handlers : /\ handlers[h].at = "launching"
                           /\ jobs[j].state = "unused"
                           /\ jobs'[j].run = handlers[h].run
                           /\ jobs'[j].state \in {"PENDING", "RUNNING"}
    \/ /\ jobs[j].state \in {"PENDING", "RUNNING"}
       /\ jobs'[j].run = jobs[j].run
       /\ jobs'[j].state \in JobEndings \cup {"RUNNING", "CANCELLED"}

LEMMA NewJobStep ==
    ASSUME TypeOK, NEW h \in Handlers, handlers[h].at = "launching",
           NEW i \in Jobs, NewJob(handlers[h].run, i)
    PROVE  /\ \A j \in Jobs : JobStep(j)
           /\ jobs' \in [Jobs -> [run : Runs \cup {NoRun}, state : JobStates]]
<1>1. handlers[h].run \in Runs
  BY DEF TypeOK, NoChain
<1> QED
  BY <1>1 DEF NewJob, JobStep, TypeOK, JobStates

LEMMA JobSteps ==
    ASSUME TypeOK, [Next]_vars
    PROVE  /\ \A j \in Jobs : JobStep(j)
           /\ jobs' \in [Jobs -> [run : Runs \cup {NoRun}, state : JobStates]]
<1> DEFINE Goal == /\ \A j \in Jobs : JobStep(j)
                   /\ jobs' \in [Jobs -> [run : Runs \cup {NoRun}, state : JobStates]]
<1>1. CASE UNCHANGED jobs
  BY <1>1 DEF JobStep, TypeOK
<1>2. ASSUME NEW h \in Handlers, Launch(h) \/ LaunchFails(h)
      PROVE  Goal
  BY <1>1, <1>2, NewJobStep DEF Launch, LaunchFails, At
<1>3. ASSUME NEW c \in Cancels, Scancel(c)
      PROVE  Goal
  <2>1. ASSUME NEW i, jobs[i].state \in {"PENDING", "RUNNING"},
               jobs' = [jobs EXCEPT ![i].state = "CANCELLED"]
        PROVE  Goal
    <3>1. CASE i \in Jobs
      BY <2>1, <3>1 DEF JobStep, TypeOK, JobStates
    <3>2. CASE i \notin Jobs
      <4>1. jobs' = jobs
        BY <2>1, <3>2 DEF TypeOK
      <4> QED
        BY <1>1, <4>1
    <3> QED
      BY <3>1, <3>2
  <2>2. \/ jobs' = jobs
        \/ /\ jobs[cancels[c].job].state \in {"PENDING", "RUNNING"}
           /\ jobs' = [jobs EXCEPT ![cancels[c].job].state = "CANCELLED"]
    BY <1>3 DEF Scancel
  <2> QED
    BY <1>1, <2>1, <2>2
<1>4. ASSUME NEW i \in Jobs, JobMoves(i)
      PROVE  Goal
  BY <1>4 DEF JobMoves, JobStep, TypeOK, JobStates
<1> QED
  BY <1>1, <1>2, <1>3, <1>4, RoundAborts, ProcessEnds
  DEF Next, Step, SubmitRun, SubmissionStep, TriggerViolaRun,
      TriggerImpossible, TriggerAnswered, ViolaTriggerFailed, ViolaWorks, Notified,
      HandlerStep, FinishLocalRun, CopyToCluster, CopyFails, CopyHangs, LocalPerfRunEnds,
      RecordJob, FailedStartingPerfTests, CancelRun, CancelStep, CancelFindsQueued,
      CancelFindsHeld, CancelHeldReturns, CancelFindsNothing, CancelLooksUpJob, PollStep,
      CheckCluster, CheckRun, MarkRunning, CopiesBack, FinishPerfTests, OwnerMailed,
      RoundEnds, TimesOut, Boot, Faults, TriggerAnswerLost, TriggerFailureNotStored,
      ViolaLoses, HandlerQueryFails, FailureNotStored, CancelFails, ConnectionLost,
      PollHangs, ConductorEnds, ViolaDies, vars, stepVars

LEMMA JobsMove ==
    ASSUME TypeOK, JobsWanted, [Next]_vars
    PROVE  /\ \A j \in Jobs : jobs[j].run # NoRun => jobs'[j].run = jobs[j].run
           /\ \A r \in Runs, state \in {"COMPLETED", "CANCELLED"} :
                 JobOf(r, state) => JobOf(r, state)'
<1>1. ASSUME NEW j \in Jobs, jobs[j].run # NoRun
      PROVE  jobs'[j].run = jobs[j].run
  BY <1>1, JobSteps DEF JobStep, JobsWanted
<1>2. ASSUME NEW r \in Runs, NEW state \in {"COMPLETED", "CANCELLED"}, JobOf(r, state)
      PROVE  JobOf(r, state)'
  BY <1>2, JobSteps, ConductorAssumption DEF JobStep, JobOf
<1> QED
  BY <1>1, <1>2

(* The steps that write the rows, ...                                      *)
RowStep ==
    \/ \E r \in Runs : SubmitRun(r) \/ ViolaTriggerFailed(r)
    \/ \E h \in Handlers : FinishLocalRun(h) \/ RecordJob(h) \/ FailedStartingPerfTests(h)
    \/ MarkRunning \/ FinishPerfTests \/ Boot

LEMMA RowSteps ==
    ASSUME [Next]_vars
    PROVE  [RowStep]_rowVars
BY RoundAborts, ProcessEnds
DEF Next, Step, SubmissionStep, TriggerViolaRun, TriggerImpossible, TriggerAnswered,
    ViolaWorks, Notified, HandlerStep, CopyToCluster, Launch, LocalPerfRunEnds, CancelRun,
    CancelStep, CancelFindsQueued, CancelFindsHeld, CancelHeldReturns, CancelFindsNothing,
    CancelLooksUpJob, Scancel, PollStep, CheckCluster, CheckRun, CopiesBack, OwnerMailed,
    RoundEnds, JobMoves, TimesOut, Faults, TriggerAnswerLost, TriggerFailureNotStored,
    ViolaLoses, CopyFails, CopyHangs, LaunchFails, HandlerQueryFails, FailureNotStored,
    CancelFails, ConnectionLost, PollHangs, ConductorEnds, ViolaDies, RowStep, rowVars,
    vars, stepVars

(* ... the steps of the chains of local_run_finished, ...                  *)
ChainStep ==
    \/ \E r \in Runs, h \in Handlers : Notified(r, h)
    \/ \E h \in Handlers : \/ HandlerStep(h) \/ CopyFails(h) \/ CopyHangs(h)
                           \/ LaunchFails(h) \/ HandlerQueryFails(h) \/ FailureNotStored(h)
    \/ ConnectionLost \/ TimesOut \/ ConductorEnds \/ ViolaDies

LEMMA ChainSteps ==
    ASSUME [Next]_vars
    PROVE  [ChainStep]_<<handlers, waiter>>
BY RoundAborts, ProcessEnds
DEF Next, Step, SubmitRun, SubmissionStep, TriggerViolaRun, TriggerImpossible,
    TriggerAnswered, ViolaTriggerFailed, ViolaWorks, CancelRun, CancelStep,
    CancelFindsQueued, CancelFindsHeld, CancelHeldReturns, CancelFindsNothing,
    CancelLooksUpJob, Scancel, PollStep, CheckCluster, CheckRun, MarkRunning, CopiesBack,
    FinishPerfTests, OwnerMailed, RoundEnds, PollUnchanged, JobMoves, Boot, Faults,
    TriggerAnswerLost, TriggerFailureNotStored, ViolaLoses, CancelFails, PollHangs,
    ChainStep, chainVars, vars, stepVars

(* ... of the submissions, ...                                             *)
SubmissionSteps ==
    \/ \E r \in Runs : \/ SubmitRun(r) \/ SubmissionStep(r) \/ TriggerAnswerLost(r)
                       \/ TriggerFailureNotStored(r)
    \/ ConductorEnds

LEMMA SubmissionsStep ==
    ASSUME [Next]_vars
    PROVE  [SubmissionSteps]_submission
BY RoundAborts, ProcessEnds
DEF Next, Step, ViolaWorks, Notified, HandlerStep, FinishLocalRun, CopyToCluster, Launch,
    LocalPerfRunEnds, RecordJob, FailedStartingPerfTests, CancelRun, CancelStep,
    CancelFindsQueued, CancelFindsHeld, CancelHeldReturns, CancelFindsNothing,
    CancelLooksUpJob, Scancel, PollStep, CheckCluster, CheckRun, MarkRunning, CopiesBack,
    FinishPerfTests, OwnerMailed, RoundEnds, PollUnchanged, JobMoves, TimesOut, Boot,
    Faults, ViolaLoses, CopyFails, CopyHangs, LaunchFails, HandlerQueryFails,
    FailureNotStored, CancelFails, ConnectionLost, PollHangs, ViolaDies, SubmissionSteps,
    chainVars, vars, stepVars

(* ... of the poll ...                                                     *)
LEMMA PollSteps ==
    ASSUME [Next]_vars
    PROVE  [PollStep \/ RoundAborted \/ PollHangs \/ ConductorEnds \/ Boot]_poll
BY ProcessEnds
DEF Next, Step, SubmitRun, SubmissionStep, TriggerViolaRun, TriggerImpossible,
    TriggerAnswered, ViolaTriggerFailed, ViolaWorks, Notified, HandlerStep, FinishLocalRun,
    CopyToCluster, Launch, LocalPerfRunEnds, RecordJob, FailedStartingPerfTests, CancelRun,
    CancelStep, CancelFindsQueued, CancelFindsHeld, CancelHeldReturns, CancelFindsNothing,
    CancelLooksUpJob, Scancel, JobMoves, TimesOut, Faults, TriggerAnswerLost,
    TriggerFailureNotStored, ViolaLoses, CopyFails, CopyHangs, LaunchFails,
    HandlerQueryFails, FailureNotStored, CancelFails, ConnectionLost, ViolaDies, chainVars,
    vars, stepVars

(* ... and of the chains of cancel.                                        *)
LEMMA CancelSteps ==
    ASSUME [Next]_vars
    PROVE  [\/ \E c \in Cancels, r \in Runs : CancelRun(c, r)
            \/ \E c \in Cancels : CancelStep(c) \/ CancelFails(c)
            \/ ConductorEnds]_<<cancels, told>>
BY RoundAborts, ProcessEnds
DEF Next, Step, SubmitRun, SubmissionStep, TriggerViolaRun, TriggerImpossible,
    TriggerAnswered, ViolaTriggerFailed, ViolaWorks, Notified, HandlerStep, FinishLocalRun,
    CopyToCluster, Launch, LocalPerfRunEnds, RecordJob, FailedStartingPerfTests, PollStep,
    CheckCluster, CheckRun, MarkRunning, CopiesBack, FinishPerfTests, OwnerMailed,
    RoundEnds, PollUnchanged, JobMoves, TimesOut, Boot, Faults, TriggerAnswerLost,
    TriggerFailureNotStored, ViolaLoses, CopyFails, CopyHangs, LaunchFails,
    HandlerQueryFails, FailureNotStored, ConnectionLost, PollHangs, ViolaDies, chainVars,
    vars, stepVars

LEMMA ClusterTypeStays ==
    ASSUME [Next]_vars
    PROVE  clusterType' = clusterType
BY DEF Next, vars

-----------------------------------------------------------------------------
(* Types.                                                                  *)

LEMMA ViolaTyped ==
    ASSUME TypeOK, [Next]_vars
    PROVE  ViolaTypeOK'
<1> USE DEF TypeOK, ViolaTypeOK, Stages, Reports
<1>1. CASE UNCHANGED violaVars
  BY <1>1 DEF violaVars
<1>2. CASE ViolaCrash
  BY <1>2 DEF ViolaCrash
<1>3. ASSUME NEW r \in Runs, ViolaWork(r)
      PROVE  ViolaTypeOK'
  <2>0. CASE ImportFails(r)
    <3>1. PICK msg \in {"", "error"} : report' = [report EXCEPT ![r] = msg]
      BY <2>0 DEF ImportFails
    <3>2. report' \in [Runs -> Reports]
      BY <3>1
    <3>3. viola' \in [Runs -> Stages] /\ held' = held /\ flagged' = flagged
      BY <2>0 DEF ImportFails, Move
    <3> QED
      BY <3>2, <3>3
  <2>1. CASE Imported(r) \/ Start(r) \/ Drop(r)
    BY <2>1 DEF Imported, Start, Drop, Move
  <2>2. CASE TestsEnd(r)
    BY <2>2 DEF TestsEnd, Move
  <2>3. CASE Exported(r)
    BY <2>3 DEF Exported, LogsLost, Move
  <2> QED
    BY <1>3, <2>0, <2>1, <2>2, <2>3 DEF ViolaWork
<1>4. ASSUME NEW r \in Runs,
             TriggerViolaRun(r) \/ Answers(r) \/ CancelQueued(r) \/ CancelHeld(r) \/ Lost(r)
      PROVE  ViolaTypeOK'
  BY <1>4 DEF TriggerViolaRun, Accept, Answers, Reported, CancelQueued, CancelHeld, Lost, Move
<1> QED
  BY <1>1, <1>2, <1>3, <1>4, ViolaSteps DEF ViolaStep

LEMMA RunOfChain ==
    ASSUME TypeOK, NEW h \in Handlers
    PROVE  /\ handlers[h].at # "idle" <=> handlers[h] # NoChain
           /\ handlers[h] # NoChain =>
                 /\ handlers[h].run \in Runs
                 /\ handlers[h].job \in Jobs \cup {NoJob, LocalJob}
                 /\ handlers[h].at \in {"checked", "launching", "running", "submitted",
                                        "failing"}
BY DEF TypeOK, NoChain

LEMMA RowsTyped ==
    ASSUME TypeOK, HandlersSound, PollSound, [Next]_vars
    PROVE  /\ status' \in [Runs -> Statuses]
           /\ correctnessOnly' \in SUBSET Runs
           /\ jobId' \in [Runs -> Jobs \cup {NoJob, LocalJob}]
<1> DEFINE Goal == /\ status' \in [Runs -> Statuses]
                   /\ correctnessOnly' \in SUBSET Runs
                   /\ jobId' \in [Runs -> Jobs \cup {NoJob, LocalJob}]
<1> USE DEF Statuses, Settled, OnCluster, SetStatus
<1>1. CASE UNCHANGED rowVars
  BY <1>1 DEF rowVars, TypeOK
<1>2. ASSUME NEW r \in Runs, SubmitRun(r) \/ ViolaTriggerFailed(r)
      PROVE  Goal
  BY <1>2 DEF SubmitRun, ViolaTriggerFailed, TypeOK
<1>3. ASSUME NEW h \in Handlers,
             FinishLocalRun(h) \/ RecordJob(h) \/ FailedStartingPerfTests(h)
      PROVE  Goal
  <2>1. /\ handlers[h].run \in Runs
        /\ handlers[h].job \in Jobs \cup {NoJob, LocalJob}
    BY <1>3, RunOfChain DEF FinishLocalRun, RecordJob, FailedStartingPerfTests, At, NoChain
  <2> QED
    BY <1>3, <2>1 DEF FinishLocalRun, RecordJob, FailedStartingPerfTests, TypeOK
<1>4. CASE MarkRunning \/ FinishPerfTests
  BY <1>4 DEF MarkRunning, FinishPerfTests, PollSound, Busy, TypeOK
<1>5. CASE Boot
  <2>1. /\ jobId' = jobId /\ correctnessOnly' = correctnessOnly
        /\ \/ status' = status
           \/ status' = [r \in Runs |-> IF status[r] \in {"TESTING CORRECTNESS"} \cup OnCluster
                                       THEN "FAILED" ELSE status[r]]
    BY <1>5 DEF Boot
  <2>2. status \in [Runs -> Statuses]
    BY DEF TypeOK
  <2>3. status' \in [Runs -> Statuses]
    BY <2>1, <2>2
  <2> QED
    BY <2>1, <2>3 DEF TypeOK
<1> QED
  BY <1>1, <1>2, <1>3, <1>4, <1>5, RowSteps DEF RowStep

HandlerType ==
    [run : Runs, job : Jobs \cup {NoJob, LocalJob},
     at : {"checked", "launching", "running", "submitted", "failing"}] \cup {NoChain}

LEMMA TwoFieldsSet ==
    ASSUME NEW q \in [run : Runs, job : Jobs \cup {NoJob, LocalJob},
                      at : {"checked", "launching", "running", "submitted", "failing"}],
           NEW place, NEW j
    PROVE  [q EXCEPT !.at = place, !.job = j] = [run |-> q.run, at |-> place, job |-> j]
<1>1. [q EXCEPT !.at = place, !.job = j] \in [run : {q.run}, at : {place}, job : {j}]
  OBVIOUS
<1>2. \A t : t \in [run : {q.run}, at : {place}, job : {j}] =>
                t = [run |-> q.run, at |-> place, job |-> j]
  OBVIOUS
<1> QED
  BY <1>1, <1>2

LEMMA ContinueSets ==
    ASSUME TypeOK, NEW h \in Handlers, handlers[h] # NoChain, NEW place, NEW j,
           Continue(h, place, j)
    PROVE  handlers' = [handlers EXCEPT ![h] = [run |-> handlers[h].run, at |-> place,
                                                job |-> j]]
<1>1. handlers[h] \in [run : Runs, job : Jobs \cup {NoJob, LocalJob},
                       at : {"checked", "launching", "running", "submitted", "failing"}]
  BY DEF TypeOK
<1>2. [handlers[h] EXCEPT !.at = place, !.job = j]
         = [run |-> handlers[h].run, at |-> place, job |-> j]
  BY <1>1, TwoFieldsSet
<1>3. handlers \in [Handlers -> HandlerType]
  BY DEF TypeOK, HandlerType
<1>4. handlers' = [handlers EXCEPT ![h] = [handlers[h] EXCEPT !.at = place, !.job = j]]
  BY <1>3 DEF Continue
<1> QED
  BY <1>2, <1>4

LEMMA ContinueTyped ==
    ASSUME TypeOK, NEW h \in Handlers, handlers[h] # NoChain,
           NEW place \in {"launching", "running", "submitted", "failing"},
           NEW j \in Jobs \cup {NoJob, LocalJob}, Continue(h, place, j)
    PROVE  handlers' \in [Handlers -> HandlerType]
BY ContinueSets, RunOfChain DEF TypeOK, HandlerType

LEMMA ChainsTyped ==
    ASSUME TypeOK, [Next]_vars
    PROVE  /\ handlers' \in [Handlers -> HandlerType]
           /\ waiter' \in Handlers \cup {NoHandler, NoAnswer}
<1> DEFINE Goal == /\ handlers' \in [Handlers -> HandlerType]
                   /\ waiter' \in Handlers \cup {NoHandler, NoAnswer}
<1>1. CASE UNCHANGED <<handlers, waiter>>
  BY <1>1 DEF TypeOK, HandlerType
<1>2. ASSUME NEW h \in Handlers, Respond(h)
      PROVE  Goal
  BY <1>2 DEF Respond, TypeOK, HandlerType
<1>3. ASSUME NEW r \in Runs, NEW h \in Handlers, Notified(r, h)
      PROVE  Goal
  BY <1>3 DEF Notified, AnswerLater, TypeOK, HandlerType
<1>4. ASSUME NEW h \in Handlers,
             CopyToCluster(h) \/ CopyFails(h) \/ LocalPerfRunEnds(h) \/ LaunchFails(h)
      PROVE  Goal
  <2>1. handlers[h] # NoChain /\ waiter' = waiter
    BY <1>4, RunOfChain DEF CopyToCluster, CopyFails, Copies, LocalPerfRunEnds, LaunchFails,
         At
  <2>2. \E place \in {"launching", "submitted", "failing"}, j \in {NoJob, LocalJob} :
           Continue(h, place, j)
    BY <1>4 DEF CopyToCluster, CopyFails, LocalPerfRunEnds, LaunchFails
  <2>3. handlers' \in [Handlers -> HandlerType]
    BY <2>1, <2>2, ContinueTyped
  <2> QED
    BY <2>1, <2>3 DEF TypeOK
<1>5. ASSUME NEW h \in Handlers, Launch(h)
      PROVE  Goal
  <2>1. handlers[h] # NoChain /\ waiter' = waiter
    BY <1>5, RunOfChain DEF Launch, At
  <2>2. \E place \in {"running", "submitted"}, j \in Jobs : Continue(h, place, j)
    BY <1>5 DEF Launch
  <2>3. handlers' \in [Handlers -> HandlerType]
    BY <2>1, <2>2, ContinueTyped
  <2> QED
    BY <2>1, <2>3 DEF TypeOK
<1>6. ASSUME NEW h \in Handlers, FallsSilent(h)
      PROVE  Goal
  BY <1>6 DEF FallsSilent, TypeOK, HandlerType
<1>7. CASE ConnectionLost \/ TimesOut \/ ConductorEnds \/ ViolaDies
  BY <1>7 DEF ConnectionLost, TimesOut, ConductorEnds, ViolaDies, TypeOK, HandlerType
<1> QED
  BY <1>1, <1>2, <1>3, <1>4, <1>5, <1>6, <1>7, ChainSteps DEF ChainStep, HandlerStep,
       FinishLocalRun, RecordJob, FailedStartingPerfTests, HandlerQueryFails,
       FailureNotStored, CopyHangs

LEMMA SubmissionsTyped ==
    ASSUME TypeOK, [Next]_vars
    PROVE  submission' \in [Runs -> {"none", "inserted", "asked", "failing"}]
<1>1. CASE submission' = submission
  BY <1>1 DEF TypeOK
<1>2. ASSUME NEW r \in Runs,
             \/ SubmitRun(r) \/ SubmissionStep(r) \/ TriggerAnswerLost(r)
             \/ TriggerFailureNotStored(r)
      PROVE  submission' \in [Runs -> {"none", "inserted", "asked", "failing"}]
  BY <1>2 DEF SubmitRun, SubmissionStep, TriggerViolaRun, TriggerImpossible,
       TriggerAnswered, ViolaTriggerFailed, TriggerAnswerLost, TriggerFailureNotStored,
       Submission, TypeOK
<1>3. CASE ConductorEnds
  BY <1>3 DEF ConductorEnds
<1> QED
  BY <1>1, <1>2, <1>3, SubmissionsStep DEF SubmissionSteps

(* Of the steps of a cancel only the place and the job are of interest.    *)
CancelType ==
    [run : Runs, job : Jobs \cup {NoJob}, at : {"asking", "onViola", "missed", "scancel"}]
       \cup {NoChain}

LEMMA CancelsTyped ==
    ASSUME TypeOK, [Next]_vars
    PROVE  cancels' \in [Cancels -> CancelType] /\ told' \in SUBSET Runs
<1> DEFINE Goal == cancels' \in [Cancels -> CancelType] /\ told' \in SUBSET Runs
<1>1. CASE UNCHANGED <<cancels, told>>
  BY <1>1 DEF TypeOK, CancelType
<1>2. ASSUME NEW c \in Cancels, NEW r \in Runs, NEW message, Tell(c, r, message)
      PROVE  Goal
  BY <1>2 DEF Tell, TypeOK, CancelType
<1>3. ASSUME NEW c \in Cancels, NEW r \in Runs, NEW j \in Jobs \cup {NoJob},
             NEW place \in {"asking", "onViola", "missed", "scancel"},
             CancelGoesOn(c, r, place, j), told' = told
      PROVE  Goal
  BY <1>3 DEF CancelGoesOn, TypeOK, CancelType
<1>4. ASSUME NEW c \in Cancels, NEW r \in Runs, CancelRun(c, r)
      PROVE  Goal
  BY <1>2, <1>3, <1>4 DEF CancelRun
<1>5. ASSUME NEW c \in Cancels, CancelStep(c)
      PROVE  Goal
  <2>1. cancels[c].at \in {"asking", "onViola", "missed", "scancel"}
    BY <1>5 DEF CancelStep, CancelFindsQueued, CancelFindsHeld, CancelHeldReturns,
         CancelFindsNothing, CancelLooksUpJob, Scancel, CancelAt
  <2>2. cancels[c].run \in Runs
    BY <2>1 DEF TypeOK, NoChain
  <2>3. CASE CancelFindsQueued(c) \/ CancelHeldReturns(c) \/ Scancel(c)
    BY <1>2, <2>2, <2>3 DEF CancelFindsQueued, CancelHeldReturns, Scancel
  <2>4. CASE CancelFindsHeld(c)
    BY <1>3, <2>2, <2>4 DEF CancelFindsHeld, CancelHeld
  <2>5. CASE CancelFindsNothing(c)
    BY <1>2, <1>3, <2>2, <2>5 DEF CancelFindsNothing
  <2>6. CASE CancelLooksUpJob(c)
    <3>1. jobId[cancels[c].run] \in Jobs \cup {NoJob, LocalJob}
      BY <2>2 DEF TypeOK
    <3> QED
      BY <1>2, <1>3, <2>2, <2>6, <3>1 DEF CancelLooksUpJob
  <2> QED
    BY <1>5, <2>3, <2>4, <2>5, <2>6 DEF CancelStep
<1>6. CASE ConductorEnds
  BY <1>6 DEF ConductorEnds, TypeOK, CancelType
<1>7. ASSUME NEW c \in Cancels, CancelFails(c)
      PROVE  Goal
  BY <1>7 DEF CancelFails, TypeOK, CancelType
<1> QED
  BY <1>1, <1>4, <1>5, <1>6, <1>7, CancelSteps

PollPlaces ==
    {"asleep", "checking", "marking", "finishing", "storing", "mailing", "hung", "down"}

PollType ==
    [at : PollPlaces,
     todo : SUBSET [run : Runs, job : Jobs \cup {LocalJob}],
     run : Runs \cup {NoRun}, verdict : Settled \cup {"none"}]

LEMMA VerdictTyped ==
    ASSUME NEW state
    PROVE  Verdict(state) \in Settled \cup {"none"}
BY DEF Verdict, Settled

LEMMA PollAtTyped ==
    ASSUME NEW place \in PollPlaces,
           NEW todo \in SUBSET [run : Runs, job : Jobs \cup {LocalJob}],
           NEW r \in Runs \cup {NoRun}, NEW verdict \in Settled \cup {"none"},
           PollAt(place, todo, r, verdict)
    PROVE  poll' \in PollType
BY DEF PollAt, PollType

LEMMA PollTyped ==
    ASSUME TypeOK, [Next]_vars
    PROVE  poll' \in PollType
<1> DEFINE Todo == SUBSET [run : Runs, job : Jobs \cup {LocalJob}]
<1>1. poll \in PollType /\ poll.todo \in Todo
  BY DEF TypeOK, PollType, PollPlaces
<1>2. CASE CheckCluster
  <2> DEFINE todo == {[run |-> r, job |-> jobId[r]] : r \in
                        {r \in Runs : /\ jobId[r] # NoJob
                                      /\ status[r] \in OnCluster \/ jobId[r] = LocalJob}}
  <2>1. todo \in Todo
    BY DEF TypeOK
  <2>2. PollAt("checking", todo, NoRun, "none")
    BY <1>2 DEF CheckCluster
  <2> HIDE DEF todo
  <2> QED
    BY <2>1, <2>2, PollAtTyped DEF PollPlaces
<1>3. ASSUME NEW p \in poll.todo, CheckRun(p)
      PROVE  poll' \in PollType
  <2>1. p.run \in Runs /\ poll.todo \ {p} \in Todo
    BY <1>1
  <2>2. \E place \in {"checking", "marking", "finishing"}, r \in {p.run, NoRun},
           verdict \in Settled \cup {"none"} : PollAt(place, poll.todo \ {p}, r, verdict)
    BY <1>3, VerdictTyped DEF CheckRun, Settled
  <2> QED
    BY <2>1, <2>2, PollAtTyped DEF PollPlaces
<1>4. CASE MarkRunning \/ FinishPerfTests \/ OwnerMailed
  <2>1. \E place \in {"checking", "mailing"} : PollAt(place, poll.todo, NoRun, "none")
    BY <1>4 DEF MarkRunning, FinishPerfTests, OwnerMailed
  <2> QED
    BY <1>1, <2>1, PollAtTyped DEF PollPlaces
<1>5. CASE CopiesBack
  <2>1. poll.run \in Runs \cup {NoRun} /\ poll.verdict \in Settled \cup {"none"}
    BY DEF TypeOK
  <2> QED
    BY <1>1, <1>5, <2>1, PollAtTyped DEF CopiesBack, PollPlaces
<1>6. CASE RoundEnds \/ RoundAborted \/ PollHangs \/ ConductorEnds \/ Boot
  <2>1. \A place \in PollPlaces : Resting(place) \in PollType
    BY DEF Resting, PollType
  <2>2. \E place \in PollPlaces : poll' = Resting(place)
    BY <1>6, RoundAborts DEF RoundEnds, PollHangs, ConductorEnds, Boot, Reschedule, Asleep,
         PollPlaces
  <2> QED
    BY <2>1, <2>2
<1> QED
  BY <1>1, <1>2, <1>3, <1>4, <1>5, <1>6, PollSteps DEF PollStep

LEMMA FaultsTyped ==
    ASSUME TypeOK, [Next]_vars
    PROVE  faults' \in 0 .. MaxFaults
<1>1. \/ UNCHANGED faults
      \/ \E kind : Fault(kind)
  BY RoundAborts, ProcessEnds
  DEF Next, Step, SubmitRun, SubmissionStep, TriggerViolaRun, TriggerImpossible,
      TriggerAnswered, ViolaTriggerFailed, ViolaWorks, Notified, HandlerStep, FinishLocalRun,
      CopyToCluster, Launch, LocalPerfRunEnds, RecordJob, FailedStartingPerfTests, CancelRun,
      CancelStep, CancelFindsQueued, CancelFindsHeld, CancelHeldReturns, CancelFindsNothing,
      CancelLooksUpJob, Scancel, PollStep, CheckCluster, CheckRun, MarkRunning, CopiesBack,
      FinishPerfTests, OwnerMailed, RoundEnds, JobMoves, TimesOut, Boot, Faults,
      TriggerAnswerLost, TriggerFailureNotStored, ViolaLoses, CopyFails, CopyHangs,
      LaunchFails, HandlerQueryFails, FailureNotStored, CancelFails, ConnectionLost,
      PollHangs, ViolaDies, vars, stepVars
<1> QED
  BY <1>1, ConductorAssumption DEF Fault, TypeOK

LEMMA TypeStep ==
    ASSUME TypeOK, HandlersSound, PollSound, [Next]_vars
    PROVE  TypeOK'
<1>1. jobs' \in [Jobs -> [run : Runs \cup {NoRun}, state : JobStates]]
  BY JobSteps
<1> QED
  BY <1>1, ViolaTyped, RowsTyped, ChainsTyped, SubmissionsTyped, CancelsTyped, PollTyped,
     FaultsTyped, ClusterTypeStays
  DEF TypeOK, HandlerType, CancelType, PollType, PollPlaces

-----------------------------------------------------------------------------
(* What a step does to one row, and why it may.                            *)

ChainOf(h, r, place) ==
    handlers[h] # NoChain /\ handlers[h].run = r /\ handlers[h].at = place

StatusStep(r) ==
    \/ status'[r] = status[r]
    \/ status[r] = "none" /\ submission[r] = "none" /\ status'[r] = "TESTING CORRECTNESS"
    \/ status'[r] = "FAILED"
    \/ \E h \in Handlers :
          /\ ChainOf(h, r, "checked")
          /\ StopsHere(r)
          /\ status'[r] = IF report[r] = "cancelled" THEN "CANCELLED" ELSE "FINISHED"
    \/ \E h \in Handlers :
          /\ ChainOf(h, r, "submitted")
          /\ clusterType = "slurm"
          /\ status'[r] = "IN CLUSTER QUEUE" /\ jobId'[r] = handlers[h].job
    \/ poll.at = "marking" /\ poll.run = r /\ status'[r] = "TESTING PERFORMANCE"
    \/ poll.at = "storing" /\ poll.run = r /\ status'[r] = poll.verdict

JobIdStep(r) ==
    \/ jobId'[r] = jobId[r]
    \/ \E h \in Handlers : ChainOf(h, r, "submitted") /\ jobId'[r] = handlers[h].job

RowStepOf(r) ==
    /\ StatusStep(r)
    /\ JobIdStep(r)
    /\ status[r] # "none" => (r \in correctnessOnly' <=> r \in correctnessOnly)

LEMMA RowSteps1 ==
    ASSUME TypeOK, [Next]_vars, NEW r \in Runs
    PROVE  RowStepOf(r)
<1> USE DEF RowStepOf, StatusStep, JobIdStep, ChainOf, SetStatus
<1>1. CASE UNCHANGED rowVars
  BY <1>1 DEF rowVars
<1>2. ASSUME NEW s \in Runs, SubmitRun(s)
      PROVE  RowStepOf(r)
  BY <1>2 DEF SubmitRun, Submission, TypeOK
<1>3. ASSUME NEW s \in Runs, ViolaTriggerFailed(s)
      PROVE  RowStepOf(r)
  BY <1>3 DEF ViolaTriggerFailed, TypeOK
<1>4. ASSUME NEW h \in Handlers, FinishLocalRun(h)
      PROVE  RowStepOf(r)
  <2> DEFINE final == IF report[r] = "cancelled" THEN "CANCELLED" ELSE "FINISHED"
  <2>1. handlers[h] # NoChain /\ handlers[h].at = "checked" /\ handlers[h].run \in Runs
    BY <1>4, RunOfChain DEF FinishLocalRun, At
  <2>2. /\ r # handlers[h].run => status'[r] = status[r]
        /\ r = handlers[h].run => StopsHere(r) /\ status'[r] = final
        /\ jobId' = jobId /\ correctnessOnly' = correctnessOnly
    BY <1>4, <2>1 DEF FinishLocalRun, TypeOK
  <2> QED
    BY <2>1, <2>2
<1>5. ASSUME NEW h \in Handlers, RecordJob(h)
      PROVE  RowStepOf(r)
  <2>1. handlers[h] # NoChain /\ handlers[h].at = "submitted" /\ handlers[h].run \in Runs
    BY <1>5, RunOfChain DEF RecordJob, At
  <2>2. /\ jobId' = [jobId EXCEPT ![handlers[h].run] = handlers[h].job]
        /\ correctnessOnly' = correctnessOnly
        /\ \/ status' = status
           \/ clusterType = "slurm" /\ SetStatus(handlers[h].run, "IN CLUSTER QUEUE")
    BY <1>5 DEF RecordJob
  <2>3. status \in [Runs -> Statuses] /\ jobId \in [Runs -> Jobs \cup {NoJob, LocalJob}]
    BY DEF TypeOK
  <2>4. CASE r = handlers[h].run
    BY <2>1, <2>2, <2>3, <2>4
  <2>5. CASE r # handlers[h].run
    BY <2>1, <2>2, <2>3, <2>5
  <2> QED
    BY <2>4, <2>5
<1>6. ASSUME NEW h \in Handlers, FailedStartingPerfTests(h)
      PROVE  RowStepOf(r)
  BY <1>6 DEF FailedStartingPerfTests, TypeOK
<1>7. CASE MarkRunning \/ FinishPerfTests
  BY <1>7 DEF MarkRunning, FinishPerfTests, TypeOK
<1>8. CASE Boot
  <2>1. /\ jobId' = jobId /\ correctnessOnly' = correctnessOnly
        /\ \/ status' = status
           \/ status' = [s \in Runs |-> IF status[s] \in {"TESTING CORRECTNESS"} \cup OnCluster
                                       THEN "FAILED" ELSE status[s]]
    BY <1>8 DEF Boot
  <2>2. status'[r] = status[r] \/ status'[r] = "FAILED"
    BY <2>1
  <2> QED
    BY <2>1, <2>2
<1> QED
  BY <1>1, <1>2, <1>3, <1>4, <1>5, <1>6, <1>7, <1>8, RowSteps DEF RowStep

(* A run that the Viola has let go is in the table, and its row remembers  *)
(* what was asked for.                                                     *)
LEMMA DeliveredStays ==
    ASSUME TypeOK, RowsFirst, CancelsFlagged, [Next]_vars, NEW r \in Runs,
           viola[r] \in Delivered
    PROVE  /\ viola'[r] \in Delivered
           /\ r \in correctnessOnly' <=> r \in correctnessOnly
           /\ report'[r] = report[r]
           /\ StopsHere(r)' <=> StopsHere(r)
<1>1. status[r] # "none"
  BY DEF RowsFirst, Delivered
<1>2. r \in correctnessOnly' <=> r \in correctnessOnly
  BY <1>1, RowSteps1 DEF RowStepOf
<1>3. viola'[r] \in Delivered /\ report'[r] = report[r]
  BY ViolaMoves
<1> QED
  BY <1>2, <1>3 DEF StopsHere

-----------------------------------------------------------------------------
(* The conjuncts of the invariant, one by one.                             *)

LEMMA RowsFirstStep ==
    ASSUME TypeOK, RowsFirst, CancelsFlagged, PollSound, [Next]_vars
    PROVE  RowsFirst'
<1> SUFFICES ASSUME NEW r \in Runs, status'[r] = "none"
             PROVE  viola'[r] = "absent" /\ submission'[r] = "none"
  BY DEF RowsFirst
<1>1. status[r] = "none"
  BY RowSteps1 DEF RowStepOf, StatusStep, PollSound, Settled
<1>2. viola[r] = "absent" /\ submission[r] = "none"
  BY <1>1 DEF RowsFirst
<1>3. viola'[r] = "absent"
  BY <1>2, ViolaMoves
<1>4. submission'[r] = "none"
  <2>1. CASE submission' = submission
    BY <1>2, <2>1
  <2>2. ASSUME NEW s \in Runs, SubmitRun(s)
        PROVE  submission'[r] = "none"
    BY <1>2, <2>2 DEF SubmitRun, SetStatus, Submission, TypeOK
  <2>3. ASSUME NEW s \in Runs,
               SubmissionStep(s) \/ TriggerAnswerLost(s) \/ TriggerFailureNotStored(s)
        PROVE  submission'[r] = "none"
    BY <1>2, <2>3 DEF SubmissionStep, TriggerViolaRun, TriggerImpossible, TriggerAnswered,
         ViolaTriggerFailed, TriggerAnswerLost, TriggerFailureNotStored, Submission, TypeOK
  <2>4. CASE ConductorEnds
    BY <2>4 DEF ConductorEnds
  <2> QED
    BY <2>1, <2>2, <2>3, <2>4, SubmissionsStep DEF SubmissionSteps
<1> QED
  BY <1>3, <1>4

LEMMA CancelsFlaggedStep ==
    ASSUME TypeOK, CancelsFlagged, [Next]_vars
    PROVE  CancelsFlagged'
BY ViolaMoves DEF CancelsFlagged

LEMMA JobsWantedStep ==
    ASSUME TypeOK, RowsFirst, CancelsFlagged, JobsWanted, HandlersSound, [Next]_vars
    PROVE  JobsWanted'
<1> SUFFICES ASSUME NEW j \in Jobs, jobs'[j].run # NoRun
             PROVE  /\ jobs'[j].state # "unused"
                    /\ viola'[jobs'[j].run] \in Delivered
                    /\ jobs'[j].run \notin correctnessOnly'
                    /\ report'[jobs'[j].run] # "cancelled"
  BY DEF JobsWanted
<1>1. jobs'[j].run \in Runs
  BY JobSteps
<1> DEFINE Wanted == /\ jobs'[j].state # "unused"
                     /\ viola[jobs'[j].run] \in Delivered
                     /\ jobs'[j].run \notin correctnessOnly
                     /\ report[jobs'[j].run] # "cancelled"
<1>2. Wanted
  <2>1. CASE jobs'[j] = jobs[j]
    BY <2>1 DEF JobsWanted
  <2>2. ASSUME NEW h \in Handlers, handlers[h].at = "launching",
               jobs'[j].run = handlers[h].run, jobs'[j].state \in {"PENDING", "RUNNING"}
        PROVE  Wanted
    BY <2>2, RunOfChain DEF HandlersSound, StopsHere
  <2>3. CASE /\ jobs'[j].run = jobs[j].run
             /\ jobs'[j].state \in JobEndings \cup {"RUNNING", "CANCELLED"}
    BY <2>3, ConductorAssumption DEF JobsWanted
  <2> QED
    BY <2>1, <2>2, <2>3, JobSteps DEF JobStep
<1> QED
  BY <1>1, <1>2, DeliveredStays

(* The row of a run has a job of this run, from the chain that has had it. *)
LEMMA RowsSoundStep ==
    ASSUME TypeOK, TypeOK', JobsWanted, HandlersSound, RowsSound, PollSound, [Next]_vars
    PROVE  RowsSound'
<1> SUFFICES ASSUME NEW r \in Runs
             PROVE  /\ jobId'[r] \in Jobs =>
                         clusterType' = "slurm" /\ jobs'[jobId'[r]].run = r
                    /\ jobId'[r] = LocalJob =>
                         clusterType' = "local" /\ JobOf(r, "COMPLETED")'
                    /\ status'[r] \in OnCluster => jobId'[r] \in Jobs
  BY DEF RowsSound
<1>1. clusterType' = clusterType
  BY ClusterTypeStays
<1>2. /\ jobId'[r] \in Jobs => clusterType = "slurm" /\ jobs[jobId'[r]].run = r
      /\ jobId'[r] = LocalJob => clusterType = "local" /\ JobOf(r, "COMPLETED")
      /\ jobId[r] \in Jobs => jobId'[r] \in Jobs
  <2>1. CASE jobId'[r] = jobId[r]
    BY <2>1 DEF RowsSound
  <2>2. ASSUME NEW h \in Handlers, ChainOf(h, r, "submitted"), jobId'[r] = handlers[h].job
        PROVE  /\ jobId'[r] \in Jobs => clusterType = "slurm" /\ jobs[jobId'[r]].run = r
               /\ jobId'[r] = LocalJob => clusterType = "local" /\ JobOf(r, "COMPLETED")
               /\ jobId[r] \in Jobs => jobId'[r] \in Jobs
    <3>1. \/ clusterType = "slurm" /\ handlers[h].job \in Jobs /\ jobs[handlers[h].job].run = r
          \/ /\ clusterType = "local" /\ handlers[h].job = LocalJob
             /\ JobOf(r, "COMPLETED")
      BY <2>2 DEF ChainOf, HandlersSound
    <3>2. LocalJob \notin Jobs
      BY ConductorAssumption
    <3>3. jobId[r] \in Jobs => clusterType = "slurm"
      BY DEF RowsSound
    <3> QED
      BY <2>2, <3>1, <3>2, <3>3
  <2> QED
    BY <2>1, <2>2, RowSteps1 DEF RowStepOf, JobIdStep
<1>3. jobId'[r] \in Jobs => jobs'[jobId'[r]].run = r
  BY <1>2, JobsMove, ConductorAssumption
<1>4. jobId'[r] = LocalJob => JobOf(r, "COMPLETED")'
  BY <1>2, JobsMove
<1>5. status'[r] \in OnCluster => jobId'[r] \in Jobs
  <2> SUFFICES ASSUME status'[r] \in OnCluster
               PROVE  jobId'[r] \in Jobs
    OBVIOUS
  <2>1. StatusStep(r)
    BY RowSteps1 DEF RowStepOf
  <2>2. CASE status'[r] = status[r]
    BY <1>2, <2>2 DEF RowsSound
  <2>3. ASSUME NEW h \in Handlers, ChainOf(h, r, "submitted"), clusterType = "slurm",
               jobId'[r] = handlers[h].job
        PROVE  jobId'[r] \in Jobs
    BY <2>3 DEF ChainOf, HandlersSound
  <2>4. CASE poll.at = "marking" /\ poll.run = r
    BY <1>2, <2>4 DEF PollSound
  <2>5. CASE poll.at = "storing" /\ poll.run = r /\ status'[r] = poll.verdict
    BY <2>5 DEF PollSound, OnCluster, Settled
  <2> QED
    BY <2>1, <2>2, <2>3, <2>4, <2>5 DEF StatusStep, OnCluster
<1> QED
  BY <1>1, <1>2, <1>3, <1>4, <1>5

(* A status is final for a reason, and the reason lasts.                   *)
LEMMA FinishedStep ==
    ASSUME IInv, TypeOK', [Next]_vars
    PROVE  FinishedMeansReported'
<1> USE DEF IInv
<1> SUFFICES ASSUME NEW r \in Runs, status'[r] = "FINISHED"
             PROVE  /\ report'[r] # "cancelled"
                    /\ IF r \in correctnessOnly' THEN viola'[r] \in Delivered
                                                 ELSE JobOf(r, "COMPLETED")'
  BY DEF FinishedMeansReported, Delivered
<1>1. /\ status[r] # "none"
      /\ report[r] # "cancelled" /\ viola[r] \in Delivered
      /\ r \notin correctnessOnly => JobOf(r, "COMPLETED")
  <2>1. StatusStep(r)
    BY RowSteps1 DEF RowStepOf
  <2>2. CASE status'[r] = status[r]
    <3>1. JobOf(r, "COMPLETED") => viola[r] \in Delivered
      BY ConductorAssumption DEF JobOf, JobsWanted
    <3> QED
      BY <2>2, <3>1 DEF FinishedMeansReported, Delivered
  <2>3. ASSUME NEW h \in Handlers, ChainOf(h, r, "checked"), StopsHere(r),
               status'[r] = IF report[r] = "cancelled" THEN "CANCELLED" ELSE "FINISHED"
        PROVE  r \in correctnessOnly /\ viola[r] \in Delivered /\ report[r] # "cancelled"
    BY <2>3 DEF ChainOf, HandlersSound, StopsHere
  <2>4. CASE poll.at = "storing" /\ poll.run = r /\ status'[r] = poll.verdict
    <3>1. JobOf(r, "COMPLETED")
      BY <2>4 DEF PollSound
    <3>2. viola[r] \in Delivered /\ report[r] # "cancelled"
      BY <3>1, ConductorAssumption DEF JobOf, JobsWanted
    <3> QED
      BY <3>1, <3>2 DEF RowsFirst, Delivered
  <2>5. viola[r] \in Delivered => status[r] # "none"
    BY DEF RowsFirst, Delivered
  <2> QED
    BY <2>1, <2>2, <2>3, <2>4, <2>5 DEF StatusStep
<1>2. r \in correctnessOnly' <=> r \in correctnessOnly
  BY <1>1, RowSteps1 DEF RowStepOf
<1> QED
  BY <1>1, <1>2, DeliveredStays, JobsMove

LEMMA CancelledStep ==
    ASSUME IInv, TypeOK', [Next]_vars
    PROVE  CancelledOnlyOnRequest'
<1> USE DEF IInv
<1> SUFFICES ASSUME NEW r \in Runs, status'[r] = "CANCELLED"
             PROVE  r \in flagged' \/ JobOf(r, "CANCELLED")'
  BY DEF CancelledOnlyOnRequest
<1>1. r \in flagged \/ JobOf(r, "CANCELLED")
  <2>1. StatusStep(r)
    BY RowSteps1 DEF RowStepOf
  <2>2. CASE status'[r] = status[r]
    BY <2>2 DEF CancelledOnlyOnRequest
  <2>3. CASE status'[r] = IF report[r] = "cancelled" THEN "CANCELLED" ELSE "FINISHED"
    BY <2>3 DEF CancelsFlagged
  <2>4. CASE poll.at = "storing" /\ poll.run = r /\ status'[r] = poll.verdict
    BY <2>4 DEF PollSound
  <2> QED
    BY <2>1, <2>2, <2>3, <2>4 DEF StatusStep
<1> QED
  BY <1>1, ViolaMoves, JobsMove

(* What holds of a chain's place, run and job, and lasts.                  *)
ChainSound(r, at, j) ==
    /\ viola[r] \in Delivered
    /\ at \in {"launching", "running", "submitted"} => ~ StopsHere(r)
    /\ at = "running" => clusterType = "local" /\ j \in Jobs /\ jobs[j].run = r
    /\ at = "submitted" =>
          \/ clusterType = "slurm" /\ j \in Jobs /\ jobs[j].run = r
          \/ clusterType = "local" /\ j = LocalJob /\ JobOf(r, "COMPLETED")

ChainSoundThen(r, at, j) ==
    /\ viola'[r] \in Delivered
    /\ at \in {"launching", "running", "submitted"} =>
          r \notin correctnessOnly' /\ report'[r] # "cancelled"
    /\ at = "running" => clusterType' = "local" /\ j \in Jobs /\ jobs'[j].run = r
    /\ at = "submitted" =>
          \/ clusterType' = "slurm" /\ j \in Jobs /\ jobs'[j].run = r
          \/ /\ clusterType' = "local" /\ j = LocalJob
             /\ \E i \in Jobs : jobs'[i] = [run |-> r, state |-> "COMPLETED"]

LEMMA ChainSoundStays ==
    ASSUME TypeOK, RowsFirst, CancelsFlagged, JobsWanted, [Next]_vars,
           NEW r \in Runs, NEW at, NEW j, ChainSound(r, at, j)
    PROVE  ChainSoundThen(r, at, j)
<1>1. viola'[r] \in Delivered /\ (StopsHere(r)' <=> StopsHere(r))
  BY DeliveredStays DEF ChainSound
<1>2. j \in Jobs /\ jobs[j].run = r => jobs'[j].run = r
  BY JobsMove, ConductorAssumption
<1>3. JobOf(r, "COMPLETED") => JobOf(r, "COMPLETED")'
  BY JobsMove
<1>4. clusterType' = clusterType
  BY ClusterTypeStays
<1> QED
  BY <1>1, <1>2, <1>3, <1>4 DEF ChainSound, ChainSoundThen, JobOf, StopsHere

LEMMA HandlersSoundStep ==
    ASSUME TypeOK, RowsFirst, CancelsFlagged, JobsWanted, HandlersSound, [Next]_vars
    PROVE  HandlersSound'
<1> SUFFICES ASSUME NEW g \in Handlers, handlers'[g] # NoChain
             PROVE  ChainSoundThen(handlers'[g].run, handlers'[g].at, handlers'[g].job)
  BY DEF HandlersSound, ChainSoundThen, JobOf, StopsHere
<1> DEFINE Goal == ChainSoundThen(handlers'[g].run, handlers'[g].at, handlers'[g].job)
<1>1. \A h \in Handlers : handlers[h] # NoChain =>
         /\ ChainSound(handlers[h].run, handlers[h].at, handlers[h].job)
         /\ handlers[h].run \in Runs
  BY RunOfChain DEF HandlersSound, ChainSound
<1>2. CASE handlers'[g] = handlers[g]
  BY <1>1, <1>2, ChainSoundStays
<1>3. ASSUME NEW h \in Handlers, handlers' = [handlers EXCEPT ![h] = NoChain]
      PROVE  Goal
  BY <1>2, <1>3 DEF TypeOK
(* A chain that goes on.                                                   *)
<1>4. ASSUME NEW h \in Handlers, handlers[h] # NoChain, NEW place, NEW j,
             Continue(h, place, j), ChainSoundThen(handlers[h].run, place, j)
      PROVE  Goal
  <2>1. CASE g = h
    <3>1. handlers'[g] = [run |-> handlers[h].run, at |-> place, job |-> j]
      BY <1>4, <2>1, ContinueSets DEF TypeOK
    <3> QED
      BY <1>4, <3>1
  <2>2. CASE g # h
    BY <1>2, <1>4, <2>2, ContinueSets DEF TypeOK
  <2> QED
    BY <2>1, <2>2
<1>5. ASSUME NEW h \in Handlers, CopyToCluster(h)
      PROVE  Goal
  <2>1. handlers[h] # NoChain /\ ~ StopsHere(handlers[h].run)
    BY <1>5, RunOfChain DEF CopyToCluster, Copies, At
  <2>2. ChainSound(handlers[h].run, "launching", NoJob)
    BY <1>1, <2>1 DEF ChainSound
  <2>3. ChainSoundThen(handlers[h].run, "launching", NoJob)
    BY <1>1, <2>1, <2>2, ChainSoundStays
  <2> QED
    BY <1>4, <1>5, <2>1, <2>3 DEF CopyToCluster
<1>6. ASSUME NEW h \in Handlers, Launch(h)
      PROVE  Goal
  <2>1. handlers[h] # NoChain /\ handlers[h].at = "launching"
    BY <1>6, RunOfChain DEF Launch, At
  <2>2. ChainSound(handlers[h].run, "launching", NoJob)
    BY <1>1, <2>1 DEF ChainSound
  <2>3. ChainSoundThen(handlers[h].run, "launching", NoJob)
    BY <1>1, <2>1, <2>2, ChainSoundStays
  <2>4. PICK j \in Jobs :
           /\ NewJob(handlers[h].run, j)
           /\ Continue(h, IF clusterType = "slurm" THEN "submitted" ELSE "running", j)
    BY <1>6 DEF Launch
  <2>5. jobs'[j].run = handlers[h].run
    BY <2>4 DEF NewJob, TypeOK
  <2>6. clusterType' = clusterType /\ clusterType \in {"slurm", "local"}
    BY ClusterTypeStays, ConductorAssumption DEF TypeOK
  <2>7. CASE clusterType = "slurm"
    <3>1. ChainSoundThen(handlers[h].run, "submitted", j)
      BY <2>3, <2>5, <2>6, <2>7 DEF ChainSoundThen
    <3> QED
      BY <1>4, <2>1, <2>4, <2>7, <3>1
  <2>8. CASE clusterType = "local"
    <3>1. ChainSoundThen(handlers[h].run, "running", j)
      BY <2>3, <2>5, <2>6, <2>8 DEF ChainSoundThen
    <3> QED
      BY <1>4, <2>1, <2>4, <2>8, <3>1
  <2> QED
    BY <2>6, <2>7, <2>8
<1>7. ASSUME NEW h \in Handlers, LocalPerfRunEnds(h)
      PROVE  Goal
  <2>1. handlers[h] # NoChain /\ handlers[h].at = "running"
    BY <1>7, RunOfChain DEF LocalPerfRunEnds, At
  <2>2. ChainSound(handlers[h].run, "running", handlers[h].job)
    BY <1>1, <2>1
  <2>3. CASE jobs[handlers[h].job].state = "COMPLETED"
    <3>1. JobOf(handlers[h].run, "COMPLETED")
      BY <1>1, <2>1, <2>2, <2>3 DEF ChainSound, JobOf, TypeOK
    <3>2. ChainSound(handlers[h].run, "submitted", LocalJob)
      BY <2>2, <3>1 DEF ChainSound
    <3>3. ChainSoundThen(handlers[h].run, "submitted", LocalJob)
      BY <1>1, <2>1, <3>2, ChainSoundStays
    <3> QED
      BY <1>4, <1>7, <2>1, <2>3, <3>3 DEF LocalPerfRunEnds
  <2>4. CASE jobs[handlers[h].job].state # "COMPLETED"
    <3>1. ChainSound(handlers[h].run, "failing", NoJob)
      BY <2>2 DEF ChainSound
    <3>2. ChainSoundThen(handlers[h].run, "failing", NoJob)
      BY <1>1, <2>1, <3>1, ChainSoundStays
    <3> QED
      BY <1>4, <1>7, <2>1, <2>4, <3>2 DEF LocalPerfRunEnds
  <2> QED
    BY <2>3, <2>4
<1>8. ASSUME NEW h \in Handlers, CopyFails(h) \/ LaunchFails(h)
      PROVE  Goal
  <2>1. handlers[h] # NoChain
    BY <1>8, RunOfChain DEF CopyFails, Copies, LaunchFails, At
  <2>2. ChainSound(handlers[h].run, "failing", NoJob)
    BY <1>1, <2>1 DEF ChainSound
  <2>3. ChainSoundThen(handlers[h].run, "failing", NoJob)
    BY <1>1, <2>1, <2>2, ChainSoundStays
  <2> QED
    BY <1>4, <1>8, <2>1, <2>3 DEF CopyFails, LaunchFails
(* A new chain has the run that the Viola reports.                         *)
<1>9. ASSUME NEW r \in Runs, NEW h \in Handlers, Notified(r, h)
      PROVE  Goal
  <2>1. ChainSoundThen(r, "checked", NoJob)
    <3>1. ChainSound(r, "checked", NoJob)
      BY <1>9 DEF Notified, ChainSound, Delivered
    <3> QED
      BY <3>1, ChainSoundStays
  <2>2. \/ handlers' = handlers
        \/ handlers' = [handlers EXCEPT ![h] = [run |-> r, at |-> "checked", job |-> NoJob]]
    BY <1>9 DEF Notified
  <2> QED
    BY <1>2, <2>1, <2>2 DEF TypeOK
<1>10. CASE ConductorEnds
  BY <1>10 DEF ConductorEnds
<1> QED
  BY <1>2, <1>3, <1>5, <1>6, <1>7, <1>8, <1>9, <1>10, ChainSteps
  DEF ChainStep, HandlerStep, FinishLocalRun, RecordJob, FailedStartingPerfTests,
      HandlerQueryFails, FailureNotStored, CopyHangs, FallsSilent, Respond,
      ConnectionLost, TimesOut, ViolaDies

(* What is true of a verdict, and lasts.                                   *)
VerdictSound(r, verdict) ==
    /\ verdict \in Settled
    /\ verdict = "FINISHED" => JobOf(r, "COMPLETED")
    /\ verdict = "CANCELLED" => JobOf(r, "CANCELLED")

TodoSound(p) ==
    /\ p.job \in Jobs => jobs[p.job].run = p.run /\ jobId[p.run] \in Jobs
    /\ p.job = LocalJob => clusterType = "local" /\ JobOf(p.run, "COMPLETED")

JobsOfRowsStay(r) == jobId[r] \in Jobs => jobId'[r] \in Jobs

LEMMA RowsKeepJobs ==
    ASSUME TypeOK, HandlersSound, RowsSound, [Next]_vars, NEW r \in Runs
    PROVE  JobsOfRowsStay(r)
<1>1. jobId[r] \in Jobs => clusterType = "slurm"
  BY DEF RowsSound
<1>2. ASSUME NEW h \in Handlers, ChainOf(h, r, "submitted")
      PROVE  clusterType = "slurm" => handlers[h].job \in Jobs
  BY <1>2 DEF ChainOf, HandlersSound
<1> QED
  BY <1>1, <1>2, RowSteps1 DEF RowStepOf, JobIdStep, JobsOfRowsStay

LEMMA PollSoundStep ==
    ASSUME TypeOK, JobsWanted, HandlersSound, RowsSound, PollSound, [Next]_vars
    PROVE  PollSound'
<1> DEFINE Todo(P) == \A p \in P : /\ p.run \in Runs
                                   /\ p.job \in Jobs \cup {LocalJob}
                                   /\ TodoSound(p)
           TodoThen(P) == \A p \in P :
              /\ p.job \in Jobs => jobs'[p.job].run = p.run /\ jobId'[p.run] \in Jobs
              /\ p.job = LocalJob =>
                    /\ clusterType' = "local"
                    /\ \E j \in Jobs : jobs'[j] = [run |-> p.run, state |-> "COMPLETED"]
           VerdictThen(r, verdict) ==
              /\ verdict \in Settled
              /\ verdict = "FINISHED" =>
                    \E j \in Jobs : jobs'[j] = [run |-> r, state |-> "COMPLETED"]
              /\ verdict = "CANCELLED" =>
                    \E j \in Jobs : jobs'[j] = [run |-> r, state |-> "CANCELLED"]
(* What was read lasts, ...                                                *)
<1>1. ASSUME NEW P, Todo(P)
      PROVE  TodoThen(P)
  <2> SUFFICES ASSUME NEW p \in P
               PROVE  /\ p.job \in Jobs => jobs'[p.job].run = p.run /\ jobId'[p.run] \in Jobs
                      /\ p.job = LocalJob =>
                         /\ clusterType' = "local"
                         /\ \E j \in Jobs : jobs'[j] = [run |-> p.run, state |-> "COMPLETED"]
    OBVIOUS
  <2>1. p.run \in Runs /\ TodoSound(p)
    BY <1>1
  <2>2. p.job \in Jobs => jobs'[p.job].run = p.run
    BY <2>1, JobsMove, ConductorAssumption DEF TodoSound
  <2>3. JobsOfRowsStay(p.run)
    BY <2>1, RowsKeepJobs
  <2>4. ASSUME NEW r \in Runs, JobOf(r, "COMPLETED")
        PROVE  \E j \in Jobs : jobs'[j] = [run |-> r, state |-> "COMPLETED"]
    BY <2>4, JobsMove DEF JobOf
  <2> QED
    BY <2>1, <2>2, <2>3, <2>4, ClusterTypeStays DEF TodoSound, JobsOfRowsStay
<1>2. ASSUME NEW r \in Runs, NEW verdict, VerdictSound(r, verdict)
      PROVE  VerdictThen(r, verdict)
  BY <1>2, JobsMove DEF VerdictSound, JobOf
<1>3. ASSUME NEW r \in Runs, jobId[r] \in Jobs
      PROVE  jobId'[r] \in Jobs
  BY <1>3, RowsKeepJobs DEF JobsOfRowsStay
(* ... and what is read is true.                                           *)
<1>4. Todo(poll.todo)
  BY DEF TypeOK, PollSound, TodoSound
<1>5. ASSUME NEW place, NEW P, NEW r, NEW verdict, PollAt(place, P, r, verdict), Todo(P),
             place \in Busy => r \in Runs,
             place = "marking" => jobId[r] \in Jobs,
             place \in {"finishing", "storing"} => VerdictSound(r, verdict)
      PROVE  PollSound'
  <2>1. poll'.at = place /\ poll'.todo = P /\ poll'.run = r /\ poll'.verdict = verdict
    BY <1>5 DEF PollAt
  <2>2. TodoThen(P)
    BY <1>1, <1>5
  <2>3. place = "marking" => jobId'[r] \in Jobs
    BY <1>3, <1>5 DEF Busy
  <2>4. place \in {"finishing", "storing"} => VerdictThen(r, verdict)
    BY <1>2, <1>5 DEF Busy
  <2> QED
    BY <1>5, <2>1, <2>2, <2>3, <2>4 DEF PollSound, Busy, JobOf
<1>6. CASE poll' = poll
  <2>1. poll.at = "marking" => poll.run \in Runs /\ jobId'[poll.run] \in Jobs
    BY <1>3 DEF PollSound, Busy
  <2>2. poll.at \in {"finishing", "storing"} =>
           poll.run \in Runs /\ VerdictThen(poll.run, poll.verdict)
    BY <1>2 DEF PollSound, Busy, VerdictSound
  <2>3. TodoThen(poll.todo)
    BY <1>1, <1>4
  <2> QED
    BY <1>6, <2>1, <2>2, <2>3 DEF PollSound, Busy, JobOf
<1>7. CASE CheckCluster
  <2> DEFINE P == {[run |-> r, job |-> jobId[r]] : r \in
                     {r \in Runs : /\ jobId[r] # NoJob
                                   /\ status[r] \in OnCluster \/ jobId[r] = LocalJob}}
  <2>1. ASSUME NEW r \in Runs, jobId[r] # NoJob
        PROVE  /\ jobId[r] \in Jobs \cup {LocalJob}
               /\ TodoSound([run |-> r, job |-> jobId[r]])
    BY <2>1 DEF TypeOK, RowsSound, TodoSound
  <2>2. Todo(P)
    BY <2>1
  <2>3. PollAt("checking", P, NoRun, "none")
    BY <1>7 DEF CheckCluster
  <2> HIDE DEF P
  <2> QED
    BY <1>5, <2>2, <2>3 DEF Busy
<1>8. ASSUME NEW p \in poll.todo, CheckRun(p)
      PROVE  PollSound'
  <2> DEFINE verdict == IF clusterType = "slurm" THEN Verdict(jobs[p.job].state)
                                                 ELSE "FINISHED"
             rest == poll.todo \ {p}
  <2>1. p.run \in Runs /\ p.job \in Jobs \cup {LocalJob} /\ TodoSound(p) /\ Todo(rest)
    BY <1>4
  <2>2. IF verdict # "none" THEN PollAt("finishing", rest, p.run, verdict)
        ELSE IF jobs[p.job].state = "RUNNING" THEN PollAt("marking", rest, p.run, "none")
        ELSE PollAt("checking", rest, NoRun, "none")
    BY <1>8 DEF CheckRun
  (* On SLURM a run is found with a job of its own, on a local cluster with  *)
  (* LOCAL_JOB_ID.                                                           *)
  <2>3. /\ clusterType = "slurm" => p.job \in Jobs
        /\ clusterType # "slurm" => JobOf(p.run, "COMPLETED")
    <3>1. p.job = LocalJob => clusterType = "local" /\ JobOf(p.run, "COMPLETED")
      BY <2>1 DEF TodoSound
    <3>2. p.job \in Jobs => clusterType = "slurm"
      <4>1. p.job \in Jobs => jobId[p.run] \in Jobs
        BY <2>1 DEF TodoSound
      <4> QED
        BY <2>1, <4>1 DEF RowsSound
    <3> QED
      BY <2>1, <3>1, <3>2
  <2>4. p.job \in Jobs => /\ jobs[p.job].run = p.run /\ jobId[p.run] \in Jobs
                          /\ jobs[p.job] = [run |-> p.run, state |-> jobs[p.job].state]
    BY <2>1 DEF TodoSound, TypeOK
  <2>5. verdict # "none" => VerdictSound(p.run, verdict)
    <3>1. CASE clusterType = "slurm"
      BY <2>3, <2>4, <3>1 DEF Verdict, VerdictSound, Settled, JobOf
    <3>2. CASE clusterType # "slurm"
      BY <2>3, <3>2 DEF VerdictSound, Settled
    <3> QED
      BY <3>1, <3>2
  <2>6. verdict = "none" => jobId[p.run] \in Jobs
    BY <2>3, <2>4
  <2> HIDE DEF verdict, rest
  <2>7. CASE verdict # "none"
    <3>1. PollAt("finishing", rest, p.run, verdict)
      BY <2>2, <2>7
    <3> QED
      BY <1>5, <2>1, <2>5, <2>7, <3>1 DEF Busy
  <2>8. CASE verdict = "none"
    <3>1. \/ PollAt("marking", rest, p.run, "none") \/ PollAt("checking", rest, NoRun, "none")
      BY <2>2, <2>8
    <3> QED
      BY <1>5, <2>1, <2>6, <2>8, <3>1 DEF Busy
  <2> QED
    BY <2>7, <2>8
<1>9. CASE MarkRunning \/ FinishPerfTests \/ OwnerMailed
  <2>1. \E place \in {"checking", "mailing"} : PollAt(place, poll.todo, NoRun, "none")
    BY <1>9 DEF MarkRunning, FinishPerfTests, OwnerMailed
  <2> QED
    BY <1>4, <1>5, <2>1 DEF Busy
<1>10. CASE CopiesBack
  <2>1. PollAt("storing", poll.todo, poll.run, poll.verdict) /\ poll.at = "finishing"
    BY <1>10 DEF CopiesBack
  <2>2. poll.run \in Runs /\ VerdictSound(poll.run, poll.verdict)
    BY <2>1 DEF PollSound, Busy, VerdictSound
  <2> QED
    BY <1>4, <1>5, <2>1, <2>2
<1>11. CASE RoundEnds \/ RoundAborted \/ PollHangs \/ ConductorEnds \/ Boot
  <2>1. \E place \in {"asleep", "hung", "down"} : poll' = Resting(place)
    BY <1>11, RoundAborts DEF RoundEnds, PollHangs, ConductorEnds, Boot, Reschedule, Asleep
  <2> QED
    BY <2>1 DEF Resting, PollSound, Busy
<1> QED
  BY <1>6, <1>7, <1>8, <1>9, <1>10, <1>11, PollSteps DEF PollStep

-----------------------------------------------------------------------------
(* The invariant, and the properties that follow from it.                  *)

LEMMA InitSound ==
    ASSUME Init
    PROVE  IInv
<1>0. 0 \in 0 .. MaxFaults
  BY ConductorAssumption
<1> USE DEF Init, ViolaInit, ChainsInit
<1>1. TypeOK
  <2>1. ViolaTypeOK
    BY DEF ViolaTypeOK, Stages, Reports
  <2>2. /\ status \in [Runs -> Statuses] /\ jobId \in [Runs -> Jobs \cup {NoJob, LocalJob}]
        /\ correctnessOnly \in SUBSET Runs /\ told \in SUBSET Runs
        /\ submission \in [Runs -> {"none", "inserted", "asked", "failing"}]
    BY DEF Statuses
  <2>3. poll \in PollType
    BY DEF Asleep, Resting, PollType, PollPlaces
  <2>4. jobs \in [Jobs -> [run : Runs \cup {NoRun}, state : JobStates]]
    BY DEF JobStates
  <2>5. handlers \in [Handlers -> HandlerType] /\ cancels \in [Cancels -> CancelType]
    BY DEF HandlerType, CancelType
  <2>6. waiter \in Handlers \cup {NoHandler, NoAnswer} /\ clusterType \in ClusterTypes
    OBVIOUS
  <2>7. faults \in 0 .. MaxFaults
    <3>1. faults = 0
      OBVIOUS
    <3> QED
      BY <1>0, <3>1
  <2> QED
    BY <2>1, <2>2, <2>3, <2>4, <2>5, <2>6, <2>7
    DEF TypeOK, PollType, PollPlaces, HandlerType, CancelType
<1>2. RowsFirst /\ CancelsFlagged /\ JobsWanted
  BY DEF RowsFirst, CancelsFlagged, JobsWanted
<1>3. HandlersSound /\ RowsSound /\ PollSound
  BY ConductorAssumption
  DEF HandlersSound, RowsSound, PollSound, Busy, OnCluster, Asleep, Resting
<1>4. FinishedMeansReported /\ CancelledOnlyOnRequest
  BY DEF FinishedMeansReported, CancelledOnlyOnRequest
<1> QED
  BY <1>1, <1>2, <1>3, <1>4 DEF IInv

LEMMA StepSound ==
    ASSUME IInv, [Next]_vars
    PROVE  IInv'
<1>1. TypeOK'
  BY TypeStep DEF IInv
<1>2. RowsFirst' /\ CancelsFlagged' /\ JobsWanted'
  BY RowsFirstStep, CancelsFlaggedStep, JobsWantedStep DEF IInv
<1>3. HandlersSound' /\ PollSound'
  BY HandlersSoundStep, PollSoundStep DEF IInv
<1>4. RowsSound'
  BY <1>1, RowsSoundStep DEF IInv
<1>5. FinishedMeansReported' /\ CancelledOnlyOnRequest'
  BY <1>1, FinishedStep, CancelledStep
<1> QED
  BY <1>1, <1>2, <1>3, <1>4, <1>5 DEF IInv

(* The inductive invariant: rows, chains, poll, jobs and the Viola agree.  *)
THEOREM StateSound == Spec => []IInv
<1>1. Init => IInv
  BY InitSound
<1>2. IInv /\ [Next]_vars => IInv'
  BY StepSound
<1> QED
  BY <1>1, <1>2, PTL DEF Spec

(* The poll can find every run that waits for the cluster (check_cluster   *)
(* looks for rows with a job), whatever fails and whoever cancels.         *)
THEOREM OnClusterRunsHaveJobs == Spec => []OnClusterHasJob
<1>1. IInv => OnClusterHasJob
  BY DEF IInv, RowsSound, OnClusterHasJob
<1> QED
  BY <1>1, StateSound, PTL

(* FINISHED is written by finish_perf_tests for a COMPLETED job only, and  *)
(* by local_run_finished for a run that the Viola has reported, tested or  *)
(* with an error, but not as cancelled.                                    *)
THEOREM FinishedRunsAreReported == Spec => []FinishedMeansReported
<1>1. IInv => FinishedMeansReported
  BY DEF IInv
<1> QED
  BY <1>1, StateSound, PTL

(* CANCELLED is never written for an error, a timeout or a reboot.         *)
THEOREM CancelledRunsWereCancelled == Spec => []CancelledOnlyOnRequest
<1>1. IInv => CancelledOnlyOnRequest
  BY DEF IInv
<1> QED
  BY <1>1, StateSound, PTL

(* local_run_finished launches no job for a run that asked for correctness *)
(* tests only, or that the Viola reports as cancelled.                     *)
THEOREM StoppedRunsGetNoJob == Spec => []NoJobForStoppedRuns
<1>1. IInv => NoJobForStoppedRuns
  BY DEF IInv, JobsWanted, NoJobForStoppedRuns
<1> QED
  BY <1>1, StateSound, PTL

-----------------------------------------------------------------------------
(* A run that the Viola has reported does not wait for ever.               *)

LEMMA NotificationStep ==
    ASSUME IInv, NotificationNotLost, "database" \notin FaultKinds, [Next]_vars
    PROVE  NotificationNotLost'
<1> USE DEF IInv
<1> SUFFICES ASSUME NEW r \in Runs, viola'[r] = "reported"
             PROVE  status'[r] # "TESTING CORRECTNESS" \/ jobId'[r] # NoJob
  BY DEF NotificationNotLost
<1>1. RowStepOf(r)
  BY RowSteps1
<1>2. CASE viola[r] = "reported"
  <2>1. status[r] # "none"
    BY <1>2 DEF RowsFirst
  <2>2. status'[r] = "TESTING CORRECTNESS" => status[r] = "TESTING CORRECTNESS"
    BY <1>1, <2>1 DEF RowStepOf, StatusStep, PollSound, Settled
  <2>3. ASSUME NEW h \in Handlers, ChainOf(h, r, "submitted")
        PROVE  handlers[h].job # NoJob
    BY <2>3, ConductorAssumption DEF ChainOf, HandlersSound
  <2>4. jobId[r] # NoJob => jobId'[r] # NoJob
    BY <1>1, <2>3 DEF RowStepOf, JobIdStep
  <2> QED
    BY <1>2, <2>2, <2>4 DEF NotificationNotLost
<1>3. CASE viola[r] # "reported"
  <2>1. Answers(r)
    <3> USE DEF ViolaTypeOK, TypeOK
    <3>1. ~ UNCHANGED violaVars
      BY <1>3 DEF violaVars
    <3>2. ~ ViolaCrash
      BY <1>3 DEF ViolaCrash
    <3>3. ASSUME NEW s \in Runs
          PROVE  ~ ViolaWork(s)
      BY <1>3 DEF ViolaWork, Imported, ImportFails, Start, TestsEnd, Drop, Exported, Move
    <3>4. ASSUME NEW s \in Runs,
                 TriggerViolaRun(s) \/ Answers(s) \/ CancelQueued(s) \/ CancelHeld(s) \/ Lost(s)
          PROVE  Answers(s) /\ s = r
      BY <1>3, <3>4 DEF TriggerViolaRun, Accept, Answers, Reported, CancelQueued, CancelHeld,
           Lost, Move
    <3> QED
      BY <3>1, <3>2, <3>3, <3>4, ViolaSteps DEF ViolaStep
  <2>2. CASE ~ MayLaunch(r) /\ UNCHANGED rowVars
    BY <2>2 DEF MayLaunch, rowVars
  <2>3. ASSUME NEW h \in Handlers, handlers[h].run = r, ChainEnds(h)
        PROVE  status'[r] # "TESTING CORRECTNESS" \/ jobId'[r] # NoJob
    <3>1. CASE FinishLocalRun(h) \/ FailedStartingPerfTests(h)
      BY <2>3, <3>1 DEF FinishLocalRun, FailedStartingPerfTests, SetStatus, TypeOK
    <3>2. CASE RecordJob(h)
      <4>1. handlers[h] # NoChain /\ handlers[h].at = "submitted"
        BY <3>2, RunOfChain DEF RecordJob, At
      <4>2. handlers[h].job # NoJob
        BY <4>1, ConductorAssumption DEF HandlersSound
      <4>3. jobId' = [jobId EXCEPT ![r] = handlers[h].job]
        BY <2>3, <3>2 DEF RecordJob
      <4> QED
        BY <4>2, <4>3 DEF TypeOK
    <3> QED
      BY <2>3, <3>1, <3>2 DEF ChainEnds, HandlerQueryFails, Fault
  <2> QED
    BY <2>1, <2>2, <2>3 DEF Answers
<1> QED
  BY <1>2, <1>3

(* "assert(responseCode == 200)" (LocalTestRunner.java:177): unless a      *)
(* query fails, local_run_finished answers a run only after its row has a  *)
(* job or a further status, on either cluster and whatever else fails.     *)
THEOREM NotificationsActedOn ==
    ASSUME "database" \notin FaultKinds
    PROVE  Spec => []NotificationNotLost
<1>1. Init => NotificationNotLost
  BY DEF Init, ViolaInit, NotificationNotLost
<1>2. IInv /\ NotificationNotLost /\ [Next]_vars => NotificationNotLost'
  BY NotificationStep
<1> QED
  BY <1>1, <1>2, StateSound, PTL DEF Spec

-----------------------------------------------------------------------------
(* On SLURM and without lost connections Conductor implements RunLifecycle.*)

SlurmConnected == ClusterTypes = {"slurm"} /\ "connection" \notin FaultKinds

LEMMA OnSlurm ==
    ASSUME TypeOK, SlurmConnected
    PROVE  clusterType = "slurm"
BY DEF TypeOK, SlurmConnected

(* Who changes the status of a run.                                        *)
StatusWriter(r) ==
    \/ status[r] = "none" /\ status'[r] = "TESTING CORRECTNESS"
    \/ \E h \in Handlers : /\ handlers[h].run = r
                           /\ handlers' = [handlers EXCEPT ![h] = NoChain]
    \/ submission[r] = "failing" /\ submission'[r] = "none"
    \/ /\ poll.at \in Busy /\ poll.run = r
       /\ poll'.at \in {"checking", "mailing"} /\ poll'.todo = poll.todo
    \/ Boot

LEMMA StatusWriters ==
    ASSUME TypeOK, [Next]_vars, NEW r \in Runs, status'[r] # status[r]
    PROVE  StatusWriter(r)
<1>1. ~ UNCHANGED rowVars
  BY DEF rowVars
<1>2. ASSUME NEW s \in Runs, SubmitRun(s)
      PROVE  StatusWriter(r)
  BY <1>2 DEF SubmitRun, SetStatus, TypeOK, StatusWriter
<1>3. ASSUME NEW s \in Runs, ViolaTriggerFailed(s)
      PROVE  StatusWriter(r)
  BY <1>3 DEF ViolaTriggerFailed, SetStatus, Submission, TypeOK, StatusWriter
<1>4. ASSUME NEW h \in Handlers,
             FinishLocalRun(h) \/ RecordJob(h) \/ FailedStartingPerfTests(h)
      PROVE  StatusWriter(r)
  <2>1. handlers' = [handlers EXCEPT ![h] = NoChain]
    BY <1>4 DEF FinishLocalRun, RecordJob, FailedStartingPerfTests, Respond
  <2>2. status' = status \/ \E s : SetStatus(handlers[h].run, s)
    BY <1>4 DEF FinishLocalRun, RecordJob, FailedStartingPerfTests
  <2>3. handlers[h].run = r
    BY <2>2 DEF SetStatus, TypeOK
  <2> QED
    BY <2>1, <2>3 DEF StatusWriter
<1>5. CASE MarkRunning \/ FinishPerfTests
  <2>1. poll'.at \in {"checking", "mailing"} /\ poll'.todo = poll.todo
    <3>1. \E place \in {"checking", "mailing"} : PollAt(place, poll.todo, NoRun, "none")
      BY <1>5 DEF MarkRunning, FinishPerfTests
    <3> QED
      BY <3>1 DEF PollAt
  <2>2. poll.run = r /\ poll.at \in Busy
    BY <1>5 DEF MarkRunning, FinishPerfTests, SetStatus, TypeOK, Busy
  <2> QED
    BY <2>1, <2>2 DEF StatusWriter
<1>6. Boot => StatusWriter(r)
  BY DEF StatusWriter
<1> QED
  BY <1>1, <1>2, <1>3, <1>4, <1>5, <1>6, RowSteps DEF RowStep

(* A chain that is there after a step was there before, or has begun.      *)
ChainKept(h) ==
    /\ handlers[h] # NoChain
    /\ handlers'[h].run = handlers[h].run

ChainBegun(h) ==
    \E r \in Runs : /\ Notified(r, h)
                    /\ MayLaunch(r)
                    /\ handlers[h] = NoChain
                    /\ handlers' = [handlers EXCEPT ![h] =
                                      [run |-> r, at |-> "checked", job |-> NoJob]]
                    /\ waiter' = h

LEMMA ChainKeptOrBegun ==
    ASSUME TypeOK, [Next]_vars, NEW g \in Handlers, handlers'[g] # NoChain
    PROVE  ChainKept(g) \/ ChainBegun(g)
<1>1. ASSUME handlers'[g] = handlers[g]
      PROVE  ChainKept(g)
  BY <1>1 DEF ChainKept
<1>2. ASSUME NEW h \in Handlers, handlers' = [handlers EXCEPT ![h] = NoChain]
      PROVE  ChainKept(g)
  <2>1. handlers \in [Handlers -> HandlerType]
    BY DEF TypeOK, HandlerType
  <2>2. g = h => handlers'[g] = NoChain
    BY <1>2, <2>1
  <2>3. g # h => handlers'[g] = handlers[g]
    BY <1>2, <2>1
  <2> QED
    BY <1>1, <2>2, <2>3
<1>3. ASSUME NEW h \in Handlers, handlers[h] # NoChain, NEW place, NEW j,
             Continue(h, place, j)
      PROVE  ChainKept(g)
  BY <1>1, <1>3, ContinueSets DEF TypeOK, ChainKept
<1>4. ASSUME NEW h \in Handlers,
             \/ CopyToCluster(h) \/ CopyFails(h) \/ Launch(h) \/ LocalPerfRunEnds(h)
             \/ LaunchFails(h)
      PROVE  ChainKept(g)
  <2>1. handlers[h] # NoChain
    BY <1>4, RunOfChain DEF CopyToCluster, CopyFails, Copies, Launch, LocalPerfRunEnds,
         LaunchFails, At
  <2>2. \E place, j : Continue(h, place, j)
    BY <1>4 DEF CopyToCluster, CopyFails, Launch, LocalPerfRunEnds, LaunchFails
  <2> QED
    BY <1>3, <2>1, <2>2
<1>5. ASSUME NEW r \in Runs, NEW h \in Handlers, Notified(r, h)
      PROVE  ChainKept(g) \/ ChainBegun(g)
  <2>1. CASE MayLaunch(r)
    <3>1. /\ handlers' = [handlers EXCEPT ![h] =
                            [run |-> r, at |-> "checked", job |-> NoJob]]
          /\ waiter' = h
      BY <1>5, <2>1 DEF Notified, AnswerLater
    <3>2. handlers[h] = NoChain
      BY <1>5, RunOfChain DEF Notified, At
    <3>3. CASE g = h
      BY <1>5, <2>1, <3>1, <3>2, <3>3 DEF ChainBegun
    <3>4. CASE g # h
      BY <1>1, <3>1, <3>4 DEF TypeOK
    <3> QED
      BY <3>3, <3>4
  <2>2. CASE ~ MayLaunch(r)
    BY <1>1, <1>5, <2>2 DEF Notified
  <2> QED
    BY <2>1, <2>2
<1>6. CASE ConductorEnds
  BY <1>6 DEF ConductorEnds
<1> QED
  BY <1>1, <1>2, <1>4, <1>5, <1>6, ChainSteps
  DEF ChainStep, HandlerStep, FinishLocalRun, RecordJob, FailedStartingPerfTests,
      HandlerQueryFails, FailureNotStored, CopyHangs, FallsSilent, Respond,
      ConnectionLost, TimesOut, ViolaDies

(* The Viola waits for the chain of a run as long as that goes on.         *)
LEMMA WaiterStays ==
    ASSUME TypeOK, SlurmConnected, [Next]_vars,
           NEW g \in Handlers, handlers'[g] # NoChain, waiter = g,
           viola'[handlers[g].run] = "reporting"
    PROVE  waiter' = g
<1>1. handlers[g] # NoChain => handlers[g].run \in Runs
  BY RunOfChain
<1>2. ASSUME NEW h \in Handlers, Respond(h) \/ FallsSilent(h)
      PROVE  waiter' = g
  BY <1>2 DEF Respond, FallsSilent, TypeOK
<1>3. ASSUME NEW h \in Handlers,
             \/ CopyToCluster(h) \/ CopyFails(h) \/ Launch(h) \/ LocalPerfRunEnds(h)
             \/ LaunchFails(h)
      PROVE  waiter' = g
  BY <1>3 DEF CopyToCluster, CopyFails, Launch, LocalPerfRunEnds, LaunchFails
<1>4. ASSUME NEW r \in Runs, NEW h \in Handlers, Notified(r, h)
      PROVE  waiter' = g
  BY <1>4, ConductorAssumption DEF Notified
<1>5. ~ ConductorEnds /\ ~ ConnectionLost /\ ~ TimesOut
  <2>1. ~ ConductorEnds
    BY DEF ConductorEnds
  <2>2. ~ ConnectionLost
    BY DEF ConnectionLost, Fault, SlurmConnected
  <2>3. ~ TimesOut
    BY ConductorAssumption DEF TimesOut
  <2> QED
    BY <2>1, <2>2, <2>3
<1>6. ~ ViolaDies
  <2> SUFFICES ASSUME ViolaDies
               PROVE  FALSE
    OBVIOUS
  <2>1. handlers[g] # NoChain
    BY DEF ViolaDies
  <2> QED
    BY <1>1, <2>1 DEF ViolaDies, ViolaCrash
<1>7. UNCHANGED <<handlers, waiter>> => waiter' = g
  OBVIOUS
<1> QED
  BY <1>2, <1>3, <1>4, <1>5, <1>6, <1>7, ChainSteps
  DEF ChainStep, HandlerStep, FinishLocalRun, RecordJob, FailedStartingPerfTests,
      HandlerQueryFails, FailureNotStored, CopyHangs

LEMMA OneChainStep ==
    ASSUME IInv, RInv, SlurmConnected, [Next]_vars
    PROVE  OneChainPerRun'
<1> USE DEF IInv, RInv
<1>1. ASSUME NEW h \in Handlers, ChainKept(h), handlers'[h] # NoChain
      PROVE  status'[handlers[h].run] = "TESTING CORRECTNESS"
  <2> DEFINE r == handlers[h].run
  <2>1. status[r] = "TESTING CORRECTNESS" /\ viola[r] \in Delivered /\ r \in Runs
    BY <1>1, RunOfChain DEF ChainKept, OneChainPerRun, HandlersSound
  <2>2. ASSUME NEW g \in Handlers, handlers[g].run = r,
               handlers' = [handlers EXCEPT ![g] = NoChain]
        PROVE  FALSE
    <3>1. g = h
      BY <1>1, <2>2 DEF ChainKept, OneChainPerRun
    <3> QED
      BY <1>1, <2>2, <3>1 DEF TypeOK
  <2>3. ~ (submission[r] = "failing")
    BY <2>1 DEF FailuresUnsent, Delivered
  <2>4. ~ (poll.at \in Busy /\ poll.run = r)
    BY <2>1 DEF PollOwnsRuns, OnCluster
  <2>5. ~ Boot
    BY <1>1 DEF Boot, Up, DownMeansIdle, ChainKept
  <2> QED
    BY <2>1, <2>2, <2>3, <2>4, <2>5, StatusWriters DEF StatusWriter
<1>2. ASSUME NEW h \in Handlers, ChainBegun(h)
      PROVE  /\ status'[handlers'[h].run] = "TESTING CORRECTNESS"
             /\ waiter' = h
             /\ \A g \in Handlers :
                   g # h /\ handlers'[g] # NoChain => handlers'[g].run # handlers'[h].run
  <2>1. PICK r \in Runs :
           /\ Notified(r, h)
           /\ MayLaunch(r)
           /\ handlers' = [handlers EXCEPT ![h] =
                             [run |-> r, at |-> "checked", job |-> NoJob]]
           /\ waiter' = h
    BY <1>2 DEF ChainBegun
  <2>2. handlers'[h].run = r /\ \A g \in Handlers : g # h => handlers'[g] = handlers[g]
    BY <2>1 DEF TypeOK
  <2>3. status' = status /\ viola[r] = "reporting" /\ waiter = NoHandler
    BY <2>1 DEF Notified, rowVars
  <2>4. ASSUME NEW g \in Handlers, handlers[g] # NoChain
        PROVE  handlers[g].run # r
    BY <2>3, <2>4, ConductorAssumption DEF OneChainPerRun
  <2> QED
    BY <2>1, <2>2, <2>3, <2>4 DEF MayLaunch
<1>3. ASSUME NEW h \in Handlers, handlers'[h] # NoChain
      PROVE  /\ status'[handlers'[h].run] = "TESTING CORRECTNESS"
             /\ viola'[handlers'[h].run] = "reporting" => waiter' = h
  <2>1. CASE ChainBegun(h)
    BY <1>2, <2>1
  <2>2. CASE ChainKept(h)
    <3>1. handlers[h].run \in Runs /\ viola[handlers[h].run] \in Delivered
      BY <2>2, RunOfChain DEF ChainKept, HandlersSound
    <3>2. viola'[handlers[h].run] = "reporting" => viola[handlers[h].run] = "reporting"
      BY <3>1, ViolaMoves DEF Delivered
    <3>3. viola'[handlers[h].run] = "reporting" => waiter' = h
      BY <1>3, <2>2, <3>2, WaiterStays DEF ChainKept, OneChainPerRun
    <3> QED
      BY <1>1, <1>3, <2>2, <3>3 DEF ChainKept
  <2> QED
    BY <1>3, <2>1, <2>2, ChainKeptOrBegun
<1>4. ASSUME NEW g \in Handlers, NEW h \in Handlers, handlers'[g] # NoChain,
             handlers'[g].run = handlers'[h].run
      PROVE  g = h
  <2>1. handlers'[h] # NoChain
    <3>1. handlers'[g].run \in Runs
      BY <1>4, ChainsTyped DEF HandlerType
    <3> QED
      BY <1>4, <3>1, ConductorAssumption DEF NoChain
  <2>2. CASE ChainBegun(g) \/ ChainBegun(h)
    BY <1>2, <1>4, <2>1, <2>2
  <2>3. CASE ChainKept(g) /\ ChainKept(h)
    BY <1>4, <2>3 DEF ChainKept, OneChainPerRun
  <2> QED
    BY <1>4, <2>1, <2>2, <2>3, ChainKeptOrBegun
<1> QED
  BY <1>3, <1>4 DEF OneChainPerRun

(* Nobody takes a run that waits for the Viola to take it.                 *)
LEMMA FailuresUnsentStep ==
    ASSUME IInv, RInv, SlurmConnected, [Next]_vars
    PROVE  FailuresUnsent'
<1> USE DEF IInv, RInv
<1> SUFFICES ASSUME NEW r \in Runs, submission'[r] \in {"inserted", "failing"}
             PROVE  viola'[r] = "absent" /\ status'[r] = "TESTING CORRECTNESS"
  BY DEF FailuresUnsent
<1>1. \/ submission[r] \in {"inserted", "failing"} /\ ~ TriggerViolaRun(r)
      \/ SubmitRun(r)
  <2>1. ~ TriggerViolaRun(r)
    BY DEF TriggerViolaRun, Submission, TypeOK
  <2>2. CASE submission' = submission
    BY <2>1, <2>2
  <2>3. ASSUME NEW s \in Runs, SubmitRun(s)
        PROVE  SubmitRun(r) \/ submission[r] \in {"inserted", "failing"}
    BY <2>3 DEF SubmitRun, Submission, TypeOK
  <2>4. ASSUME NEW s \in Runs, SubmissionStep(s) \/ TriggerFailureNotStored(s)
        PROVE  submission[r] \in {"inserted", "failing"}
    BY <2>4 DEF SubmissionStep, TriggerViolaRun, TriggerImpossible, TriggerAnswered,
         ViolaTriggerFailed, TriggerFailureNotStored, Submission, TypeOK
  <2>5. ~ ConductorEnds
    BY DEF ConductorEnds
  <2>6. \A s \in Runs : ~ TriggerAnswerLost(s)
    BY DEF TriggerAnswerLost, Fault, SlurmConnected
  <2> QED
    BY <2>1, <2>2, <2>3, <2>4, <2>5, <2>6, SubmissionsStep DEF SubmissionSteps
<1>2. CASE SubmitRun(r)
  <2>1. status[r] = "none"
    BY <1>2 DEF SubmitRun
  <2>2. status'[r] = "TESTING CORRECTNESS" /\ viola' = viola
    BY <1>2 DEF SubmitRun, SetStatus, TypeOK, violaVars
  <2> QED
    BY <2>1, <2>2 DEF RowsFirst
<1>3. CASE submission[r] \in {"inserted", "failing"} /\ ~ TriggerViolaRun(r)
  <2>1. viola[r] = "absent" /\ status[r] = "TESTING CORRECTNESS"
    BY <1>3 DEF FailuresUnsent
  <2>2. viola'[r] = "absent"
    <3> USE DEF ViolaTypeOK, TypeOK
    <3>1. UNCHANGED violaVars => viola'[r] = "absent"
      BY <2>1 DEF violaVars
    <3>2. ViolaCrash => viola'[r] = "absent"
      BY <2>1 DEF ViolaCrash
    <3>3. ASSUME NEW s \in Runs, ViolaWork(s)
          PROVE  viola'[r] = "absent"
      BY <2>1, <3>3 DEF ViolaWork, Imported, ImportFails, Start, TestsEnd, Drop, Exported, Move
    <3>4. ASSUME NEW s \in Runs,
                 TriggerViolaRun(s) \/ Answers(s) \/ CancelQueued(s) \/ CancelHeld(s) \/ Lost(s)
          PROVE  viola'[r] = "absent"
      BY <1>3, <2>1, <3>4 DEF TriggerViolaRun, Accept, Answers, Reported, CancelQueued,
           CancelHeld, Lost, Move
    <3> QED
      BY <3>1, <3>2, <3>3, <3>4, ViolaSteps DEF ViolaStep
  <2>3. ~ \E h \in Handlers : /\ handlers[h].run = r
                              /\ handlers' = [handlers EXCEPT ![h] = NoChain]
    <3> SUFFICES ASSUME NEW h \in Handlers, handlers[h].run = r
                 PROVE  FALSE
      OBVIOUS
    <3>1. handlers[h] # NoChain
      BY ConductorAssumption DEF NoChain
    <3>2. viola[r] \in Delivered
      BY <3>1 DEF HandlersSound
    <3> QED
      BY <2>1, <3>2 DEF Delivered
  <2>4. ~ (poll.at \in Busy /\ poll.run = r)
    BY <2>1 DEF PollOwnsRuns, OnCluster
  <2>5. ~ Boot
    BY <1>3 DEF Boot, Up, DownMeansIdle
  <2>6. submission'[r] # "none"
    OBVIOUS
  <2> QED
    BY <2>1, <2>2, <2>3, <2>4, <2>5, <2>6, StatusWriters DEF StatusWriter
<1> QED
  BY <1>1, <1>2, <1>3

LEMMA PollOwnsStep ==
    ASSUME IInv, RInv, SlurmConnected, [Next]_vars
    PROVE  PollOwnsRuns'
<1> USE DEF IInv, RInv
<1>1. clusterType = "slurm"
  BY OnSlurm
(* A run that is on the cluster stays there until its turn comes.          *)
<1>2. ASSUME NEW r \in Runs, status[r] \in OnCluster, ~ Boot,
             poll.at \in Busy /\ poll.run = r => poll'.at \notin {"checking", "mailing"}
      PROVE  status'[r] \in OnCluster
  <2>1. ASSUME NEW h \in Handlers, handlers[h].run = r
        PROVE  FALSE
    <3>1. handlers[h] # NoChain
      BY <2>1, ConductorAssumption DEF NoChain
    <3> QED
      BY <1>2, <2>1, <3>1 DEF OneChainPerRun, OnCluster
  <2>2. submission[r] # "failing"
    BY <1>2 DEF FailuresUnsent, OnCluster
  <2>3. status[r] # "none"
    BY <1>2 DEF OnCluster
  <2> QED
    BY <1>2, <2>1, <2>2, <2>3, StatusWriters DEF StatusWriter
<1>3. ASSUME NEW p \in poll.todo, ~ Boot
      PROVE  p.run \in Runs /\ status'[p.run] \in OnCluster
  <2>1. p.run \in Runs
    BY DEF TypeOK
  <2>2. status[p.run] \in OnCluster
    BY DEF PollOwnsRuns
  <2>3. ~ (poll.at \in Busy /\ poll.run = p.run)
    BY DEF PollOwnsRuns
  <2> QED
    BY <1>2, <1>3, <2>1, <2>2, <2>3
<1>4. CASE poll' = poll
  <2>0. Asleep.at = "asleep"
    BY DEF Asleep, Resting
  <2>1. ~ Boot
    BY <1>4, <2>0 DEF Boot, Up
  <2>2. poll.at \in Busy => status'[poll.run] \in OnCluster
    BY <1>2, <1>4, <2>1 DEF PollOwnsRuns, PollSound, Busy
  <2> QED
    BY <1>3, <1>4, <2>1, <2>2 DEF PollOwnsRuns
<1>5. CASE CheckCluster
  <2> DEFINE P == {[run |-> r, job |-> jobId[r]] : r \in
                     {r \in Runs : /\ jobId[r] # NoJob
                                   /\ status[r] \in OnCluster \/ jobId[r] = LocalJob}}
  <2>1. \A r \in Runs : jobId[r] # LocalJob
    BY <1>1 DEF RowsSound
  <2>2. /\ \A p \in P : status[p.run] \in OnCluster
        /\ \A p, q \in P : p.run = q.run => p = q
    BY <2>1
  <2>3. PollAt("checking", P, NoRun, "none") /\ status' = status
    BY <1>5 DEF CheckCluster, rowVars
  <2> HIDE DEF P
  <2>4. poll'.at = "checking" /\ poll'.todo = P
    BY <2>3 DEF PollAt
  <2> QED
    BY <2>2, <2>3, <2>4 DEF PollOwnsRuns, Busy
<1>6. ASSUME NEW p \in poll.todo, CheckRun(p)
      PROVE  PollOwnsRuns'
  <2>1. /\ status' = status
        /\ \E place \in {"checking", "marking", "finishing"} : \E r, verdict :
              /\ PollAt(place, poll.todo \ {p}, r, verdict)
              /\ place # "checking" => r = p.run
    BY <1>6 DEF CheckRun, rowVars
  <2>2. poll'.todo = poll.todo \ {p} /\ (poll'.at \in Busy => poll'.run = p.run)
    BY <2>1 DEF PollAt, Busy
  <2> QED
    BY <2>1, <2>2 DEF PollOwnsRuns
<1>7. CASE MarkRunning \/ FinishPerfTests \/ OwnerMailed
  <2>1. /\ \E place \in {"checking", "mailing"} : PollAt(place, poll.todo, NoRun, "none")
        /\ poll.at # "down"
    BY <1>7 DEF MarkRunning, FinishPerfTests, OwnerMailed
  <2>2. poll'.at \in {"checking", "mailing"} /\ poll'.todo = poll.todo
    BY <2>1 DEF PollAt
  <2>3. ~ Boot
    BY <2>1 DEF Boot, Up
  <2> QED
    BY <1>3, <2>2, <2>3 DEF PollOwnsRuns, Busy
<1>8. CASE CopiesBack
  <2>1. poll.at = "finishing" /\ PollAt("storing", poll.todo, poll.run, poll.verdict)
    BY <1>8 DEF CopiesBack
  <2>2. /\ poll'.at = "storing" /\ poll'.todo = poll.todo /\ poll'.run = poll.run
    BY <2>1 DEF PollAt
  <2>3. status' = status
    BY <1>8 DEF CopiesBack, rowVars
  <2> QED
    BY <2>1, <2>2, <2>3 DEF PollOwnsRuns, Busy
<1>9. CASE RoundEnds \/ RoundAborted \/ PollHangs \/ ConductorEnds \/ Boot
  <2>1. \E place \in {"asleep", "hung", "down"} : poll' = Resting(place)
    BY <1>9, RoundAborts DEF RoundEnds, PollHangs, ConductorEnds, Boot, Reschedule, Asleep
  <2> QED
    BY <2>1 DEF Resting, PollOwnsRuns, Busy
<1> QED
  BY <1>4, <1>5, <1>6, <1>7, <1>8, <1>9, PollSteps DEF PollStep

(* Nothing begins in a process that has ended.                             *)
LEMMA DownMeansIdleStep ==
    ASSUME IInv, RInv, [Next]_vars
    PROVE  DownMeansIdle'
<1> USE DEF IInv, RInv
<1> SUFFICES ASSUME poll'.at = "down", ~ ConductorEnds
             PROVE  /\ \A h \in Handlers : handlers'[h] = NoChain
                    /\ \A r \in Runs : submission'[r] = "none"
  BY DEF DownMeansIdle, ConductorEnds
<1>1. ~ Up
  <2>0. poll'.at = "down" /\ ~ ConductorEnds
    OBVIOUS
  <2>1. poll' = poll => ~ Up
    <3>1. poll' = poll => poll.at = poll'.at
      OBVIOUS
    <3> QED
      BY <2>0, <3>1 DEF Up
  <2>2. ~ (RoundEnds \/ RoundAborted \/ PollHangs \/ Boot)
    <3>1. poll' # Asleep /\ poll' # Resting("hung")
      <4>1. Asleep.at = "asleep" /\ Resting("hung").at = "hung"
        BY DEF Asleep, Resting
      <4> QED
        BY <2>0, <4>1
    <3> QED
      BY <3>1, RoundAborts DEF RoundEnds, PollHangs, Boot, Reschedule
  <2>3. ~ PollStep
    <3>1. \A todo, r, verdict : ~ \E place \in {"checking", "marking", "finishing", "storing", "mailing"} :
                                   PollAt(place, todo, r, verdict)
      BY <2>0 DEF PollAt
    <3>2. ~ (CheckCluster \/ MarkRunning \/ CopiesBack \/ FinishPerfTests \/ OwnerMailed)
      BY <3>1 DEF CheckCluster, MarkRunning, CopiesBack, FinishPerfTests, OwnerMailed
    <3>3. \A p \in poll.todo : ~ CheckRun(p)
      BY <3>1 DEF CheckRun
    <3> QED
      BY <2>2, <3>2, <3>3 DEF PollStep
  <2> QED
    BY <2>1, <2>2, <2>3, PollSteps
<1>2. ASSUME NEW h \in Handlers
      PROVE  handlers'[h] = NoChain
  <2>1. ~ ChainKept(h)
    BY <1>1 DEF Up, DownMeansIdle, ChainKept
  <2>2. ~ ChainBegun(h)
    BY <1>1 DEF ChainBegun, Notified
  <2> QED
    BY <2>1, <2>2, ChainKeptOrBegun
<1>3. ASSUME NEW r \in Runs
      PROVE  submission'[r] = "none"
  <2>1. \A s \in Runs : submission[s] = "none"
    BY <1>1 DEF Up, DownMeansIdle
  <2>2. submission' = submission => submission'[r] = "none"
    BY <2>1
  <2>3. ASSUME NEW s \in Runs
        PROVE  ~ (\/ SubmitRun(s) \/ SubmissionStep(s) \/ TriggerAnswerLost(s)
                  \/ TriggerFailureNotStored(s))
    BY <1>1, <2>1 DEF SubmitRun, SubmissionStep, TriggerViolaRun, TriggerImpossible,
         TriggerAnswered, ViolaTriggerFailed, TriggerAnswerLost, TriggerFailureNotStored,
         Submission
  <2> QED
    BY <2>2, <2>3, SubmissionsStep DEF SubmissionSteps
<1> QED
  BY <1>2, <1>3

LEMMA OwnersStep ==
    ASSUME IInv, RInv, SlurmConnected, [Next]_vars
    PROVE  RInv'
BY OneChainStep, FailuresUnsentStep, PollOwnsStep, DownMeansIdleStep DEF RInv

(* A step of a run's status is a step of RunLifecycle.                     *)
LEMMA LifecycleStep ==
    ASSUME IInv, RInv, SlurmConnected, [Next]_vars
    PROVE  [Lifecycle!Next]_status
<1> USE DEF IInv, RInv, SetStatus, Lifecycle!Next, Lifecycle!Step
<1>1. CASE UNCHANGED rowVars
  BY <1>1 DEF rowVars
<1>2. ASSUME NEW r \in Runs, SubmitRun(r)
      PROVE  Lifecycle!Submitted(r)
  BY <1>2 DEF SubmitRun, Lifecycle!Submitted
<1>3. ASSUME NEW r \in Runs, ViolaTriggerFailed(r)
      PROVE  Lifecycle!Settled(r)
  <2>1. status[r] = "TESTING CORRECTNESS"
    BY <1>3 DEF ViolaTriggerFailed, Submission, FailuresUnsent
  <2> QED
    BY <1>3, <2>1
    DEF ViolaTriggerFailed, Lifecycle!Settled, Lifecycle!Unsettled, Lifecycle!SettledStatuses
<1>4. ASSUME NEW h \in Handlers,
             FinishLocalRun(h) \/ RecordJob(h) \/ FailedStartingPerfTests(h)
      PROVE  Lifecycle!Next
  <2>1. handlers[h] # NoChain
    BY <1>4, RunOfChain DEF FinishLocalRun, RecordJob, FailedStartingPerfTests, At
  <2>2. handlers[h].run \in Runs /\ status[handlers[h].run] = "TESTING CORRECTNESS"
    BY <2>1, RunOfChain DEF OneChainPerRun
  <2>3. \/ SetStatus(handlers[h].run, "IN CLUSTER QUEUE")
        \/ \E s \in Settled : SetStatus(handlers[h].run, s)
    BY <1>4, OnSlurm DEF FinishLocalRun, RecordJob, FailedStartingPerfTests, Settled
  <2>4. Lifecycle!Queued(handlers[h].run) \/ Lifecycle!Settled(handlers[h].run)
    BY <2>2, <2>3 DEF Settled, Lifecycle!Queued, Lifecycle!Settled, Lifecycle!Unsettled,
         Lifecycle!SettledStatuses
  <2> QED
    BY <2>2, <2>4
<1>5. CASE MarkRunning
  <2>1. poll.run \in Runs /\ status[poll.run] \in OnCluster
    BY <1>5 DEF MarkRunning, PollSound, PollOwnsRuns, Busy
  <2>2. CASE status[poll.run] = "IN CLUSTER QUEUE"
    BY <1>5, <2>1, <2>2 DEF MarkRunning, Lifecycle!Running
  <2>3. CASE status[poll.run] = "TESTING PERFORMANCE"
    BY <1>5, <2>1, <2>3 DEF MarkRunning, TypeOK
  <2> QED
    BY <2>1, <2>2, <2>3 DEF OnCluster
<1>6. CASE FinishPerfTests
  <2>1. poll.run \in Runs /\ status[poll.run] \in OnCluster /\ poll.verdict \in Settled
    BY <1>6 DEF FinishPerfTests, PollSound, PollOwnsRuns, Busy
  <2>2. Lifecycle!Settled(poll.run)
    BY <1>6, <2>1 DEF FinishPerfTests, OnCluster, Settled, Lifecycle!Settled,
         Lifecycle!Unsettled, Lifecycle!SettledStatuses
  <2> QED
    BY <2>1, <2>2
<1>7. CASE Boot
  <2>1. {"TESTING CORRECTNESS"} \cup OnCluster = Lifecycle!Unsettled
    BY DEF OnCluster, Lifecycle!Unsettled
  <2>2. \/ UNCHANGED status
        \/ status' = [r \in Runs |->
              IF status[r] \in {"TESTING CORRECTNESS"} \cup OnCluster
                THEN "FAILED" ELSE status[r]]
    BY <1>7 DEF Boot
  <2>3. UNCHANGED status \/ Lifecycle!AllFail
    BY <2>1, <2>2 DEF Lifecycle!AllFail
  <2> QED
    BY <2>3
<1> QED
  BY <1>1, <1>2, <1>3, <1>4, <1>5, <1>6, <1>7, RowSteps DEF RowStep

(* On SLURM, when connections hold, the status of a run only moves on, and *)
(* a settled run is never touched again: crashes of either machine, failed *)
(* queries and failed commands included, for any number of runs, chains,   *)
(* jobs and faults.                                                        *)
THEOREM ConductorImplementsRunLifecycle ==
    ASSUME SlurmConnected
    PROVE  Spec => RunLifecycleHolds
<1>1. Init => RInv /\ Lifecycle!Init
  <2>1. Init => RInv
    BY DEF Init, ChainsInit, Asleep, Resting, RInv, OneChainPerRun, FailuresUnsent,
         PollOwnsRuns, DownMeansIdle, Busy
  <2>2. Init => Lifecycle!Init
    BY DEF Init, Lifecycle!Init
  <2> QED
    BY <2>1, <2>2
<1>2. IInv /\ RInv /\ [Next]_vars => RInv' /\ [Lifecycle!Next]_status
  BY OwnersStep, LifecycleStep
<1>3. Spec => Lifecycle!Spec
  BY <1>1, <1>2, StateSound, PTL DEF Spec, Lifecycle!Spec
<1> QED
  BY <1>3 DEF RunLifecycleHolds
=============================================================================
