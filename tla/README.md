# Verification of the Habanero autograder

TLA+ models, TLC runs and TLAPS proofs for the Habanero autograder: a service
that takes student submissions, tests them for correctness on one machine and
for performance on a cluster, and keeps the results.  Line numbers are those of
the repository at the commit these files are kept with.

## 1. The system

| part | code | state | operations |
|---|---|---|---|
| **Conductor** | `conductor/app.js` (node, one callback at a time) | Postgres: `users`, `assignments`, `runs`, `final_runs`; in memory: chains of callbacks, `checkClusterActive`, the ssh connection with its sftp session and the table of commands in flight | `POST /submit_run`, `/local_run_finished`, `/cancel`, `/mark_final`, pages; a poll of the cluster every 30 s; boot |
| **Viola** | `viola/*.java` (JVM, many threads) | in memory only: `toImport`, `toExport`, `toNotify`, the executor's lists, heap and slots | `GET /run`, `GET /cancel`; threads: import, 8 workers, export, notify, 8 for HTTP |
| **Cello** | a shell script generated by `app.js:1989` | output files on the cluster | runs the performance tests |
| **Cluster** | SLURM, or the conductor's own machine (`CLUSTER_TYPE`) | jobs | `sbatch`, `sacct`, `scancel`, ssh/sftp |
| **Bass** | `bass/*.sh` (cron) | copies of finished runs, a lock file | asks `/latest_complete_run`, copies, deletes ZIP files |
| **Scoring** | `conductor/score.js` | none (files in, score out) | rubric validation, score of a run |
| **Final runs** | `app.js:2596-2766` | `final_runs` | mark, unmark, slip days |
| **Reminders** | `app.js:3272-3313`, with the poll | two columns of `assignments` | one mail to all active users before each deadline |

How a run goes through it:

    browser -> conductor  INSERT INTO runs, TESTING CORRECTNESS   (submit_run)
    conductor -> Viola    GET /run                                (trigger_viola_run)
    Viola                 import -> executor -> export -> notify  (one thread each, 8 workers)
    Viola -> conductor    POST /local_run_finished, repeated until answered
    conductor             FINISHED or CANCELLED, or a job on the cluster, IN CLUSTER QUEUE
    conductor -> cluster  poll: TESTING PERFORMANCE, then FINISHED, FAILED or CANCELLED
    browser -> conductor  POST /cancel: the Viola is asked, then the cluster

What is hard about it, and what makes each part correct:

* **The executor** is one Java monitor on which two kinds of threads wait, with
  a counter kept apart from the lists it counts, `notify()` in one place,
  interrupts sent to threads that may already do something else, and a priority
  queue whose keys change under it.  It is correct when no run is lost or
  executed twice, no thread sleeps through its wakeup, a cancel that says
  "found" means it, and users are served fairly.
* **The pipeline of the Viola** is unbounded queues and single threads: one that
  dies or blocks stops everybody.
* **The conductor's chains** keep their place in memory and their result in one
  row; two chains of one run, a crash between two steps and an answer that comes
  twice are the cases nobody tests.  It is correct when a settled run stays
  settled, its final status is true, the poll never stops, and no run is
  forgotten.
* **The commands on the cluster** share one ssh connection that anybody may find
  ended and replace; their callbacks must be called, and once.
* **Bass** deletes what it believes it has copied.
* **Final runs** decide grades.  Students mark and unmark them while staff
  disable assignments and move deadlines and pages are put together from several
  queries.
* **Scoring** reads the text of other programs: it is correct when tests that
  pass pay, those that fail do not, and the comments say what was lost.
* **Reminders** must be mailed before they are flagged, across failures.

The hazards, each at its line, are listed in `PROJECT.json`.

## 2. Plan

| | module | about | abstract specification | status |
|---|---|---|---|---|
| 1 | `FairExecutor` | the monitor of the thread pool | | done, proved |
| 2 | `UserPriorities` | the fair-share heap | | done, safety proved |
| 3 | `ViolaService` | the Viola as the conductor sees it | | done |
| 4 | `Conductor` | the life of a run on the conductor, over `ViolaService` and a table of jobs | `RunLifecycle` | done, safety and refinement proved |
| 5 | `ViolaPipeline` | the queues and threads around the executor, copies and their retries | `ViolaService` | done, safety and refinement proved |
| 6 | `ClusterCommands` | commands and copies over an ssh connection that may end, and the boot | each callback called once, as `CallbackOnce` | done, safety proved |
| 7 | `Coursework` | final runs, slip days, reminders | reference definitions in the properties | done, safety proved |
| 8 | `Score` | the score of a run as an operator | reference definitions in the properties | done, proved |
| 9 | `Bass` | lock, copies, deletion | | left |

The proofs (section 6) cover every safety invariant and both refinements of
`FairExecutor`, `UserPriorities`, `ViolaPipeline`, `Conductor`, `ClusterCommands`,
`Coursework` and `Score`.

## 3. The modules and the code

### FairExecutor (viola/FairViolaTaskExecutor.java, LocalTestRunner.run)

The variables are the fields of the class: `pendingTasks`, `nPending`,
`runningTasks`; `interrupted` and `waitSet` are the JVM's (a thread's interrupt
flag, the wait set of the monitor); `workerPc` is where a worker is;
`cancelling` is what a call of `cancel` waits for.  `stage`, `beingCancelled`
and `errMsg` belong to the runs; `replies` is a history variable.

A `synchronized` block is one step, up to a `wait()` in it; after a wakeup the
thread tests its loop condition in a new step.  `notify()` removes any one
thread from the wait set and `notifyAll()` all of them.  Java may also wake a
thread spuriously; both loops test their condition again, so that this is a step
that returns to the same state, and it is left out.

| action | code |
|---|---|
| `Execute` | `newPendingTask`, with its `notify()` |
| `Wait` | the `wait()` loop of `getPendingTask`; with a raised interrupt flag it throws and lowers the flag |
| `Take` | the rest of `getPendingTask` |
| `BodyEnds`, `BodyInterrupted` | the try block of `LocalTestRunner.run`: it ends by itself, or a sleep in `runInProcess` throws |
| `BodyFinally` | its finally block: the cancel flag is read outside the monitor, the run is given to the export thread |
| `Finish` | the finally block of `ViolaRunner.run`, with `notifyAll()` |
| `CancelPending`, `CancelRunning`, `CancelUnknown`, `CancelResumes` | the three outcomes of `cancel`, and its wait loop |

Which user `Take` serves is left open here, so that everything shown holds for
any policy.

### UserPriorities (the policy of getPendingTask)

`java.util.PriorityQueue` is modelled by its array and its sift operations,
because the order in which a heap with changed keys is polled depends on them.
`window` is `executedTaskWindow` without its times: any prefix of it may have
expired at a pick.  `Pick(k)` is `getPendingTask` from line 71 to 97 for a
window whose first k entries have expired.  The loops (`SiftUp`, `SiftDown`,
`AddAll`, `PollUser`) are recursive functions of one record, the variables of the
loop: the prover has no RECURSIVE operators.  A loop that finds no user ends with
`users = {}`, which is where the assertion of the code would fail.

### ViolaService (what the conductor builds on)

One action per stage of a run: accepted, imported (or failed to), started,
tested, dropped by its worker, exported, reported, removed by a cancel, lost
with its thread or in a crash.  It serves runs in any order.  `Conductor` is
built on it and `ViolaPipeline` implements it.

### ViolaPipeline (viola/Viola.java and the three *Runnable.java)

`toImport`, `toExport` and `toNotify` are the lists, with their heads first, and
it matters which end is used: imports are served newest first (`add`, then
`pollLast`), exports and notifications in order (`push`, then `pollLast`), and a
run whose import failed is reported before those in line (`add`), with what scp
wrote on stderr as its message, be it nothing.  `importer`,
`exporter` and `notifier` are the threads: waiting, at a place with a run, or
dead.  The executor is what `FairExecutor` leaves of it: `pending`, `body` (in
`run()`), `held` (in a worker's slot).  `here` and `logs` say which files have
really arrived, whatever the code believes: of the assignment, what the tests need
(the zip and the POM) and the configuration of checkstyle, without which they run
all the same.  `errMsg` may be null (`NoMessage`), which is posted as the empty
message (`Posted`).  `fate` is a history variable.

| action | code |
|---|---|
| `Accept` | `RunHandler` |
| `ImportTake`, `ReserveDirs`, `ScpAssignment`, `ScpSubmission` | `ImportFromConductorRunnable`, on this machine or with scp; the code of the second scp is not looked at |
| `ScpImportThrows`, `ScpExportThrows` | a try of `retryUntilSuccess` throws, and so does the log call after it |
| `Start`, `TestsEnd`, `Drop`, `CancelQueued`, `CancelHeld` | the executor, as steps of one run |
| `ExportTake`, `ExportEnds` | `ExportToConductorRunnable`, with the null log directory |
| `NotifyTake`, `PostAnswered`, `PostFails`, `PostHangs` | `NotifyConductorRunnable` and `notifyConductor` |
| `Crash` | the process dies and is started again |

A step is what a thread does between two points at which others can notice it;
the message of a run is seen only by the thread that has the run.  `Refused` are
runs whose POST fails every time, as it does when the handler throws
(`readFileSync`, `app.js:2324`).  Faults are drawn from `FaultKinds`.  `Stage`
is the refinement mapping to `ViolaService`.

### Conductor and RunLifecycle (conductor/app.js)

`status`, `jobId` and `correctnessOnly` are columns of `runs`.  A handler is a
chain of callbacks: `submission[r]`, `handlers[h]`, `cancels[c]` and `poll` say
where each is, and a step is what happens between two asynchronous calls.
`poll.at` is also "hung" when a round waits for a copy that will never answer, and
"down" when the process has ended; then no request is taken until `Boot`.
`waiter` is the handler whose answer the Viola's notify thread waits for, or
`NoAnswer` when the chain has ended without one.
`jobs` is the cluster, external, modelled from `sbatch`, `sacct` and `scancel`.
`told` is a history variable.  `clusterType` never changes.

| code | actions |
|---|---|
| `submit_run`, `trigger_viola_run`, `viola_trigger_failed` | `SubmitRun`, `TriggerViolaRun`, `TriggerImpossible`, `TriggerAnswered`, `TriggerAnswerLost`, `ViolaTriggerFailed`, `TriggerFailureNotStored` |
| `POST /local_run_finished`, `launch_on_cluster`, `failed_starting_perf_tests` | `Notified`, `FinishLocalRun`, `CopyToCluster`, `CopyFails`, `CopyHangs`, `Launch`, `LocalPerfRunEnds`, `LaunchFails`, `RecordJob`, `FailedStartingPerfTests`, `HandlerQueryFails`, `FailureNotStored`; `ConnectionLost` and `TimesOut` on the Viola's side |
| `POST /cancel` | `CancelRun`, `CancelFindsQueued`, `CancelFindsHeld`, `CancelHeldReturns`, `CancelFindsNothing`, `CancelLooksUpJob`, `Scancel`, `CancelFails` |
| `check_cluster`, `check_cluster_helper`, `finish_perf_tests` | `CheckCluster`, `CheckRun`, `MarkRunning`, `CopiesBack`, `FinishPerfTests`, `OwnerMailed`, `RoundEnds` |
| their exits with an error, each with its own `set_check_cluster_timeout` | `RunsNotRead`, `SacctFails`, `MarkFails`, `UserNotFound`, `OsUnknown`, `CopiesFail`, `ResultNotStored`, `MailFails` (together `RoundAborted`) |
| a copy whose connection closes (`app.js:432-443`) | `PollHangs`, `CopyHangs` |
| a copy on a local cluster whose file is missing (`readFileSync`, `app.js:459`) | `CopyThrows`: the process ends |
| crashes and boot | `Crash`; `Boot` (with and without `kill-running-jobs`); `ViolaDies`, `ViolaLoses` |

Faults are the disjuncts of `Faults`, drawn from `FaultKinds`, `MaxFaults` of
them at most in a behaviour.

`RunLifecycle` is what pages, e-mails, scores and Bass rely on: statuses move
forward and a settled run never changes.  `Conductor` is shown to implement it
(`RunLifecycleHolds`, an `INSTANCE` with `status` mapped to itself).

### ClusterCommands (conductor/app.js:213-563 and launch)

`current` and `sftp` are `cluster_connection` and `cluster_sftp`; `conns` are
all connections ever made, with their sockets' states, because the handlers of an
old one still fire; `inFlight` is `in_flight_cmds`; `tries` are uses of `exec`,
each named by its command and a number where the code has a random token.
`boot`, `asked`, `turn`, `transfers`, `stat` say how far the chains of callbacks
have come, `answers` and `reran` are history.  `up` is false when an exception
that nobody catches has ended the process.

| code | actions |
|---|---|
| `connect_to_cluster` | `Connect`, `Ready`, `ConnectFails`, `SocketError`, `Closes` |
| `sftp_connect_to_cluster` | `SftpOpens`, `SftpFails` |
| `run_cluster_cmd`, `clear_in_flight_cmds` | `RunClusterCmd`, `RunAgain` (both `Exec`), `Starts`, `Refused`, `Exits`, `Closes` |
| `cluster_copy`, `batched_cluster_copy` | `BatchedClusterCopy`, `ClusterCopy`, `ClusterCopyThrows`, `TransferEnds` |
| `launch`, `batched_get_cluster_env_var` | `Init`, `CallBack`, `Answered` |

A step is one callback of node.  `randomBytes` is part of the step that calls
`exec`: other callbacks may run before it, but the command touches nothing until
then, so that a later call of it is the same.  `turn` is a copy that goes on in
the callback that is running; no other step comes before it.  ssh2 is external:
it emits "error" while connecting or from the socket, "close" after a socket has
ended, and `exec` and `sftp` throw on a connection that has ended.

### Score (conductor/score.js)

`CalculateScore` is the function, over files whose lines are records of what the
parser takes them for.  `Correctness`, `Performance` and `Style` are the three
parts, `ValidRubric` is the validation; `CorrectTxt` builds the file that the
Viola writes from the reports of its test classes.  `Init` chooses a rubric and a
submission, `GetScore` is `get_score` with its two queries.  The loops over
failures, lines, files and points are recursive functions from one index to the
next, and the state of a loop is a record.  The module ends with what the code
takes for granted of its inputs and does not validate (`OrdinaryReports`,
`RegularResults`, `NoNegativePoints`): hypotheses of the theorems, which `MCScore`
assumes of the inputs that TLC is given.

### Coursework (conductor/app.js:2596-2766, 3272-3313)

`finals` is `final_runs` with its sequence `lastId`; `visible`, `deadline`,
`reminders` and `flagged` are columns of `assignments`; `request`, `report` and
`deliveries` are handlers between two of their queries.  `user` in a request is
the session's; the row that `InsertFinal` writes has the run's owner, as in the code.
`conductor` says whether the process polls, goes on without a poll, or is down.

| code | actions |
|---|---|
| `POST /mark_final` | `MarkFinal`, `ReadAssignment`, `InsertFinal` |
| `POST /unmark_final` | `UnmarkFinal`, `DeleteFinals` |
| `get_all_final_runs`, `compute_remaining_slip_days_for` | `ShowFinals`, `SelectMax`, `SelectRow`, `Render`; `RemainingSlipDays`, `SlipDays` |
| the reminders of `check_cluster` | `CheckReminders`, `ActiveUsers`, `MassEmail`, `MarkSent` |
| `update_assignment_field` and its callers | `SetVisible`, `UpdateDeadline`, `SetSendReminders` |
| a failed query | `QueryFails`, `ReportFails` |
| a poll that waits for a copy for ever, a crash, a boot | `PollHangs`, `Crash`, `Boot` |

Marking never replaces a row: the last insert counts.  All assignments cost slip
days, and every student has the same page: the admin page shows all of them.

## 4. The runs

Passing:

| run | what it asks | bounds |
|---|---|---|
| `executor` | queues and counter agree, wakeups are not lost, no run is executed twice, a cancelled run is off the pool; queued runs are served, cancels return | 2 workers, 2 cancels at a time, 2 runs of 2 users |
| `fair_share` | the heap loses no user, is in order between picks, serves the least active user, starves nobody | 3 users, 4 recent runs |
| `pipeline` | no run in two places or in none, a run without a message has its files and logs, refinement of `ViolaService`, every run ends while the threads live | 2 runs, one of them refused, 1 worker, both kinds of hosts, any 2 faults |
| `conductor_lifecycle` | refinement of `RunLifecycle`; the poll has the right job | 2 runs, SLURM, 1 fault (query, command, copy, either machine) |
| `conductor_faults` | what final statuses mean, no job for stopped runs, no notification dropped; the poll goes on, submissions settle | 1 run, 1 cancel, 2 handlers, both cluster types, 1 fault (connection, query of the poll, command, copy, mail, either machine), jobs that end well, in time-out or unknown to the poll |
| `cluster_commands` | the table of commands in flight is exact, who may answer twice, a command is sent once, a batch is complete, every call is answered | 1 call, 2 variables at boot, 2 copies, 1 fault (connect, close, error, refused command, refused sftp) |
| `score` | which tests pay, comments account for losses, parts stay in bounds | 5 rubrics, 4 of them invalid; 3 test classes, 4 statuses, 2 core counts, 7 performance and 7 style files |
| `coursework` | final runs change by requests of their own student only, and not when disabled; a page is a snapshot, slip days are the least that do, reminders are mailed and then flagged | 2 students, 4 runs, 1 assignment; 2 requests and a page, or 2 reminders at once; 2 changes by staff, 2 faults (query, mail, flag, copy, crash) |

The type invariant of a module is checked as a conjunct of its first invariant
(`HeapSound`, `OnePlacePerRun`, `OnClusterHasJob`, `InFlightExact`,
`ReportIsSnapshot`); that of `FairExecutor` by itself.

Why the bounds are enough to be of interest: two workers and two cancellers are
the smallest pool in which `notify()` can wake the wrong one of two kinds of
threads while another of each kind sleeps.  With three users the root of the
heap has two children, so a stale root and a stale child differ.  Two jobs for
one run are what a repeated notification or a crash can produce.  Two runs put
two into a list of the pipeline, with one worker busy or one run in a thread.  For the
executor, whatever the bounds, see the proofs.  One fault is enough for a
connection to end while another is made and commands of both are in flight.  Two
requests are a mark and an unmark, or two marks, around a page and a change by
staff.  `coursework` starts either with requests and a reminder that has been
sent or with reminders alone: the two touch the assignments only, and neither
changes them.  The files of `score` vary in two families, one for correctness
and one for the other two parts, because the parts share only status and core
counts; of three classes the first two make every pattern of counts 0, 1 and 2.

Violations, each a disagreement between the code and what it says of itself
(`findings` in `PROJECT.json` quotes the lines):

| run | what happens |
|---|---|
| `stale_interrupt` | the interrupt of a late cancel stays raised and ends the next run of that worker with an internal error |
| `cancelled_run_stuck` | a run cancelled while pending on the Viola is never reported; its row says TESTING CORRECTNESS for ever |
| `callback_twice` | an old connection closes late, fails a command of the new one, and the command's own end calls its callback again |
| `first_failure_twice` | the one failure of a test class is deducted again in place of the first failure of the next class (in the trace after a class without failures; no class runs out of time, which would put a line on stderr and pay nothing at all) |

Other differences between the code and what it says, met while modelling; each is
a behaviour of the model that a property has to except:

* `CommonUtils.java:140`: the log call between two tries has four conversions and
  three arguments and throws: a copy that throws once ends the import or export
  thread instead of being repeated (`ScpImportThrows`, `ScpExportThrows`).
* `FairViolaTaskExecutor.java:79`: the pick that finds that runs have left the
  window polls a heap that is not in order and may serve a more active user
  (`Pick(k)` with k > 0, excepted in `LeastActiveIsServed`).
* `app.js:2226-2243`: a conductor that dies between `sbatch` and the UPDATE is
  notified again and queues a second job; the first is never polled
  (`Crash` before `RecordJob`).
* `app.js:432-443`: a copy is not among the commands that the close of a
  connection fails.  One that is never heard of stops the poll, or a launch with
  the notify thread behind it, until the conductor is restarted (`PollHangs`,
  `CopyHangs`).
* `app.js:459`: on a local cluster an output file that a job did not write, which
  `app.js:3095` means to note as missing, ends the process (`CopyThrows`).
* `ImportFromConductorRunnable.java:119`: an scp that fails without a word leaves
  the empty message, which is what `LocalTestRunner.java:153` posts for a success:
  a run that was never tested is `FINISHED` or goes to the cluster.
* `CommonUtils.java:44-50`: an scp killed at its timeout counts as done; when only
  the configuration of checkstyle is missing, the run is reported as a success.
* `app.js:113-117`: a failed query for the active users is passed on as a second
  argument, and the reminder is flagged though nobody got it (`ActiveUsers`).
* `app.js:252`, `app.js:3357`, `app.js:446`: an error after "ready" runs the boot
  again and ends the process in a second `listen`; the error handler of the boot
  names variables that do not exist; `null.end()` throws in a handler.
* `score.js:537`: a performance test that prints two results is paid twice;
  `score.js:650`: the handler of a failed query throws (`Died`).

What the passing properties except, and why:

* `NotificationNotLost` and `conductor_faults` leave failed queries out: the
  handler then answers with a redirect, which the Viola takes for a success
  (the check of the code is an `assert`, and `deploy.sh:33` does not enable
  assertions).  The run stays in TESTING CORRECTNESS.
* `RunLifecycleHolds` is checked on SLURM and without lost connections.  With
  them a late `viola_trigger_failed`, or two handlers of one run, overwrite a
  status; on a local cluster a row killed at boot is selected again by its
  `job_id` and becomes FINISHED (`app.js:3318-3321`).
* `SuccessIsReal` speaks of runs whose message is null, not of those with the empty
  message of a silent scp, and of the files that the tests need.  It excepts logs
  whose scp was killed at its timeout: such a scp has code 0
  (`CommonUtils.java:49-50`).  `AcceptedRunsEnd` excepts the time
  after a thread has died (of an exception, or waiting for an answer that does
  not come), and speaks of finitely many runs: imports are newest first, so that
  submissions that never stop could pass the oldest one for ever.
* `TwiceOnlyAcross` and `SentOnce` except what `CallbackOnce` and a repeated boot
  show: the close of another connection, and callbacks of a connection that had
  an error after it was ready.
* `PassedTestsPayUnlessLone` excepts classes with one failure that others follow;
  all properties of performance except repeated results (`ResultsOnce`), those of
  correctness tests that fail twice, as a test and its `@After` may.
* `FinishedMeansReported`: a run that the Viola reports with an error is FINISHED
  as well (`app.js:2367`), tested or not.
* `PassedTestsPayUnlessLone`: no test is paid when a class ran out of time: the
  `ERROR:` line of `runInProcess` is on stderr then.
* `FlagMeansMailed` excepts a failed query for the users.  `FrozenWhenDisabled`
  excepts requests that saw the assignment enabled and have a query to go.
  `OutstandingIsMailed` excepts a conductor that is down or has a poll that hangs.
* `PollKeepsGoing` excepts a round that waits for a copy for ever and the time in
  which the process is down; every exit with an error is one of its cases.
* `SubmissionsSettle` excepts runs nobody works on any more: the Viola died with
  them, a cancel dropped them from its queue, or they were never sent because
  the conductor died first; a run whose job ended in a state that the poll
  does not know (`NODE_FAIL`): it is polled for ever; a run with a job when the
  poll hangs; a run whose notification waits for an answer that never comes; and
  every run while the conductor is down (`Stranded`).

## 5. Fairness

* Executor: weak fairness of every worker (`WorkerStep`) and of every canceller
  that was woken.  A started Java thread runs; the processes of a run have
  timeouts, so that its body ends; a thread in contention for the monitor gets
  it.  Nothing makes anybody submit or cancel.
* Fair share: some pick happens while work is pending.
* Pipeline: weak fairness of each thread and of each run's start, tests and
  drop.  Copies, tests and pauses have limits in time; that a pending run is
  started is `QueuedRunsAreServed` and `NobodyStarves`.
* Conductor: weak fairness of each chain, of the Viola's work on each run, of
  its notifications, of the poll and of the jobs.  Node calls the callbacks of
  what completes, timers fire, tests and jobs have time limits.  Faults,
  submissions and cancels have no fairness, and neither have `Boot` (nothing in the
  repository starts a conductor that has ended) nor `TimesOut` (a connection
  without an answer may stay open).  That a command's callback is called is
  `CallsAreAnswered` of `ClusterCommands`.  A copy's callback need not be: the steps
  that wait for copies are fair, but `PollHangs` and `CopyHangs` disable them for
  good, as a fault in a behaviour with finitely many.
* Commands: weak fairness of the callbacks node has to deliver (`Progress`):
  connections get ready or fail, commands exit, sockets that ended are closed.
  Not of copies, which may never be heard of again, nor of calls.
* Coursework: while the conductor polls the poll comes round (`Remind`, from
  `PollKeepsGoing`), queries and mails are answered (`Deliver`).  A poll that hangs
  or a process that is down disables `Remind`, and `Boot` has no fairness; nor have
  requests and staff.

## 6. The proofs

### FairExecutorProofs

It proves, for any finite set of runs and any sets of users,
workers (not empty) and cancellers, from `ExecutorAssumption` alone:

| theorem | property |
|---|---|
| `TypeCorrect` | `TypeOK` of `FairExecutor`; the counter never drops below zero |
| `QueuesAreExact` | `QueuesExact` |
| `RunsAreExclusive` | `OneWorkerPerRun` |
| `NoLostWakeup` | `SomeoneIsAwake` |
| `NoLostCanceller` | `CancellerSleepsOnLiveRun` |
| `CancelMeansOff` | `CancelledIsOffThePool` |
| `RunsMoveOneWay` | `NeverRunTwice`, an action property, from the same invariant |

The inductive invariant `IInv` adds to these properties what their induction
needs.  `QueuesList` is `QueuesExact` in a form the steps can be computed on
(`ListsAppend`, `ListsTail`, `ListsRemoveAt` say what the three list operations
do to duplicate-free lists).  `HeldRunsAreOut` ties the stage of a run in a slot
to its worker's place, without which a worker could take a run another one
holds.  `SleepersLookForWork` says that a worker in the wait set is in
`getPendingTask`.  `CancelledRunIsTracked` says that a canceller's run is in its
worker's slot or already exported, without which nothing follows from an empty
slot.  The heart of `NoLostWakeup`: `notify()` may wake a canceller, but a
canceller sleeps only while a worker holds its run, and that worker is awake
(`SomeoneIsAwakeStep`, from `CancellerSleepsOnLiveRun`).

### RecursiveFunctions and UserPrioritiesProofs

For any set of users and any `MaxWindow` above 0:

| theorem | property |
|---|---|
| `PolicySound` | the inductive invariant `IInv`, which is `HeapSound` and `CountsMatchWindow` |
| `HeapIsSound` | `HeapSound` |
| `CountsAreExact` | `CountsMatchWindow` |
| `LeastActiveServed` | `LeastActiveIsServed`, an action property |
| `SearchAlwaysFinds` | the search of a pick finds a user with pending work (`assert result != null`) |

The invariant is as simple as it looks; all the work is in what a pick does to an
array of any length.  The prover cannot instantiate the induction theorems of its
library, whose parameter is an operator.  `RecursiveFunctions` therefore states, with
sets and functions as its only parameters, what is true of every loop
`f[x] = IF stop(x) THEN result(x) ELSE f[next(x)]` whose rank falls: there is such
a function (`LoopExists`), and from a state in a set that the loop keeps it ends
with a result in the set that its ends lead to (`LoopEnds`), by way of the least
counterexample (`LeastNumber`).  For folds, which `Score` is made of, it has the
same two facts (`FoldExists`, `Upwards`).  Each loop of the model has a lemma that it is
one (`SiftUpEnds`, `SiftDownEnds`, `AddAllEnds`, `PollUserEnds`), and one with its
loop invariant:

* `SiftUpSound`, `SiftDownSound`: the array is rearranged and in order but for the
  place the loop has come to, whose parent is not above its children
  (`OrderedBelow`, `OrderedAbove`); hence `OfferSound` and `AfterPollSound`.
* `AddAllSound`: what is added one by one to a heap gives a heap with both sets of
  users, whatever the order of the rest.
* `PollUserSound`: nobody is lost between the old heap and the users set aside,
  none of whom has pending work and who are a heap.  This needs no order of the
  old heap, which is why the pick that lowered counts in place leaves a sound
  queue; that the user found is least active needs it (`HeadIsLeast`).

`ExpiredCounts` and `OccurrencesSplit` show that what expires is taken off the
counts exactly, by counting the places of a user in the two parts of the window.

### ConductorProofs

For any sets of runs, chains, cancels and jobs, both kinds of cluster, any number
of faults of every kind, and any interleaving of the chains:

| theorem | property |
|---|---|
| `StateSound` | the inductive invariant `IInv`, with the types |
| `OnClusterRunsHaveJobs` | `OnClusterHasJob` |
| `FinishedRunsAreReported` | `FinishedMeansReported` |
| `CancelledRunsWereCancelled` | `CancelledOnlyOnRequest` |
| `StoppedRunsGetNoJob` | `NoJobForStoppedRuns` |
| `NotificationsActedOn` | `NotificationNotLost`, while the database answers |
| `ConductorImplementsRunLifecycle` | `RunLifecycleHolds`, on SLURM and while connections hold |

A row says little by itself; what makes its status true is spread over the
chains in memory, the Viola and the jobs.  So `IInv` says what each of them
stands for while it waits: `RowsFirst` and `CancelsFlagged` what the Viola may
know of a run, `HandlersSound` that a chain of `/local_run_finished` has a run
which the Viola has let go, and from its copy on one that is to go to the
cluster, with the job it holds; `JobsWanted` that every job is of such a run;
`RowsSound` that the job in a row is of its run; `PollSound` that what a round of
the poll has read is still true when the run's turn comes, which is where a job
that ends, a crash or a second handler could make it stale.

`NotificationsActedOn` assumes `"database" \notin FaultKinds`, for the redirect
after a failed query that section 4 excepts; `ConductorImplementsRunLifecycle`
assumes `SlurmConnected`, the two exceptions of `RunLifecycleHolds`.  For the
refinement `RInv` says who owns a row: `OneChainPerRun` (the only chain of a run
in TESTING CORRECTNESS is the one the Viola waits for), `FailuresUnsent` (a
submission that may still fail is of a run the Viola never got), `PollOwnsRuns`
(only the poll touches a run on the cluster, and has it once), `DownMeansIdle` (no
chain outlives the process).  `RowSteps` finds
the one part of each step that writes a row, `LifecycleStep` maps it.

### ViolaPipelineProofs

For any runs and hosts, any number of workers, tries and faults, threads that
die included:

| theorem | property |
|---|---|
| `PipelineSound` | the inductive invariant `IInv`, with the types |
| `RunsHaveOnePlace` | `OnePlacePerRun` |
| `ReportedSuccessIsReal` | `SuccessIsReal` |
| `PipelineImplementsService` | `ImplementsService`, the refinement of `ViolaService` |

A run can be at eight places (`PlaceNames`): three queues, three threads, the
pending and the running runs of the executor.  `PlacesSound` says that a run
which is inside is at exactly one and no other run is at any; `ListsSound` that
no queue has a run twice, without which taking one would leave one behind;
`MessagesSound` what a run whose message is null has gone through by the place it is
at (a run with the empty message may have gone through nothing).  Every step moves at most one run, from a place to another, in or out
(`Moves`), and `MoveKeeps` shows once that this preserves the three.  The
refinement needs no more: the stage of `ViolaService` is a function of the place
(`StageOf`), and a move from one place to the next is a step of the service or
none (`Advances`).

### ClusterCommandsProofs

For any commands, variables, files, connections and faults, from
`CommandsAssumption` alone (names differ, lists are not empty and do not repeat):

| theorem | property |
|---|---|
| `CommandsSound` | the inductive invariant `IInv`, with the types |
| `TableIsExact` | `InFlightExact` |
| `TwiceIsAcross` | `TwiceOnlyAcross` |
| `CommandsSentOnce` | `SentOnce` |
| `BatchesComplete` | `BatchComplete` |

Node runs one callback at a time, but what a call, the boot or a batch waits for
is in one of many forms: a connection being made for it, a session asked for, a
command to be run again, a try in flight, a copy under way.  Each form is a
token, and `CallsOnce`, `BootOnce` and `BatchOnce` say that there is at most one
token for each call, for the boot and for the batch.  A step hands a token on
(`OneMoves`) or leaves it where it is (`Passes`, `OnePasses`); only an error of a
connection that was ready makes a second one, and then the callback it was made
for is in `reran`.  With one token an order follows: `BootInOrder` (the variables
from the one asked for on have not been tried) and `BatchInOrder` (the file that
has its turn follows the results).  `SentOnce` and `BatchComplete` are read off
them.  `TableExact` and `AnswersSound` are the table and what an answer says of
its try: that its connection has closed, or that it came to its end, so that the
same cannot be said again.  `TableBecomes` and `TableGrows` compute what an
assignment to `conns` or `tries` does to every other name.

### CourseworkProofs

For any sets of students, runs and assignments, any number of requests, reminders,
edits and faults, and the assumption `CourseworkAssumption` on the columns:

| theorem | property |
|---|---|
| `OwnFinals` | `OwnFinalsOnly`, an action property |
| `PagesAreSnapshots` | `ReportIsSnapshot`, with the types |
| `FlagsMeanMails` | `FlagMeansMailed` |
| `FinalsFrozen` | `FrozenWhenDisabled`, an action property |
| `SlipDaysLeft` | `SlipDaysAreLeast` |

`IInv` adds four parts.  `RequestsSound`: a request that is about to write has
passed every check, of a run that does not change; its session's user is the run's
owner, whom the row gets, which is what `OwnFinals` needs (`OwnStep`).  `IdsAreNew`: no row has a number
above that of the sequence, so that an insert never gives an old number again.
`ReportSound` is the heart of `PagesAreSnapshots`: whatever is deleted or inserted
while a page is put together, each number of the snapshot is that of the same row
or of no row, and the rows fetched are those whose numbers have been dealt
with; a page is rendered when none is left.  `RemindersSound`: what is about to
be flagged was mailed.  `FinalsFrozen` needs no more than that a request which
writes has seen its assignment enabled (`FrozenStep`).  `SlipDaysLeft` is arithmetic
on top of `ReportSound`: the division that rounds up is the least number of days
for any time and deadline (`CeilingBounds`, `SlipDaysLeast`), so both sums run over
the same rows with the same summands and are the same recursive function; nothing
has to be known about what the sum computes.

### ScoreProofs

For any rubrics and any log files, from `ScoreAssumption` (the lists of an uploaded
rubric are lists, its points are integers) and `FileAssumption`:

| theorem | property | hypotheses |
|---|---|---|
| `LossesAreExplained` | `LossesExplained` | none |
| `ResultsArePaid` | `ResultsPay` | `RegularResults` |
| `PassedTestsArePaid` | `PassedTestsPayUnlessLone` | `OrdinaryReports` |
| `PartsAreInBounds` | `PartsInBounds` | all three |

The hypotheses say what the code does not validate.  `OrdinaryReports`: a
correctness test is in its rubric once and fails in one class (the code compares
the name with that of the class in front), and nobody prints the header of the
stderr section.  `RegularResults`: a performance test is in its rubric once for so
many cores, its intervals begin at 0 or above and end above 0 or never, and times
are not negative.  `NoNegativePoints`: of the points only those of correctness
tests are validated.  That a failure or a result is printed once, and that no lone
failure is followed by others, are conditions of the properties: the findings
show what happens without them.

A score is computed in one step, so the invariant (`ScoreSound`) is simple, and
the work is in the loops.  The conclusions are sums, which the provers cannot
unfold: `SumOfBoth`, `SumOfRest`, `SumChanged` and `SumAtMost` say what
concatenation, removal, replacement and comparison do to them, `FlattenOfBoth` and
`FlattenFolds` the same for `FlattenSeq`.

* `LossesAreExplained`: points given, points taken off and the points of the tests
  in `graded` add up to the total after every line (`Balanced`).  It needs that the
  test found in the rubric is the one that leaves `graded` (`Same`, `RestHasSame`):
  true as long as no test has two results.
* `ResultsArePaid`: points given and what the tests in `graded` are still to be
  paid are what all tests are paid (`Paid`); in the end nothing in `graded` has a
  result (`Cleared`), and the rest of the sum is 0.
* `PassedTestsArePaid`: the search for the next "n) " goes on at the line it found
  last.  `Path` is the way it takes through some lines; behind its end every
  failure has the number of the last one found, so that the first failure of the
  next report is not taken for one already found unless it has that number
  (`FailuresRead`); that is the case of `LoneFailureFollowed`.  A class out of time
  puts a line on stderr, where nothing is searched (`QuietStderr`).  `ReadUpTo`, which
  says that the text of the first classes is read and that the failures found are
  theirs, is inductive over the classes (`NextClassRead`, by a report with or
  without failures or by none).  The rest: only what follows the header counts as
  stderr (`StderrEmpty`), and each failure takes off what its test is worth, as no
  test fails twice (`PathLosses`).
* `PartsAreInBounds`: with every failure and every result counted once, a test pays
  at least 0 and at most what it is worth, and sums of such points compare
  (`WorthWithoutInBounds`, `PerformanceInBounds`).

### Only model-checked

* Liveness, which the prover does not reach: `QueuedRunsAreServed`,
  `CancelReturns`, `NobodyStarves`, `AcceptedRunsEnd`, `SubmissionsSettle`,
  `PollKeepsGoing`, `CallsAreAnswered`, `OutstandingIsMailed`.
* The four findings: a violation is a trace of one instance.

## 7. Not modelled

The generated Cello script (text), the result columns of `runs`, accounts,
assignment administration and pages (forms and rendering around single queries),
the maintenance scripts (one statement each), vendored code and examples.  Bass
is in the plan.  Of the final runs, `get_final_run_for` (one query of the run
page), `update_slip_days` and `costs_slip_days` are left out; of scoring, labels
and `cello_err`, which are displayed.  On the local machine, where every command
is a process and every copy is done at once, nothing is shared, and
`ClusterCommands` leaves it out.
The content of files is left out everywhere: what is modelled is whether they
have arrived.  In `Conductor` a thread of the Viola that dies takes one run with
it and the others are served on; that all later ones are stuck is in
`ViolaPipeline`.
