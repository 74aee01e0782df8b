---------------------------- MODULE FairExecutor ----------------------------
(***************************************************************************)
(* The Viola's thread pool, viola/FairViolaTaskExecutor.java: a monitor    *)
(* shared by the import thread (execute), the pool's workers (ViolaRunner) *)
(* and the HTTP threads that handle /cancel (cancel).  All of them wait on *)
(* one condition, the monitor of the executor itself.                      *)
(*                                                                         *)
(* A synchronized block is one step, up to a wait() in it.  LocalTestRunner*)
(* .run is cut at the two points that matter to its cancellation: the end  *)
(* of its body and the read of beingCancelled in its finally.  Which user  *)
(* is served next is left open here (any user with pending work); the      *)
(* policy is the module UserPriorities.                                    *)
(***************************************************************************)
EXTENDS Integers, SequencesExt

CONSTANTS
    Runs,        \* the LocalTestRunner objects, each known by its done_token
    Users,
    UserOf,      \* the user who submitted a run
    Workers,     \* the indices tid of workerThreads and runningTasks
    Cancellers,  \* the HTTP threads that may be inside cancel()
    NoRun        \* null

ASSUME ExecutorAssumption ==
    /\ Runs # {} /\ IsFiniteSet(Runs)
    /\ UserOf \in [Runs -> Users]
    /\ Workers # {} /\ Workers \cap Cancellers = {}
    /\ NoRun \notin Runs

VARIABLES
    pendingTasks,    \* per user, the FIFO of runs waiting for a worker
    nPending,        \* the counter the workers wait on
    runningTasks,    \* per worker, the run it has taken
    interrupted,     \* per worker, its thread's interrupt flag
    workerPc,        \* get: in getPendingTask; body, finally: in run(); done
    waitSet,         \* threads inside this.wait() that nobody has notified
    cancelling,      \* per canceller, the run and worker it waits for
    stage,           \* where a run is referenced from
    beingCancelled,  \* LocalTestRunner.beingCancelled
    errMsg,          \* LocalTestRunner.errMsg
    replies          \* history: what cancel() has answered about a run

executorVars == <<pendingTasks, nPending, runningTasks, waitSet>>
runVars == <<stage, beingCancelled, errMsg>>
vars == <<executorVars, interrupted, workerPc, cancelling, runVars, replies>>

Threads == Workers \cup Cancellers

(* new: not yet handed over by the import thread; exported: in toExport;   *)
(* removed: taken out of pendingTasks by a cancel.                         *)
Stages == {"new", "queued", "running", "exported", "removed"}

(* "" stands for null; "tests" for any message of a TestRunnerException.   *)
ErrMsgs == {"", "tests", "internal", "cancelled"}

NotCancelling == [run |-> NoRun, worker |-> NoRun]

TypeOK ==
    /\ pendingTasks \in [Users -> Seq(Runs)]
    /\ nPending \in Nat
    /\ runningTasks \in [Workers -> Runs \cup {NoRun}]
    /\ interrupted \in [Workers -> BOOLEAN]
    /\ workerPc \in [Workers -> {"get", "body", "finally", "done"}]
    /\ waitSet \in SUBSET Threads
    /\ cancelling \in [Cancellers ->
                          [run : Runs, worker : Workers] \cup {NotCancelling}]
    /\ stage \in [Runs -> Stages]
    /\ beingCancelled \in [Runs -> BOOLEAN]
    /\ errMsg \in [Runs -> ErrMsgs]
    /\ replies \in [Runs -> SUBSET BOOLEAN]

Init ==
    /\ pendingTasks = [u \in Users |-> << >>]
    /\ nPending = 0
    /\ runningTasks = [w \in Workers |-> NoRun]
    /\ interrupted = [w \in Workers |-> FALSE]
    /\ workerPc = [w \in Workers |-> "get"]
    /\ waitSet = {}
    /\ cancelling = [c \in Cancellers |-> NotCancelling]
    /\ stage = [r \in Runs |-> "new"]
    /\ beingCancelled = [r \in Runs |-> FALSE]
    /\ errMsg = [r \in Runs |-> ""]
    /\ replies = [r \in Runs |-> {}]

-----------------------------------------------------------------------------
(* The parts of the synchronized blocks.  Faulty variants of the           *)
(* definitions they precede end in an underscore; they are there to show   *)
(* that a property notices the fault.                                      *)

(* this.notify(): one waiting thread, whichever of the two kinds it is.    *)
NotifyNobody_ == UNCHANGED waitSet
Notify ==
    IF waitSet = {} THEN waitSet' = waitSet
                    ELSE \E t \in waitSet : waitSet' = waitSet \ {t}

NotifyOne_ == Notify
NotifyAll == waitSet' = {}

Uncounted_ == UNCHANGED nPending
CountUp == nPending' = nPending + 1
CountDown == nPending' = nPending - 1

PeekTask_(u) == UNCHANGED pendingTasks
PollTask(u) == pendingTasks' = [pendingTasks EXCEPT ![u] = Tail(@)]

-----------------------------------------------------------------------------
(* The import thread.                                                      *)

Execute(r) ==
    /\ stage[r] = "new"
    /\ pendingTasks' = [pendingTasks EXCEPT ![UserOf[r]] = Append(@, r)]
    /\ CountUp
    /\ stage' = [stage EXCEPT ![r] = "queued"]
    /\ Notify
    /\ UNCHANGED <<runningTasks, interrupted, workerPc, cancelling,
                   beingCancelled, errMsg, replies>>

-----------------------------------------------------------------------------
(* A worker of the pool.                                                   *)

(* A thread is in control when it has the monitor: it never waited, or it  *)
(* was notified and has left the wait set.                                 *)
InGet(w) == workerPc[w] = "get" /\ w \notin waitSet

(* wait() with a raised interrupt flag throws at once and lowers the flag; *)
(* the loop swallows the exception and tests nPending again.               *)
Wait(w) ==
    /\ InGet(w)
    /\ nPending = 0
    /\ IF interrupted[w]
         THEN interrupted' = [interrupted EXCEPT ![w] = FALSE] /\ UNCHANGED waitSet
         ELSE waitSet' = waitSet \cup {w} /\ UNCHANGED interrupted
    /\ UNCHANGED <<pendingTasks, nPending, runningTasks, workerPc, cancelling,
                   runVars, replies>>

Take(w, u) ==
    /\ InGet(w)
    /\ nPending # 0
    /\ pendingTasks[u] # << >>
    /\ runningTasks' = [runningTasks EXCEPT ![w] = Head(pendingTasks[u])]
    /\ stage' = [stage EXCEPT ![Head(pendingTasks[u])] = "running"]
    /\ PollTask(u)
    /\ CountDown
    /\ workerPc' = [workerPc EXCEPT ![w] = "body"]
    /\ UNCHANGED <<waitSet, interrupted, cancelling, beingCancelled, errMsg,
                   replies>>

(* The try block of LocalTestRunner.run ends by itself (success, or an     *)
(* error of the submission).  An interrupt flag raised after the last      *)
(* Thread.sleep of the body is still up.                                   *)
BodyEnds(w) ==
    /\ workerPc[w] = "body"
    /\ \E msg \in {"", "tests"} :
          errMsg' = [errMsg EXCEPT ![runningTasks[w]] = msg]
    /\ workerPc' = [workerPc EXCEPT ![w] = "finally"]
    /\ UNCHANGED <<executorVars, interrupted, cancelling, stage,
                   beingCancelled, replies>>

(* The try block ends on a Throwable: the InterruptedException of a sleep  *)
(* in runInProcess, which lowers the flag.                                 *)
BodyInterrupted(w) ==
    /\ workerPc[w] = "body"
    /\ interrupted[w]
    /\ interrupted' = [interrupted EXCEPT ![w] = FALSE]
    /\ errMsg' = [errMsg EXCEPT ![runningTasks[w]] = "internal"]
    /\ workerPc' = [workerPc EXCEPT ![w] = "finally"]
    /\ UNCHANGED <<executorVars, cancelling, stage, beingCancelled, replies>>

(* The finally block of run: the cancel flag is read outside the monitor,  *)
(* then the run goes to the export queue.                                  *)
BodyFinally(w) ==
    /\ workerPc[w] = "finally"
    /\ LET r == runningTasks[w] IN
         /\ errMsg' = IF beingCancelled[r]
                        THEN [errMsg EXCEPT ![r] = "cancelled"] ELSE errMsg
         /\ stage' = [stage EXCEPT ![r] = "exported"]
    /\ workerPc' = [workerPc EXCEPT ![w] = "done"]
    /\ UNCHANGED <<executorVars, interrupted, cancelling, beingCancelled,
                   replies>>

(* The finally block of ViolaRunner.run, notifyAll included.               *)
Finish(w) ==
    /\ workerPc[w] = "done"
    /\ runningTasks' = [runningTasks EXCEPT ![w] = NoRun]
    /\ NotifyAll
    /\ workerPc' = [workerPc EXCEPT ![w] = "get"]
    /\ UNCHANGED <<pendingTasks, nPending, interrupted, cancelling, runVars,
                   replies>>

-----------------------------------------------------------------------------
(* cancel(done_token), on an HTTP thread.                                  *)

Idle(c) == cancelling[c] = NotCancelling

Pending(r) == \E u \in Users : r \in ToSet(pendingTasks[u])

Reply(r, answer) == replies' = [replies EXCEPT ![r] = @ \cup {answer}]

CancelPending(c, r) ==
    /\ Idle(c)
    /\ \E u \in Users : \E i \in DOMAIN pendingTasks[u] :
          /\ pendingTasks[u][i] = r
          /\ pendingTasks' = [pendingTasks EXCEPT ![u] = RemoveAt(@, i)]
    /\ CountDown
    /\ stage' = [stage EXCEPT ![r] = "removed"]
    /\ Reply(r, TRUE)
    /\ UNCHANGED <<runningTasks, waitSet, interrupted, workerPc, cancelling,
                   beingCancelled, errMsg>>

(* The running task is flagged, its worker interrupted, and the handler    *)
(* waits on the monitor until the worker has dropped the run.              *)
CancelRunning(c, r, w) ==
    /\ Idle(c)
    /\ ~ Pending(r)
    /\ runningTasks[w] = r
    /\ beingCancelled' = [beingCancelled EXCEPT ![r] = TRUE]
    /\ interrupted' = [interrupted EXCEPT ![w] = TRUE]
    /\ cancelling' = [cancelling EXCEPT ![c] = [run |-> r, worker |-> w]]
    /\ waitSet' = waitSet \cup {c}
    /\ UNCHANGED <<pendingTasks, nPending, runningTasks, workerPc, stage,
                   errMsg, replies>>

CancelUnknown(c, r) ==
    /\ Idle(c)
    /\ ~ Pending(r)
    /\ \A w \in Workers : runningTasks[w] # r
    /\ Reply(r, FALSE)
    /\ UNCHANGED <<executorVars, interrupted, workerPc, cancelling, runVars>>

(* A notified canceller tests its loop condition again.                    *)
AssumedDropped_(c) == FALSE
StillHeld(c) == runningTasks[cancelling[c].worker] = cancelling[c].run

CancelResumes(c) ==
    /\ ~ Idle(c)
    /\ c \notin waitSet
    /\ IF StillHeld(c)
         THEN waitSet' = waitSet \cup {c} /\ UNCHANGED <<cancelling, replies>>
         ELSE /\ cancelling' = [cancelling EXCEPT ![c] = NotCancelling]
              /\ Reply(cancelling[c].run, TRUE)
              /\ UNCHANGED waitSet
    /\ UNCHANGED <<pendingTasks, nPending, runningTasks, interrupted, workerPc,
                   runVars>>

-----------------------------------------------------------------------------

WorkerStep(w) ==
    \/ Wait(w)
    \/ \E u \in Users : Take(w, u)
    \/ BodyEnds(w)
    \/ BodyInterrupted(w)
    \/ BodyFinally(w)
    \/ Finish(w)

CancelStep(c) ==
    \/ \E r \in Runs : CancelPending(c, r)
    \/ \E r \in Runs, w \in Workers : CancelRunning(c, r, w)
    \/ \E r \in Runs : CancelUnknown(c, r)
    \/ CancelResumes(c)

Next ==
    \/ \E r \in Runs : Execute(r)
    \/ \E w \in Workers : WorkerStep(w)
    \/ \E c \in Cancellers : CancelStep(c)

(* A started thread keeps running: a run's processes are bounded by their  *)
(* timeouts, so its body ends, and a thread that has been notified gets    *)
(* the monitor.  Nobody has to submit or to cancel.                        *)
Fairness ==
    /\ \A w \in Workers : WF_vars(WorkerStep(w))
    /\ \A c \in Cancellers : WF_vars(CancelResumes(c))

Spec == Init /\ [][Next]_vars
FairSpec == Spec /\ Fairness

-----------------------------------------------------------------------------
(* Properties.                                                             *)

(* The counter the workers wait on is exact: it counts the queued runs, and*)
(* a run is queued once, under its own user, exactly while it is neither   *)
(* taken nor removed (newPendingTask, getPendingTask, cancel).             *)
QueuesExact ==
    /\ nPending = Cardinality({r \in Runs : stage[r] = "queued"})
    /\ \A u \in Users : \A i \in DOMAIN pendingTasks[u] :
          LET r == pendingTasks[u][i] IN
            /\ UserOf[r] = u
            /\ stage[r] = "queued"
            /\ \A j \in DOMAIN pendingTasks[u] : pendingTasks[u][j] = r => i = j
    /\ \A r \in Runs : stage[r] = "queued" => r \in ToSet(pendingTasks[UserOf[r]])

(* No run is executed by two workers, and the slot a canceller looks at    *)
(* holds a run exactly from getPendingTask to the worker's last finally.   *)
OneWorkerPerRun ==
    /\ \A w \in Workers : (runningTasks[w] = NoRun) <=> (workerPc[w] = "get")
    /\ \A w1, w2 \in Workers :
          runningTasks[w1] = runningTasks[w2] /\ runningTasks[w1] # NoRun => w1 = w2

(* newPendingTask wakes one thread with notify() although cancellers wait  *)
(* on the same monitor, so the wakeup may go to a canceller.  It is never  *)
(* lost for good: work is not pending with every worker asleep.            *)
SomeoneIsAwake ==
    nPending > 0 => \E w \in Workers : w \notin waitSet

(* A canceller sleeps only while the worker it interrupted still holds its *)
(* run: otherwise nobody is left to wake it and the conductor's request    *)
(* hangs.                                                                  *)
CancellerSleepsOnLiveRun ==
    \A c \in Cancellers \cap waitSet :
       ~ Idle(c) /\ StillHeld(c)

(* When cancel has answered true the run is off the pool: neither queued   *)
(* nor in the hands of a worker.                                           *)
CancelledIsOffThePool ==
    \A r \in Runs : TRUE \in replies[r] =>
       /\ stage[r] \in {"removed", "exported"}
       /\ \A w \in Workers : runningTasks[w] # r

(* A run moves one way through the executor: it is not queued again nor    *)
(* run again after it was taken, exported or removed.                      *)
NeverRunTwice ==
    [][\A r \in Runs :
          /\ stage[r] \in {"exported", "removed"} => stage'[r] = stage[r]
          /\ stage[r] = "running" => stage'[r] \in {"running", "exported"}]_vars

(* Every queued run is taken by a worker or removed by a cancel, however   *)
(* the wakeups fall.                                                       *)
QueuedRunsAreServed ==
    \A r \in Runs : stage[r] = "queued" ~> stage[r] # "queued"

(* Every call of cancel returns.                                           *)
CancelReturns ==
    \A c \in Cancellers : ~ Idle(c) ~> Idle(c)

(* "... or by interrupting the thread handling its execution"              *)
(* (FairViolaTaskExecutor.java:115-116): the interrupt of a cancel ends no *)
(* run but the one that is being cancelled.                                *)
InterruptHitsOnlyItsRun ==
    \A r \in Runs : errMsg[r] = "internal" => beingCancelled[r]
=============================================================================
