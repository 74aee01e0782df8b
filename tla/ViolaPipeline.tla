--------------------------- MODULE ViolaPipeline ---------------------------
(***************************************************************************)
(* The Viola as a pipeline (viola/Viola.java and the *Runnable.java):      *)
(*                                                                         *)
(*   /run -> toImport -> import thread -> executor -> toExport             *)
(*        -> export thread -> toNotify -> notify thread -> conductor       *)
(*                                                                         *)
(* The queues are LinkedLists, written here with the head first: add puts a*)
(* run at the tail, push at the head, and every thread polls the tail.     *)
(* There is one thread per stage; the executor between them is abstracted  *)
(* to what FairExecutor promises: pending runs, at most PoolSize held.     *)
(* What a thread does to its run between two queues is seen by nobody else *)
(* and is cut only where the thread may be overtaken.                      *)
(***************************************************************************)
EXTENDS Naturals, Sequences, FiniteSets

CONSTANTS
    Runs, NoRun,
    PoolSize,
    Hosts,        \* conductorHost: subset of {"localhost", "remote"}
    Refused,      \* the runs whose notification is never answered
    FaultKinds,   \* subset of {"disk", "copy", "timeout", "exception",
                  \*            "connection", "silence", "crash"}
    MaxFaults     \* bound

ASSUME PipelineAssumption ==
    /\ NoRun \notin Runs
    /\ PoolSize \in Nat \ {0}
    /\ Hosts \subseteq {"localhost", "remote"}
    /\ Refused \subseteq Runs
    /\ MaxFaults \in Nat

VARIABLES
    toImport, toExport, toNotify,
    importer, exporter, notifier,   \* the three threads: place and run
    pending, body, held,            \* executor: queued runs, runs in run(),
                                    \* runs in a worker's slot
    flagged, errMsg,                \* beingCancelled and errMsg of each run
    here,                           \* which of a run's inputs are on the Viola
    logs,                           \* its log directory, and its logs' copy
    fate,                           \* history: what has become of each run
    faults,
    conductorHost                   \* set at the start

queues == <<toImport, toExport, toNotify>>
threads == <<importer, exporter, notifier>>
executor == <<pending, body, held>>
perRun == <<flagged, errMsg, here, logs>>
vars == <<queues, threads, executor, perRun, fate, faults, conductorHost>>

(* instructor.zip and the POM; the configuration of checkstyle; student.zip.*)
(* Without the second the tests run all the same.                          *)
AssignmentFiles == {"assignment", "checkstyle"}
Inputs == AssignmentFiles \cup {"submission"}
Needed == {"assignment", "submission"}

(* errMsg is null; it is posted as the empty message.                      *)
NoMessage == "null"
ErrMsgs == {NoMessage, "", "error", "cancelled"}
Posted(msg) == IF msg = NoMessage THEN "" ELSE msg

Waiting == [at |-> "waiting", run |-> NoRun]
Dead == [at |-> "dead", run |-> NoRun]
Busy(places) == [at : places, run : Runs] \cup {Waiting, Dead}

TypeOK ==
    /\ \A q \in {toImport, toExport, toNotify} : q \in Seq(Runs)
    /\ importer \in Busy({"reserving", "assignment", "submission"})
    /\ exporter \in Busy({"copying"})
    /\ notifier \in Busy({"posting"})
    /\ pending \subseteq Runs /\ body \subseteq held /\ held \subseteq Runs
    /\ Cardinality(held) <= PoolSize
    /\ flagged \subseteq Runs
    /\ errMsg \in [Runs -> ErrMsgs]
    /\ here \in [Runs -> SUBSET Inputs]
    /\ logs \in [Runs -> {"no directory", "no files", "files", "saved", "cut off"}]
    /\ fate \in [Runs -> {"absent", "inside", "reported", "removed", "lost"}]
    /\ faults \in 0..MaxFaults
    /\ conductorHost \in Hosts

Init ==
    /\ toImport = <<>> /\ toExport = <<>> /\ toNotify = <<>>
    /\ importer = Waiting /\ exporter = Waiting /\ notifier = Waiting
    /\ pending = {} /\ body = {} /\ held = {}
    /\ flagged = {}
    /\ errMsg = [r \in Runs |-> NoMessage]
    /\ here = [r \in Runs |-> {}]
    /\ logs = [r \in Runs |-> "no directory"]
    /\ fate = [r \in Runs |-> "absent"]
    /\ faults = 0
    /\ conductorHost \in Hosts

Fault(kind) ==
    /\ kind \in FaultKinds
    /\ faults < MaxFaults
    /\ faults' = faults + 1

NoFault == UNCHANGED faults

-----------------------------------------------------------------------------
(* LinkedList.                                                             *)

Add(q, r) == Append(q, r)
Push(q, r) == <<r>> \o q
Last(q) == q[Len(q)]
ButLast(q) == SubSeq(q, 1, Len(q) - 1)

Peeked_(q) == q
AfterPollLast(q) == ButLast(q)

(* "error" is "Unable to ..." and the like: any message but the empty one  *)
(* and "Cancelled by user".                                                *)
SetErrMsg(r, msg) == errMsg' = [errMsg EXCEPT ![r] = msg]

-----------------------------------------------------------------------------
(* GET /run.                                                               *)

Accept(r) ==
    /\ fate[r] = "absent"
    /\ fate' = [fate EXCEPT ![r] = "inside"]
    /\ toImport' = Add(toImport, r)
    /\ UNCHANGED <<toExport, toNotify, threads, executor, perRun, faults>>

-----------------------------------------------------------------------------
(* The import thread.                                                      *)

ImportUnchanged == UNCHANGED <<toExport, exporter, notifier, body, held, flagged, logs>>

ImportTake ==
    /\ importer = Waiting
    /\ toImport # <<>>
    /\ importer' = [at |-> "reserving", run |-> Last(toImport)]
    /\ toImport' = AfterPollLast(toImport)
    /\ UNCHANGED <<toNotify, pending, errMsg, here, fate, faults>>
    /\ ImportUnchanged

(* The run has a message: it is reported without being tested, before the  *)
(* runs that wait to be reported; otherwise it goes to the executor.       *)
GiveUp(r, msg) ==
    /\ SetErrMsg(r, msg)
    /\ toNotify' = Add(toNotify, r)
    /\ importer' = Waiting
    /\ UNCHANGED <<toImport, pending, here, fate>>

HandOn(r) ==
    /\ pending' = pending \cup {r}
    /\ importer' = Waiting
    /\ UNCHANGED <<toImport, toNotify, errMsg, fate>>

Arrived(r, files) == here' = [here EXCEPT ![r] = @ \cup files]

(* Two directories are named, then filled: by one copy on this machine,    *)
(* or by two scp's.                                                        *)
ReserveDirs ==
    LET r == importer.run IN
    /\ importer.at = "reserving"
    /\ \/ Fault("disk") /\ GiveUp(r, "error")
       \/ /\ conductorHost = "localhost"
          /\ \/ NoFault /\ Arrived(r, Inputs) /\ HandOn(r)
             \/ Fault("copy") /\ GiveUp(r, "error")
       \/ /\ conductorHost = "remote"
          /\ importer' = [importer EXCEPT !.at = "assignment"]
          /\ NoFault
          /\ UNCHANGED <<toImport, toNotify, pending, errMsg, here, fate>>
    /\ ImportUnchanged

(* What runInProcess makes of an scp.  One that is killed at its timeout   *)
(* has the code 0, as if it had copied everything.                         *)
ScpCode(code, files, copied) ==
    \/ code = 0 /\ copied = files /\ NoFault
    \/ code = 0 /\ copied # files /\ Fault("timeout")
    \/ code # 0 /\ copied # files /\ Fault("copy")

(* The message is what a failed scp wrote on stderr, be it nothing.        *)
ScpAssignment ==
    LET r == importer.run IN
    /\ importer.at = "assignment"
    /\ \E code \in {0, 1}, copied \in SUBSET AssignmentFiles :
          /\ ScpCode(code, AssignmentFiles, copied)
          /\ IF code # 0 THEN \E stderr \in {"", "error"} : GiveUp(r, stderr)
             ELSE /\ Arrived(r, copied)
                  /\ importer' = [importer EXCEPT !.at = "submission"]
                  /\ UNCHANGED <<toImport, toNotify, pending, errMsg, fate>>
    /\ ImportUnchanged

(* The result of the second scp is not kept: the code that is tested is    *)
(* the first one's, which was 0.                                           *)
ScpSubmission ==
    LET r == importer.run IN
    /\ importer.at = "submission"
    /\ \E code \in {0, 1}, copied \in SUBSET {"submission"} :
          /\ ScpCode(code, {"submission"}, copied)
          /\ Arrived(r, copied)
          /\ HandOn(r)
    /\ ImportUnchanged

(* A try of retryUntilSuccess throws.  It is not the last of ten, so the   *)
(* log call for the next one is made; its format asks for an argument more *)
(* than it gets, and its exception ends the thread.                        *)
TryThrows(r, thread) ==
    /\ thread' = Dead
    /\ fate' = [fate EXCEPT ![r] = "lost"]

ScpImportThrows ==
    /\ importer.at \in {"assignment", "submission"}
    /\ Fault("exception")
    /\ TryThrows(importer.run, importer)
    /\ UNCHANGED <<toImport, toNotify, pending, errMsg, here>>
    /\ ImportUnchanged

-----------------------------------------------------------------------------
(* The executor, and GET /cancel.                                          *)

ExecutorUnchanged == UNCHANGED <<toImport, toNotify, threads, here>>

Start(r) ==
    /\ r \in pending
    /\ Cardinality(held) < PoolSize
    /\ pending' = pending \ {r}
    /\ body' = body \cup {r}
    /\ held' = held \cup {r}
    /\ UNCHANGED <<toExport, flagged, errMsg, logs, fate, faults>>
    /\ ExecutorUnchanged

(* LocalTestRunner.run.  Tests need both zips and the POM (it gives up     *)
(* without them), and fill a log directory, unless no name could be had for*)
(* one.                                                                    *)
UncancelledMessages_(r) == {NoMessage, "error"}
Messages(r) ==
    IF r \in flagged THEN {"cancelled"}
    ELSE IF Needed \subseteq here[r] THEN {NoMessage, "error"} ELSE {"error"}

TestsEnd(r) ==
    /\ r \in body
    /\ body' = body \ {r}
    /\ toExport' = Push(toExport, r)
    /\ \E msg \in Messages(r), output \in {"no directory", "no files", "files"} :
          /\ msg = NoMessage => output = "files"
          /\ IF output = "no directory" THEN Fault("disk") ELSE NoFault
          /\ errMsg' = [errMsg EXCEPT ![r] = msg]
          /\ logs' = [logs EXCEPT ![r] = output]
    /\ UNCHANGED <<pending, held, flagged, fate>>
    /\ ExecutorUnchanged

Done(r) == r \in held \ body

Drop(r) ==
    /\ Done(r)
    /\ held' = held \ {r}
    /\ UNCHANGED <<toExport, pending, body, flagged, errMsg, logs, fate, faults>>
    /\ ExecutorUnchanged

CancelQueued(r) ==
    /\ r \in pending
    /\ pending' = pending \ {r}
    /\ fate' = [fate EXCEPT ![r] = "removed"]
    /\ UNCHANGED <<toExport, body, held, flagged, errMsg, logs, faults>>
    /\ ExecutorUnchanged

CancelHeld(r) ==
    /\ r \in held
    /\ flagged' = flagged \cup {r}
    /\ UNCHANGED <<toExport, executor, errMsg, logs, fate, faults>>
    /\ ExecutorUnchanged

-----------------------------------------------------------------------------
(* The export thread.                                                      *)

ExportUnchanged ==
    UNCHANGED <<toImport, importer, notifier, executor, flagged, here>>

(* The log call asks for the path of the log directory before anything     *)
(* looks whether there is one; without one its exception ends the thread.  *)
ExportTake ==
    LET r == Last(toExport) IN
    /\ exporter = Waiting
    /\ toExport # <<>>
    /\ toExport' = AfterPollLast(toExport)
    /\ IF logs[r] = "no directory"
         THEN exporter' = Dead /\ fate' = [fate EXCEPT ![r] = "lost"]
         ELSE exporter' = [at |-> "copying", run |-> r] /\ UNCHANGED fate
    /\ UNCHANGED <<toNotify, errMsg, logs, faults>>
    /\ ExportUnchanged

Silently_(r) == UNCHANGED errMsg
SaveFails(r) == SetErrMsg(r, "error")

(* All files of the run; a failure does not stop the next file.            *)
ExportEnds ==
    LET r == exporter.run IN
    /\ exporter.at = "copying"
    /\ \/ /\ NoFault /\ UNCHANGED errMsg
          /\ logs' = [logs EXCEPT ![r] = IF @ = "files" THEN "saved" ELSE @]
       \/ /\ logs[r] = "files"
          /\ Fault("copy") /\ SaveFails(r) /\ UNCHANGED logs
       \/ /\ logs[r] = "files" /\ conductorHost = "remote"
          /\ Fault("timeout") /\ UNCHANGED errMsg
          /\ logs' = [logs EXCEPT ![r] = "cut off"]
    /\ toNotify' = Push(toNotify, r)
    /\ exporter' = Waiting
    /\ UNCHANGED <<toExport, fate>>
    /\ ExportUnchanged

ScpExportThrows ==
    /\ exporter.at = "copying"
    /\ conductorHost = "remote" /\ logs[exporter.run] = "files"
    /\ Fault("exception")
    /\ TryThrows(exporter.run, exporter)
    /\ UNCHANGED <<toExport, toNotify, errMsg, logs>>
    /\ ExportUnchanged

-----------------------------------------------------------------------------
(* The notify thread.                                                      *)

NotifyUnchanged ==
    UNCHANGED <<toImport, toExport, importer, exporter, executor, perRun>>

NotifyTake ==
    /\ notifier = Waiting
    /\ toNotify # <<>>
    /\ notifier' = [at |-> "posting", run |-> Last(toNotify)]
    /\ toNotify' = AfterPollLast(toNotify)
    /\ UNCHANGED <<fate, faults>>
    /\ NotifyUnchanged

PostAnswered ==
    LET r == notifier.run IN
    /\ notifier.at = "posting"
    /\ r \notin Refused
    /\ notifier' = Waiting
    /\ fate' = [fate EXCEPT ![r] = "reported"]
    /\ UNCHANGED <<toNotify, faults>>
    /\ NotifyUnchanged

(* It goes to the end of the line, and is posted again after a pause.      *)
AtOnce_(r) == toNotify' = Add(toNotify, r)
Later(r) == toNotify' = Push(toNotify, r)

PostFails ==
    LET r == notifier.run IN
    /\ notifier.at = "posting"
    /\ IF r \in Refused THEN NoFault ELSE Fault("connection")
    /\ Later(r)
    /\ notifier' = Waiting
    /\ UNCHANGED fate
    /\ NotifyUnchanged

(* The conductor neither answers nor closes the connection, and there is   *)
(* no timeout: the thread is as good as dead.                              *)
PostHangs ==
    /\ notifier.at = "posting"
    /\ Fault("silence")
    /\ notifier' = Dead
    /\ fate' = [fate EXCEPT ![notifier.run] = "lost"]
    /\ UNCHANGED toNotify
    /\ NotifyUnchanged

-----------------------------------------------------------------------------
(* The process dies with all it knows, and is started again.               *)

Crash ==
    /\ Fault("crash")
    /\ toImport' = <<>> /\ toExport' = <<>> /\ toNotify' = <<>>
    /\ importer' = Waiting /\ exporter' = Waiting /\ notifier' = Waiting
    /\ pending' = {} /\ body' = {} /\ held' = {}
    /\ fate' = [r \in Runs |-> IF fate[r] = "inside" THEN "lost" ELSE fate[r]]
    /\ UNCHANGED perRun

ImportStep == ImportTake \/ ReserveDirs \/ ScpAssignment \/ ScpSubmission
ExportStep == ExportTake \/ ExportEnds
NotifyStep == NotifyTake \/ PostAnswered \/ PostFails
Throws == ScpImportThrows \/ ScpExportThrows \/ PostHangs

Step ==
    \/ ImportStep \/ ExportStep \/ NotifyStep \/ Throws \/ Crash
    \/ \E r \in Runs :
          \/ Accept(r)
          \/ Start(r) \/ TestsEnd(r) \/ Drop(r)
          \/ CancelQueued(r) \/ CancelHeld(r)

Next == Step /\ UNCHANGED conductorHost

Spec == Init /\ [][Next]_vars

(* The threads run: copies, tests and the pause have limits in time.       *)
Fairness ==
    /\ WF_vars(ImportStep /\ UNCHANGED conductorHost)
    /\ WF_vars(ExportStep /\ UNCHANGED conductorHost)
    /\ WF_vars(NotifyStep /\ UNCHANGED conductorHost)
    /\ \A r \in Runs :
          /\ WF_vars(Start(r) /\ UNCHANGED conductorHost)
          /\ WF_vars(TestsEnd(r) /\ UNCHANGED conductorHost)
          /\ WF_vars(Drop(r) /\ UNCHANGED conductorHost)

FairSpec == Spec /\ Fairness

-----------------------------------------------------------------------------
(* The abstraction the conductor's model is built on.                      *)

In(r, q) == \E i \in 1..Len(q) : q[i] = r

Stage(r) ==
    CASE fate[r] # "inside" -> fate[r]
      [] In(r, toImport) \/ importer.run = r -> "importing"
      [] r \in pending -> "queued"
      [] r \in body -> "running"
      [] In(r, toExport) \/ exporter.run = r -> "exporting"
      [] OTHER -> "reporting"

Service == INSTANCE ViolaService WITH
    viola <- [r \in Runs |-> Stage(r)],
    report <- [r \in Runs |-> Posted(errMsg[r])]

(* Queues, threads, retries and deaths of threads included, the Viola is   *)
(* the service that Conductor assumes: every run goes through the stages in*)
(* their order and its message is that of the service.                     *)
ImplementsService == Service!ViolaSpec

(* The runs at hand in the lists, the threads and the executor.            *)
Occurrences(r, q) == Cardinality({i \in 1..Len(q) : q[i] = r})
Hands(r) == Cardinality({t \in {<<1, importer>>, <<2, exporter>>, <<3, notifier>>} :
                            t[2].run = r})
Places(r) ==
    Occurrences(r, toImport) + Occurrences(r, toExport) + Occurrences(r, toNotify)
      + Hands(r) + Cardinality({r} \cap pending) + Cardinality({r} \cap body)

(* A run that is inside is in exactly one list or hand, and no other run is*)
(* in any: a run handed on is let go, a failed notification puts it back,  *)
(* and nothing is posted for a run that a cancel has removed.              *)
OnePlacePerRun ==
    /\ TypeOK
    /\ \A r \in Runs : Places(r) = IF fate[r] = "inside" THEN 1 ELSE 0

(* "Indicate that the conductor should be notified that the results for    *)
(* this Viola run have been copied back" (ExportToConductorRunnable:86): a *)
(* run reported without a message was tested with the files its tests need *)
(* and has its logs on the conductor, unless their scp was cut off at its  *)
(* timeout.  Not so one with the empty message, which looks the same to the*)
(* conductor: an scp that failed without a word has left it untested.      *)
SuccessIsReal ==
    \A r \in Runs : fate[r] = "reported" /\ errMsg[r] = NoMessage =>
       Needed \subseteq here[r] /\ logs[r] \in {"saved", "cut off"}

ThreadsLive == Dead \notin {importer, exporter, notifier}

(* Every run is reported, removed or lost in the end, as long as no thread *)
(* has died: a newer run passes an older one only on import, and a run that*)
(* cannot be reported does not hold up the others.                         *)
AcceptedRunsEnd ==
    \A r \in Runs \ Refused :
       fate[r] = "inside" ~> fate[r] # "inside" \/ ~ThreadsLive
=============================================================================
