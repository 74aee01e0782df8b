------------------------- MODULE FairExecutorProofs -------------------------
(***************************************************************************)
(* The safety of FairExecutor for any number of runs, users, workers and   *)
(* cancels at a time, by one inductive invariant.                          *)
(***************************************************************************)
EXTENDS FairExecutor, FiniteSetTheorems, SequenceTheorems, TLAPS

-----------------------------------------------------------------------------
(* A queue q lists a set S of runs: it holds each of them once.            *)

Lists(q, S) ==
    /\ \A i, j \in DOMAIN q : q[i] = q[j] => i = j
    /\ \A r : r \in S <=> \E i \in DOMAIN q : q[i] = r

(* Appending a new run, as newPendingTask does.                            *)
LEMMA ListsAppend ==
    ASSUME NEW q \in Seq(Runs), NEW S, Lists(q, S), NEW r \in Runs, r \notin S
    PROVE  Lists(Append(q, r), S \cup {r})
<1> DEFINE more == Append(q, r)
<1>1. /\ DOMAIN q = 1 .. Len(q) /\ DOMAIN more = 1 .. Len(q) + 1 /\ Len(q) \in Nat
      /\ \A i \in 1 .. Len(q) : more[i] = q[i]
      /\ more[Len(q) + 1] = r
  OBVIOUS
<1> HIDE DEF more
<1>2. \A i \in 1 .. Len(q) : q[i] \in S
  BY <1>1 DEF Lists
<1>3. \A i, j \in DOMAIN more : more[i] = more[j] => i = j
  BY <1>1, <1>2 DEF Lists
<1>4. ASSUME NEW s \in S PROVE \E i \in DOMAIN more : more[i] = s
  BY <1>1 DEF Lists
<1>5. ASSUME NEW i \in DOMAIN more PROVE more[i] \in S \cup {r}
  BY <1>1, <1>2
<1>6. \E i \in DOMAIN more : more[i] = r
  BY <1>1
<1> QED  BY <1>3, <1>4, <1>5, <1>6 DEF Lists, more

(* Removing the head, as getPendingTask does.                              *)
LEMMA ListsTail ==
    ASSUME NEW q \in Seq(Runs), NEW S, Lists(q, S), q # << >>
    PROVE  Head(q) \in S /\ Lists(Tail(q), S \ {Head(q)})
<1> DEFINE rest == Tail(q)
<1>1. Head(q) = q[1] /\ 1 \in DOMAIN q /\ Len(q) \in Nat /\ DOMAIN q = 1 .. Len(q)
  OBVIOUS
<1>2. /\ DOMAIN rest = 1 .. Len(q) - 1
      /\ \A i \in 1 .. Len(q) - 1 : rest[i] = q[i + 1]
  OBVIOUS
<1> HIDE DEF rest
<1>3. \A i, j \in DOMAIN rest : rest[i] = rest[j] => i = j
  BY <1>1, <1>2 DEF Lists
<1>4. ASSUME NEW i \in DOMAIN rest PROVE rest[i] \in S \ {q[1]}
  BY <1>1, <1>2 DEF Lists
<1>5. ASSUME NEW s \in S \ {q[1]} PROVE \E i \in DOMAIN rest : rest[i] = s
  <2> PICK i \in DOMAIN q : q[i] = s
    BY DEF Lists
  <2> i - 1 \in DOMAIN rest /\ rest[i - 1] = s
    BY <1>1, <1>2
  <2> QED  OBVIOUS
<1> QED  BY <1>1, <1>3, <1>4, <1>5 DEF Lists, rest

(* RemoveAt closes the gap: what stood behind the element moves forward.   *)
LEMMA RemoveAtProperties ==
    ASSUME NEW q \in Seq(Runs), NEW k \in DOMAIN q
    PROVE  /\ RemoveAt(q, k) \in Seq(Runs)
           /\ Len(RemoveAt(q, k)) = Len(q) - 1
           /\ \A i \in 1 .. Len(q) - 1 :
                 RemoveAt(q, k)[i] = IF i < k THEN q[i] ELSE q[i + 1]
<1> DEFINE before == SubSeq(q, 1, k - 1)
           behind == SubSeq(q, k + 1, Len(q))
<1>1. /\ before \in Seq(Runs) /\ Len(before) = k - 1
      /\ \A i \in 1 .. k - 1 : before[i] = q[i]
  OBVIOUS
<1>2. /\ behind \in Seq(Runs) /\ Len(behind) = Len(q) - k
      /\ \A i \in 1 .. Len(q) - k : behind[i] = q[k + i]
  OBVIOUS
<1>3. RemoveAt(q, k) = before \o behind
  BY DEF RemoveAt
<1>4. Len(q) \in Nat /\ k \in 1 .. Len(q)
  OBVIOUS
<1> HIDE DEF before, behind
<1>5. before \o behind \in Seq(Runs) /\ Len(before \o behind) = Len(q) - 1
  BY <1>1, <1>2, <1>4
<1>6. ASSUME NEW i \in 1 .. Len(q) - 1
      PROVE  (before \o behind)[i] = IF i < k THEN q[i] ELSE q[i + 1]
  <2>1. (before \o behind)[i] = IF i <= Len(before) THEN before[i]
                                                   ELSE behind[i - Len(before)]
    BY <1>1, <1>2, <1>4
  <2> QED  BY <2>1, <1>1, <1>2, <1>4
<1> QED  BY <1>3, <1>5, <1>6

(* Removing an element in the middle, as cancel does.                      *)
LEMMA ListsRemoveAt ==
    ASSUME NEW q \in Seq(Runs), NEW S, Lists(q, S), NEW k \in DOMAIN q
    PROVE  Lists(RemoveAt(q, k), S \ {q[k]})
<1> DEFINE rest == RemoveAt(q, k)
<1>1. /\ rest \in Seq(Runs) /\ Len(rest) = Len(q) - 1
      /\ \A i \in 1 .. Len(q) - 1 : rest[i] = IF i < k THEN q[i] ELSE q[i + 1]
  BY RemoveAtProperties
<1> HIDE DEF rest
<1>2. ASSUME NEW i \in DOMAIN rest, NEW j \in DOMAIN rest, rest[i] = rest[j]
      PROVE  i = j
  <2> DEFINE Old(n) == IF n < k THEN n ELSE n + 1
  <2>1. Old(i) \in DOMAIN q /\ Old(j) \in DOMAIN q
    BY <1>1
  <2>2. q[Old(i)] = q[Old(j)]
    BY <1>1, <1>2
  <2>3. Old(i) = Old(j)
    BY <2>1, <2>2 DEF Lists
  <2> QED  BY <1>1, <2>3
<1>3. \A i \in DOMAIN q : i # k => \E j \in DOMAIN rest : rest[j] = q[i]
  <2> SUFFICES ASSUME NEW i \in DOMAIN q, i # k
               PROVE  \E j \in DOMAIN rest : rest[j] = q[i]
    OBVIOUS
  <2>1. CASE i < k
    BY <1>1, <2>1
  <2>2. CASE i > k
    <3> i - 1 \in DOMAIN rest /\ rest[i - 1] = q[i]
      BY <1>1, <2>2
    <3> QED  OBVIOUS
  <2> QED  BY <2>1, <2>2
<1>4. \A j \in DOMAIN rest : \E i \in DOMAIN q : i # k /\ q[i] = rest[j]
  <2> SUFFICES ASSUME NEW j \in DOMAIN rest
               PROVE  \E i \in DOMAIN q : i # k /\ q[i] = rest[j]
    OBVIOUS
  <2>1. CASE j < k
    BY <1>1, <2>1
  <2>2. CASE j >= k
    <3> j + 1 \in DOMAIN q /\ j + 1 # k /\ q[j + 1] = rest[j]
      BY <1>1, <2>2
    <3> QED  OBVIOUS
  <2> QED  BY <1>1, <2>1, <2>2
<1> QED  BY <1>2, <1>3, <1>4 DEF Lists, rest

-----------------------------------------------------------------------------
(* The inductive invariant.                                                *)

QueuedOf(u) == {r \in Runs : UserOf[r] = u /\ stage[r] = "queued"}
Queued == {r \in Runs : stage[r] = "queued"}

(* Every list of pendingTasks lists the queued runs of its user.           *)
QueuesList ==
    /\ nPending = Cardinality(Queued)
    /\ \A u \in Users : Lists(pendingTasks[u], QueuedOf(u))

(* What a worker holds is where its program counter says it is.            *)
HeldRunsAreOut ==
    \A w \in Workers : runningTasks[w] # NoRun =>
       stage[runningTasks[w]] = IF workerPc[w] = "done" THEN "exported" ELSE "running"

(* Only a worker that looks for work sleeps.                               *)
SleepersLookForWork ==
    \A w \in Workers \cap waitSet : workerPc[w] = "get"

(* The run a canceller waits for is with the worker it interrupted, or has *)
(* been exported and dropped.                                              *)
CancelledRunIsTracked ==
    \A c \in Cancellers : ~ Idle(c) =>
       \/ StillHeld(c)
       \/ /\ stage[cancelling[c].run] = "exported"
          /\ \A w \in Workers : runningTasks[w] # cancelling[c].run

IInv ==
    /\ TypeOK
    /\ QueuesList
    /\ OneWorkerPerRun
    /\ HeldRunsAreOut
    /\ SleepersLookForWork
    /\ CancellerSleepsOnLiveRun
    /\ CancelledRunIsTracked
    /\ CancelledIsOffThePool
    /\ SomeoneIsAwake

(* The queued runs can be counted: there are finitely many runs.           *)
LEMMA QueuedIsFinite == IsFiniteSet(Queued) /\ Cardinality(Queued) \in Nat
<1>1. IsFiniteSet(Queued)
  BY ExecutorAssumption, FS_Subset DEF Queued
<1> QED  BY <1>1, FS_CardinalityType

(* The lists and the counter say what QueuesExact says of them.            *)
LEMMA ListsAreExact == TypeOK /\ QueuesList => QueuesExact
<1> SUFFICES ASSUME TypeOK, QueuesList PROVE QueuesExact
  OBVIOUS
<1>1. nPending = Cardinality({r \in Runs : stage[r] = "queued"})
  BY DEF QueuesList, Queued
<1>2. ASSUME NEW u \in Users, NEW i \in DOMAIN pendingTasks[u]
      PROVE  LET r == pendingTasks[u][i] IN
                /\ UserOf[r] = u
                /\ stage[r] = "queued"
                /\ \A j \in DOMAIN pendingTasks[u] : pendingTasks[u][j] = r => i = j
  <2>1. Lists(pendingTasks[u], QueuedOf(u))
    BY DEF QueuesList
  <2>2. pendingTasks[u][i] \in QueuedOf(u)
    BY <2>1 DEF Lists
  <2> QED  BY <2>1, <2>2 DEF Lists, QueuedOf
<1>3. ASSUME NEW r \in Runs, stage[r] = "queued"
      PROVE  r \in ToSet(pendingTasks[UserOf[r]])
  <2>1. UserOf[r] \in Users /\ r \in QueuedOf(UserOf[r])
    BY <1>3, ExecutorAssumption DEF QueuedOf
  <2>2. Lists(pendingTasks[UserOf[r]], QueuedOf(UserOf[r]))
    BY <2>1 DEF QueuesList
  <2> QED  BY <2>1, <2>2 DEF Lists, ToSet
<1> QED  BY <1>1, <1>2, <1>3 DEF QueuesExact

-----------------------------------------------------------------------------
(* The three operations on the queues.                                     *)

(* newPendingTask: the new run joins the end of its user's list and the    *)
(* counter goes up by one.                                                 *)
LEMMA ExecuteQueues ==
    ASSUME TypeOK, QueuesList, NEW r \in Runs, Execute(r)
    PROVE  QueuesList'
<1> USE DEF TypeOK
<1>1. UserOf[r] \in Users /\ stage[r] = "new" /\ stage' = [stage EXCEPT ![r] = "queued"]
  BY ExecutorAssumption DEF Execute
<1>2. nPending' = Cardinality(Queued')
  <2>1. Queued' = Queued \cup {r} /\ r \notin Queued
    BY <1>1 DEF Queued
  <2>2. Cardinality(Queued') = Cardinality(Queued) + 1
    BY <2>1, QueuedIsFinite, FS_AddElement
  <2> QED  BY <2>2 DEF QueuesList, Execute, CountUp
<1>3. ASSUME NEW u \in Users PROVE Lists(pendingTasks'[u], QueuedOf(u)')
  <2>1. Lists(pendingTasks[u], QueuedOf(u)) /\ pendingTasks[u] \in Seq(Runs)
    BY DEF QueuesList
  <2>2. CASE u = UserOf[r]
    <3>1. pendingTasks'[u] = Append(pendingTasks[u], r)
      BY <2>2 DEF Execute
    <3>2. QueuedOf(u)' = QueuedOf(u) \cup {r} /\ r \notin QueuedOf(u)
      BY <1>1, <2>2 DEF QueuedOf
    <3> QED  BY <2>1, <3>1, <3>2, ListsAppend
  <2>3. CASE u # UserOf[r]
    <3>1. pendingTasks'[u] = pendingTasks[u]
      BY <1>1, <2>3 DEF Execute
    <3>2. QueuedOf(u)' = QueuedOf(u)
      BY <1>1, <2>3 DEF QueuedOf
    <3> QED  BY <2>1, <3>1, <3>2
  <2> QED  BY <2>2, <2>3
<1> QED  BY <1>2, <1>3 DEF QueuesList

(* A queue loses a queued run: the worker's poll and the cancel's remove.  *)
LEMMA RemovedFromQueues ==
    ASSUME TypeOK, QueuesList, NEW r \in Runs, stage[r] = "queued", CountDown,
           NEW q \in Seq(Runs), Lists(q, QueuedOf(UserOf[r]) \ {r}),
           pendingTasks' = [pendingTasks EXCEPT ![UserOf[r]] = q],
           NEW s \in Stages \ {"queued"}, stage' = [stage EXCEPT ![r] = s]
    PROVE  QueuesList' /\ nPending' \in Nat
<1> USE DEF TypeOK
<1>1. UserOf[r] \in Users
  BY ExecutorAssumption
<1>2. nPending' = Cardinality(Queued') /\ nPending' \in Nat
  <2>1. Queued' = Queued \ {r} /\ r \in Queued
    BY DEF Queued
  <2>2. Cardinality(Queued') = Cardinality(Queued) - 1 /\ IsFiniteSet(Queued')
    BY <2>1, QueuedIsFinite, FS_RemoveElement
  <2>3. Cardinality(Queued') \in Nat
    BY <2>2, FS_CardinalityType
  <2> QED  BY <2>2, <2>3 DEF QueuesList, CountDown
<1>3. ASSUME NEW u \in Users PROVE Lists(pendingTasks'[u], QueuedOf(u)')
  <2>1. CASE u = UserOf[r]
    <3>1. QueuedOf(u)' = QueuedOf(u) \ {r} /\ pendingTasks'[u] = q
      BY <2>1 DEF QueuedOf
    <3> QED  BY <2>1, <3>1
  <2>2. CASE u # UserOf[r]
    <3>1. QueuedOf(u)' = QueuedOf(u) /\ pendingTasks'[u] = pendingTasks[u]
      BY <1>1, <2>2 DEF QueuedOf
    <3> QED  BY <3>1 DEF QueuesList
  <2> QED  BY <2>1, <2>2
<1> QED  BY <1>2, <1>3 DEF QueuesList

(* The run a worker takes: the oldest of a user, queued until then.        *)
LEMMA TakeQueues ==
    ASSUME TypeOK, QueuesList, NEW w \in Workers, NEW u \in Users, Take(w, u)
    PROVE  /\ Head(pendingTasks[u]) \in Runs
           /\ stage[Head(pendingTasks[u])] = "queued"
           /\ QueuesList' /\ nPending' \in Nat
           /\ pendingTasks' \in [Users -> Seq(Runs)]
<1> DEFINE r == Head(pendingTasks[u])
<1>1. pendingTasks[u] \in Seq(Runs) /\ pendingTasks[u] # << >>
  BY DEF TypeOK, Take
<1>2. r \in QueuedOf(u) /\ Lists(Tail(pendingTasks[u]), QueuedOf(u) \ {r})
  BY <1>1, ListsTail DEF QueuesList
<1>3. r \in Runs /\ stage[r] = "queued" /\ UserOf[r] = u
  BY <1>2 DEF QueuedOf
<1>4. /\ stage' = [stage EXCEPT ![r] = "running"]
      /\ pendingTasks' = [pendingTasks EXCEPT ![u] = Tail(pendingTasks[u])]
      /\ CountDown
  BY DEF Take, PollTask
<1>5. Tail(pendingTasks[u]) \in Seq(Runs)
  BY <1>1
<1>6. "running" \in Stages \ {"queued"}
  BY DEF Stages
<1>7. pendingTasks' \in [Users -> Seq(Runs)]
  BY <1>4, <1>5 DEF TypeOK
<1> HIDE DEF r
<1>8. QueuesList' /\ nPending' \in Nat
  BY <1>2, <1>3, <1>4, <1>5, <1>6, RemovedFromQueues
<1> QED  BY <1>3, <1>7, <1>8 DEF r

(* The run a cancel removes.                                               *)
LEMMA CancelPendingQueues ==
    ASSUME TypeOK, QueuesList, NEW c \in Cancellers, NEW r \in Runs,
           CancelPending(c, r)
    PROVE  /\ stage[r] = "queued"
           /\ QueuesList' /\ nPending' \in Nat
           /\ pendingTasks' \in [Users -> Seq(Runs)]
<1> PICK u \in Users : \E i \in DOMAIN pendingTasks[u] :
        /\ pendingTasks[u][i] = r
        /\ pendingTasks' = [pendingTasks EXCEPT ![u] = RemoveAt(pendingTasks[u], i)]
  BY DEF CancelPending
<1> PICK i \in DOMAIN pendingTasks[u] :
        /\ pendingTasks[u][i] = r
        /\ pendingTasks' = [pendingTasks EXCEPT ![u] = RemoveAt(pendingTasks[u], i)]
  OBVIOUS
<1>1. pendingTasks[u] \in Seq(Runs) /\ Lists(pendingTasks[u], QueuedOf(u))
  BY DEF TypeOK, QueuesList
<1>2. r \in QueuedOf(u)
  BY <1>1 DEF Lists
<1>3. stage[r] = "queued" /\ UserOf[r] = u
  BY <1>2 DEF QueuedOf
<1>4. /\ Lists(RemoveAt(pendingTasks[u], i), QueuedOf(u) \ {r})
      /\ RemoveAt(pendingTasks[u], i) \in Seq(Runs)
  BY <1>1, ListsRemoveAt, RemoveAtProperties
<1>5. CountDown /\ stage' = [stage EXCEPT ![r] = "removed"]
  BY DEF CancelPending
<1>6. "removed" \in Stages \ {"queued"}
  BY DEF Stages
<1>7. pendingTasks' \in [Users -> Seq(Runs)]
  BY <1>4 DEF TypeOK
<1>8. QueuesList' /\ nPending' \in Nat
  BY <1>3, <1>4, <1>5, <1>6, RemovedFromQueues
<1> QED  BY <1>3, <1>7, <1>8

-----------------------------------------------------------------------------
(* Steps that leave a part of the state alone.                             *)

(* Only Take, BodyEnds, BodyInterrupted, BodyFinally and Finish touch a    *)
(* worker's slot or place.                                                 *)
LEMMA PoolMoves ==
    ASSUME Next
    PROVE  \/ UNCHANGED <<runningTasks, workerPc>>
           \/ \E w \in Workers : \/ \E u \in Users : Take(w, u)
                                 \/ BodyEnds(w) \/ BodyInterrupted(w)
                                 \/ BodyFinally(w) \/ Finish(w)
BY DEF Next, WorkerStep, CancelStep, Execute, Wait, CancelPending,
       CancelRunning, CancelUnknown, CancelResumes, executorVars

(* Only Execute, Take, BodyFinally and CancelPending move a run.           *)
LEMMA StageMoves ==
    ASSUME Next
    PROVE  \/ UNCHANGED stage
           \/ \E r \in Runs : Execute(r)
           \/ \E w \in Workers, u \in Users : Take(w, u)
           \/ \E w \in Workers : BodyFinally(w)
           \/ \E c \in Cancellers, r \in Runs : CancelPending(c, r)
BY DEF Next, WorkerStep, CancelStep, Wait, BodyEnds, BodyInterrupted, Finish,
       CancelRunning, CancelUnknown, CancelResumes, runVars

(* Only Execute, Take and CancelPending touch the lists and the counter.   *)
LEMMA QueueMoves ==
    ASSUME Next
    PROVE  \/ UNCHANGED <<pendingTasks, nPending>>
           \/ \E r \in Runs : Execute(r)
           \/ \E w \in Workers, u \in Users : Take(w, u)
           \/ \E c \in Cancellers, r \in Runs : CancelPending(c, r)
BY DEF Next, WorkerStep, CancelStep, Wait, BodyEnds, BodyInterrupted, BodyFinally,
       Finish, CancelRunning, CancelUnknown, CancelResumes, executorVars

(* Only Execute, Wait, Finish, CancelRunning and CancelResumes touch the   *)
(* wait set.                                                               *)
LEMMA SleepMoves ==
    ASSUME Next
    PROVE  \/ UNCHANGED waitSet
           \/ \E r \in Runs : Execute(r)
           \/ \E w \in Workers : Wait(w) \/ Finish(w)
           \/ \E c \in Cancellers : \/ \E r \in Runs, w \in Workers : CancelRunning(c, r, w)
                                    \/ CancelResumes(c)
BY DEF Next, WorkerStep, CancelStep, Take, BodyEnds, BodyInterrupted, BodyFinally,
       CancelPending, CancelUnknown, executorVars

(* Only CancelRunning and CancelResumes touch what cancellers wait for.    *)
LEMMA CancelMoves ==
    ASSUME Next
    PROVE  \/ UNCHANGED <<cancelling, replies>>
           \/ \E c \in Cancellers : CancelStep(c)
BY DEF Next, WorkerStep, Execute, Take, Wait, BodyEnds, BodyInterrupted, BodyFinally,
       Finish, executorVars

-----------------------------------------------------------------------------
(* Each part of the invariant is preserved.                                *)

(* Every step keeps the lists duplicate-free and the counter exact.        *)
LEMMA QueuesListStep ==
    ASSUME TypeOK, QueuesList, HeldRunsAreOut, OneWorkerPerRun, Next
    PROVE  QueuesList'
<1>1. ASSUME NEW r \in Runs, Execute(r) PROVE QueuesList'
  BY <1>1, ExecuteQueues
<1>2. ASSUME NEW w \in Workers, NEW u \in Users, Take(w, u) PROVE QueuesList'
  BY <1>2, TakeQueues
<1>3. ASSUME NEW c \in Cancellers, NEW r \in Runs, CancelPending(c, r)
      PROVE  QueuesList'
  BY <1>3, CancelPendingQueues
<1>4. CASE UNCHANGED <<pendingTasks, nPending>> /\ Queued' = Queued
                /\ \A u \in Users : QueuedOf(u)' = QueuedOf(u)
  BY <1>4 DEF QueuesList
<1>5. CASE UNCHANGED <<pendingTasks, nPending, stage>>
  BY <1>5, <1>4 DEF Queued, QueuedOf
<1>6. ASSUME NEW w \in Workers, BodyFinally(w) PROVE QueuesList'
  <2>1. runningTasks[w] \in Runs /\ stage[runningTasks[w]] = "running"
    BY <1>6 DEF BodyFinally, TypeOK, HeldRunsAreOut, OneWorkerPerRun
  <2>2. stage' = [stage EXCEPT ![runningTasks[w]] = "exported"]
        /\ UNCHANGED <<pendingTasks, nPending>>
    BY <1>6 DEF BodyFinally, executorVars
  <2>3. \A r \in Runs : stage'[r] = "queued" <=> stage[r] = "queued"
    BY <2>1, <2>2 DEF TypeOK
  <2> QED  BY <2>2, <2>3, <1>4 DEF Queued, QueuedOf
<1> QED  BY <1>1, <1>2, <1>3, <1>5, <1>6, QueueMoves, StageMoves

(* Every step keeps a run with at most one worker: Take takes a queued run,*)
(* and a run in a slot is not queued.                                      *)
LEMMA OneWorkerStep ==
    ASSUME TypeOK, QueuesList, HeldRunsAreOut, OneWorkerPerRun, Next
    PROVE  OneWorkerPerRun'
<1>0. /\ runningTasks \in [Workers -> Runs \cup {NoRun}]
      /\ workerPc \in [Workers -> {"get", "body", "finally", "done"}]
      /\ NoRun \notin Runs
  BY ExecutorAssumption DEF TypeOK
<1>1. CASE UNCHANGED <<runningTasks, workerPc>>
  BY <1>1 DEF OneWorkerPerRun
<1>2. ASSUME NEW w \in Workers, NEW u \in Users, Take(w, u) PROVE OneWorkerPerRun'
  <2> DEFINE r == Head(pendingTasks[u])
  <2>1. r \in Runs /\ stage[r] = "queued"
    BY <1>2, TakeQueues
  <2>2. /\ runningTasks' = [runningTasks EXCEPT ![w] = r]
        /\ workerPc' = [workerPc EXCEPT ![w] = "body"]
    BY <1>2 DEF Take
  <2> HIDE DEF r
  <2>3. \A v \in Workers : runningTasks[v] # r
    BY <1>0, <2>1 DEF HeldRunsAreOut
  <2> QED  BY <1>0, <2>1, <2>2, <2>3 DEF OneWorkerPerRun
<1>3. ASSUME NEW w \in Workers, BodyEnds(w) \/ BodyInterrupted(w) \/ BodyFinally(w)
      PROVE  OneWorkerPerRun'
  <2>1. UNCHANGED runningTasks /\ workerPc[w] # "get"
        /\ \E pc \in {"finally", "done"} : workerPc' = [workerPc EXCEPT ![w] = pc]
    BY <1>3 DEF BodyEnds, BodyInterrupted, BodyFinally, executorVars
  <2> QED  BY <1>0, <2>1 DEF OneWorkerPerRun
<1>4. ASSUME NEW w \in Workers, Finish(w) PROVE OneWorkerPerRun'
  <2>1. /\ runningTasks' = [runningTasks EXCEPT ![w] = NoRun]
        /\ workerPc' = [workerPc EXCEPT ![w] = "get"]
    BY <1>4 DEF Finish
  <2> QED  BY <1>0, <2>1 DEF OneWorkerPerRun
<1> QED  BY <1>1, <1>2, <1>3, <1>4, PoolMoves

(* Every step keeps the stage of a run in a slot in accord with the place  *)
(* of its worker.                                                          *)
LEMMA HeldRunsStep ==
    ASSUME TypeOK, QueuesList, HeldRunsAreOut, OneWorkerPerRun, Next
    PROVE  HeldRunsAreOut'
<1>0. /\ runningTasks \in [Workers -> Runs \cup {NoRun}]
      /\ workerPc \in [Workers -> {"get", "body", "finally", "done"}]
      /\ stage \in [Runs -> Stages] /\ NoRun \notin Runs
  BY ExecutorAssumption DEF TypeOK
<1>1. CASE UNCHANGED <<runningTasks, workerPc, stage>>
  BY <1>1 DEF HeldRunsAreOut
<1>2. ASSUME NEW r \in Runs, stage[r] \in {"new", "queued"}, NEW s \in Stages,
             stage' = [stage EXCEPT ![r] = s], UNCHANGED <<runningTasks, workerPc>>
      PROVE  HeldRunsAreOut'
  BY <1>0, <1>2 DEF HeldRunsAreOut
<1>3. ASSUME NEW r \in Runs, Execute(r) PROVE HeldRunsAreOut'
  BY <1>2, <1>3 DEF Execute, Stages
<1>4. ASSUME NEW c \in Cancellers, NEW r \in Runs, CancelPending(c, r)
      PROVE  HeldRunsAreOut'
  <2>1. stage[r] = "queued"
    BY <1>4, CancelPendingQueues
  <2> QED  BY <1>2, <1>4, <2>1 DEF CancelPending, Stages
<1>5. ASSUME NEW w \in Workers, NEW u \in Users, Take(w, u) PROVE HeldRunsAreOut'
  <2> DEFINE r == Head(pendingTasks[u])
  <2>1. r \in Runs /\ stage[r] = "queued"
    BY <1>5, TakeQueues
  <2>2. /\ runningTasks' = [runningTasks EXCEPT ![w] = r]
        /\ workerPc' = [workerPc EXCEPT ![w] = "body"]
        /\ stage' = [stage EXCEPT ![r] = "running"]
    BY <1>5 DEF Take
  <2> HIDE DEF r
  <2>3. \A v \in Workers : runningTasks[v] # r
    BY <1>0, <2>1 DEF HeldRunsAreOut
  <2> QED  BY <1>0, <2>1, <2>2, <2>3 DEF HeldRunsAreOut
<1>6. ASSUME NEW w \in Workers, BodyEnds(w) \/ BodyInterrupted(w) PROVE HeldRunsAreOut'
  <2>1. /\ UNCHANGED <<runningTasks, stage>> /\ workerPc[w] = "body"
        /\ workerPc' = [workerPc EXCEPT ![w] = "finally"]
    BY <1>6 DEF BodyEnds, BodyInterrupted, executorVars
  <2> QED  BY <1>0, <2>1 DEF HeldRunsAreOut
<1>7. ASSUME NEW w \in Workers, BodyFinally(w) PROVE HeldRunsAreOut'
  <2>1. /\ UNCHANGED runningTasks /\ workerPc[w] = "finally"
        /\ workerPc' = [workerPc EXCEPT ![w] = "done"]
        /\ stage' = [stage EXCEPT ![runningTasks[w]] = "exported"]
    BY <1>7 DEF BodyFinally, executorVars
  <2>2. runningTasks[w] \in Runs
    BY <1>0, <2>1 DEF OneWorkerPerRun
  <2>3. \A v \in Workers : v # w => runningTasks[v] # runningTasks[w]
    BY <1>0, <2>2 DEF OneWorkerPerRun
  <2> QED  BY <1>0, <2>1, <2>2, <2>3 DEF HeldRunsAreOut
<1>8. ASSUME NEW w \in Workers, Finish(w) PROVE HeldRunsAreOut'
  <2>1. /\ runningTasks' = [runningTasks EXCEPT ![w] = NoRun]
        /\ workerPc' = [workerPc EXCEPT ![w] = "get"]
        /\ UNCHANGED stage
    BY <1>8 DEF Finish, runVars
  <2> QED  BY <1>0, <2>1 DEF HeldRunsAreOut
<1> QED  BY <1>1, <1>3, <1>4, <1>5, <1>6, <1>7, <1>8, PoolMoves, StageMoves

(* A sleeping worker stays in "get"; only Wait puts one to sleep.          *)
LEMMA SleepersStep ==
    ASSUME TypeOK, SleepersLookForWork, Next
    PROVE  SleepersLookForWork'
<1>0. /\ workerPc \in [Workers -> {"get", "body", "finally", "done"}]
      /\ Workers \cap Cancellers = {}
  BY ExecutorAssumption DEF TypeOK
<1>1. \/ waitSet' \subseteq waitSet
      \/ \E w \in Workers : InGet(w) /\ waitSet' = waitSet \cup {w} /\ UNCHANGED workerPc
      \/ \E c \in Cancellers : waitSet' = waitSet \cup {c} /\ UNCHANGED workerPc
  <2>1. ASSUME NEW w \in Workers, Wait(w) PROVE <1>1!2 \/ UNCHANGED waitSet
    BY <2>1 DEF Wait
  <2>2. ASSUME NEW r \in Runs, Execute(r) PROVE waitSet' \subseteq waitSet
    BY <2>2 DEF Execute, Notify
  <2>3. ASSUME NEW w \in Workers, Finish(w) PROVE waitSet' \subseteq waitSet
    BY <2>3 DEF Finish, NotifyAll
  <2>4. ASSUME NEW c \in Cancellers, NEW r \in Runs, NEW w \in Workers,
               CancelRunning(c, r, w)
        PROVE  waitSet' = waitSet \cup {c} /\ UNCHANGED workerPc
    BY <2>4 DEF CancelRunning
  <2>5. ASSUME NEW c \in Cancellers, CancelResumes(c)
        PROVE  UNCHANGED workerPc /\ waitSet' \in {waitSet, waitSet \cup {c}}
    BY <2>5 DEF CancelResumes
  <2> QED  BY <2>1, <2>2, <2>3, <2>4, <2>5, SleepMoves
<1>2. \A w \in Workers \cap waitSet' : w \in waitSet => workerPc'[w] = "get"
  <2>1. \/ UNCHANGED workerPc
        \/ waitSet' = {}
        \/ \E w \in Workers, pc \in {"body", "finally", "done"} :
              /\ workerPc' = [workerPc EXCEPT ![w] = pc]
              /\ w \notin waitSet
    <3>1. ASSUME NEW w \in Workers, NEW u \in Users, Take(w, u) PROVE <2>1!3
      BY <3>1 DEF Take, InGet
    <3>2. ASSUME NEW w \in Workers, BodyEnds(w) \/ BodyInterrupted(w) \/ BodyFinally(w)
          PROVE  <2>1!3
      BY <3>2 DEF BodyEnds, BodyInterrupted, BodyFinally, SleepersLookForWork
    <3>3. ASSUME NEW w \in Workers, Finish(w) PROVE waitSet' = {}
      BY <3>3 DEF Finish, NotifyAll
    <3> QED  BY <3>1, <3>2, <3>3, PoolMoves
  <2> QED  BY <1>0, <2>1 DEF SleepersLookForWork
<1> QED  BY <1>0, <1>1, <1>2 DEF SleepersLookForWork, InGet

(* A sleeping canceller's run leaves its slot only in Finish, which wakes  *)
(* everybody.                                                              *)
LEMMA CancellerSleepsStep ==
    ASSUME TypeOK, OneWorkerPerRun, CancellerSleepsOnLiveRun, Next
    PROVE  CancellerSleepsOnLiveRun'
<1>0. /\ runningTasks \in [Workers -> Runs \cup {NoRun}]
      /\ cancelling \in [Cancellers -> [run : Runs, worker : Workers] \cup {NotCancelling}]
      /\ \A c \in Cancellers : ~ Idle(c) => /\ cancelling[c].run \in Runs
                                            /\ cancelling[c].worker \in Workers
      /\ NoRun \notin Runs /\ Workers \cap Cancellers = {}
  BY ExecutorAssumption DEF TypeOK, Idle
<1>1. CASE UNCHANGED <<runningTasks, cancelling>> /\ Cancellers \cap waitSet' \subseteq waitSet
  BY <1>1 DEF CancellerSleepsOnLiveRun, Idle, StillHeld
<1>2. ASSUME NEW r \in Runs, Execute(r) PROVE CancellerSleepsOnLiveRun'
  BY <1>1, <1>2 DEF Execute, Notify
<1>3. ASSUME NEW w \in Workers, WorkerStep(w) PROVE CancellerSleepsOnLiveRun'
  <2>1. CASE Wait(w)
    BY <1>0, <1>1, <2>1 DEF Wait
  <2>2. ASSUME NEW u \in Users, Take(w, u) PROVE CancellerSleepsOnLiveRun'
    <3>1. /\ UNCHANGED <<waitSet, cancelling>>
          /\ \A v \in Workers : v # w => runningTasks'[v] = runningTasks[v]
          /\ runningTasks[w] = NoRun
      BY <1>0, <2>2 DEF Take, InGet, OneWorkerPerRun
    <3> QED  BY <1>0, <3>1 DEF CancellerSleepsOnLiveRun, Idle, StillHeld
  <2>3. CASE BodyEnds(w) \/ BodyInterrupted(w) \/ BodyFinally(w)
    BY <1>1, <2>3 DEF BodyEnds, BodyInterrupted, BodyFinally, executorVars
  <2>4. CASE Finish(w)
    BY <2>4 DEF Finish, NotifyAll, CancellerSleepsOnLiveRun
  <2> QED  BY <1>3, <2>1, <2>2, <2>3, <2>4 DEF WorkerStep
<1>4. ASSUME NEW c \in Cancellers, CancelStep(c) PROVE CancellerSleepsOnLiveRun'
  <2>1. ASSUME NEW r \in Runs, CancelPending(c, r) \/ CancelUnknown(c, r)
        PROVE  CancellerSleepsOnLiveRun'
    BY <1>1, <2>1 DEF CancelPending, CancelUnknown, executorVars
  <2>2. ASSUME NEW r \in Runs, NEW w \in Workers, CancelRunning(c, r, w)
        PROVE  CancellerSleepsOnLiveRun'
    <3>1. /\ waitSet' = waitSet \cup {c} /\ UNCHANGED runningTasks /\ runningTasks[w] = r
          /\ cancelling' = [cancelling EXCEPT ![c] = [run |-> r, worker |-> w]]
      BY <2>2 DEF CancelRunning
    <3>2. cancelling'[c].run = r /\ cancelling'[c].worker = w /\ cancelling'[c] # NotCancelling
      BY <1>0, <3>1 DEF NotCancelling
    <3> QED  BY <1>0, <3>1, <3>2 DEF CancellerSleepsOnLiveRun, Idle, StillHeld
  <2>3. CASE CancelResumes(c)
    <3>1. ~ Idle(c) /\ UNCHANGED runningTasks
      BY <2>3 DEF CancelResumes
    <3>2. CASE StillHeld(c)
      <4>1. waitSet' = waitSet \cup {c} /\ UNCHANGED cancelling
        BY <2>3, <3>2 DEF CancelResumes
      <4> QED  BY <3>1, <3>2, <4>1 DEF CancellerSleepsOnLiveRun, Idle, StillHeld
    <3>3. CASE ~ StillHeld(c)
      <4>1. /\ UNCHANGED waitSet /\ c \notin waitSet
            /\ cancelling' = [cancelling EXCEPT ![c] = NotCancelling]
        BY <2>3, <3>3 DEF CancelResumes
      <4> QED  BY <1>0, <3>1, <4>1 DEF CancellerSleepsOnLiveRun, Idle, StillHeld
    <3> QED  BY <3>2, <3>3
  <2> QED  BY <1>4, <2>1, <2>2, <2>3 DEF CancelStep
<1> QED  BY <1>2, <1>3, <1>4 DEF Next

(* Notify may wake a canceller; but then a worker is busy, hence awake.    *)
LEMMA SomeoneIsAwakeStep ==
    ASSUME TypeOK, OneWorkerPerRun, SleepersLookForWork, CancellerSleepsOnLiveRun,
           SomeoneIsAwake, Next
    PROVE  SomeoneIsAwake'
<1>0. /\ Workers # {} /\ Workers \cap Cancellers = {} /\ NoRun \notin Runs
      /\ \A c \in Cancellers : ~ Idle(c) => /\ cancelling[c].run \in Runs
                                            /\ cancelling[c].worker \in Workers
      /\ waitSet \in SUBSET (Workers \cup Cancellers)
  BY ExecutorAssumption DEF TypeOK, Idle, Threads
<1>1. CASE UNCHANGED nPending /\ Workers \cap waitSet' \subseteq waitSet
  BY <1>1 DEF SomeoneIsAwake
<1>2. ASSUME NEW r \in Runs, Execute(r) PROVE SomeoneIsAwake'
  <2>1. CASE \E w \in Workers : w \notin waitSet
    BY <1>2, <2>1 DEF Execute, Notify, SomeoneIsAwake
  <2>2. CASE \A w \in Workers : w \in waitSet
    <3>1. \A c \in Cancellers : c \notin waitSet
      <4> SUFFICES ASSUME NEW c \in Cancellers, c \in waitSet PROVE FALSE
        OBVIOUS
      <4>1. ~ Idle(c) /\ StillHeld(c)
        BY DEF CancellerSleepsOnLiveRun
      <4>2. workerPc[cancelling[c].worker] # "get"
        BY <1>0, <4>1 DEF StillHeld, OneWorkerPerRun
      <4> QED  BY <1>0, <2>2, <4>1, <4>2 DEF SleepersLookForWork
    <3>2. waitSet # {} /\ \E t \in waitSet : waitSet' = waitSet \ {t}
      BY <1>0, <1>2, <2>2 DEF Execute, Notify
    <3> QED  BY <1>0, <3>1, <3>2 DEF SomeoneIsAwake
  <2> QED  BY <2>1, <2>2
<1>3. ASSUME NEW w \in Workers, WorkerStep(w) PROVE SomeoneIsAwake'
  <2>1. CASE Wait(w)
    BY <2>1 DEF Wait, SomeoneIsAwake
  <2>2. ASSUME NEW u \in Users, Take(w, u) PROVE SomeoneIsAwake'
    BY <2>2 DEF Take, InGet, SomeoneIsAwake
  <2>3. CASE BodyEnds(w) \/ BodyInterrupted(w) \/ BodyFinally(w)
    BY <1>1, <2>3 DEF BodyEnds, BodyInterrupted, BodyFinally, executorVars
  <2>4. CASE Finish(w)
    BY <1>0, <2>4 DEF Finish, NotifyAll, SomeoneIsAwake
  <2> QED  BY <1>3, <2>1, <2>2, <2>3, <2>4 DEF WorkerStep
<1>4. ASSUME NEW c \in Cancellers, CancelStep(c) PROVE SomeoneIsAwake'
  <2>1. ASSUME NEW r \in Runs, CancelPending(c, r) PROVE SomeoneIsAwake'
    <3>1. UNCHANGED waitSet /\ nPending' = nPending - 1 /\ nPending \in Nat
      BY <2>1 DEF CancelPending, CountDown, TypeOK
    <3> QED  BY <3>1 DEF SomeoneIsAwake
  <2>2. ASSUME NEW r \in Runs, CancelUnknown(c, r) PROVE SomeoneIsAwake'
    BY <1>1, <2>2 DEF CancelUnknown, executorVars
  <2>3. ASSUME NEW r \in Runs, NEW w \in Workers, CancelRunning(c, r, w)
        PROVE  SomeoneIsAwake'
    BY <1>0, <1>1, <2>3 DEF CancelRunning
  <2>4. CASE CancelResumes(c)
    BY <1>0, <1>1, <2>4 DEF CancelResumes
  <2> QED  BY <1>4, <2>1, <2>2, <2>3, <2>4 DEF CancelStep
<1> QED  BY <1>2, <1>3, <1>4 DEF Next

(* The worker drops a cancelled run only after exporting it, and a run that*)
(* is out is never taken again.                                            *)
LEMMA CancelledTrackedStep ==
    ASSUME TypeOK, QueuesList, OneWorkerPerRun, HeldRunsAreOut,
           CancelledRunIsTracked, Next
    PROVE  CancelledRunIsTracked'
<1>0. /\ runningTasks \in [Workers -> Runs \cup {NoRun}]
      /\ workerPc \in [Workers -> {"get", "body", "finally", "done"}]
      /\ stage \in [Runs -> Stages]
      /\ cancelling \in [Cancellers -> [run : Runs, worker : Workers] \cup {NotCancelling}]
      /\ \A c \in Cancellers : ~ Idle(c) => /\ cancelling[c].run \in Runs
                                            /\ cancelling[c].worker \in Workers
      /\ NoRun \notin Runs
  BY ExecutorAssumption DEF TypeOK, Idle
<1> DEFINE Dropped(r) == stage[r] = "exported" /\ \A w \in Workers : runningTasks[w] # r
<1>1. CASE /\ UNCHANGED <<runningTasks, cancelling>>
           /\ \A r \in Runs : stage[r] = "exported" => stage'[r] = "exported"
  BY <1>0, <1>1 DEF CancelledRunIsTracked, Idle, StillHeld
<1>2. ASSUME NEW r \in Runs, Execute(r) PROVE CancelledRunIsTracked'
  BY <1>0, <1>1, <1>2 DEF Execute
<1>3. ASSUME NEW w \in Workers, WorkerStep(w) PROVE CancelledRunIsTracked'
  <2>1. CASE Wait(w) \/ BodyEnds(w) \/ BodyInterrupted(w)
    BY <1>1, <2>1 DEF Wait, BodyEnds, BodyInterrupted, executorVars, runVars
  <2>2. CASE BodyFinally(w)
    <3>1. /\ UNCHANGED <<runningTasks, cancelling>>
          /\ stage' = [stage EXCEPT ![runningTasks[w]] = "exported"]
      BY <2>2 DEF BodyFinally, executorVars
    <3> QED  BY <1>0, <1>1, <3>1
  <2>3. ASSUME NEW u \in Users, Take(w, u) PROVE CancelledRunIsTracked'
    <3> DEFINE r == Head(pendingTasks[u])
    <3>1. r \in Runs /\ stage[r] = "queued"
      BY <2>3, TakeQueues
    <3>2. /\ runningTasks' = [runningTasks EXCEPT ![w] = r] /\ runningTasks[w] = NoRun
          /\ stage' = [stage EXCEPT ![r] = "running"] /\ UNCHANGED cancelling
      BY <2>3 DEF Take, InGet, OneWorkerPerRun
    <3> HIDE DEF r
    <3>3. ASSUME NEW c \in Cancellers, ~ Idle(c)
          PROVE  StillHeld(c)' \/ Dropped(cancelling[c].run)'
      <4>1. CASE StillHeld(c)
        BY <1>0, <3>2, <3>3, <4>1 DEF StillHeld
      <4>2. CASE Dropped(cancelling[c].run)
        BY <1>0, <3>1, <3>2, <3>3, <4>2
      <4> QED  BY <3>3, <4>1, <4>2 DEF CancelledRunIsTracked
    <3> QED  BY <3>2, <3>3 DEF CancelledRunIsTracked, Idle
  <2>4. CASE Finish(w)
    <3>1. /\ runningTasks' = [runningTasks EXCEPT ![w] = NoRun]
          /\ UNCHANGED <<stage, cancelling>> /\ workerPc[w] = "done"
      BY <2>4 DEF Finish, runVars
    <3>2. runningTasks[w] \in Runs /\ stage[runningTasks[w]] = "exported"
      BY <1>0, <3>1 DEF HeldRunsAreOut, OneWorkerPerRun
    <3>3. \A v \in Workers : v # w => runningTasks[v] # runningTasks[w]
      BY <1>0, <3>2 DEF OneWorkerPerRun
    <3>4. ASSUME NEW c \in Cancellers, ~ Idle(c)
          PROVE  StillHeld(c)' \/ Dropped(cancelling[c].run)'
      <4>1. CASE StillHeld(c) /\ cancelling[c].worker = w
        BY <1>0, <3>1, <3>2, <3>3, <3>4, <4>1 DEF StillHeld
      <4>2. CASE StillHeld(c) /\ cancelling[c].worker # w
        BY <1>0, <3>1, <3>4, <4>2 DEF StillHeld
      <4>3. CASE Dropped(cancelling[c].run)
        BY <1>0, <3>1, <3>4, <4>3
      <4> QED  BY <3>4, <4>1, <4>2, <4>3 DEF CancelledRunIsTracked
    <3> QED  BY <3>1, <3>4 DEF CancelledRunIsTracked, Idle
  <2> QED  BY <1>3, <2>1, <2>2, <2>3, <2>4 DEF WorkerStep
<1>4. ASSUME NEW c \in Cancellers, CancelStep(c) PROVE CancelledRunIsTracked'
  <2>1. ASSUME NEW r \in Runs, CancelPending(c, r) PROVE CancelledRunIsTracked'
    <3>1. stage[r] = "queued"
      BY <2>1, CancelPendingQueues
    <3> QED  BY <1>0, <1>1, <2>1, <3>1 DEF CancelPending
  <2>2. ASSUME NEW r \in Runs, CancelUnknown(c, r) PROVE CancelledRunIsTracked'
    BY <1>1, <2>2 DEF CancelUnknown, executorVars, runVars
  <2>3. ASSUME NEW r \in Runs, NEW w \in Workers, CancelRunning(c, r, w)
        PROVE  CancelledRunIsTracked'
    <3>1. /\ UNCHANGED <<runningTasks, stage>> /\ runningTasks[w] = r
          /\ cancelling' = [cancelling EXCEPT ![c] = [run |-> r, worker |-> w]]
      BY <2>3 DEF CancelRunning
    <3>2. cancelling'[c].run = r /\ cancelling'[c].worker = w
      BY <1>0, <3>1
    <3> QED  BY <1>0, <3>1, <3>2 DEF CancelledRunIsTracked, Idle, StillHeld
  <2>4. CASE CancelResumes(c)
    <3>1. /\ UNCHANGED <<runningTasks, stage>>
          /\ \/ UNCHANGED cancelling
             \/ cancelling' = [cancelling EXCEPT ![c] = NotCancelling]
      BY <2>4 DEF CancelResumes, runVars
    <3> QED  BY <1>0, <3>1 DEF CancelledRunIsTracked, Idle, StillHeld
  <2> QED  BY <1>4, <2>1, <2>2, <2>3, <2>4 DEF CancelStep
<1> QED  BY <1>2, <1>3, <1>4 DEF Next

(* cancel answers true when it has removed the run, or has seen its worker *)
(* without it.                                                             *)
LEMMA CancelledOffThePoolStep ==
    ASSUME TypeOK, QueuesList, OneWorkerPerRun, HeldRunsAreOut,
           CancelledRunIsTracked, CancelledIsOffThePool, Next
    PROVE  CancelledIsOffThePool'
<1>0. /\ runningTasks \in [Workers -> Runs \cup {NoRun}]
      /\ stage \in [Runs -> Stages]
      /\ replies \in [Runs -> SUBSET BOOLEAN]
      /\ \A c \in Cancellers : ~ Idle(c) => /\ cancelling[c].run \in Runs
                                            /\ cancelling[c].worker \in Workers
      /\ NoRun \notin Runs
  BY ExecutorAssumption DEF TypeOK, Idle
<1> DEFINE Off(r) == /\ stage[r] \in {"removed", "exported"}
                     /\ \A w \in Workers : runningTasks[w] # r
<1>1. CASE /\ \A r \in Runs : TRUE \in replies'[r] => TRUE \in replies[r]
           /\ \A r \in Runs : Off(r) => Off(r)'
  BY <1>1 DEF CancelledIsOffThePool
<1>2. ASSUME NEW r \in Runs, Execute(r) PROVE CancelledIsOffThePool'
  BY <1>0, <1>1, <1>2 DEF Execute
<1>3. ASSUME NEW w \in Workers, WorkerStep(w) PROVE CancelledIsOffThePool'
  <2>1. CASE Wait(w) \/ BodyEnds(w) \/ BodyInterrupted(w)
    BY <1>1, <2>1 DEF Wait, BodyEnds, BodyInterrupted, executorVars, runVars
  <2>2. CASE BodyFinally(w)
    <3>1. /\ UNCHANGED <<runningTasks, replies>>
          /\ stage' = [stage EXCEPT ![runningTasks[w]] = "exported"]
      BY <2>2 DEF BodyFinally, executorVars
    <3> QED  BY <1>0, <1>1, <3>1
  <2>3. ASSUME NEW u \in Users, Take(w, u) PROVE CancelledIsOffThePool'
    <3> DEFINE r == Head(pendingTasks[u])
    <3>1. r \in Runs /\ stage[r] = "queued"
      BY <2>3, TakeQueues
    <3>2. /\ runningTasks' = [runningTasks EXCEPT ![w] = r]
          /\ stage' = [stage EXCEPT ![r] = "running"] /\ UNCHANGED replies
      BY <2>3 DEF Take
    <3> HIDE DEF r
    <3> QED  BY <1>0, <1>1, <3>1, <3>2
  <2>4. CASE Finish(w)
    <3>1. /\ runningTasks' = [runningTasks EXCEPT ![w] = NoRun]
          /\ UNCHANGED <<stage, replies>>
      BY <2>4 DEF Finish, runVars
    <3> QED  BY <1>0, <1>1, <3>1
  <2> QED  BY <1>3, <2>1, <2>2, <2>3, <2>4 DEF WorkerStep
<1>4. ASSUME NEW c \in Cancellers, CancelStep(c) PROVE CancelledIsOffThePool'
  <2>1. ASSUME NEW r \in Runs, CancelPending(c, r) PROVE CancelledIsOffThePool'
    <3>1. stage[r] = "queued" /\ UNCHANGED runningTasks
          /\ stage' = [stage EXCEPT ![r] = "removed"]
          /\ replies' = [replies EXCEPT ![r] = @ \cup {TRUE}]
      BY <2>1, CancelPendingQueues DEF CancelPending, Reply
    <3>2. \A w \in Workers : runningTasks[w] # r
      BY <1>0, <3>1 DEF HeldRunsAreOut
    <3> QED  BY <1>0, <3>1, <3>2 DEF CancelledIsOffThePool
  <2>2. ASSUME NEW r \in Runs, CancelUnknown(c, r) PROVE CancelledIsOffThePool'
    <3>1. /\ UNCHANGED <<runningTasks, stage>>
          /\ replies' = [replies EXCEPT ![r] = @ \cup {FALSE}]
      BY <2>2 DEF CancelUnknown, Reply, executorVars, runVars
    <3> QED  BY <1>0, <1>1, <3>1
  <2>3. ASSUME NEW r \in Runs, NEW w \in Workers, CancelRunning(c, r, w)
        PROVE  CancelledIsOffThePool'
    BY <1>1, <2>3 DEF CancelRunning
  <2>4. CASE CancelResumes(c)
    <3>1. UNCHANGED <<runningTasks, stage>> /\ ~ Idle(c)
      BY <2>4 DEF CancelResumes, runVars
    <3>2. CASE StillHeld(c)
      BY <1>1, <2>4, <3>1, <3>2 DEF CancelResumes
    <3>3. CASE ~ StillHeld(c)
      <4> DEFINE r == cancelling[c].run
      <4>1. replies' = [replies EXCEPT ![r] = @ \cup {TRUE}] /\ r \in Runs
        BY <1>0, <2>4, <3>1, <3>3 DEF CancelResumes, Reply
      <4>2. Off(r)
        BY <3>1, <3>3 DEF CancelledRunIsTracked
      <4> HIDE DEF r
      <4> QED  BY <1>0, <3>1, <4>1, <4>2 DEF CancelledIsOffThePool
    <3> QED  BY <3>2, <3>3
  <2> QED  BY <1>4, <2>1, <2>2, <2>3, <2>4 DEF CancelStep
<1> QED  BY <1>2, <1>3, <1>4 DEF Next

(* Every step keeps the types; CountDown stays in Nat because the counter is*)
(* the number of queued runs and Take and CancelPending need one.          *)
LEMMA TypeStep ==
    ASSUME TypeOK, QueuesList, OneWorkerPerRun, Next
    PROVE  TypeOK'
<1>0. \A c \in Cancellers : ~ Idle(c) => cancelling[c].run \in Runs
  BY DEF TypeOK, Idle
<1>1. ASSUME NEW r \in Runs, Execute(r) PROVE TypeOK'
  <2>1. pendingTasks' \in [Users -> Seq(Runs)]
    <3>1. UserOf[r] \in Users /\ pendingTasks \in [Users -> Seq(Runs)]
      BY ExecutorAssumption DEF TypeOK
    <3>2. Append(pendingTasks[UserOf[r]], r) \in Seq(Runs)
      BY <3>1
    <3> QED  BY <1>1, <3>1, <3>2 DEF Execute
  <2>2. nPending' \in Nat /\ waitSet' \in SUBSET Threads
    BY <1>1 DEF Execute, CountUp, Notify, TypeOK
  <2> QED  BY <1>1, <2>1, <2>2 DEF Execute, TypeOK, Stages
<1>2. ASSUME NEW w \in Workers, WorkerStep(w) PROVE TypeOK'
  <2>0. workerPc[w] # "get" => runningTasks[w] \in Runs
    BY DEF TypeOK, OneWorkerPerRun
  <2>1. CASE Wait(w)
    BY <2>1 DEF Wait, runVars, TypeOK, Threads
  <2>2. ASSUME NEW u \in Users, Take(w, u) PROVE TypeOK'
    <3>1. Head(pendingTasks[u]) \in Runs /\ nPending' \in Nat
          /\ pendingTasks' \in [Users -> Seq(Runs)]
      BY <2>2, TakeQueues
    <3> QED  BY <2>2, <3>1 DEF Take, TypeOK, Stages
  <2>3. CASE BodyEnds(w)
    BY <2>0, <2>3 DEF BodyEnds, executorVars, TypeOK, ErrMsgs
  <2>4. CASE BodyInterrupted(w)
    BY <2>0, <2>4 DEF BodyInterrupted, executorVars, TypeOK, ErrMsgs
  <2>5. CASE BodyFinally(w)
    BY <2>0, <2>5 DEF BodyFinally, executorVars, TypeOK, ErrMsgs, Stages
  <2>6. CASE Finish(w)
    BY <2>6 DEF Finish, NotifyAll, runVars, TypeOK
  <2> QED  BY <1>2, <2>1, <2>2, <2>3, <2>4, <2>5, <2>6 DEF WorkerStep
<1>3. ASSUME NEW c \in Cancellers, CancelStep(c) PROVE TypeOK'
  <2>1. ASSUME NEW r \in Runs, CancelPending(c, r) PROVE TypeOK'
    <3>1. nPending' \in Nat /\ pendingTasks' \in [Users -> Seq(Runs)]
      BY <2>1, CancelPendingQueues
    <3> QED  BY <2>1, <3>1 DEF CancelPending, Reply, TypeOK, Stages
  <2>2. ASSUME NEW r \in Runs, CancelUnknown(c, r) PROVE TypeOK'
    BY <2>2 DEF CancelUnknown, Reply, executorVars, runVars, TypeOK
  <2>3. ASSUME NEW r \in Runs, NEW w \in Workers, CancelRunning(c, r, w) PROVE TypeOK'
    <3>1. cancelling' \in [Cancellers -> [run : Runs, worker : Workers] \cup {NotCancelling}]
      BY <2>3 DEF CancelRunning, TypeOK
    <3> QED  BY <2>3, <3>1 DEF CancelRunning, TypeOK, Threads
  <2>4. CASE CancelResumes(c)
    <3>1. cancelling' \in [Cancellers -> [run : Runs, worker : Workers] \cup {NotCancelling}]
      BY <2>4 DEF CancelResumes, TypeOK
    <3>2. waitSet' \in SUBSET Threads
      BY <2>4 DEF CancelResumes, TypeOK, Threads
    <3>3. replies' \in [Runs -> SUBSET BOOLEAN]
      <4>1. \/ UNCHANGED replies
            \/ replies' = [replies EXCEPT ![cancelling[c].run] = @ \cup {TRUE}]
        BY <2>4 DEF CancelResumes, Reply
      <4>2. replies \in [Runs -> SUBSET BOOLEAN]
        BY DEF TypeOK
      <4>3. \A s \in SUBSET BOOLEAN : s \cup {TRUE} \in SUBSET BOOLEAN
        OBVIOUS
      <4>4. CASE replies' = [replies EXCEPT ![cancelling[c].run] = @ \cup {TRUE}]
        <5>1. cancelling[c].run \in Runs
          BY <1>0, <2>4 DEF CancelResumes
        <5>2. replies[cancelling[c].run] \cup {TRUE} \in SUBSET BOOLEAN
          BY <4>2, <4>3, <5>1
        <5> QED  BY <4>2, <4>4, <5>1, <5>2
      <4> QED  BY <4>1, <4>2, <4>4
    <3> QED  BY <2>4, <3>1, <3>2, <3>3 DEF CancelResumes, runVars, TypeOK
  <2> QED  BY <1>3, <2>1, <2>2, <2>3, <2>4 DEF CancelStep
<1> QED  BY <1>1, <1>2, <1>3 DEF Next

-----------------------------------------------------------------------------
(* The theorems.                                                           *)

(* The inductive invariant holds at the start.                             *)
LEMMA InitIInv == Init => IInv
<1> SUFFICES ASSUME Init PROVE IInv
  OBVIOUS
<1>1. TypeOK
  <2>1. << >> \in Seq(Runs)
    OBVIOUS
  <2>2. pendingTasks \in [Users -> Seq(Runs)]
    BY <2>1 DEF Init
  <2>3. replies \in [Runs -> SUBSET BOOLEAN] /\ waitSet \in SUBSET Threads
    BY DEF Init
  <2> QED  BY <2>2, <2>3 DEF Init, TypeOK, Stages, ErrMsgs
<1>2. QueuesList
  <2>1. Queued = {}
    BY DEF Init, Queued
  <2>2. ASSUME NEW u \in Users PROVE Lists(pendingTasks[u], QueuedOf(u))
    <3>1. pendingTasks[u] = << >>
      BY DEF Init
    <3>2. QueuedOf(u) = {}
      BY DEF Init, QueuedOf
    <3>3. \A i \in DOMAIN pendingTasks[u] : FALSE
      BY <3>1
    <3> QED  BY <3>2, <3>3 DEF Lists
  <2> QED  BY <2>1, <2>2, FS_EmptySet DEF QueuesList, Init
<1>3. OneWorkerPerRun /\ HeldRunsAreOut
  BY DEF Init, OneWorkerPerRun, HeldRunsAreOut
<1>4. SleepersLookForWork /\ CancellerSleepsOnLiveRun /\ SomeoneIsAwake
  <2>1. waitSet = {} /\ nPending = 0
    BY DEF Init
  <2> QED  BY <2>1 DEF SleepersLookForWork, CancellerSleepsOnLiveRun, SomeoneIsAwake
<1>5. CancelledRunIsTracked /\ CancelledIsOffThePool
  BY DEF Init, CancelledRunIsTracked, CancelledIsOffThePool, Idle
<1> QED  BY <1>1, <1>2, <1>3, <1>4, <1>5 DEF IInv

(* Every step preserves the inductive invariant.                           *)
LEMMA NextIInv == IInv /\ [Next]_vars => IInv'
<1> SUFFICES ASSUME IInv, [Next]_vars PROVE IInv'
  OBVIOUS
<1>1. CASE Next
  BY <1>1, TypeStep, QueuesListStep, OneWorkerStep, HeldRunsStep, SleepersStep,
     CancellerSleepsStep, CancelledTrackedStep, CancelledOffThePoolStep,
     SomeoneIsAwakeStep DEF IInv
<1>2. CASE UNCHANGED vars
  <2> USE <1>2 DEF vars, executorVars, runVars, IInv
  <2>1. TypeOK'
    BY DEF TypeOK
  <2>2. QueuesList'
    BY DEF QueuesList, Queued, QueuedOf
  <2>3. OneWorkerPerRun' /\ HeldRunsAreOut' /\ SomeoneIsAwake'
    BY DEF OneWorkerPerRun, HeldRunsAreOut, SomeoneIsAwake
  <2>4. SleepersLookForWork' /\ CancellerSleepsOnLiveRun'
    BY DEF SleepersLookForWork, CancellerSleepsOnLiveRun, Idle, StillHeld
  <2>5. CancelledRunIsTracked' /\ CancelledIsOffThePool'
    BY DEF CancelledRunIsTracked, CancelledIsOffThePool, Idle, StillHeld
  <2> QED  BY <2>1, <2>2, <2>3, <2>4, <2>5
<1> QED  BY <1>1, <1>2

(* The inductive invariant holds always.                                   *)
LEMMA InvariantHolds == Spec => []IInv
<1> QED  BY InitIInv, NextIInv, PTL DEF Spec

(* The variables of the executor keep their types; the counter, above all, *)
(* never drops below zero.                                                 *)
THEOREM TypeCorrect == Spec => []TypeOK
<1>1. IInv => TypeOK
  BY DEF IInv
<1> QED  BY <1>1, InvariantHolds, PTL

(* nPending is exact and every queued run is in its user's list once, with *)
(* any number of import, worker and HTTP threads in the monitor.           *)
THEOREM QueuesAreExact == Spec => []QueuesExact
<1>1. IInv => QueuesExact
  BY ListsAreExact DEF IInv
<1> QED  BY <1>1, InvariantHolds, PTL

(* No two workers ever hold the same run.                                  *)
THEOREM RunsAreExclusive == Spec => []OneWorkerPerRun
<1>1. IInv => OneWorkerPerRun
  BY DEF IInv
<1> QED  BY <1>1, InvariantHolds, PTL

(* notify() in newPendingTask is enough: there is never pending work with  *)
(* all workers asleep, although a canceller may get the wakeup.            *)
THEOREM NoLostWakeup == Spec => []SomeoneIsAwake
<1>1. IInv => SomeoneIsAwake
  BY DEF IInv
<1> QED  BY <1>1, InvariantHolds, PTL

(* A sleeping canceller's run is still with its worker, whose last finally *)
(* will wake it.                                                           *)
THEOREM NoLostCanceller == Spec => []CancellerSleepsOnLiveRun
<1>1. IInv => CancellerSleepsOnLiveRun
  BY DEF IInv
<1> QED  BY <1>1, InvariantHolds, PTL

(* A run whose cancel was answered true is off the pool for good.          *)
THEOREM CancelMeansOff == Spec => []CancelledIsOffThePool
<1>1. IInv => CancelledIsOffThePool
  BY DEF IInv
<1> QED  BY <1>1, InvariantHolds, PTL

(* No run is executed twice, or after it was removed.                      *)
THEOREM RunsMoveOneWay == Spec => NeverRunTwice
<1> DEFINE OneWay == \A r \in Runs :
              /\ stage[r] \in {"exported", "removed"} => stage'[r] = stage[r]
              /\ stage[r] = "running" => stage'[r] \in {"running", "exported"}
<1>1. IInv /\ [Next]_vars => [OneWay]_vars
  <2> SUFFICES ASSUME IInv, Next PROVE OneWay
    OBVIOUS
  <2>0. stage \in [Runs -> Stages] /\ TypeOK /\ QueuesList
    BY DEF IInv, TypeOK
  <2>1. CASE UNCHANGED stage
    BY <2>1
  <2>2. ASSUME NEW r \in Runs, Execute(r) PROVE OneWay
    BY <2>0, <2>2 DEF Execute
  <2>3. ASSUME NEW w \in Workers, NEW u \in Users, Take(w, u) PROVE OneWay
    <3> DEFINE r == Head(pendingTasks[u])
    <3>1. r \in Runs /\ stage[r] = "queued"
      BY <2>0, <2>3, TakeQueues
    <3>2. stage' = [stage EXCEPT ![r] = "running"]
      BY <2>3 DEF Take
    <3> HIDE DEF r
    <3> QED  BY <2>0, <3>1, <3>2
  <2>4. ASSUME NEW w \in Workers, BodyFinally(w) PROVE OneWay
    <3> DEFINE r == runningTasks[w]
    <3>1. r \in Runs /\ stage[r] = "running"
      BY <2>4 DEF BodyFinally, IInv, TypeOK, HeldRunsAreOut, OneWorkerPerRun
    <3>2. stage' = [stage EXCEPT ![r] = "exported"]
      BY <2>4 DEF BodyFinally
    <3> HIDE DEF r
    <3> QED  BY <2>0, <3>1, <3>2
  <2>5. ASSUME NEW c \in Cancellers, NEW r \in Runs, CancelPending(c, r) PROVE OneWay
    <3>1. stage[r] = "queued" /\ stage' = [stage EXCEPT ![r] = "removed"]
      BY <2>0, <2>5, CancelPendingQueues DEF CancelPending
    <3> QED  BY <2>0, <3>1
  <2> QED  BY <2>1, <2>2, <2>3, <2>4, <2>5, StageMoves
<1> QED  BY <1>1, InvariantHolds, PTL DEF Spec, NeverRunTwice
=============================================================================
