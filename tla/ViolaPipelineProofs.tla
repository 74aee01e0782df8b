------------------------ MODULE ViolaPipelineProofs ------------------------
(***************************************************************************)
(* The safety of ViolaPipeline for any number of runs, workers and faults, *)
(* and that it implements ViolaService, the Viola of Conductor.            *)
(***************************************************************************)
EXTENDS ViolaPipeline, FiniteSetTheorems, SequenceTheorems, TLAPS

-----------------------------------------------------------------------------
(* Where the runs are.                                                     *)

PlaceNames == {"toImport", "importer", "pending", "body", "toExport", "exporter",
               "toNotify", "notifier"}

Items(q) == {r \in Runs : In(r, q)}

Holds(p) ==
    CASE p = "toImport" -> Items(toImport)
      [] p = "importer" -> {importer.run} \cap Runs
      [] p = "pending"  -> pending
      [] p = "body"     -> body
      [] p = "toExport" -> Items(toExport)
      [] p = "exporter" -> {exporter.run} \cap Runs
      [] p = "toNotify" -> Items(toNotify)
      [] p = "notifier" -> {notifier.run} \cap Runs

Inside(r) == fate[r] = "inside"

(* No list has a run twice, ...                                            *)
Once(q) == \A i, j \in 1..Len(q) : q[i] = q[j] => i = j

ListsSound == Once(toImport) /\ Once(toExport) /\ Once(toNotify)

(* ... no run is at two places, and those inside are at one.               *)
PlacesSound ==
    \A r \in Runs :
       /\ Inside(r) <=> \E p \in PlaceNames : r \in Holds(p)
       /\ \A p, q \in PlaceNames : r \in Holds(p) /\ r \in Holds(q) => p = q

(* A run without a message was tested with the files its tests need, from  *)
(* the end of its tests on, and has its logs on the conductor from the     *)
(* export on.                                                              *)
WasTested(r) == errMsg[r] = NoMessage => Needed \subseteq here[r] /\ logs[r] = "files"
WasSaved(r) ==
    errMsg[r] = NoMessage => Needed \subseteq here[r] /\ logs[r] \in {"saved", "cut off"}

MessagesSound ==
    /\ \A r \in Holds("toExport") \cup Holds("exporter") : WasTested(r)
    /\ \A r \in Holds("toNotify") \cup Holds("notifier") : WasSaved(r)
    /\ \A r \in Runs : fate[r] = "reported" => WasSaved(r)

IInv ==
    /\ TypeOK
    /\ IsFiniteSet(held)
    /\ ListsSound
    /\ PlacesSound
    /\ MessagesSound

-----------------------------------------------------------------------------
(* The lists.                                                              *)

LEMMA AddHolds ==
    ASSUME NEW q \in Seq(Runs), NEW r \in Runs
    PROVE  /\ Add(q, r) \in Seq(Runs)
           /\ Items(Add(q, r)) = Items(q) \cup {r}
           /\ Once(q) /\ r \notin Items(q) => Once(Add(q, r))
<1> DEFINE n == Len(q)
<1>1. /\ Add(q, r) \in Seq(Runs) /\ n \in Nat
      /\ Len(Add(q, r)) = n + 1
      /\ \A i \in 1..n : Add(q, r)[i] = q[i]
      /\ Add(q, r)[n + 1] = r
  BY DEF Add
<1>2. 1..(n + 1) = 1..n \cup {n + 1}
  BY <1>1
<1> HIDE DEF n
<1>3. \A s : In(s, Add(q, r)) <=> In(s, q) \/ s = r
  BY <1>1, <1>2 DEF In, n
<1>4. ASSUME Once(q), r \notin Items(q)
      PROVE  Once(Add(q, r))
  <2>1. \A i \in 1..n : q[i] # r
    BY <1>4 DEF Items, In, n
  <2> QED
    BY <1>1, <1>2, <1>4, <2>1 DEF Once, n
<1> QED
  BY <1>1, <1>3, <1>4 DEF Items

LEMMA PushHolds ==
    ASSUME NEW q \in Seq(Runs), NEW r \in Runs
    PROVE  /\ Push(q, r) \in Seq(Runs)
           /\ Items(Push(q, r)) = Items(q) \cup {r}
           /\ Once(q) /\ r \notin Items(q) => Once(Push(q, r))
<1> DEFINE n == Len(q)
<1>1. /\ Push(q, r) \in Seq(Runs) /\ n \in Nat
      /\ Len(Push(q, r)) = n + 1
      /\ \A i \in 1..n : Push(q, r)[i + 1] = q[i]
      /\ Push(q, r)[1] = r
  BY DEF Push
<1>2. /\ \A i \in 1..(n + 1) : i = 1 \/ (i - 1 \in 1..n /\ i = (i - 1) + 1)
      /\ \A i \in 1..n : i + 1 \in 1..(n + 1)
      /\ 1 \in 1..(n + 1)
  BY <1>1
<1> HIDE DEF n
<1>3. \A i \in 1..(n + 1) : i # 1 => Push(q, r)[i] = q[i - 1]
  BY <1>1, <1>2
<1>4. \A s : In(s, Push(q, r)) <=> In(s, q) \/ s = r
  <2> TAKE s
  <2>1. In(s, Push(q, r)) <=> \E i \in 1..(n + 1) : Push(q, r)[i] = s
    BY <1>1 DEF In
  <2>2. In(s, q) <=> \E i \in 1..n : q[i] = s
    BY DEF In, n
  <2>3. ASSUME NEW i \in 1..(n + 1), Push(q, r)[i] = s
        PROVE  In(s, q) \/ s = r
    BY <1>1, <1>2, <1>3, <2>2, <2>3
  <2>4. ASSUME NEW i \in 1..n, q[i] = s
        PROVE  In(s, Push(q, r))
    BY <1>1, <1>2, <2>1, <2>4
  <2>5. s = r => In(s, Push(q, r))
    BY <1>1, <1>2, <2>1
  <2> QED
    BY <2>1, <2>2, <2>3, <2>4, <2>5
<1>5. ASSUME Once(q), r \notin Items(q)
      PROVE  Once(Push(q, r))
  <2>1. \A i \in 1..n : q[i] # r
    BY <1>5 DEF Items, In, n
  <2> SUFFICES ASSUME NEW i \in 1..(n + 1), NEW j \in 1..(n + 1),
                      Push(q, r)[i] = Push(q, r)[j]
               PROVE  i = j
    BY <1>1 DEF Once
  <2>2. ASSUME NEW k \in 1..(n + 1), k # 1
        PROVE  Push(q, r)[k] # r
    <3>1. Push(q, r)[k] = q[k - 1] /\ k - 1 \in 1..n
      BY <1>2, <1>3, <2>2
    <3> QED
      BY <2>1, <3>1
  <2>3. CASE i # 1 /\ j # 1
    <3>1. q[i - 1] = q[j - 1] /\ i - 1 \in 1..n /\ j - 1 \in 1..n
      BY <1>2, <1>3, <2>3
    <3>2. i - 1 = j - 1
      BY <1>5, <3>1 DEF Once, n
    <3> QED
      BY <1>1, <3>2
  <2> QED
    BY <1>1, <2>2, <2>3
<1> QED
  BY <1>1, <1>4, <1>5 DEF Items

LEMMA TakeHolds ==
    ASSUME NEW q \in Seq(Runs), q # <<>>, Once(q)
    PROVE  /\ Last(q) \in Items(q)
           /\ AfterPollLast(q) \in Seq(Runs)
           /\ Items(AfterPollLast(q)) = Items(q) \ {Last(q)}
           /\ Once(AfterPollLast(q))
<1> DEFINE n == Len(q)
<1>1. n \in Nat /\ n >= 1 /\ n \in 1..n
  BY DEF n
<1>2. /\ AfterPollLast(q) \in Seq(Runs)
      /\ Len(AfterPollLast(q)) = n - 1
      /\ \A i \in 1..(n - 1) : AfterPollLast(q)[i] = q[i]
  <2>1. AfterPollLast(q) = SubSeq(q, 1, n - 1) /\ n - 1 \in Int /\ n - 1 <= n
    BY <1>1 DEF AfterPollLast, ButLast
  <2>2. \A i \in 1..(n - 1) : i \in 1..Len(q) /\ i \in Nat
    BY <1>1
  <2>3. \A i \in 1..(n - 1) : q[i] \in Runs
    BY <2>2
  <2>4. /\ SubSeq(q, 1, n - 1) \in Seq(Runs)
        /\ Len(SubSeq(q, 1, n - 1)) = IF 1 <= n - 1 THEN (n - 1) - 1 + 1 ELSE 0
        /\ \A i \in 1..((n - 1) - 1 + 1) : SubSeq(q, 1, n - 1)[i] = q[1 + i - 1]
    BY <2>1, <2>3, SubSeqProperties
  <2> HIDE DEF n
  <2>5. /\ (IF 1 <= n - 1 THEN (n - 1) - 1 + 1 ELSE 0) = n - 1
        /\ (n - 1) - 1 + 1 = n - 1
        /\ \A i \in 1..(n - 1) : 1 + i - 1 = i
    BY <1>1
  <2> QED
    BY <2>1, <2>4, <2>5
<1>3. 1..n = 1..(n - 1) \cup {n} /\ n \notin 1..(n - 1)
  BY <1>1
<1>4. Last(q) \in Items(q)
  BY <1>1 DEF Last, Items, In
<1> HIDE DEF n
<1>5. \A s : In(s, AfterPollLast(q)) <=> In(s, q) /\ s # q[n]
  BY <1>1, <1>2, <1>3 DEF In, Once, n
<1>6. Once(AfterPollLast(q))
  BY <1>2, <1>3 DEF Once, n
<1> QED
  BY <1>2, <1>4, <1>5, <1>6 DEF Items, Last, n

LEMMA EmptyHolds == Items(<<>>) = {} /\ Once(<<>>) /\ <<>> \in Seq(Runs)
BY DEF Items, In, Once

-----------------------------------------------------------------------------
(* A step moves one run at most, from a place to another, or in or out.    *)

Moves(r, from, to) ==
    /\ r \in Runs
    /\ from # "outside" => r \in Holds(from)
    /\ \A p \in PlaceNames :
          Holds(p)' = (Holds(p) \ {s \in {r} : p = from}) \cup {s \in {r} : p = to}

NoneMoves == \A p \in PlaceNames : Holds(p)' = Holds(p)

ListsTyped ==
    /\ toImport \in Seq(Runs) /\ toExport \in Seq(Runs) /\ toNotify \in Seq(Runs)
    /\ ListsSound

LEMMA HoldsAre ==
    /\ Holds("toImport") = Items(toImport)
    /\ Holds("importer") = {importer.run} \cap Runs
    /\ Holds("pending") = pending
    /\ Holds("body") = body
    /\ Holds("toExport") = Items(toExport)
    /\ Holds("exporter") = {exporter.run} \cap Runs
    /\ Holds("toNotify") = Items(toNotify)
    /\ Holds("notifier") = {notifier.run} \cap Runs
BY DEF Holds

LEMMA HoldsBecome ==
    /\ Holds("toImport")' = Items(toImport')
    /\ Holds("importer")' = {importer'.run} \cap Runs
    /\ Holds("pending")' = pending'
    /\ Holds("body")' = body'
    /\ Holds("toExport")' = Items(toExport')
    /\ Holds("exporter")' = {exporter'.run} \cap Runs
    /\ Holds("toNotify")' = Items(toNotify')
    /\ Holds("notifier")' = {notifier'.run} \cap Runs
BY DEF Holds, Items, In

LEMMA Typed ==
    ASSUME TypeOK, ListsSound
    PROVE  ListsTyped
BY DEF TypeOK, ListsTyped

LEMMA AcceptMoves ==
    ASSUME IInv, NEW r \in Runs, Accept(r)
    PROVE  Moves(r, "outside", "toImport") /\ ListsTyped'
<1>1. r \notin Items(toImport)
  BY HoldsAre DEF IInv, PlacesSound, Accept, Inside, PlaceNames
<1>2. /\ toImport' = Add(toImport, r)
      /\ UNCHANGED <<toExport, toNotify, threads, executor>>
  BY DEF Accept
<1>3. ListsTyped'
  BY <1>1, <1>2, Typed, AddHolds DEF IInv, ListsTyped, ListsSound
<1>4. Items(toImport') = Items(toImport) \cup {r}
  BY <1>2, Typed, AddHolds DEF IInv, ListsTyped
<1> QED
  BY <1>2, <1>3, <1>4, HoldsAre, HoldsBecome DEF Moves, PlaceNames, threads, executor

LEMMA ImportTakeMoves ==
    ASSUME IInv, ImportTake
    PROVE  Moves(Last(toImport), "toImport", "importer") /\ ListsTyped'
<1> DEFINE r == Last(toImport)
<1>1. /\ importer = Waiting /\ importer' = [at |-> "reserving", run |-> r]
      /\ toImport # <<>> /\ toImport' = AfterPollLast(toImport)
      /\ UNCHANGED <<toExport, toNotify, exporter, notifier, pending, body>>
  BY DEF ImportTake, ImportUnchanged
<1>2. r \in Items(toImport) /\ r \in Runs
  BY <1>1, Typed, TakeHolds DEF IInv, ListsTyped, ListsSound, Items
<1>3. ListsTyped' /\ Items(toImport') = Items(toImport) \ {r}
  BY <1>1, Typed, TakeHolds DEF IInv, ListsTyped, ListsSound
<1>4. {importer.run} \cap Runs = {}
  BY <1>1, PipelineAssumption DEF Waiting
<1> QED
  BY <1>1, <1>2, <1>3, <1>4, HoldsAre, HoldsBecome DEF Moves, PlaceNames

(* What becomes of the run that the import thread copies.                  *)
ImportWork == ReserveDirs \/ ScpAssignment \/ ScpSubmission

ImportGivesUp == \E msg \in {"", "error"} : GiveUp(importer.run, msg)

ImportGoesOn ==
    /\ \E files \in SUBSET Inputs : here' = here \/ Arrived(importer.run, files)
    /\ \E place \in {"assignment", "submission"} : importer' = [importer EXCEPT !.at = place]
    /\ UNCHANGED <<toImport, toNotify, pending, errMsg, fate>>

ImportHandsOn ==
    (\E files \in SUBSET Inputs : Arrived(importer.run, files)) /\ HandOn(importer.run)

LEMMA ImportWorks ==
    ASSUME TypeOK, ImportWork
    PROVE  /\ importer.run \in Runs
           /\ importer.at \in {"reserving", "assignment", "submission"}
           /\ ImportUnchanged
           /\ ImportGivesUp \/ ImportHandsOn \/ ImportGoesOn
<1>1. importer.at \in {"reserving", "assignment", "submission"} /\ ImportUnchanged
  BY DEF ImportWork, ReserveDirs, ScpAssignment, ScpSubmission
<1>2. importer.run \in Runs
  <2>1. importer \in Busy({"reserving", "assignment", "submission"})
    BY DEF TypeOK
  <2> QED
    BY <1>1, <2>1 DEF Busy, Waiting, Dead
<1>3. CASE ReserveDirs
  <2>1. \/ GiveUp(importer.run, "error")
        \/ Arrived(importer.run, Inputs) /\ HandOn(importer.run)
        \/ /\ importer' = [importer EXCEPT !.at = "assignment"]
           /\ UNCHANGED <<toImport, toNotify, pending, errMsg, here, fate>>
    BY <1>3 DEF ReserveDirs
  <2>2. Inputs \in SUBSET Inputs
    OBVIOUS
  <2> QED
    BY <1>1, <1>2, <2>1, <2>2 DEF ImportGivesUp, ImportHandsOn, ImportGoesOn
<1>4. CASE ScpAssignment
  <2>1. \/ ImportGivesUp
        \/ /\ \E files \in SUBSET AssignmentFiles : Arrived(importer.run, files)
           /\ importer' = [importer EXCEPT !.at = "submission"]
           /\ UNCHANGED <<toImport, toNotify, pending, errMsg, fate>>
    BY <1>4 DEF ScpAssignment, ImportGivesUp
  <2>2. SUBSET AssignmentFiles \subseteq SUBSET Inputs
    BY DEF Inputs
  <2> QED
    BY <1>1, <1>2, <2>1, <2>2 DEF ImportGoesOn
<1>5. CASE ScpSubmission
  <2>1. (\E files \in SUBSET {"submission"} : Arrived(importer.run, files)) /\ HandOn(importer.run)
    BY <1>5 DEF ScpSubmission
  <2>2. SUBSET {"submission"} \subseteq SUBSET Inputs
    BY DEF Inputs
  <2> QED
    BY <1>1, <1>2, <2>1, <2>2 DEF ImportHandsOn
<1> QED
  BY <1>1, <1>2, <1>3, <1>4, <1>5 DEF ImportWork

LEMMA ImportWorkMoves ==
    ASSUME IInv, ImportWork
    PROVE  /\ ListsTyped'
           /\ ImportGivesUp => Moves(importer.run, "importer", "toNotify")
           /\ ImportHandsOn => Moves(importer.run, "importer", "pending")
           /\ ImportGoesOn => NoneMoves
<1> DEFINE r == importer.run
<1>1. r \in Runs /\ UNCHANGED <<toExport, exporter, notifier, body>>
  BY ImportWorks DEF ImportUnchanged, IInv
<1>2. r \notin Items(toNotify) /\ {importer.run} \cap Runs = {r}
  <2>1. r \in Holds("importer")
    BY <1>1, HoldsAre
  <2> QED
    BY <1>1, <2>1, HoldsAre DEF IInv, PlacesSound, PlaceNames
<1>3. {Waiting.run} \cap Runs = {}
  BY PipelineAssumption DEF Waiting
<1>4. CASE ImportGivesUp
  <2>1. toNotify' = Add(toNotify, r) /\ importer' = Waiting /\ UNCHANGED <<toImport, pending>>
    BY <1>4 DEF ImportGivesUp, GiveUp
  <2>2. ListsTyped' /\ Items(toNotify') = Items(toNotify) \cup {r}
    BY <1>1, <1>2, <2>1, Typed, AddHolds DEF IInv, ListsTyped, ListsSound
  <2>3. Moves(r, "importer", "toNotify")
    BY <1>1, <1>2, <1>3, <2>1, <2>2, HoldsAre, HoldsBecome DEF Moves, PlaceNames
  <2>4. ~ ImportHandsOn /\ ~ ImportGoesOn
    <3>1. toNotify' # toNotify
      BY <1>2, <2>2
    <3> QED
      BY <3>1 DEF ImportHandsOn, HandOn, ImportGoesOn
  <2> QED
    BY <2>2, <2>3, <2>4
<1>5. CASE ~ ImportGivesUp
  <2>1. UNCHANGED <<toImport, toNotify>>
    BY <1>5, ImportWorks DEF IInv, ImportHandsOn, HandOn, ImportGoesOn
  <2>2. ListsTyped'
    BY <1>1, <2>1, Typed DEF IInv, ListsTyped, ListsSound
  <2>3. ASSUME ImportHandsOn
        PROVE  Moves(r, "importer", "pending")
    <3>1. pending' = pending \cup {r} /\ importer' = Waiting
      BY <2>3 DEF ImportHandsOn, HandOn
    <3> QED
      BY <1>1, <1>2, <1>3, <2>1, <3>1, HoldsAre, HoldsBecome DEF Moves, PlaceNames
  <2>4. ASSUME ImportGoesOn
        PROVE  NoneMoves
    <3>1. pending' = pending /\ importer'.run = importer.run
      BY <2>4 DEF ImportGoesOn, IInv, TypeOK, Busy, Waiting, Dead
    <3> QED
      BY <1>1, <2>1, <3>1, HoldsAre, HoldsBecome DEF NoneMoves, PlaceNames
  <2> QED
    BY <1>5, <2>2, <2>3, <2>4
<1> QED
  BY <1>4, <1>5

LEMMA ExecutorMoves ==
    ASSUME IInv, NEW r \in Runs
    PROVE  /\ Start(r) => Moves(r, "pending", "body") /\ ListsTyped'
           /\ TestsEnd(r) => Moves(r, "body", "toExport") /\ ListsTyped'
           /\ CancelQueued(r) => Moves(r, "pending", "outside") /\ ListsTyped'
           /\ Drop(r) \/ CancelHeld(r) => NoneMoves /\ ListsTyped'
<1> USE DEF ExecutorUnchanged, threads
<1>1. ASSUME UNCHANGED <<toImport, toExport, toNotify>>
      PROVE  ListsTyped'
  BY <1>1, Typed DEF IInv, ListsTyped, ListsSound
<1>2. ASSUME Start(r)
      PROVE  Moves(r, "pending", "body") /\ ListsTyped'
  BY <1>1, <1>2, HoldsAre, HoldsBecome DEF Start, Moves, PlaceNames
<1>3. ASSUME TestsEnd(r)
      PROVE  Moves(r, "body", "toExport") /\ ListsTyped'
  <2>1. /\ r \in body /\ body' = body \ {r} /\ toExport' = Push(toExport, r)
        /\ UNCHANGED <<toImport, toNotify, importer, exporter, notifier, pending>>
    BY <1>3 DEF TestsEnd
  <2>2. r \notin Items(toExport)
    BY <2>1, HoldsAre DEF IInv, PlacesSound, PlaceNames
  <2>3. ListsTyped' /\ Items(toExport') = Items(toExport) \cup {r}
    BY <2>1, <2>2, Typed, PushHolds DEF IInv, ListsTyped, ListsSound
  <2> QED
    BY <2>1, <2>3, HoldsAre, HoldsBecome DEF Moves, PlaceNames
<1>4. ASSUME CancelQueued(r)
      PROVE  Moves(r, "pending", "outside") /\ ListsTyped'
  BY <1>1, <1>4, HoldsAre, HoldsBecome DEF CancelQueued, Moves, PlaceNames
<1>5. ASSUME Drop(r) \/ CancelHeld(r)
      PROVE  NoneMoves /\ ListsTyped'
  BY <1>1, <1>5, HoldsAre, HoldsBecome DEF Drop, CancelHeld, executor, NoneMoves, PlaceNames
<1> QED
  BY <1>2, <1>3, <1>4, <1>5

LEMMA RunOfThread ==
    ASSUME TypeOK
    PROVE  /\ importer.at \notin {"waiting", "dead"} => importer.run \in Runs
           /\ exporter.at \notin {"waiting", "dead"} => exporter.run \in Runs
           /\ notifier.at \notin {"waiting", "dead"} => notifier.run \in Runs
<1>1. /\ importer \in Busy({"reserving", "assignment", "submission"})
      /\ exporter \in Busy({"copying"}) /\ notifier \in Busy({"posting"})
  BY DEF TypeOK
<1> QED
  BY <1>1 DEF Busy, Waiting, Dead

LEMMA NoRunAtRest == Waiting.run \notin Runs /\ Dead.run \notin Runs
BY PipelineAssumption DEF Waiting, Dead

LEMMA ExportTakeMoves ==
    ASSUME IInv, ExportTake
    PROVE  /\ ListsTyped'
           /\ exporter' = Dead => Moves(Last(toExport), "toExport", "outside")
           /\ exporter' # Dead => Moves(Last(toExport), "toExport", "exporter")
<1> DEFINE r == Last(toExport)
<1>1. /\ exporter = Waiting
      /\ exporter' = Dead \/ exporter' = [at |-> "copying", run |-> r]
      /\ toExport # <<>> /\ toExport' = AfterPollLast(toExport)
      /\ UNCHANGED <<toImport, toNotify, importer, notifier, pending, body>>
  BY DEF ExportTake, ExportUnchanged, executor
<1>2. r \in Items(toExport) /\ r \in Runs
  BY <1>1, Typed, TakeHolds DEF IInv, ListsTyped, ListsSound, Items
<1>3. ListsTyped' /\ Items(toExport') = Items(toExport) \ {r}
  BY <1>1, Typed, TakeHolds DEF IInv, ListsTyped, ListsSound
<1>4. {exporter.run} \cap Runs = {}
  BY <1>1, NoRunAtRest
<1>5. CASE exporter' = Dead
  <2>1. {exporter'.run} \cap Runs = {}
    BY <1>5, NoRunAtRest
  <2> QED
    BY <1>1, <1>2, <1>3, <1>4, <1>5, <2>1, HoldsAre, HoldsBecome DEF Moves, PlaceNames
<1>6. CASE exporter' # Dead
  <2>1. {exporter'.run} \cap Runs = {r}
    BY <1>1, <1>2, <1>6
  <2> QED
    BY <1>1, <1>2, <1>3, <1>4, <1>6, <2>1, HoldsAre, HoldsBecome DEF Moves, PlaceNames
<1> QED
  BY <1>5, <1>6

LEMMA ExporterMoves ==
    ASSUME IInv
    PROVE  /\ ExportEnds => Moves(exporter.run, "exporter", "toNotify") /\ ListsTyped'
           /\ ScpExportThrows => Moves(exporter.run, "exporter", "outside") /\ ListsTyped'
<1> DEFINE r == exporter.run
<1>1. ASSUME exporter.at = "copying"
      PROVE  r \in Runs /\ {exporter.run} \cap Runs = {r} /\ r \notin Items(toNotify)
  <2>1. r \in Runs
    BY <1>1, RunOfThread DEF IInv
  <2>2. r \in Holds("exporter")
    BY <2>1, HoldsAre
  <2> QED
    BY <2>1, <2>2, HoldsAre DEF IInv, PlacesSound, PlaceNames
<1>2. ASSUME ExportEnds
      PROVE  Moves(r, "exporter", "toNotify") /\ ListsTyped'
  <2>1. /\ exporter.at = "copying" /\ exporter' = Waiting /\ toNotify' = Push(toNotify, r)
        /\ UNCHANGED <<toImport, toExport, importer, notifier, pending, body>>
    BY <1>2 DEF ExportEnds, ExportUnchanged, executor
  <2>2. ListsTyped' /\ Items(toNotify') = Items(toNotify) \cup {r}
    BY <1>1, <2>1, Typed, PushHolds DEF IInv, ListsTyped, ListsSound
  <2> QED
    BY <1>1, <2>1, <2>2, NoRunAtRest, HoldsAre, HoldsBecome DEF Moves, PlaceNames
<1>3. ASSUME ScpExportThrows
      PROVE  Moves(r, "exporter", "outside") /\ ListsTyped'
  <2>1. /\ exporter.at = "copying" /\ exporter' = Dead
        /\ UNCHANGED <<toImport, toExport, toNotify, importer, notifier, pending, body>>
    BY <1>3 DEF ScpExportThrows, TryThrows, ExportUnchanged, executor
  <2>2. ListsTyped'
    BY <2>1, Typed DEF IInv, ListsTyped, ListsSound
  <2> QED
    BY <1>1, <2>1, <2>2, NoRunAtRest, HoldsAre, HoldsBecome DEF Moves, PlaceNames
<1> QED
  BY <1>2, <1>3

LEMMA NotifyTakeMoves ==
    ASSUME IInv, NotifyTake
    PROVE  Moves(Last(toNotify), "toNotify", "notifier") /\ ListsTyped'
<1> DEFINE r == Last(toNotify)
<1>1. /\ notifier = Waiting /\ notifier' = [at |-> "posting", run |-> r]
      /\ toNotify # <<>> /\ toNotify' = AfterPollLast(toNotify)
      /\ UNCHANGED <<toImport, toExport, importer, exporter, pending, body>>
  BY DEF NotifyTake, NotifyUnchanged, executor
<1>2. r \in Items(toNotify) /\ r \in Runs
  BY <1>1, Typed, TakeHolds DEF IInv, ListsTyped, ListsSound, Items
<1>3. ListsTyped' /\ Items(toNotify') = Items(toNotify) \ {r}
  BY <1>1, Typed, TakeHolds DEF IInv, ListsTyped, ListsSound
<1>4. {notifier.run} \cap Runs = {} /\ {notifier'.run} \cap Runs = {r}
  BY <1>1, <1>2, NoRunAtRest
<1> QED
  BY <1>1, <1>2, <1>3, <1>4, HoldsAre, HoldsBecome DEF Moves, PlaceNames

LEMMA NotifierMoves ==
    ASSUME IInv
    PROVE  /\ PostAnswered \/ PostHangs =>
                 Moves(notifier.run, "notifier", "outside") /\ ListsTyped'
           /\ PostFails => Moves(notifier.run, "notifier", "toNotify") /\ ListsTyped'
<1> DEFINE r == notifier.run
<1>1. ASSUME notifier.at = "posting"
      PROVE  r \in Runs /\ {notifier.run} \cap Runs = {r} /\ r \notin Items(toNotify)
  <2>1. r \in Runs
    BY <1>1, RunOfThread DEF IInv
  <2>2. r \in Holds("notifier")
    BY <2>1, HoldsAre
  <2> QED
    BY <2>1, <2>2, HoldsAre DEF IInv, PlacesSound, PlaceNames
<1>2. ASSUME PostAnswered \/ PostHangs
      PROVE  Moves(r, "notifier", "outside") /\ ListsTyped'
  <2>1. /\ notifier.at = "posting" /\ notifier' \in {Waiting, Dead}
        /\ UNCHANGED <<toImport, toExport, toNotify, importer, exporter, pending, body>>
    BY <1>2 DEF PostAnswered, PostHangs, NotifyUnchanged, executor
  <2>2. ListsTyped'
    BY <2>1, Typed DEF IInv, ListsTyped, ListsSound
  <2>3. {notifier'.run} \cap Runs = {}
    BY <2>1, NoRunAtRest
  <2> QED
    BY <1>1, <2>1, <2>2, <2>3, HoldsAre, HoldsBecome DEF Moves, PlaceNames
<1>3. ASSUME PostFails
      PROVE  Moves(r, "notifier", "toNotify") /\ ListsTyped'
  <2>1. /\ notifier.at = "posting" /\ notifier' = Waiting /\ toNotify' = Push(toNotify, r)
        /\ UNCHANGED <<toImport, toExport, importer, exporter, pending, body>>
    BY <1>3 DEF PostFails, Later, NotifyUnchanged, executor
  <2>2. ListsTyped' /\ Items(toNotify') = Items(toNotify) \cup {r}
    BY <1>1, <2>1, Typed, PushHolds DEF IInv, ListsTyped, ListsSound
  <2> QED
    BY <1>1, <2>1, <2>2, NoRunAtRest, HoldsAre, HoldsBecome DEF Moves, PlaceNames
<1> QED
  BY <1>2, <1>3

LEMMA ImportThrowMoves ==
    ASSUME IInv, ScpImportThrows
    PROVE  Moves(importer.run, "importer", "outside") /\ ListsTyped'
<1>1. /\ importer.at \in {"assignment", "submission"} /\ importer' = Dead
      /\ UNCHANGED <<toImport, toExport, toNotify, exporter, notifier, pending, body>>
  BY DEF ScpImportThrows, TryThrows, ImportUnchanged
<1>2. importer.run \in Runs
  BY <1>1, RunOfThread DEF IInv
<1>3. ListsTyped'
  BY <1>1, Typed DEF IInv, ListsTyped, ListsSound
<1> QED
  BY <1>1, <1>2, <1>3, NoRunAtRest, HoldsAre, HoldsBecome DEF Moves, PlaceNames

LEMMA CrashEmpties ==
    ASSUME Crash
    PROVE  ListsTyped' /\ \A p \in PlaceNames : Holds(p)' = {}
<1>1. /\ toImport' = <<>> /\ toExport' = <<>> /\ toNotify' = <<>>
      /\ importer' = Waiting /\ exporter' = Waiting /\ notifier' = Waiting
      /\ pending' = {} /\ body' = {}
  BY DEF Crash
<1> QED
  BY <1>1, EmptyHolds, NoRunAtRest, HoldsBecome DEF PlaceNames, ListsTyped, ListsSound

-----------------------------------------------------------------------------
(* What a move preserves.                                                  *)

(* The others' data stay; the run is inside unless it has gone out.        *)
OthersStay(r, to) ==
    /\ fate'[r] = "inside" <=> to # "outside"
    /\ \A s \in Runs \ {r} :
          fate'[s] = fate[s] /\ errMsg'[s] = errMsg[s] /\ here'[s] = here[s] /\ logs'[s] = logs[s]

(* WasTested and WasSaved after a step of the run it is about.             *)
TestedThen(r) == errMsg'[r] = NoMessage => Needed \subseteq here'[r] /\ logs'[r] = "files"
SavedThen(r) ==
    errMsg'[r] = NoMessage => Needed \subseteq here'[r] /\ logs'[r] \in {"saved", "cut off"}

PlacesOrOut == PlaceNames \cup {"outside"}

LEMMA MovePlaces ==
    ASSUME PlacesSound, NEW r, NEW from \in PlacesOrOut, NEW to \in PlacesOrOut,
           Moves(r, from, to), OthersStay(r, to), from = "outside" => ~ Inside(r)
    PROVE  PlacesSound'
<1> SUFFICES ASSUME NEW s \in Runs
             PROVE  /\ Inside(s)' <=> \E p \in PlaceNames : s \in Holds(p)'
                    /\ \A p, q \in PlaceNames : s \in Holds(p)' /\ s \in Holds(q)' => p = q
  BY DEF PlacesSound
<1>1. "outside" \notin PlaceNames
  BY DEF PlaceNames
<1>2. CASE s = r
  <2>1. ASSUME NEW p \in PlaceNames
        PROVE  r \in Holds(p)' <=> p = to
    <3>1. r \in Holds(p) => p = from
      BY <1>1 DEF PlacesSound, PlacesOrOut, Moves
    <3> QED
      BY <3>1 DEF Moves
  <2> QED
    BY <1>1, <1>2, <2>1 DEF OthersStay, PlacesOrOut, Inside
<1>3. CASE s # r
  <2>1. ASSUME NEW p \in PlaceNames
        PROVE  s \in Holds(p)' <=> s \in Holds(p)
    BY <1>3 DEF Moves
  <2>2. Inside(s)' <=> Inside(s)
    BY <1>3 DEF OthersStay, Inside
  <2> QED
    BY <2>1, <2>2 DEF PlacesSound
<1> QED
  BY <1>2, <1>3

LEMMA MoveMessages ==
    ASSUME PlacesSound, MessagesSound, NEW r, NEW from \in PlacesOrOut, NEW to \in PlacesOrOut,
           Moves(r, from, to), OthersStay(r, to), from = "outside" => ~ Inside(r),
           to \in {"toExport", "exporter"} => TestedThen(r),
           to \in {"toNotify", "notifier"} \/ fate'[r] = "reported" => SavedThen(r)
    PROVE  MessagesSound'
<1>1. "outside" \notin PlaceNames
  BY DEF PlaceNames
<1>2. ASSUME NEW p \in PlaceNames
      PROVE  /\ r \in Holds(p)' => p = to
             /\ \A s \in Holds(p)' : s # r => s \in Holds(p)
  <2>1. r \in Holds(p) => p = from
    BY <1>1 DEF PlacesSound, PlacesOrOut, Moves
  <2> QED
    BY <2>1 DEF Moves
<1>3. ASSUME NEW s \in Runs, s # r
      PROVE  /\ WasTested(s) => WasTested(s)'
             /\ WasSaved(s) => WasSaved(s)'
             /\ fate'[s] = fate[s]
  BY <1>3 DEF OthersStay, WasTested, WasSaved
<1>4. ASSUME NEW p \in {"toExport", "exporter", "toNotify", "notifier"}, NEW s \in Holds(p)'
      PROVE  s \in Runs
  BY <1>4, HoldsBecome DEF Items
<1>5. (TestedThen(r) => WasTested(r)') /\ (SavedThen(r) => WasSaved(r)')
  BY DEF TestedThen, SavedThen, WasTested, WasSaved
<1> QED
  BY <1>2, <1>3, <1>4, <1>5 DEF MessagesSound, PlaceNames

-----------------------------------------------------------------------------
(* Every step, by the threads that take it.                                *)

(* The parts of the invariant that the lemmas above do not give.           *)
RestTyped ==
    /\ importer \in Busy({"reserving", "assignment", "submission"})
    /\ exporter \in Busy({"copying"})
    /\ notifier \in Busy({"posting"})
    /\ pending \subseteq Runs /\ body \subseteq held /\ held \subseteq Runs
    /\ IsFiniteSet(held) /\ Cardinality(held) <= PoolSize
    /\ flagged \subseteq Runs
    /\ errMsg \in [Runs -> ErrMsgs]
    /\ here \in [Runs -> SUBSET Inputs]
    /\ logs \in [Runs -> {"no directory", "no files", "files", "saved", "cut off"}]
    /\ fate \in [Runs -> {"absent", "inside", "reported", "removed", "lost"}]

LEMMA Parts ==
    /\ IInv <=> /\ ListsTyped /\ RestTyped /\ PlacesSound /\ MessagesSound
                /\ faults \in 0..MaxFaults /\ conductorHost \in Hosts
    /\ IInv' <=> /\ ListsTyped' /\ RestTyped' /\ PlacesSound' /\ MessagesSound'
                 /\ faults' \in 0..MaxFaults /\ conductorHost' \in Hosts
BY DEF IInv, TypeOK, ListsTyped, RestTyped

LEMMA PerRunTyped ==
    ASSUME IInv
    PROVE  /\ errMsg \in [Runs -> ErrMsgs]
           /\ here \in [Runs -> SUBSET Inputs]
           /\ logs \in [Runs -> {"no directory", "no files", "files", "saved", "cut off"}]
           /\ fate \in [Runs -> {"absent", "inside", "reported", "removed", "lost"}]
BY DEF IInv, TypeOK

Kept == ListsTyped' /\ RestTyped' /\ PlacesSound' /\ MessagesSound'

LEMMA MoveKeeps ==
    ASSUME IInv, NEW r, NEW from \in PlacesOrOut, NEW to \in PlacesOrOut,
           Moves(r, from, to) /\ ListsTyped', RestTyped',
           OthersStay(r, to), from = "outside" => ~ Inside(r),
           to \in {"toExport", "exporter"} => TestedThen(r),
           to \in {"toNotify", "notifier"} \/ fate'[r] = "reported" => SavedThen(r)
    PROVE  Kept
BY MovePlaces, MoveMessages DEF IInv, Kept

(* A run at a place is inside.                                             *)
LEMMA HeldInside ==
    ASSUME PlacesSound, NEW r \in Runs, NEW p \in PlaceNames, r \in Holds(p)
    PROVE  Inside(r)
BY DEF PlacesSound

LEMMA AcceptKeeps ==
    ASSUME IInv, NEW r \in Runs, Accept(r)
    PROVE  Kept
<1>1. /\ fate[r] = "absent" /\ fate' = [fate EXCEPT ![r] = "inside"]
      /\ UNCHANGED <<importer, exporter, notifier, pending, body, held>>
      /\ UNCHANGED <<flagged, errMsg, here, logs>>
  BY DEF Accept, threads, executor, perRun
<1>2. RestTyped'
  BY <1>1, Parts DEF RestTyped
<1>3. OthersStay(r, "toImport") /\ ~ Inside(r) /\ fate'[r] # "reported"
  BY <1>1, PerRunTyped DEF OthersStay, Inside
<1> QED
  BY <1>2, <1>3, AcceptMoves, MoveKeeps DEF PlacesOrOut, PlaceNames

LEMMA ImportTakeKeeps ==
    ASSUME IInv, ImportTake
    PROVE  Kept
<1> DEFINE r == Last(toImport)
<1>1. Moves(r, "toImport", "importer") /\ ListsTyped'
  BY ImportTakeMoves
<1>2. r \in Runs /\ Inside(r)
  BY <1>1, HeldInside DEF Moves, IInv, PlaceNames
<1>3. /\ importer' = [at |-> "reserving", run |-> r]
      /\ UNCHANGED <<exporter, notifier, pending, body, held, flagged, errMsg, here, logs, fate>>
  BY DEF ImportTake, ImportUnchanged
<1>4. RestTyped'
  BY <1>2, <1>3, Parts DEF RestTyped, Busy
<1>5. OthersStay(r, "importer")
  BY <1>2, <1>3 DEF OthersStay, Inside
<1>6. fate'[r] # "reported"
  BY <1>2, <1>3 DEF Inside
<1> HIDE DEF r
<1> QED
  BY <1>1, <1>4, <1>5, <1>6, MoveKeeps DEF PlacesOrOut, PlaceNames

LEMMA ImportWorkKeeps ==
    ASSUME IInv, ImportWork
    PROVE  Kept
<1> DEFINE r == importer.run
<1>1. /\ r \in Runs
      /\ UNCHANGED <<toExport, exporter, notifier, body, held, flagged, logs>>
      /\ ImportGivesUp \/ ImportHandsOn \/ ImportGoesOn
  BY ImportWorks DEF ImportUnchanged, IInv
<1>2. r \in Holds("importer") /\ Inside(r)
  <2>1. r \in Holds("importer")
    BY <1>1, HoldsAre
  <2> QED
    BY <1>1, <2>1, HeldInside DEF IInv, PlaceNames
<1>3. ListsTyped'
  BY ImportWorkMoves
<1>4. Waiting \in Busy({"reserving", "assignment", "submission"})
  BY DEF Busy
<1>5. CASE ImportGivesUp
  <2>1. PICK msg \in {"", "error"} : /\ errMsg' = [errMsg EXCEPT ![r] = msg]
                                     /\ importer' = Waiting
                                     /\ UNCHANGED <<pending, here, fate>>
    BY <1>5 DEF ImportGivesUp, GiveUp, SetErrMsg
  <2>2. RestTyped'
    <3>1. errMsg' \in [Runs -> ErrMsgs]
      BY <1>1, <2>1, PerRunTyped DEF ErrMsgs
    <3> QED
      BY <1>1, <1>4, <2>1, <3>1, Parts DEF RestTyped
  <2>3. OthersStay(r, "toNotify") /\ SavedThen(r) /\ fate'[r] # "reported"
    BY <1>1, <1>2, <2>1, PerRunTyped DEF OthersStay, Inside, SavedThen, NoMessage
  <2>4. Moves(r, "importer", "toNotify")
    BY <1>5, ImportWorkMoves
  <2> HIDE DEF r
  <2> QED
    BY <1>3, <2>2, <2>3, <2>4, MoveKeeps DEF PlacesOrOut, PlaceNames
<1>6. CASE ImportHandsOn
  <2>1. PICK files \in SUBSET Inputs : here' = [here EXCEPT ![r] = @ \cup files]
    BY <1>6 DEF ImportHandsOn, Arrived
  <2>2. pending' = pending \cup {r} /\ importer' = Waiting /\ UNCHANGED <<errMsg, fate>>
    BY <1>6 DEF ImportHandsOn, HandOn
  <2>3. RestTyped'
    BY <1>1, <1>4, <2>1, <2>2, Parts DEF RestTyped
  <2>4. OthersStay(r, "pending") /\ fate'[r] # "reported"
    BY <1>1, <1>2, <2>1, <2>2, PerRunTyped DEF OthersStay, Inside
  <2>5. Moves(r, "importer", "pending")
    BY <1>6, ImportWorkMoves
  <2> HIDE DEF r
  <2> QED
    BY <1>3, <2>3, <2>4, <2>5, MoveKeeps DEF PlacesOrOut, PlaceNames
<1>7. CASE ImportGoesOn
  <2>1. PICK files \in SUBSET Inputs : here' = here \/ here' = [here EXCEPT ![r] = @ \cup files]
    BY <1>7 DEF ImportGoesOn, Arrived
  <2>2. PICK place \in {"assignment", "submission"} : importer' = [importer EXCEPT !.at = place]
    BY <1>7 DEF ImportGoesOn
  <2>3. UNCHANGED <<pending, errMsg, fate>>
    BY <1>7 DEF ImportGoesOn
  <2>4. importer' \in Busy({"reserving", "assignment", "submission"})
    <3>1. importer \in Busy({"reserving", "assignment", "submission"}) /\ importer.run \in Runs
      BY <1>1, Parts DEF RestTyped
    <3>2. importer \in [at : {"reserving", "assignment", "submission"}, run : Runs]
      BY <3>1, NoRunAtRest DEF Busy
    <3> QED
      BY <2>2, <3>2 DEF Busy
  <2>5. here' \in [Runs -> SUBSET Inputs] /\ \A s \in Runs \ {r} : here'[s] = here[s]
    BY <1>1, <2>1, PerRunTyped
  <2>6. RestTyped'
    BY <1>1, <2>3, <2>4, <2>5, Parts DEF RestTyped
  <2>7. NoneMoves
    BY <1>7, ImportWorkMoves
  <2>8. PlacesSound'
    BY <2>3, <2>7 DEF IInv, PlacesSound, NoneMoves, Inside
  <2>9. MessagesSound'
    <3>1. ASSUME NEW p \in {"toExport", "exporter", "toNotify", "notifier"}, NEW s \in Holds(p)
          PROVE  s \in Runs \ {r}
      <4>1. s \in Runs
        BY <3>1, HoldsAre DEF Items
      <4> QED
        BY <1>2, <3>1, <4>1 DEF IInv, PlacesSound, PlaceNames
    <3>2. ASSUME NEW s \in Runs \ {r}
          PROVE  (WasTested(s) => WasTested(s)') /\ (WasSaved(s) => WasSaved(s)')
      BY <1>1, <2>3, <2>5 DEF WasTested, WasSaved
    <3>3. ASSUME NEW s \in Runs, fate'[s] = "reported"
          PROVE  s # r /\ fate[s] = "reported"
      BY <1>2, <2>3, <3>3 DEF Inside
    <3> QED
      BY <2>7, <3>1, <3>2, <3>3 DEF IInv, MessagesSound, NoneMoves, PlaceNames
  <2> QED
    BY <1>3, <2>6, <2>8, <2>9 DEF Kept
<1> QED
  BY <1>1, <1>5, <1>6, <1>7

LEMMA StayKeeps ==
    ASSUME IInv, NoneMoves /\ ListsTyped', RestTyped', UNCHANGED <<errMsg, here, logs, fate>>
    PROVE  Kept
<1>1. PlacesSound'
  BY DEF IInv, PlacesSound, NoneMoves, Inside
<1>2. ASSUME NEW p \in {"toExport", "exporter", "toNotify", "notifier"}
      PROVE  Holds(p)' = Holds(p)
  BY <1>2 DEF NoneMoves, PlaceNames
<1>3. ASSUME NEW s
      PROVE  WasTested(s)' = WasTested(s) /\ WasSaved(s)' = WasSaved(s)
  BY DEF WasTested, WasSaved
<1>4. MessagesSound'
  BY <1>2, <1>3 DEF IInv, MessagesSound
<1> QED
  BY <1>1, <1>4 DEF Kept

LEMMA StartKeeps ==
    ASSUME IInv, NEW r \in Runs, Start(r)
    PROVE  Kept
<1>1. /\ r \in pending /\ pending' = pending \ {r} /\ body' = body \cup {r}
      /\ Cardinality(held) < PoolSize /\ held' = held \cup {r}
      /\ UNCHANGED <<importer, exporter, notifier, flagged, errMsg, here, logs, fate>>
  BY DEF Start, ExecutorUnchanged, threads
<1>2. Inside(r)
  BY <1>1, HoldsAre, HeldInside DEF IInv, PlaceNames
<1>3. IsFiniteSet(held') /\ Cardinality(held') <= PoolSize
  <2>1. IsFiniteSet(held) /\ Cardinality(held) \in Nat /\ PoolSize \in Nat
    BY FS_CardinalityType, PipelineAssumption DEF IInv
  <2>2. /\ IsFiniteSet(held \cup {r})
        /\ Cardinality(held \cup {r}) = IF r \in held THEN Cardinality(held)
                                        ELSE Cardinality(held) + 1
    BY <2>1, FS_AddElement
  <2> QED
    BY <1>1, <2>1, <2>2
<1>4. RestTyped'
  BY <1>1, <1>3, Parts DEF RestTyped
<1>5. OthersStay(r, "body") /\ fate'[r] # "reported"
  BY <1>1, <1>2 DEF OthersStay, Inside
<1>6. Moves(r, "pending", "body") /\ ListsTyped'
  BY ExecutorMoves
<1> QED
  BY <1>4, <1>5, <1>6, MoveKeeps DEF PlacesOrOut, PlaceNames

LEMMA TestsEndKeeps ==
    ASSUME IInv, NEW r \in Runs, TestsEnd(r)
    PROVE  Kept
<1>1. /\ r \in body /\ body' = body \ {r}
      /\ UNCHANGED <<importer, exporter, notifier, pending, held, flagged, here, fate>>
  BY DEF TestsEnd, ExecutorUnchanged, threads
<1>2. PICK msg \in Messages(r), output \in {"no directory", "no files", "files"} :
         /\ msg = NoMessage => output = "files"
         /\ errMsg' = [errMsg EXCEPT ![r] = msg] /\ logs' = [logs EXCEPT ![r] = output]
  BY DEF TestsEnd
<1>3. msg \in ErrMsgs /\ (msg = NoMessage => Needed \subseteq here[r])
  BY <1>2 DEF Messages, NoMessage, ErrMsgs
<1>4. Inside(r)
  BY <1>1, HoldsAre, HeldInside DEF IInv, PlaceNames
<1>5. RestTyped'
  BY <1>1, <1>2, <1>3, Parts DEF RestTyped
<1>6. OthersStay(r, "toExport") /\ TestedThen(r) /\ fate'[r] # "reported"
  BY <1>1, <1>2, <1>3, <1>4, PerRunTyped DEF OthersStay, TestedThen, Inside
<1>7. Moves(r, "body", "toExport") /\ ListsTyped'
  BY ExecutorMoves
<1> QED
  BY <1>5, <1>6, <1>7, MoveKeeps DEF PlacesOrOut, PlaceNames

LEMMA CancelQueuedKeeps ==
    ASSUME IInv, NEW r \in Runs, CancelQueued(r)
    PROVE  Kept
<1>1. /\ pending' = pending \ {r} /\ fate' = [fate EXCEPT ![r] = "removed"]
      /\ UNCHANGED <<importer, exporter, notifier, body, held, flagged, errMsg, here, logs>>
  BY DEF CancelQueued, ExecutorUnchanged, threads
<1>2. RestTyped'
  BY <1>1, Parts DEF RestTyped
<1>3. OthersStay(r, "outside") /\ fate'[r] # "reported"
  BY <1>1, PerRunTyped DEF OthersStay, Inside
<1>4. Moves(r, "pending", "outside") /\ ListsTyped'
  BY ExecutorMoves
<1> QED
  BY <1>2, <1>3, <1>4, MoveKeeps DEF PlacesOrOut, PlaceNames

LEMMA HeldKeeps ==
    ASSUME IInv, NEW r \in Runs, Drop(r) \/ CancelHeld(r)
    PROVE  Kept
<1>1. UNCHANGED <<importer, exporter, notifier, pending, body, errMsg, here, logs, fate>>
  BY DEF Drop, CancelHeld, ExecutorUnchanged, threads, executor
<1>2. CASE Drop(r)
  <2>1. r \in held /\ r \notin body /\ held' = held \ {r} /\ UNCHANGED flagged
    BY <1>2 DEF Drop, Done
  <2>2. IsFiniteSet(held') /\ Cardinality(held') <= PoolSize
    <3>1. IsFiniteSet(held) /\ Cardinality(held) \in Nat /\ Cardinality(held) <= PoolSize
      BY FS_CardinalityType DEF IInv, TypeOK
    <3>2. /\ IsFiniteSet(held \ {r})
          /\ Cardinality(held \ {r}) = IF r \in held THEN Cardinality(held) - 1
                                       ELSE Cardinality(held)
      BY <3>1, FS_RemoveElement
    <3> QED
      BY <2>1, <3>1, <3>2, PipelineAssumption
  <2>3. RestTyped'
    BY <1>1, <2>1, <2>2, Parts DEF RestTyped
  <2> QED
    BY <1>1, <1>2, <2>3, ExecutorMoves, StayKeeps
<1>3. CASE CancelHeld(r)
  <2>1. flagged' = flagged \cup {r} /\ UNCHANGED held
    BY <1>3 DEF CancelHeld, executor
  <2>2. RestTyped'
    BY <1>1, <2>1, Parts DEF RestTyped
  <2> QED
    BY <1>1, <1>3, <2>2, ExecutorMoves, StayKeeps
<1> QED
  BY <1>2, <1>3

LEMMA ExportTakeKeeps ==
    ASSUME IInv, ExportTake
    PROVE  Kept
<1> DEFINE r == Last(toExport)
<1>1. /\ toExport # <<>>
      /\ UNCHANGED <<importer, notifier, pending, body, held, flagged, errMsg, here, logs>>
      /\ \/ exporter' = Dead /\ fate' = [fate EXCEPT ![r] = "lost"]
         \/ exporter' = [at |-> "copying", run |-> r] /\ UNCHANGED fate
  BY DEF ExportTake, ExportUnchanged, executor
<1>2. r \in Runs /\ r \in Holds("toExport")
  BY <1>1, Typed, TakeHolds, HoldsAre DEF IInv, ListsTyped, ListsSound, Items
<1>3. Inside(r) /\ WasTested(r)
  BY <1>2, HeldInside DEF IInv, MessagesSound, PlaceNames
<1>4. Dead # [at |-> "copying", run |-> r]
  BY DEF Dead
<1>5. CASE exporter' = Dead
  <2>1. fate' = [fate EXCEPT ![r] = "lost"]
    BY <1>1, <1>4, <1>5
  <2>2. RestTyped'
    BY <1>1, <1>2, <1>5, <2>1, Parts DEF RestTyped, Busy
  <2>3. OthersStay(r, "outside") /\ fate'[r] # "reported"
    BY <1>1, <1>2, <2>1, PerRunTyped DEF OthersStay
  <2>4. Moves(r, "toExport", "outside") /\ ListsTyped'
    BY <1>5, ExportTakeMoves
  <2> HIDE DEF r
  <2> QED
    BY <2>2, <2>3, <2>4, MoveKeeps DEF PlacesOrOut, PlaceNames
<1>6. CASE exporter' # Dead
  <2>1. exporter' = [at |-> "copying", run |-> r] /\ UNCHANGED fate
    BY <1>1, <1>6
  <2>2. RestTyped'
    BY <1>1, <1>2, <2>1, Parts DEF RestTyped, Busy
  <2>3. OthersStay(r, "exporter") /\ TestedThen(r) /\ fate'[r] # "reported"
    BY <1>1, <1>2, <1>3, <2>1 DEF OthersStay, TestedThen, WasTested, Inside
  <2>4. Moves(r, "toExport", "exporter") /\ ListsTyped'
    BY <1>6, ExportTakeMoves
  <2> HIDE DEF r
  <2> QED
    BY <2>2, <2>3, <2>4, MoveKeeps DEF PlacesOrOut, PlaceNames
<1> QED
  BY <1>5, <1>6

LEMMA ExporterKeeps ==
    ASSUME IInv, ExportEnds \/ ScpExportThrows
    PROVE  Kept
<1> DEFINE r == exporter.run
<1>1. /\ exporter.at = "copying"
      /\ UNCHANGED <<importer, notifier, pending, body, held, flagged, here>>
  BY DEF ExportEnds, ScpExportThrows, ExportUnchanged, executor
<1>2. r \in Runs /\ r \in Holds("exporter")
  BY <1>1, RunOfThread, HoldsAre DEF IInv
<1>3. Inside(r) /\ WasTested(r)
  BY <1>2, HeldInside DEF IInv, MessagesSound, PlaceNames
<1>4. Waiting \in Busy({"copying"}) /\ Dead \in Busy({"copying"})
  BY DEF Busy
<1>5. CASE ExportEnds
  <2>1. exporter' = Waiting /\ UNCHANGED fate
    BY <1>5 DEF ExportEnds
  <2>2. \/ /\ UNCHANGED errMsg
           /\ logs' = [logs EXCEPT ![r] = IF logs[r] = "files" THEN "saved" ELSE logs[r]]
        \/ errMsg' = [errMsg EXCEPT ![r] = "error"] /\ UNCHANGED logs
        \/ UNCHANGED errMsg /\ logs' = [logs EXCEPT ![r] = "cut off"]
    BY <1>2, <1>5, PerRunTyped DEF ExportEnds, SaveFails, SetErrMsg
  <2>3. errMsg' = errMsg \/ errMsg' = [errMsg EXCEPT ![r] = "error"]
    BY <2>2
  <2>4. \E v \in {"saved", "cut off", logs[r]} : logs' = [logs EXCEPT ![r] = v]
    BY <1>2, <2>2, PerRunTyped
  <2>5. RestTyped'
    <3>1. errMsg' \in [Runs -> ErrMsgs]
      BY <1>2, <2>3, PerRunTyped DEF ErrMsgs
    <3>2. logs' \in [Runs -> {"no directory", "no files", "files", "saved", "cut off"}]
      BY <1>2, <2>4, PerRunTyped
    <3> QED
      BY <1>1, <1>4, <2>1, <3>1, <3>2, Parts DEF RestTyped
  <2>6. SavedThen(r)
    <3>1. CASE UNCHANGED errMsg
      BY <1>1, <1>2, <1>3, <2>2, <3>1, PerRunTyped DEF SavedThen, WasTested, NoMessage
    <3>2. CASE errMsg' = [errMsg EXCEPT ![r] = "error"]
      BY <1>2, <3>2, PerRunTyped DEF SavedThen, NoMessage
    <3> QED
      BY <2>3, <3>1, <3>2
  <2>7. OthersStay(r, "toNotify") /\ fate'[r] # "reported"
    BY <1>1, <1>2, <1>3, <2>1, <2>3, <2>4, PerRunTyped DEF OthersStay, Inside
  <2>8. Moves(r, "exporter", "toNotify") /\ ListsTyped'
    BY <1>5, ExporterMoves
  <2> HIDE DEF r
  <2> QED
    BY <2>5, <2>6, <2>7, <2>8, MoveKeeps DEF PlacesOrOut, PlaceNames
<1>6. CASE ScpExportThrows
  <2>1. /\ exporter' = Dead /\ fate' = [fate EXCEPT ![r] = "lost"]
        /\ UNCHANGED <<errMsg, logs>>
    BY <1>6 DEF ScpExportThrows, TryThrows
  <2>2. RestTyped'
    BY <1>1, <1>2, <1>4, <2>1, Parts DEF RestTyped
  <2>3. OthersStay(r, "outside") /\ fate'[r] # "reported"
    BY <1>1, <1>2, <2>1, PerRunTyped DEF OthersStay
  <2>4. Moves(r, "exporter", "outside") /\ ListsTyped'
    BY <1>6, ExporterMoves
  <2> HIDE DEF r
  <2> QED
    BY <2>2, <2>3, <2>4, MoveKeeps DEF PlacesOrOut, PlaceNames
<1> QED
  BY <1>5, <1>6

LEMMA NotifyTakeKeeps ==
    ASSUME IInv, NotifyTake
    PROVE  Kept
<1> DEFINE r == Last(toNotify)
<1>1. /\ toNotify # <<>> /\ notifier' = [at |-> "posting", run |-> r]
      /\ UNCHANGED <<importer, exporter, pending, body, held, flagged, errMsg, here, logs, fate>>
  BY DEF NotifyTake, NotifyUnchanged, executor, perRun
<1>2. r \in Runs /\ r \in Holds("toNotify")
  BY <1>1, Typed, TakeHolds, HoldsAre DEF IInv, ListsTyped, ListsSound, Items
<1>3. Inside(r) /\ WasSaved(r)
  BY <1>2, HeldInside DEF IInv, MessagesSound, PlaceNames
<1>4. RestTyped'
  BY <1>1, <1>2, Parts DEF RestTyped, Busy
<1>5. OthersStay(r, "notifier") /\ SavedThen(r)
  BY <1>1, <1>2, <1>3 DEF OthersStay, SavedThen, WasSaved, Inside
<1>6. Moves(r, "toNotify", "notifier") /\ ListsTyped'
  BY NotifyTakeMoves
<1> HIDE DEF r
<1> QED
  BY <1>4, <1>5, <1>6, MoveKeeps DEF PlacesOrOut, PlaceNames

LEMMA NotifierKeeps ==
    ASSUME IInv, PostAnswered \/ PostFails \/ PostHangs
    PROVE  Kept
<1> DEFINE r == notifier.run
<1>1. /\ notifier.at = "posting"
      /\ UNCHANGED <<importer, exporter, pending, body, held, flagged, errMsg, here, logs>>
  BY DEF PostAnswered, PostFails, PostHangs, NotifyUnchanged, executor, perRun
<1>2. r \in Runs /\ r \in Holds("notifier")
  BY <1>1, RunOfThread, HoldsAre DEF IInv
<1>3. Inside(r) /\ WasSaved(r)
  BY <1>2, HeldInside DEF IInv, MessagesSound, PlaceNames
<1>4. Waiting \in Busy({"posting"}) /\ Dead \in Busy({"posting"})
  BY DEF Busy
<1>5. SavedThen(r)
  BY <1>1, <1>3 DEF SavedThen, WasSaved
<1>6. CASE PostAnswered \/ PostHangs
  <2>1. /\ notifier' \in {Waiting, Dead}
        /\ \E what \in {"reported", "lost"} : fate' = [fate EXCEPT ![r] = what]
    BY <1>6 DEF PostAnswered, PostHangs
  <2>2. RestTyped'
    BY <1>1, <1>2, <1>4, <2>1, Parts DEF RestTyped
  <2>3. OthersStay(r, "outside")
    BY <1>1, <1>2, <2>1, PerRunTyped DEF OthersStay
  <2>4. Moves(r, "notifier", "outside") /\ ListsTyped'
    BY <1>6, NotifierMoves
  <2> HIDE DEF r
  <2> QED
    BY <1>5, <2>2, <2>3, <2>4, MoveKeeps DEF PlacesOrOut, PlaceNames
<1>7. CASE PostFails
  <2>1. notifier' = Waiting /\ UNCHANGED fate
    BY <1>7 DEF PostFails
  <2>2. RestTyped'
    BY <1>1, <1>4, <2>1, Parts DEF RestTyped
  <2>3. OthersStay(r, "toNotify")
    BY <1>1, <1>3, <2>1 DEF OthersStay, Inside
  <2>4. Moves(r, "notifier", "toNotify") /\ ListsTyped'
    BY <1>7, NotifierMoves
  <2> HIDE DEF r
  <2> QED
    BY <1>5, <2>2, <2>3, <2>4, MoveKeeps DEF PlacesOrOut, PlaceNames
<1> QED
  BY <1>6, <1>7

LEMMA ImportThrowKeeps ==
    ASSUME IInv, ScpImportThrows
    PROVE  Kept
<1> DEFINE r == importer.run
<1>1. /\ importer.at \in {"assignment", "submission"} /\ importer' = Dead
      /\ fate' = [fate EXCEPT ![r] = "lost"]
      /\ UNCHANGED <<exporter, notifier, pending, body, held, flagged, errMsg, here, logs>>
  BY DEF ScpImportThrows, TryThrows, ImportUnchanged
<1>2. r \in Runs
  BY <1>1, RunOfThread DEF IInv
<1>3. RestTyped'
  BY <1>1, <1>2, Parts DEF RestTyped, Busy
<1>4. OthersStay(r, "outside") /\ fate'[r] # "reported"
  BY <1>1, <1>2, PerRunTyped DEF OthersStay
<1>5. Moves(r, "importer", "outside") /\ ListsTyped'
  BY ImportThrowMoves
<1> HIDE DEF r
<1> QED
  BY <1>3, <1>4, <1>5, MoveKeeps DEF PlacesOrOut, PlaceNames

LEMMA CrashKeeps ==
    ASSUME IInv, Crash
    PROVE  Kept
<1>1. /\ importer' = Waiting /\ exporter' = Waiting /\ notifier' = Waiting
      /\ pending' = {} /\ body' = {} /\ held' = {}
      /\ fate' = [r \in Runs |-> IF fate[r] = "inside" THEN "lost" ELSE fate[r]]
      /\ UNCHANGED <<flagged, errMsg, here, logs>>
  BY DEF Crash, perRun
<1>2. fate' \in [Runs -> {"absent", "inside", "reported", "removed", "lost"}]
  BY <1>1, PerRunTyped
<1>3. IsFiniteSet(held') /\ Cardinality(held') <= PoolSize
  BY <1>1, FS_EmptySet, PipelineAssumption
<1>4. Waiting \in Busy({"reserving", "assignment", "submission"}) /\ Waiting \in Busy({"copying"})
      /\ Waiting \in Busy({"posting"})
  BY DEF Busy
<1>5. RestTyped'
  BY <1>1, <1>2, <1>3, <1>4, Parts DEF RestTyped
<1>6. PlacesSound'
  BY <1>1, CrashEmpties DEF PlacesSound, Inside
<1>7. MessagesSound'
  <2>1. ASSUME NEW p \in {"toExport", "exporter", "toNotify", "notifier"}
        PROVE  Holds(p)' = {}
    BY <2>1, CrashEmpties DEF PlaceNames
  <2>2. ASSUME NEW s \in Runs, fate'[s] = "reported"
        PROVE  WasSaved(s)'
    BY <1>1, <2>2 DEF IInv, MessagesSound, WasSaved
  <2> QED
    BY <2>1, <2>2 DEF MessagesSound
<1> QED
  BY <1>5, <1>6, <1>7, CrashEmpties DEF Kept

-----------------------------------------------------------------------------
(* The invariant.                                                          *)

LEMMA StepKeeps == ASSUME IInv, Step PROVE Kept
<1>1. CASE ImportTake \/ ImportWork \/ ScpImportThrows
  BY <1>1, ImportTakeKeeps, ImportWorkKeeps, ImportThrowKeeps
<1>2. CASE ExportTake \/ ExportEnds \/ ScpExportThrows
  BY <1>2, ExportTakeKeeps, ExporterKeeps
<1>3. CASE NotifyTake \/ PostAnswered \/ PostFails \/ PostHangs
  BY <1>3, NotifyTakeKeeps, NotifierKeeps
<1>4. CASE Crash
  BY <1>4, CrashKeeps
<1>5. ASSUME NEW r \in Runs,
             Accept(r) \/ Start(r) \/ TestsEnd(r) \/ Drop(r) \/ CancelQueued(r) \/ CancelHeld(r)
      PROVE  Kept
  BY <1>5, AcceptKeeps, StartKeeps, TestsEndKeeps, HeldKeeps, CancelQueuedKeeps
<1> QED
  BY <1>1, <1>2, <1>3, <1>4, <1>5
  DEF Step, ImportStep, ImportWork, ExportStep, NotifyStep, Throws

LEMMA FaultsTyped ==
    ASSUME faults \in 0..MaxFaults, Step
    PROVE  faults' \in 0..MaxFaults
<1>1. faults' = faults \/ \E kind : Fault(kind)
  <2>1. CASE ImportStep \/ ScpImportThrows
    BY <2>1 DEF ImportStep, ImportTake, ReserveDirs, ScpAssignment, ScpSubmission, ScpCode,
                NoFault, ScpImportThrows
  <2>2. CASE ExportStep \/ ScpExportThrows
    BY <2>2 DEF ExportStep, ExportTake, ExportEnds, NoFault, ScpExportThrows
  <2>3. CASE NotifyStep \/ PostHangs \/ Crash
    BY <2>3 DEF NotifyStep, NotifyTake, PostAnswered, PostFails, PostHangs, NoFault, Crash
  <2>4. ASSUME NEW r \in Runs,
               Accept(r) \/ Start(r) \/ TestsEnd(r) \/ Drop(r) \/ CancelQueued(r) \/ CancelHeld(r)
        PROVE  faults' = faults \/ \E kind : Fault(kind)
    BY <2>4 DEF Accept, Start, TestsEnd, Drop, CancelQueued, CancelHeld, NoFault
  <2> QED
    BY <2>1, <2>2, <2>3, <2>4 DEF Step, Throws
<1> QED
  BY <1>1, PipelineAssumption DEF Fault

LEMMA InitSound == Init => IInv
<1> SUFFICES ASSUME Init PROVE IInv
  OBVIOUS
<1>1. /\ toImport = <<>> /\ toExport = <<>> /\ toNotify = <<>>
      /\ importer = Waiting /\ exporter = Waiting /\ notifier = Waiting
      /\ pending = {} /\ body = {} /\ held = {} /\ \A r \in Runs : fate[r] = "absent"
  BY DEF Init
<1>2. IsFiniteSet(held) /\ Cardinality(held) <= PoolSize
  BY <1>1, FS_EmptySet, PipelineAssumption
<1>3. TypeOK
  <2>1. /\ \A q \in {toImport, toExport, toNotify} : q \in Seq(Runs)
        /\ body \subseteq held /\ held \subseteq Runs
    BY <1>1, EmptyHolds
  <2>2. /\ importer \in Busy({"reserving", "assignment", "submission"})
        /\ exporter \in Busy({"copying"}) /\ notifier \in Busy({"posting"})
    BY <1>1 DEF Busy
  <2>3. /\ errMsg \in [Runs -> ErrMsgs]
        /\ here \in [Runs -> SUBSET Inputs]
        /\ logs \in [Runs -> {"no directory", "no files", "files", "saved", "cut off"}]
        /\ fate \in [Runs -> {"absent", "inside", "reported", "removed", "lost"}]
    BY DEF Init, ErrMsgs
  <2>4. flagged \subseteq Runs /\ faults \in 0..MaxFaults /\ conductorHost \in Hosts
    <3>1. flagged = {} /\ faults = 0 /\ conductorHost \in Hosts
      BY DEF Init
    <3> QED
      BY <3>1, PipelineAssumption
  <2> QED
    BY <1>1, <1>2, <2>1, <2>2, <2>3, <2>4 DEF TypeOK
<1>4. ListsSound
  BY <1>1, EmptyHolds DEF ListsSound
<1>5. \A p \in PlaceNames : Holds(p) = {}
  BY <1>1, HoldsAre, EmptyHolds, NoRunAtRest DEF PlaceNames
<1>6. PlacesSound
  BY <1>1, <1>5 DEF PlacesSound, Inside
<1>7. MessagesSound
  BY <1>1, <1>5 DEF MessagesSound, PlaceNames
<1> QED
  BY <1>2, <1>3, <1>4, <1>6, <1>7 DEF IInv

LEMMA NextSound == IInv /\ [Next]_vars => IInv'
<1> SUFFICES ASSUME IInv, [Next]_vars PROVE IInv'
  OBVIOUS
<1>1. CASE Next
  <2>1. Step /\ conductorHost' = conductorHost
    BY <1>1 DEF Next
  <2>2. Kept
    BY <2>1, StepKeeps
  <2>3. faults' \in 0..MaxFaults /\ conductorHost' \in Hosts
    BY <2>1, Parts, FaultsTyped
  <2> QED
    BY <2>2, <2>3, Parts DEF Kept
<1>2. CASE UNCHANGED vars
  <2>1. /\ UNCHANGED <<toImport, toExport, toNotify, importer, exporter, notifier, pending, body>>
        /\ UNCHANGED <<held, flagged, errMsg, here, logs, fate, faults, conductorHost>>
    BY <1>2 DEF vars, queues, threads, executor, perRun
  <2>2. RestTyped'
    BY <2>1, Parts DEF RestTyped
  <2>3. ListsTyped'
    BY <2>1, Parts DEF ListsTyped, ListsSound
  <2>4. NoneMoves
    BY <2>1, HoldsAre, HoldsBecome DEF NoneMoves, PlaceNames
  <2>5. Kept
    BY <2>1, <2>2, <2>3, <2>4, StayKeeps
  <2>6. faults' \in 0..MaxFaults /\ conductorHost' \in Hosts
    BY <2>1, Parts
  <2> QED
    BY <2>5, <2>6, Parts DEF Kept
<1> QED
  BY <1>1, <1>2

(* The invariant holds for any number of runs, workers and faults: every   *)
(* variable has its type, no run is in two places of the pipeline, one that*)
(* is inside is in one, and what a run says of its tests is so.            *)
THEOREM PipelineSound == Spec => []IInv
<1>1. Init => IInv
  BY InitSound
<1>2. IInv /\ [Next]_vars => IInv'
  BY NextSound
<1> QED
  BY <1>1, <1>2, PTL DEF Spec

(* A run whose message is null when it is reported was tested with the     *)
(* files that its tests need and has its logs on the conductor, unless     *)
(* their scp was cut off at its timeout.  Nothing is said of the empty     *)
(* message, which an scp that fails without a word leaves                  *)
(* (ImportFromConductorRunnable.java:119).                                 *)
THEOREM ReportedSuccessIsReal == Spec => []SuccessIsReal
<1>1. IInv => SuccessIsReal
  BY DEF IInv, MessagesSound, WasSaved, SuccessIsReal
<1> QED
  BY <1>1, PipelineSound, PTL

LEMMA OccurrencesAre ==
    ASSUME NEW q \in Seq(Runs), Once(q), NEW r \in Runs
    PROVE  Occurrences(r, q) = IF r \in Items(q) THEN 1 ELSE 0
<1> DEFINE at == {i \in 1..Len(q) : q[i] = r}
<1>1. CASE r \in Items(q)
  <2>1. PICK i \in 1..Len(q) : q[i] = r
    BY <1>1 DEF Items, In
  <2>2. at = {i}
    BY <2>1 DEF Once
  <2> QED
    BY <1>1, <2>2, FS_Singleton DEF Occurrences
<1>2. CASE r \notin Items(q)
  <2>1. at = {}
    BY <1>2 DEF Items, In
  <2> QED
    BY <1>2, <2>1, FS_EmptySet DEF Occurrences
<1> QED
  BY <1>1, <1>2

LEMMA MembersAre ==
    ASSUME NEW S, NEW r
    PROVE  Cardinality({r} \cap S) = IF r \in S THEN 1 ELSE 0
<1>1. CASE r \in S
  <2>1. {r} \cap S = {r}
    BY <1>1
  <2> QED
    BY <1>1, <2>1, FS_Singleton
<1>2. CASE r \notin S
  <2>1. {r} \cap S = {}
    BY <1>2
  <2> QED
    BY <1>2, <2>1, FS_EmptySet
<1> QED
  BY <1>1, <1>2

LEMMA HandsAre ==
    ASSUME PlacesSound, NEW r \in Runs
    PROVE  Hands(r) = IF \E p \in {"importer", "exporter", "notifier"} : r \in Holds(p)
                      THEN 1 ELSE 0
<1> DEFINE hands == {t \in {<<1, importer>>, <<2, exporter>>, <<3, notifier>>} : t[2].run = r}
<1>1. /\ r \in Holds("importer") <=> importer.run = r
      /\ r \in Holds("exporter") <=> exporter.run = r
      /\ r \in Holds("notifier") <=> notifier.run = r
  BY HoldsAre
<1>2. ~ (importer.run = r /\ exporter.run = r) /\ ~ (importer.run = r /\ notifier.run = r)
      /\ ~ (exporter.run = r /\ notifier.run = r)
  BY <1>1 DEF PlacesSound, PlaceNames
<1>3. hands = {t \in {<<1, importer>>} : importer.run = r}
              \cup {t \in {<<2, exporter>>} : exporter.run = r}
              \cup {t \in {<<3, notifier>>} : notifier.run = r}
  OBVIOUS
<1>4. Hands(r) = Cardinality(hands)
  BY DEF Hands
<1> HIDE DEF hands
<1>5. CASE importer.run = r
  <2>1. hands = {<<1, importer>>}
    BY <1>2, <1>3, <1>5
  <2> QED
    BY <1>1, <1>4, <1>5, <2>1, FS_Singleton
<1>6. CASE exporter.run = r
  <2>1. hands = {<<2, exporter>>}
    BY <1>2, <1>3, <1>6
  <2> QED
    BY <1>1, <1>4, <1>6, <2>1, FS_Singleton
<1>7. CASE notifier.run = r
  <2>1. hands = {<<3, notifier>>}
    BY <1>2, <1>3, <1>7
  <2> QED
    BY <1>1, <1>4, <1>7, <2>1, FS_Singleton
<1>8. CASE importer.run # r /\ exporter.run # r /\ notifier.run # r
  <2>1. hands = {}
    BY <1>3, <1>8
  <2> QED
    BY <1>1, <1>4, <1>8, <2>1, FS_EmptySet
<1> QED
  BY <1>5, <1>6, <1>7, <1>8

(* A run that is inside is in exactly one list or hand, and no other is in *)
(* any: what a thread takes from its queue is let go when it is handed on, *)
(* a failed notification puts it back, and a cancelled one is dropped.     *)
THEOREM RunsHaveOnePlace == Spec => []OnePlacePerRun
<1>1. ASSUME IInv, NEW r \in Runs
      PROVE  Places(r) = IF fate[r] = "inside" THEN 1 ELSE 0
  <2> DEFINE at(p) == IF r \in Holds(p) THEN 1 ELSE 0
  <2>1. /\ Occurrences(r, toImport) = at("toImport") /\ Occurrences(r, toExport) = at("toExport")
        /\ Occurrences(r, toNotify) = at("toNotify")
    BY <1>1, Typed, OccurrencesAre, HoldsAre DEF IInv, ListsTyped, ListsSound
  <2>2. /\ Cardinality({r} \cap pending) = at("pending")
        /\ Cardinality({r} \cap body) = at("body")
    BY MembersAre, HoldsAre
  <2>3. Hands(r) = IF \E p \in {"importer", "exporter", "notifier"} : r \in Holds(p)
                   THEN 1 ELSE 0
    BY <1>1, HandsAre DEF IInv
  <2>4. Places(r) = at("toImport") + at("toExport") + at("toNotify") + Hands(r)
                      + at("pending") + at("body")
    BY <2>1, <2>2 DEF Places
  <2>5. /\ fate[r] = "inside" <=> \E p \in PlaceNames : r \in Holds(p)
        /\ \A p, q \in PlaceNames : r \in Holds(p) /\ r \in Holds(q) => p = q
    BY <1>1 DEF IInv, PlacesSound, Inside
  <2>6. CASE fate[r] # "inside"
    BY <2>3, <2>4, <2>5, <2>6 DEF PlaceNames
  <2>7. CASE fate[r] = "inside"
    <3>1. PICK p \in PlaceNames : r \in Holds(p) /\ \A q \in PlaceNames : q # p => r \notin Holds(q)
      BY <2>5, <2>7
    <3> QED
      BY <2>3, <2>4, <2>7, <3>1 DEF PlaceNames
  <2> QED
    BY <2>6, <2>7
<1>2. IInv => OnePlacePerRun
  BY <1>1 DEF OnePlacePerRun, IInv
<1> QED
  BY <1>2, PipelineSound, PTL

-----------------------------------------------------------------------------
(* The refinement: a place of the pipeline is a stage of the service.      *)

StageOf(p) ==
    CASE p \in {"toImport", "importer"} -> "importing"
      [] p = "pending" -> "queued"
      [] p = "body" -> "running"
      [] p \in {"toExport", "exporter"} -> "exporting"
      [] p \in {"toNotify", "notifier"} -> "reporting"

Stages == [r \in Runs |-> Stage(r)]
Posts == [r \in Runs |-> Posted(errMsg[r])]

StagesSound ==
    \A r \in Runs :
       /\ ~ Inside(r) => Stages[r] = fate[r]
       /\ \A p \in PlaceNames : r \in Holds(p) => Stages[r] = StageOf(p)

LEMMA StagesAre == IInv => StagesSound
<1> SUFFICES ASSUME IInv, NEW r \in Runs
             PROVE  /\ ~ Inside(r) => Stage(r) = fate[r]
                    /\ \A p \in PlaceNames : r \in Holds(p) => Stage(r) = StageOf(p)
  BY DEF StagesSound, Stages
<1>1. ASSUME ~ Inside(r)
      PROVE  Stage(r) = fate[r]
  <2>1. \A p \in PlaceNames : r \notin Holds(p)
    BY <1>1 DEF IInv, PlacesSound
  <2>2. /\ ~ (In(r, toImport) \/ importer.run = r) /\ r \notin pending /\ r \notin body
        /\ ~ (In(r, toExport) \/ exporter.run = r)
    BY <2>1, HoldsAre DEF PlaceNames, Items
  <2> QED
    BY <1>1, <2>2 DEF Inside, Stage
<1>2. ASSUME NEW p \in PlaceNames, r \in Holds(p)
      PROVE  Stage(r) = StageOf(p)
  <2>1. fate[r] = "inside" /\ \A q \in PlaceNames : q # p => r \notin Holds(q)
    BY <1>2 DEF IInv, PlacesSound, Inside
  <2>2. /\ In(r, toImport) \/ importer.run = r <=> p \in {"toImport", "importer"}
        /\ r \in pending <=> p = "pending"
        /\ r \in body <=> p = "body"
        /\ In(r, toExport) \/ exporter.run = r <=> p \in {"toExport", "exporter"}
    BY <1>2, <2>1, HoldsAre DEF PlaceNames, Items
  <2>3. Stage(r) = CASE p \in {"toImport", "importer"} -> "importing"
                     [] p = "pending" -> "queued"
                     [] p = "body" -> "running"
                     [] p \in {"toExport", "exporter"} -> "exporting"
                     [] OTHER -> "reporting"
    BY <2>1, <2>2 DEF Stage
  <2> QED
    BY <2>3 DEF StageOf, PlaceNames
<1> QED
  BY <1>1, <1>2

LEMMA StagesBecome == IInv' => StagesSound'
BY StagesAre, PTL

(* The stage of a run before and after a move.                             *)
StageBefore(r, from) == IF from = "outside" THEN fate[r] ELSE StageOf(from)
StageAfter(r, to) == IF to = "outside" THEN fate'[r] ELSE StageOf(to)

Advances(r, from, to) == Stages[r] = from /\ Stages' = [Stages EXCEPT ![r] = to]

LEMMA MoveAdvances ==
    ASSUME IInv, IInv', NEW r, NEW from \in PlacesOrOut, NEW to \in PlacesOrOut,
           Moves(r, from, to), from = "outside" => ~ Inside(r),
           \A s \in Runs \ {r} : fate'[s] = fate[s]
    PROVE  Advances(r, StageBefore(r, from), StageAfter(r, to))
<1>1. r \in Runs /\ "outside" \notin PlaceNames
  BY DEF Moves, PlaceNames
<1>2. StagesSound /\ StagesSound'
  BY StagesAre, StagesBecome
<1>3. Stages[r] = StageBefore(r, from)
  BY <1>1, <1>2 DEF Moves, StagesSound, StageBefore, PlacesOrOut
<1>4. Stages'[r] = StageAfter(r, to)
  <2>1. CASE to = "outside"
    <3>1. \A p \in PlaceNames : r \notin Holds(p)'
      BY <1>1, <2>1 DEF Moves, IInv, PlacesSound, PlacesOrOut
    <3>2. ~ Inside(r)'
      BY <1>1, <3>1 DEF IInv, PlacesSound
    <3> QED
      BY <1>1, <1>2, <2>1, <3>2 DEF StagesSound, StageAfter, Inside
  <2>2. CASE to # "outside"
    <3>1. to \in PlaceNames /\ r \in Holds(to)'
      BY <1>1, <2>2 DEF Moves, PlacesOrOut
    <3> QED
      BY <1>1, <1>2, <2>2, <3>1 DEF StagesSound, StageAfter
  <2> QED
    BY <2>1, <2>2
<1>5. ASSUME NEW s \in Runs, s # r
      PROVE  Stages'[s] = Stages[s]
  <2>1. \A p \in PlaceNames : s \in Holds(p)' <=> s \in Holds(p)
    BY <1>5 DEF Moves
  <2>2. fate'[s] = fate[s]
    BY <1>5
  <2>3. CASE fate[s] = "inside"
    <3>1. PICK p \in PlaceNames : s \in Holds(p)
      BY <2>3 DEF IInv, PlacesSound, Inside
    <3> QED
      BY <1>2, <2>1, <3>1 DEF StagesSound
  <2>4. CASE fate[s] # "inside"
    BY <1>2, <2>2, <2>4 DEF StagesSound, Inside
  <2> QED
    BY <2>3, <2>4
<1>6. Stages' = [Stages EXCEPT ![r] = StageAfter(r, to)]
  BY <1>1, <1>4, <1>5 DEF Stages
<1> QED
  BY <1>3, <1>6 DEF Advances

LEMMA NoMoveNoAdvance ==
    ASSUME IInv, IInv', NoneMoves, UNCHANGED fate
    PROVE  UNCHANGED Stages
<1>1. StagesSound /\ StagesSound'
  BY StagesAre, StagesBecome
<1>2. ASSUME NEW s \in Runs
      PROVE  Stages'[s] = Stages[s]
  <2>1. \A p \in PlaceNames : Holds(p)' = Holds(p)
    BY DEF NoneMoves
  <2>2. CASE fate[s] = "inside"
    <3>1. PICK p \in PlaceNames : s \in Holds(p)
      BY <2>2 DEF IInv, PlacesSound, Inside
    <3> QED
      BY <1>1, <2>1, <3>1 DEF StagesSound
  <2>3. CASE fate[s] # "inside"
    BY <1>1, <2>3 DEF StagesSound, Inside
  <2> QED
    BY <2>2, <2>3
<1> QED
  BY <1>2 DEF Stages

(* What the service takes for an action of its own, and for none.          *)
LEMMA ServiceMoves ==
    ASSUME NEW r, NEW from, NEW to, Advances(r, from, to)
    PROVE  Service!Move(r, from, to)
BY DEF Advances, Stages, Service!Move

LEMMA PostsStay ==
    ASSUME UNCHANGED errMsg
    PROVE  UNCHANGED Posts
BY DEF Posts

LEMMA PostsMove ==
    ASSUME IInv, NEW r \in Runs, NEW msg, errMsg' = [errMsg EXCEPT ![r] = msg]
    PROVE  Posts' = [Posts EXCEPT ![r] = Posted(msg)]
<1>1. \A s \in Runs : errMsg'[s] = IF s = r THEN msg ELSE errMsg[s]
  BY PerRunTyped
<1>2. \A s \in Runs : Posts'[s] = IF s = r THEN Posted(msg) ELSE Posts[s]
  BY <1>1 DEF Posts
<1>3. /\ Posts = [s \in Runs |-> Posts[s]]
      /\ Posts' = [s \in Runs |-> Posts'[s]]
  BY DEF Posts
<1> QED
  BY <1>2, <1>3

LEMMA ServiceRests ==
    ASSUME NEW r, NEW stage, Advances(r, stage, stage), UNCHANGED <<held, flagged, errMsg>>
    PROVE  UNCHANGED Service!violaVars
<1>1. UNCHANGED Stages
  BY DEF Advances, Stages
<1> QED
  BY <1>1, PostsStay DEF Posts, Stages, Service!violaVars

LEMMA ServiceAccepts ==
    ASSUME IInv, IInv', NEW r \in Runs, Accept(r)
    PROVE  Service!Accept(r)
<1>1. /\ fate[r] = "absent" /\ fate' = [fate EXCEPT ![r] = "inside"]
      /\ UNCHANGED <<held, flagged, errMsg>>
  BY DEF Accept, executor, perRun
<1>2. Advances(r, "absent", "importing")
  <2>1. Moves(r, "outside", "toImport") /\ ~ Inside(r)
    BY <1>1, AcceptMoves DEF Inside
  <2>2. \A s \in Runs \ {r} : fate'[s] = fate[s]
    BY <1>1, PerRunTyped
  <2>3. Advances(r, StageBefore(r, "outside"), StageAfter(r, "toImport"))
    BY <2>1, <2>2, MoveAdvances DEF PlacesOrOut, PlaceNames
  <2> QED
    BY <1>1, <2>3 DEF StageBefore, StageAfter, StageOf
<1> QED
  BY <1>1, <1>2, ServiceMoves, PostsStay DEF Posts, Service!Accept

LEMMA ServiceImports ==
    ASSUME IInv, IInv', ImportTake \/ ImportWork \/ ScpImportThrows
    PROVE  (\E r \in Runs : Service!Imported(r) \/ Service!ImportFails(r) \/ Service!Lost(r))
           \/ UNCHANGED Service!violaVars
<1>1. CASE ImportTake
  <2> DEFINE r == Last(toImport)
  <2>1. Moves(r, "toImport", "importer")
    BY <1>1, ImportTakeMoves
  <2>2. UNCHANGED <<held, flagged, errMsg, fate>>
    BY <1>1 DEF ImportTake, ImportUnchanged
  <2> HIDE DEF r
  <2>3. Advances(r, StageBefore(r, "toImport"), StageAfter(r, "importer"))
    BY <2>1, <2>2, MoveAdvances DEF PlacesOrOut, PlaceNames
  <2>4. Advances(r, "importing", "importing")
    BY <2>3 DEF StageBefore, StageAfter, StageOf
  <2> QED
    BY <2>2, <2>4, ServiceRests
<1>2. CASE ImportWork
  <2> DEFINE r == importer.run
  <2>1. /\ r \in Runs /\ UNCHANGED <<held, flagged>>
        /\ ImportGivesUp \/ ImportHandsOn \/ ImportGoesOn
    BY <1>2, ImportWorks DEF ImportUnchanged, IInv
  <2>2. /\ ImportGivesUp => Moves(r, "importer", "toNotify")
        /\ ImportHandsOn => Moves(r, "importer", "pending")
        /\ ImportGoesOn => NoneMoves
    BY <1>2, ImportWorkMoves
  <2>3. CASE ImportGivesUp
    <3>1. PICK msg \in {"", "error"} : errMsg' = [errMsg EXCEPT ![r] = msg] /\ UNCHANGED fate
      BY <2>3 DEF ImportGivesUp, GiveUp, SetErrMsg
    <3>2. Moves(r, "importer", "toNotify")
      BY <2>2, <2>3
    <3> HIDE DEF r
    <3>3. Advances(r, StageBefore(r, "importer"), StageAfter(r, "toNotify"))
      BY <3>1, <3>2, MoveAdvances DEF PlacesOrOut, PlaceNames
    <3>4. Advances(r, "importing", "reporting")
      BY <3>3 DEF StageBefore, StageAfter, StageOf
    <3>5. Posts' = [Posts EXCEPT ![r] = msg]
      <4>1. Posted(msg) = msg
        BY DEF Posted, NoMessage
      <4> QED
        BY <2>1, <3>1, <4>1, PostsMove
    <3>6. Service!ImportFails(r)
      BY <2>1, <3>4, <3>5, ServiceMoves DEF Posts, Service!ImportFails
    <3> QED
      BY <2>1, <3>6
  <2>4. CASE ImportHandsOn
    <3>1. UNCHANGED <<errMsg, fate>>
      BY <2>4 DEF ImportHandsOn, HandOn
    <3>2. Moves(r, "importer", "pending")
      BY <2>2, <2>4
    <3> HIDE DEF r
    <3>3. Advances(r, StageBefore(r, "importer"), StageAfter(r, "pending"))
      BY <3>1, <3>2, MoveAdvances DEF PlacesOrOut, PlaceNames
    <3>4. Advances(r, "importing", "queued")
      BY <3>3 DEF StageBefore, StageAfter, StageOf
    <3>5. Service!Imported(r)
      BY <2>1, <3>1, <3>4, ServiceMoves, PostsStay DEF Posts, Service!Imported
    <3> QED
      BY <2>1, <3>5
  <2>5. CASE ImportGoesOn
    <3>1. UNCHANGED <<errMsg, fate>>
      BY <2>5 DEF ImportGoesOn
    <3>2. UNCHANGED Stages
      BY <2>2, <2>5, <3>1, NoMoveNoAdvance
    <3> QED
      BY <2>1, <3>1, <3>2, PostsStay DEF Posts, Stages, Service!violaVars
  <2> QED
    BY <2>1, <2>3, <2>4, <2>5
<1>3. CASE ScpImportThrows
  <2> DEFINE r == importer.run
  <2>1. Moves(r, "importer", "outside") /\ r \in Runs
    BY <1>3, ImportThrowMoves DEF Moves
  <2>2. fate' = [fate EXCEPT ![r] = "lost"] /\ UNCHANGED <<held, flagged, errMsg>>
    BY <1>3 DEF ScpImportThrows, TryThrows, ImportUnchanged
  <2> HIDE DEF r
  <2>3. fate'[r] = "lost" /\ \A s \in Runs \ {r} : fate'[s] = fate[s]
    BY <2>1, <2>2, PerRunTyped
  <2>4. Advances(r, StageBefore(r, "importer"), StageAfter(r, "outside"))
    BY <2>1, <2>3, MoveAdvances DEF PlacesOrOut, PlaceNames
  <2>5. Advances(r, "importing", "lost")
    BY <2>3, <2>4 DEF StageBefore, StageAfter, StageOf
  <2>6. Service!Lost(r)
    BY <2>2, <2>5, ServiceMoves, PostsStay DEF Posts, Service!Lost
  <2> QED
    BY <2>1, <2>6
<1> QED
  BY <1>1, <1>2, <1>3

LEMMA ServiceExecutes ==
    ASSUME IInv, IInv', NEW r \in Runs
    PROVE  /\ Start(r) => Service!Start(r)
           /\ TestsEnd(r) => Service!TestsEnd(r)
           /\ Drop(r) => Service!Drop(r)
           /\ CancelQueued(r) => Service!CancelQueued(r)
           /\ CancelHeld(r) => Service!CancelHeld(r)
<1>1. ASSUME Start(r)
      PROVE  Service!Start(r)
  <2>1. held' = held \cup {r} /\ UNCHANGED <<flagged, errMsg, fate>>
    BY <1>1 DEF Start
  <2>2. Advances(r, StageBefore(r, "pending"), StageAfter(r, "body"))
    BY <1>1, <2>1, ExecutorMoves, MoveAdvances DEF PlacesOrOut, PlaceNames
  <2>3. Advances(r, "queued", "running")
    BY <2>2 DEF StageBefore, StageAfter, StageOf
  <2> QED
    BY <2>1, <2>3, ServiceMoves, PostsStay DEF Posts, Service!Start
<1>2. ASSUME TestsEnd(r)
      PROVE  Service!TestsEnd(r)
  <2>1. UNCHANGED <<held, flagged, fate>>
    BY <1>2 DEF TestsEnd
  <2>2. \E msg \in IF r \in flagged THEN {"cancelled"} ELSE {"", "error"} :
           Posts' = [Posts EXCEPT ![r] = msg]
    <3>1. PICK msg \in Messages(r) : errMsg' = [errMsg EXCEPT ![r] = msg]
      BY <1>2 DEF TestsEnd
    <3>2. Posted(msg) \in IF r \in flagged THEN {"cancelled"} ELSE {"", "error"}
      BY <3>1 DEF Messages, Posted, NoMessage
    <3> QED
      BY <3>1, <3>2, PostsMove
  <2>3. Advances(r, StageBefore(r, "body"), StageAfter(r, "toExport"))
    BY <1>2, <2>1, ExecutorMoves, MoveAdvances DEF PlacesOrOut, PlaceNames
  <2>4. Advances(r, "running", "exporting")
    BY <2>3 DEF StageBefore, StageAfter, StageOf
  <2> QED
    BY <2>1, <2>2, <2>4, ServiceMoves DEF Posts, Service!TestsEnd
<1>3. ASSUME Drop(r) \/ CancelHeld(r)
      PROVE  UNCHANGED <<Stages, errMsg>>
  <2>1. UNCHANGED <<errMsg, fate>>
    BY <1>3 DEF Drop, CancelHeld
  <2> QED
    BY <1>3, <2>1, ExecutorMoves, NoMoveNoAdvance
<1>4. ASSUME Drop(r)
      PROVE  Service!Drop(r)
  <2>1. r \in held /\ r \notin body /\ held' = held \ {r} /\ UNCHANGED flagged
    BY <1>4 DEF Drop, Done
  <2>2. Stages[r] # "running"
    <3>1. CASE fate[r] = "inside"
      <4>1. PICK p \in PlaceNames : r \in Holds(p)
        BY <3>1 DEF IInv, PlacesSound, Inside
      <4>2. p # "body"
        BY <2>1, <4>1, HoldsAre
      <4> QED
        BY <4>1, <4>2, StagesAre DEF StagesSound, StageOf, PlaceNames
    <3>2. CASE fate[r] # "inside"
      BY <3>2, StagesAre, PerRunTyped DEF StagesSound, Inside
    <3> QED
      BY <3>1, <3>2
  <2> QED
    BY <1>3, <1>4, <2>1, <2>2, PostsStay DEF Posts, Stages, Service!Drop
<1>5. ASSUME CancelQueued(r)
      PROVE  Service!CancelQueued(r)
  <2>1. fate' = [fate EXCEPT ![r] = "removed"] /\ UNCHANGED <<held, flagged, errMsg>>
    BY <1>5 DEF CancelQueued
  <2>2. fate'[r] = "removed" /\ \A s \in Runs \ {r} : fate'[s] = fate[s]
    BY <2>1, PerRunTyped
  <2>3. Advances(r, StageBefore(r, "pending"), StageAfter(r, "outside"))
    BY <1>5, <2>2, ExecutorMoves, MoveAdvances DEF PlacesOrOut, PlaceNames
  <2>4. Advances(r, "queued", "removed")
    BY <2>2, <2>3 DEF StageBefore, StageAfter, StageOf
  <2> QED
    BY <2>1, <2>4, ServiceMoves, PostsStay DEF Posts, Service!CancelQueued
<1>6. ASSUME CancelHeld(r)
      PROVE  Service!CancelHeld(r)
  <2>1. r \in held /\ flagged' = flagged \cup {r} /\ UNCHANGED held
    BY <1>6 DEF CancelHeld, executor
  <2> QED
    BY <1>3, <1>6, <2>1, PostsStay DEF Posts, Stages, Service!CancelHeld
<1> QED
  BY <1>1, <1>2, <1>4, <1>5, <1>6

LEMMA ServiceExports ==
    ASSUME IInv, IInv', ExportTake \/ ExportEnds \/ ScpExportThrows
    PROVE  (\E r \in Runs : Service!Exported(r) \/ Service!Lost(r))
           \/ UNCHANGED Service!violaVars
<1>1. CASE ExportTake
  <2> DEFINE r == Last(toExport)
  <2>1. UNCHANGED <<held, flagged, errMsg>>
    BY <1>1 DEF ExportTake, ExportUnchanged, executor
  <2>2. \/ exporter' = Dead /\ fate' = [fate EXCEPT ![r] = "lost"]
        \/ exporter' = [at |-> "copying", run |-> r] /\ UNCHANGED fate
    BY <1>1 DEF ExportTake
  <2>3. /\ exporter' = Dead => Moves(r, "toExport", "outside")
        /\ exporter' # Dead => Moves(r, "toExport", "exporter")
    BY <1>1, ExportTakeMoves
  <2>4. r \in Runs
    BY <2>3 DEF Moves
  <2>5. Dead # [at |-> "copying", run |-> r]
    BY DEF Dead
  <2> HIDE DEF r
  <2>6. CASE exporter' = Dead
    <3>1. fate'[r] = "lost" /\ \A s \in Runs \ {r} : fate'[s] = fate[s]
      BY <2>2, <2>4, <2>5, <2>6, PerRunTyped
    <3>2. Advances(r, StageBefore(r, "toExport"), StageAfter(r, "outside"))
      BY <2>3, <2>6, <3>1, MoveAdvances DEF PlacesOrOut, PlaceNames
    <3>3. Advances(r, "exporting", "lost")
      BY <3>1, <3>2 DEF StageBefore, StageAfter, StageOf
    <3> QED
      BY <2>1, <2>4, <3>3, ServiceMoves, PostsStay DEF Posts, Service!Lost
  <2>7. CASE exporter' # Dead
    <3>1. UNCHANGED fate
      BY <2>2, <2>7
    <3>2. Advances(r, StageBefore(r, "toExport"), StageAfter(r, "exporter"))
      BY <2>3, <2>7, <3>1, MoveAdvances DEF PlacesOrOut, PlaceNames
    <3>3. Advances(r, "exporting", "exporting")
      BY <3>2 DEF StageBefore, StageAfter, StageOf
    <3> QED
      BY <2>1, <3>3, ServiceRests
  <2> QED
    BY <2>6, <2>7
<1>2. CASE ExportEnds
  <2> DEFINE r == exporter.run
  <2>1. Moves(r, "exporter", "toNotify") /\ r \in Runs
    BY <1>2, ExporterMoves DEF Moves
  <2>2. UNCHANGED <<held, flagged, fate>>
    BY <1>2 DEF ExportEnds, ExportUnchanged, executor
  <2>3. UNCHANGED errMsg \/ errMsg' = [errMsg EXCEPT ![r] = "error"]
    BY <1>2 DEF ExportEnds, SaveFails, SetErrMsg
  <2> HIDE DEF r
  <2>7. UNCHANGED Posts \/ Posts' = [Posts EXCEPT ![r] = "error"]
    <3>1. Posted("error") = "error"
      BY DEF Posted, NoMessage
    <3> QED
      BY <2>1, <2>3, <3>1, PostsStay, PostsMove
  <2>4. Advances(r, StageBefore(r, "exporter"), StageAfter(r, "toNotify"))
    BY <2>1, <2>2, MoveAdvances DEF PlacesOrOut, PlaceNames
  <2>5. Advances(r, "exporting", "reporting")
    BY <2>4 DEF StageBefore, StageAfter, StageOf
  <2>6. Service!Exported(r)
    BY <2>2, <2>5, <2>7, ServiceMoves DEF Posts, Service!Exported, Service!LogsLost
  <2> QED
    BY <2>1, <2>6
<1>3. CASE ScpExportThrows
  <2> DEFINE r == exporter.run
  <2>1. Moves(r, "exporter", "outside") /\ r \in Runs
    BY <1>3, ExporterMoves DEF Moves
  <2>2. fate' = [fate EXCEPT ![r] = "lost"] /\ UNCHANGED <<held, flagged, errMsg>>
    BY <1>3 DEF ScpExportThrows, TryThrows, ExportUnchanged, executor
  <2> HIDE DEF r
  <2>3. fate'[r] = "lost" /\ \A s \in Runs \ {r} : fate'[s] = fate[s]
    BY <2>1, <2>2, PerRunTyped
  <2>4. Advances(r, StageBefore(r, "exporter"), StageAfter(r, "outside"))
    BY <2>1, <2>3, MoveAdvances DEF PlacesOrOut, PlaceNames
  <2>5. Advances(r, "exporting", "lost")
    BY <2>3, <2>4 DEF StageBefore, StageAfter, StageOf
  <2>6. Service!Lost(r)
    BY <2>2, <2>5, ServiceMoves, PostsStay DEF Posts, Service!Lost
  <2> QED
    BY <2>1, <2>6
<1> QED
  BY <1>1, <1>2, <1>3

LEMMA ServiceNotifies ==
    ASSUME IInv, IInv', NotifyTake \/ PostAnswered \/ PostFails \/ PostHangs
    PROVE  (\E r \in Runs : Service!Reported(r) \/ Service!Unanswered(r))
           \/ UNCHANGED Service!violaVars
<1>1. UNCHANGED <<held, flagged, errMsg>>
  BY DEF NotifyTake, PostAnswered, PostFails, PostHangs, NotifyUnchanged, executor, perRun
<1>2. CASE NotifyTake
  <2> DEFINE r == Last(toNotify)
  <2>1. Moves(r, "toNotify", "notifier") /\ UNCHANGED fate
    BY <1>2, NotifyTakeMoves DEF NotifyTake
  <2> HIDE DEF r
  <2>2. Advances(r, StageBefore(r, "toNotify"), StageAfter(r, "notifier"))
    BY <2>1, MoveAdvances DEF PlacesOrOut, PlaceNames
  <2>3. Advances(r, "reporting", "reporting")
    BY <2>2 DEF StageBefore, StageAfter, StageOf
  <2> QED
    BY <1>1, <2>3, ServiceRests
<1>3. CASE PostFails
  <2> DEFINE r == notifier.run
  <2>1. Moves(r, "notifier", "toNotify") /\ UNCHANGED fate
    BY <1>3, NotifierMoves DEF PostFails
  <2> HIDE DEF r
  <2>2. Advances(r, StageBefore(r, "notifier"), StageAfter(r, "toNotify"))
    BY <2>1, MoveAdvances DEF PlacesOrOut, PlaceNames
  <2>3. Advances(r, "reporting", "reporting")
    BY <2>2 DEF StageBefore, StageAfter, StageOf
  <2> QED
    BY <1>1, <2>3, ServiceRests
<1>4. CASE PostAnswered \/ PostHangs
  <2> DEFINE r == notifier.run
  <2>1. Moves(r, "notifier", "outside") /\ r \in Runs
    BY <1>4, NotifierMoves DEF Moves
  <2>2. PICK what \in {"reported", "lost"} : fate' = [fate EXCEPT ![r] = what]
    BY <1>4 DEF PostAnswered, PostHangs
  <2> HIDE DEF r
  <2>3. fate'[r] = what /\ \A s \in Runs \ {r} : fate'[s] = fate[s]
    BY <2>1, <2>2, PerRunTyped
  <2>4. Advances(r, StageBefore(r, "notifier"), StageAfter(r, "outside"))
    BY <2>1, <2>3, MoveAdvances DEF PlacesOrOut, PlaceNames
  <2>5. Advances(r, "reporting", what)
    BY <2>3, <2>4 DEF StageBefore, StageAfter, StageOf
  <2>6. Service!Move(r, "reporting", what)
    BY <2>5, ServiceMoves
  <2> QED
    BY <1>1, <2>1, <2>2, <2>6, PostsStay DEF Posts, Service!Reported, Service!Unanswered
<1> QED
  BY <1>2, <1>3, <1>4

LEMMA ServiceCrashes ==
    ASSUME IInv, IInv', Crash
    PROVE  Service!ViolaCrash
<1>1. /\ held' = {} /\ UNCHANGED <<flagged, errMsg>>
      /\ fate' = [r \in Runs |-> IF fate[r] = "inside" THEN "lost" ELSE fate[r]]
  BY DEF Crash, perRun
<1> DEFINE inside == {"importing", "queued", "running", "exporting", "reporting"}
<1>2. ASSUME NEW r \in Runs
      PROVE  Stages'[r] = IF Stages[r] \in inside THEN "lost" ELSE Stages[r]
  <2>1. Stages'[r] = fate'[r]
    <3>1. fate'[r] # "inside"
      BY <1>1
    <3> QED
      BY <3>1, StagesBecome DEF StagesSound, Inside
  <2>2. CASE fate[r] = "inside"
    <3>1. PICK p \in PlaceNames : r \in Holds(p)
      BY <2>2 DEF IInv, PlacesSound, Inside
    <3>2. Stages[r] \in inside
      BY <3>1, StagesAre DEF StagesSound, StageOf, PlaceNames
    <3> QED
      BY <1>1, <2>1, <2>2, <3>2
  <2>3. CASE fate[r] # "inside"
    <3>1. Stages[r] = fate[r]
      BY <2>3, StagesAre DEF StagesSound, Inside
    <3>2. fate[r] \notin inside
      BY <2>3, PerRunTyped
    <3> QED
      BY <1>1, <2>1, <2>3, <3>1, <3>2
  <2> QED
    BY <2>2, <2>3
<1>3. Stages' = [r \in Runs |-> IF Stages[r] \in inside THEN "lost" ELSE Stages[r]]
  BY <1>2 DEF Stages
<1> QED
  BY <1>1, <1>3, PostsStay DEF Posts, Stages, Service!ViolaCrash

LEMMA StepRefines ==
    ASSUME IInv, IInv', [Next]_vars
    PROVE  Service!ViolaNext \/ UNCHANGED Service!violaVars
<1>1. CASE ImportTake \/ ImportWork \/ ScpImportThrows
  BY <1>1, ServiceImports DEF Service!ViolaNext, Service!ViolaWork
<1>2. CASE ExportTake \/ ExportEnds \/ ScpExportThrows
  BY <1>2, ServiceExports DEF Service!ViolaNext, Service!ViolaWork
<1>3. CASE NotifyTake \/ PostAnswered \/ PostFails \/ PostHangs
  BY <1>3, ServiceNotifies DEF Service!ViolaNext
<1>4. CASE Crash
  BY <1>4, ServiceCrashes DEF Service!ViolaNext
<1>5. ASSUME NEW r \in Runs,
             Accept(r) \/ Start(r) \/ TestsEnd(r) \/ Drop(r) \/ CancelQueued(r) \/ CancelHeld(r)
      PROVE  Service!ViolaNext
  BY <1>5, ServiceAccepts, ServiceExecutes DEF Service!ViolaNext, Service!ViolaWork
<1>6. CASE UNCHANGED vars
  <2>1. /\ UNCHANGED <<toImport, toExport, toNotify, importer, exporter, notifier, pending, body>>
        /\ UNCHANGED <<held, flagged, errMsg, fate>>
    BY <1>6 DEF vars, queues, threads, executor, perRun
  <2>2. NoneMoves
    BY <2>1, HoldsAre, HoldsBecome DEF NoneMoves, PlaceNames
  <2>3. UNCHANGED Stages
    BY <2>1, <2>2, NoMoveNoAdvance
  <2> QED
    BY <2>1, <2>3, PostsStay DEF Posts, Stages, Service!violaVars
<1> QED
  BY <1>1, <1>2, <1>3, <1>4, <1>5, <1>6
  DEF Next, Step, ImportStep, ImportWork, ExportStep, NotifyStep, Throws

(* The queues and the threads implement the service that the conductor's   *)
(* model has for its Viola: a run goes through the stages in their order,  *)
(* its message is decided where the service decides it, and whatever dies  *)
(* or is lost on the way is a loss that the service owns up to.            *)
THEOREM PipelineImplementsService == Spec => ImplementsService
<1>1. Init => Service!ViolaInit
  <2> SUFFICES ASSUME Init PROVE Service!ViolaInit
    OBVIOUS
  <2>1. StagesSound /\ \A r \in Runs : fate[r] = "absent"
    BY InitSound, StagesAre DEF Init
  <2>2. Stages = [r \in Runs |-> "absent"]
    BY <2>1 DEF StagesSound, Stages, Inside
  <2>3. held = {} /\ flagged = {} /\ Posts = [r \in Runs |-> ""]
    BY DEF Init, Posts, Posted
  <2> QED
    BY <2>2, <2>3 DEF Stages, Posts, Service!ViolaInit
<1>2. IInv /\ IInv' /\ [Next]_vars => [Service!ViolaNext]_Service!violaVars
  BY StepRefines
<1> QED
  BY <1>1, <1>2, PipelineSound, PTL DEF Spec, ImplementsService, Service!ViolaSpec
=============================================================================
