-------------------------- MODULE CourseworkProofs --------------------------
(***************************************************************************)
(* The safety of Coursework for any number of students, runs, assignments, *)
(* requests and faults.                                                    *)
(***************************************************************************)
EXTENDS Coursework, TLAPS

-----------------------------------------------------------------------------
(* What the properties need to be inductive.                               *)

(* A request that goes on has passed the checks before it.                 *)
RequestsSound ==
    \A m \in Requests :
       /\ request[m].at \in {"assignment", "insert"} =>
             request[m].user = OwnerOf[request[m].run]
       /\ request[m].at = "insert" => FilesReport[request[m].run] = "all found"
       /\ request[m].at \in {"insert", "delete"} => request[m].seen

(* The sequence never gives a number again.                                *)
IdsAreNew == \A row \in finals : row.id <= lastId

(* Whatever has been deleted or inserted since, a number of the snapshot   *)
(* is still that of the same row or of none, and the rows fetched are those*)
(* whose numbers have been dealt with.                                     *)
ReportSound ==
    report.at \in {"rows", "answered"} =>
       /\ \A x, y \in report.snapshot : x.id = y.id => x = y
       /\ \A x \in finals, y \in report.snapshot : x.id = y.id => x = y
       /\ \A y \in report.snapshot : y.id <= lastId
       /\ \A id \in report.ids : \E y \in report.snapshot : y.id = id
       /\ report.rows = {y \in report.snapshot : y.id \notin report.ids}
       /\ report.at = "answered" => report.ids = {}

Excused == "users" \in FaultKinds /\ faults["users"] > 0

(* A reminder that is about to be flagged was mailed.                      *)
RemindersSound ==
    \A d \in deliveries : d.at = "flag" => mails[d.of] > 0 \/ Excused

IInv ==
    /\ TypeOK
    /\ RequestsSound
    /\ IdsAreNew
    /\ ReportSound
    /\ RemindersSound
    /\ FlagMeansMailed

-----------------------------------------------------------------------------
(* Facts about the parts of the state.                                     *)

(* A fault is counted, and an excuse stays one.                            *)
LEMMA FaultCounted ==
    ASSUME TypeOK, NEW kind, Fault(kind)
    PROVE  faults' \in [FaultKinds -> Nat] /\ (Excused => Excused')
<1>1. kind \in FaultKinds /\ faults' = [faults EXCEPT ![kind] = @ + 1]
  BY DEF Fault
<1>2. faults \in [FaultKinds -> Nat]
  BY DEF TypeOK
<1> QED  BY <1>1, <1>2 DEF Excused

LEMMA NoFaultCounted ==
    ASSUME TypeOK, NoFault
    PROVE  faults' \in [FaultKinds -> Nat] /\ (Excused => Excused')
BY DEF NoFault, TypeOK, Excused

(* What a request may be, by where it is.                                  *)
LEMMA RequestKinds ==
    ASSUME TypeOK, NEW m \in Requests
    PROVE  /\ request[m].at \in {"assignment", "insert"} => request[m] \in Marking
           /\ request[m].at = "delete" => request[m] \in Unmarking
BY DEF TypeOK, Free, Ended, Marking, Unmarking

LEMMA ReportKinds ==
    ASSUME TypeOK
    PROVE  /\ report.at = "finals" => report \in Asking
           /\ report.at \in {"rows", "answered"} => report \in Fetching
BY DEF TypeOK, Free, Ended, Asking, Fetching

(* Every action counts a fault or none.                                    *)
LEMMA StepCounted ==
    ASSUME TypeOK, [Next]_vars
    PROVE  faults' \in [FaultKinds -> Nat] /\ (Excused => Excused')
<1>1. \/ NoFault \/ \E kind : Fault(kind)
  BY DEF Next, RequestStep, MarkFinal, UnmarkFinal, ReadAssignment, InsertFinal,
         DeleteFinals, QueryFails, ReportStep, ShowFinals, SelectMax, SelectRow, Render,
         ReportFails, Remind, CheckReminders, Deliver, ActiveUsers, MassEmail, MarkSent,
         StaffStep, SetVisible, UpdateDeadline, SetSendReminders, Edit, Tick, PollHangs, Crash, Boot,
         NoFault, vars
<1> QED  BY <1>1, FaultCounted, NoFaultCounted

-----------------------------------------------------------------------------
(* Types.                                                                  *)

LEMMA BoundsTyped ==
    /\ MaxTime \in Nat /\ MaxEdits \in Nat
    /\ OwnerOf \in [Runs -> Users] /\ AssignmentOf \in [Runs -> Assignments]
    /\ StartOf \in [Runs -> Nat] /\ Deadlines \subseteq Nat /\ Day \in Nat \ {0}
BY CourseworkAssumption

LEMMA InitTyped ==
    ASSUME Init
    PROVE  TypeOK
<1>1. conductor \in {"polling", "silent", "down"} /\ now \in 0 .. MaxTime /\ edits \in 0 .. MaxEdits
  BY BoundsTyped DEF Init
<1>2. /\ visible \in [Assignments -> BOOLEAN]
      /\ deadline \in [Assignments -> Deadlines]
      /\ reminders \in [Assignments -> BOOLEAN]
      /\ flagged \in [Assignments -> BOOLEAN]
      /\ mails \in [Assignments -> Nat]
  BY DEF Init
<1>3. /\ finals \subseteq Row
      /\ \A x, y \in finals : x.id = y.id => x = y
      /\ lastId \in Nat
      /\ deliveries \subseteq [of : Assignments, round : Rounds, at : {"users", "mail", "flag"}]
  BY DEF Init
<1>4. /\ request \in [Requests -> {Free, Ended} \cup Marking \cup Unmarking]
      /\ report \in {Free, Ended} \cup Asking \cup Fetching
      /\ faults \in [FaultKinds -> Nat]
  BY DEF Init
<1> QED
  BY <1>1, <1>2, <1>3, <1>4 DEF TypeOK

(* The process.                                                            *)
LEMMA ConductorTyped ==
    ASSUME TypeOK, [Next]_vars
    PROVE  conductor' \in {"polling", "silent", "down"}
BY DEF TypeOK, Next, RequestStep, MarkFinal, UnmarkFinal, ReadAssignment, InsertFinal,
       DeleteFinals, QueryFails, ReportStep, ShowFinals, SelectMax, SelectRow, Render,
       ReportFails, Remind, CheckReminders, Deliver, ActiveUsers, MassEmail, MarkSent,
       StaffStep, SetVisible, SetSendReminders, UpdateDeadline, Edit, Tick, PollHangs, Crash,
       Boot, vars

(* The assignments.                                                        *)
LEMMA AssignmentsTyped ==
    ASSUME TypeOK, [Next]_vars
    PROVE  /\ now' \in 0 .. MaxTime
           /\ visible' \in [Assignments -> BOOLEAN]
           /\ deadline' \in [Assignments -> Deadlines]
           /\ reminders' \in [Assignments -> BOOLEAN]
           /\ edits' \in 0 .. MaxEdits
<1>1. CASE UNCHANGED assignmentVars
  BY <1>1 DEF assignmentVars, TypeOK
<1>2. CASE Tick
  BY <1>2, BoundsTyped DEF Tick, TypeOK
<1>3. CASE StaffStep
  BY <1>3, BoundsTyped DEF StaffStep, SetVisible, SetSendReminders,
       UpdateDeadline, Edit, TypeOK
<1> QED
  BY <1>1, <1>2, <1>3 DEF Next, RequestStep, MarkFinal, UnmarkFinal, ReadAssignment,
       InsertFinal, DeleteFinals, QueryFails, ReportStep, ShowFinals, SelectMax, SelectRow,
       Render, ReportFails, Remind, CheckReminders, Deliver, ActiveUsers, MassEmail,
       MarkSent, PollHangs, Crash, Boot, vars

(* The reminders.                                                          *)
LEMMA RemindersTyped ==
    ASSUME TypeOK, [Next]_vars
    PROVE  /\ flagged' \in [Assignments -> BOOLEAN]
           /\ mails' \in [Assignments -> Nat]
           /\ deliveries' \subseteq [of : Assignments, round : Rounds,
                                     at : {"users", "mail", "flag"}]
<1>1. CASE UNCHANGED reminderVars
  BY <1>1 DEF reminderVars, TypeOK
<1>2. CASE Crash
  BY <1>2 DEF Crash, TypeOK
<1>3. ASSUME NEW a \in Assignments, CheckReminders(a)
      PROVE  /\ flagged' \in [Assignments -> BOOLEAN]
             /\ mails' \in [Assignments -> Nat]
             /\ deliveries' \subseteq [of : Assignments, round : Rounds,
                                       at : {"users", "mail", "flag"}]
  BY <1>3 DEF CheckReminders, TypeOK
<1>4. ASSUME NEW d \in deliveries, ActiveUsers(d) \/ MassEmail(d) \/ MarkSent(d)
      PROVE  /\ flagged' \in [Assignments -> BOOLEAN]
             /\ mails' \in [Assignments -> Nat]
             /\ deliveries' \subseteq [of : Assignments, round : Rounds,
                                       at : {"users", "mail", "flag"}]
  <2> DEFINE Kind == [of : Assignments, round : Rounds, at : {"users", "mail", "flag"}]
  <2>1. d \in Kind
    BY DEF TypeOK
  <2>2. \A place \in {"mail", "flag"} : [d EXCEPT !.at = place] \in Kind
    BY <2>1
  <2>3. /\ deliveries \subseteq Kind /\ d.of \in Assignments
        /\ flagged \in [Assignments -> BOOLEAN] /\ mails \in [Assignments -> Nat]
    BY <2>1 DEF TypeOK
  <2> HIDE DEF Kind
  <2>4. deliveries' \subseteq Kind
    BY <1>4, <2>2, <2>3 DEF ActiveUsers, MassEmail, MarkSent, AfterMailError, Moves, Ends
  <2>5. mails' \in [Assignments -> Nat]
    BY <1>4, <2>3 DEF ActiveUsers, MassEmail, MarkSent
  <2>6. flagged' = [flagged EXCEPT ![d.of] = TRUE] \/ flagged' = flagged
    BY <1>4 DEF ActiveUsers, MassEmail, MarkSent
  <2>7. flagged' \in [Assignments -> BOOLEAN]
    BY <2>3, <2>6
  <2> QED
    BY <2>4, <2>5, <2>7 DEF Kind
<1> QED
  BY <1>1, <1>2, <1>3, <1>4 DEF Next, RequestStep, MarkFinal, UnmarkFinal, ReadAssignment,
       InsertFinal, DeleteFinals, QueryFails, ReportStep, ShowFinals, SelectMax, SelectRow,
       Render, ReportFails, Remind, Deliver, StaffStep, SetVisible, SetSendReminders,
       UpdateDeadline, Edit, Tick, PollHangs, Boot, vars

(* The requests and the final runs.                                        *)
LEMMA FinalsTyped ==
    ASSUME TypeOK, IdsAreNew, [Next]_vars
    PROVE  /\ finals' \subseteq Row
           /\ \A x, y \in finals' : x.id = y.id => x = y
           /\ lastId' \in Nat
           /\ request' \in [Requests -> {Free, Ended} \cup Marking \cup Unmarking]
<1> DEFINE Goal == /\ finals' \subseteq Row
                   /\ \A x, y \in finals' : x.id = y.id => x = y
                   /\ lastId' \in Nat
                   /\ request' \in [Requests -> {Free, Ended} \cup Marking \cup Unmarking]
<1>1. CASE UNCHANGED <<finals, lastId, request>>
  BY <1>1 DEF TypeOK
<1>2. CASE Crash
  BY <1>2 DEF Crash, TypeOK
<1>3. ASSUME NEW m \in Requests, RequestStep(m)
      PROVE  Goal
  <2>1. ASSUME NEW user \in Users, NEW run \in Runs, MarkFinal(m, user, run)
        PROVE  Goal
    BY <2>1 DEF MarkFinal, Goes, TypeOK, Marking
  <2>2. ASSUME NEW user \in Users, NEW a \in Assignments, UnmarkFinal(m, user, a)
        PROVE  Goal
    BY <2>2 DEF UnmarkFinal, Goes, TypeOK, Unmarking
  <2>3. CASE ReadAssignment(m)
    <3>1. request[m] \in Marking
      BY <2>3, RequestKinds DEF ReadAssignment
    <3>2. [request[m] EXCEPT !.at = "insert",
                             !.seen = visible[AssignmentOf[request[m].run]]] \in Marking
      BY <3>1, BoundsTyped DEF Marking, TypeOK
    <3> QED
      BY <2>3, <3>2 DEF ReadAssignment, Goes, TypeOK
  <2>4. CASE InsertFinal(m)
    <3>1. request[m] \in Marking
      BY <2>4, RequestKinds DEF InsertFinal
    <3> DEFINE row == [id |-> lastId + 1, user |-> OwnerOf[request[m].run], run |-> request[m].run,
                       assignment |-> AssignmentOf[request[m].run],
                       timestamp |-> StartOf[request[m].run]]
    <3>2. row \in Row
      BY <3>1, BoundsTyped DEF Marking, Row, TypeOK
    <3>3. finals' = finals \cup {row} /\ lastId' = lastId + 1
      BY <2>4 DEF InsertFinal
    <3>4. \A x \in finals : x.id # row.id
      BY DEF IdsAreNew, TypeOK, Row
    <3> HIDE DEF row
    <3>5. request' \in [Requests -> {Free, Ended} \cup Marking \cup Unmarking]
      BY <2>4 DEF InsertFinal, Goes, TypeOK
    <3> QED
      BY <3>2, <3>3, <3>4, <3>5 DEF TypeOK
  <2>5. CASE DeleteFinals(m)
    BY <2>5 DEF DeleteFinals, Goes, TypeOK
  <2>6. CASE QueryFails(m)
    BY <2>6 DEF QueryFails, Goes, TypeOK
  <2> QED
    BY <1>3, <2>1, <2>2, <2>3, <2>4, <2>5, <2>6 DEF RequestStep
<1> QED
  BY <1>1, <1>2, <1>3 DEF Next, ReportStep, ShowFinals, SelectMax, SelectRow, Render,
       ReportFails, Remind, CheckReminders, Deliver, ActiveUsers, MassEmail, MarkSent,
       StaffStep, SetVisible, SetSendReminders, UpdateDeadline, Edit, Tick, PollHangs, Boot, finalVars, vars

(* The page.                                                               *)
LEMMA ReportTyped ==
    ASSUME TypeOK, [Next]_vars
    PROVE  report' \in {Free, Ended} \cup Asking \cup Fetching
<1>1. CASE UNCHANGED report
  BY <1>1 DEF TypeOK
<1>2. CASE Crash
  BY <1>2 DEF Crash
<1>3. CASE ShowFinals
  BY <1>3 DEF ShowFinals, Asking, TypeOK
<1>4. CASE SelectMax
  <2>1. report \in Asking
    BY <1>4, ReportKinds DEF SelectMax
  <2>2. FinalRows \in SUBSET Row /\ {row.id : row \in FinalRows} \in SUBSET Nat
    BY DEF FinalRows, TypeOK, Row
  <2> QED
    BY <1>4, <2>1, <2>2 DEF SelectMax, Asking, Fetching
<1>5. ASSUME report.at = "rows", NEW id \in report.ids, SelectRow(id)
      PROVE  report' \in {Free, Ended} \cup Asking \cup Fetching
  <2>1. report \in Fetching
    BY <1>5, ReportKinds
  <2>2. RowFor(id) \in SUBSET Row
    BY DEF RowFor, TypeOK
  <2>3. report.ids \ {id} \in SUBSET Nat /\ report.rows \cup RowFor(id) \in SUBSET Row
    BY <2>1, <2>2 DEF Fetching
  <2> HIDE DEF RowFor
  <2>4. [report EXCEPT !.ids = @ \ {id}, !.rows = @ \cup RowFor(id)] \in Fetching
    BY <2>1, <2>3 DEF Fetching
  <2> QED
    BY <1>5, <2>4 DEF SelectRow
<1>6. CASE Render
  <2>1. report \in Fetching
    BY <1>6, ReportKinds DEF Render
  <2> QED
    BY <1>6, <2>1 DEF Render, Fetching
<1>7. CASE ReportFails
  BY <1>7 DEF ReportFails
<1> QED
  BY <1>1, <1>2, <1>3, <1>4, <1>5, <1>6, <1>7 DEF Next, RequestStep, MarkFinal, UnmarkFinal,
       ReadAssignment, InsertFinal, DeleteFinals, QueryFails, ReportStep, Remind,
       CheckReminders, Deliver, ActiveUsers, MassEmail, MarkSent, StaffStep, SetVisible,
       SetSendReminders, UpdateDeadline, Edit, Tick, PollHangs, Boot, finalVars, vars

LEMMA TypeStep ==
    ASSUME TypeOK, IdsAreNew, [Next]_vars
    PROVE  TypeOK'
BY StepCounted, ConductorTyped, AssignmentsTyped, RemindersTyped, FinalsTyped, ReportTyped DEF TypeOK

-----------------------------------------------------------------------------
(* The conjuncts of the invariant, one by one.                             *)

LEMMA RequestsStep ==
    ASSUME TypeOK, RequestsSound, [Next]_vars
    PROVE  RequestsSound'
<1> DEFINE Sound(q) ==
       /\ q.at \in {"assignment", "insert"} => q.user = OwnerOf[q.run]
       /\ q.at = "insert" => FilesReport[q.run] = "all found"
       /\ q.at \in {"insert", "delete"} => q.seen
<1>1. \A m \in Requests : Sound(request[m])
  BY DEF RequestsSound
<1>2. Sound(Ended) /\ Sound(Free)
  BY DEF Ended, Free
<1>3. SUFFICES ASSUME NEW n \in Requests, request'[n] # request[n]
      PROVE  Sound(request'[n])
  BY <1>1 DEF RequestsSound
<1>4. CASE Crash
  BY <1>2, <1>3, <1>4 DEF Crash
<1>5. ASSUME NEW m \in Requests, RequestStep(m)
      PROVE  Sound(request'[n])
  <2>1. ASSUME NEW user \in Users, NEW run \in Runs, MarkFinal(m, user, run)
        PROVE  Sound(request'[n])
    BY <1>2, <1>3, <2>1 DEF MarkFinal, Goes, TypeOK
  <2>2. ASSUME NEW user \in Users, NEW a \in Assignments, UnmarkFinal(m, user, a)
        PROVE  Sound(request'[n])
    BY <1>2, <1>3, <2>2 DEF UnmarkFinal, Goes, TypeOK
  <2>3. CASE ReadAssignment(m)
    <3>1. request[m] \in Marking
      BY <2>3, RequestKinds DEF ReadAssignment
    <3>2. visible[AssignmentOf[request[m].run]] /\ FilesReport[request[m].run] = "all found" =>
             Sound([request[m] EXCEPT !.at = "insert",
                                      !.seen = visible[AssignmentOf[request[m].run]]])
      BY <1>1, <2>3, <3>1 DEF Marking, ReadAssignment
    <3> HIDE DEF Sound
    <3> QED
      BY <1>2, <1>3, <2>3, <3>2 DEF ReadAssignment, Goes, TypeOK
  <2>4. CASE InsertFinal(m) \/ DeleteFinals(m) \/ QueryFails(m)
    BY <1>2, <1>3, <2>4 DEF InsertFinal, DeleteFinals, QueryFails, Goes, TypeOK
  <2> QED
    BY <1>5, <2>1, <2>2, <2>3, <2>4 DEF RequestStep
<1> QED
  BY <1>3, <1>4, <1>5 DEF Next, ReportStep, ShowFinals, SelectMax, SelectRow, Render,
       ReportFails, Remind, CheckReminders, Deliver, ActiveUsers, MassEmail, MarkSent,
       StaffStep, SetVisible, SetSendReminders, UpdateDeadline, Edit, Tick, PollHangs, Boot, finalVars, vars

(* How a step changes the table: it deletes rows, or it inserts one.       *)
Inserted(m) ==
    [id |-> lastId + 1, user |-> OwnerOf[request[m].run], run |-> request[m].run,
     assignment |-> AssignmentOf[request[m].run], timestamp |-> StartOf[request[m].run]]

LEMMA FinalsChange ==
    ASSUME [Next]_vars
    PROVE  \/ finals' \subseteq finals /\ lastId' = lastId
           \/ \E m \in Requests : /\ request[m].at = "insert"
                                   /\ finals' = finals \cup {Inserted(m)}
                                   /\ lastId' = lastId + 1
                                   /\ report' = report
<1>1. ASSUME NEW m \in Requests, InsertFinal(m)
      PROVE  /\ request[m].at = "insert"
             /\ finals' = finals \cup {Inserted(m)}
             /\ lastId' = lastId + 1
             /\ report' = report
  BY <1>1 DEF InsertFinal, Inserted
<1>2. CASE \A m \in Requests : ~ InsertFinal(m)
  BY <1>2 DEF Next, RequestStep, MarkFinal, UnmarkFinal, ReadAssignment, DeleteFinals,
       QueryFails, ReportStep, ShowFinals, SelectMax, SelectRow, Render, ReportFails, Remind,
       CheckReminders, Deliver, ActiveUsers, MassEmail, MarkSent, StaffStep, SetVisible,
       SetSendReminders, UpdateDeadline, Edit, Tick, PollHangs, Crash, Boot, finalVars, vars
<1> QED
  BY <1>1, <1>2

LEMMA IdsStep ==
    ASSUME TypeOK, IdsAreNew, [Next]_vars
    PROVE  IdsAreNew'
<1>1. lastId \in Nat /\ \A row \in finals : row.id \in Nat
  BY DEF TypeOK, Row
<1>2. CASE finals' \subseteq finals /\ lastId' = lastId
  BY <1>2 DEF IdsAreNew
<1>3. ASSUME NEW m \in Requests, finals' = finals \cup {Inserted(m)}, lastId' = lastId + 1
      PROVE  IdsAreNew'
  <2>1. Inserted(m).id = lastId + 1
    BY DEF Inserted
  <2>2. ASSUME NEW row \in finals PROVE row.id <= lastId + 1
    BY <1>1 DEF IdsAreNew
  <2> QED
    BY <1>1, <1>3, <2>1, <2>2 DEF IdsAreNew
<1> QED
  BY <1>2, <1>3, FinalsChange

(* The page: what a step does to it, given what it does to the table.      *)
LEMMA ReportUnchanged ==
    ASSUME TypeOK, IdsAreNew, ReportSound, [Next]_vars, report' = report
    PROVE  ReportSound'
<1>1. CASE report.at \notin {"rows", "answered"}
  BY <1>1 DEF ReportSound
<1>2. CASE report.at \in {"rows", "answered"}
  <2>1. lastId \in Nat /\ \A y \in report.snapshot : y.id \in Nat
    BY <1>2, ReportKinds DEF TypeOK, Fetching, Row
  <2>2. CASE finals' \subseteq finals /\ lastId' = lastId
    BY <1>2, <2>2 DEF ReportSound
  <2>3. ASSUME NEW m \in Requests, finals' = finals \cup {Inserted(m)}, lastId' = lastId + 1
        PROVE  ReportSound'
    <3>1. \A y \in report.snapshot : y.id <= lastId'
      BY <1>2, <2>1, <2>3 DEF ReportSound
    <3>2. \A x \in finals', y \in report.snapshot : x.id = y.id => x = y
      <4>1. Inserted(m).id = lastId + 1
        BY DEF Inserted
      <4>2. \A y \in report.snapshot : Inserted(m).id # y.id
        BY <1>2, <2>1, <4>1 DEF ReportSound
      <4> QED
        BY <1>2, <2>3, <4>2 DEF ReportSound
    <3> QED
      BY <1>2, <3>1, <3>2 DEF ReportSound
  <2> QED
    BY <2>2, <2>3, FinalsChange
<1> QED
  BY <1>1, <1>2

LEMMA SelectRowSound ==
    ASSUME TypeOK, ReportSound, report.at = "rows", NEW id \in report.ids, SelectRow(id)
    PROVE  ReportSound'
<1>1. report \in Fetching
  BY ReportKinds
<1>2. finals' = finals /\ lastId' = lastId
  BY DEF SelectRow
<1>3. CASE RowFor(id) = {}
  BY <1>3 DEF SelectRow, ReportSound, Ended
<1>4. CASE RowFor(id) # {}
  <2>1. report' = [report EXCEPT !.ids = @ \ {id}, !.rows = @ \cup RowFor(id)]
    BY <1>4 DEF SelectRow
  <2>2. /\ report'.at = "rows"
        /\ report'.snapshot = report.snapshot
        /\ report'.ids = report.ids \ {id}
        /\ report'.rows = report.rows \cup RowFor(id)
    BY <1>1, <2>1 DEF Fetching
  <2>3. PICK y \in report.snapshot : y.id = id
    BY DEF ReportSound
  <2>4. RowFor(id) = {y}
    BY <1>4, <2>3 DEF RowFor, ReportSound
  <2>5. report'.rows = {z \in report.snapshot : z.id \notin report'.ids}
    BY <2>2, <2>3, <2>4 DEF ReportSound
  <2> QED
    BY <1>2, <2>2, <2>5 DEF ReportSound
<1> QED
  BY <1>3, <1>4

LEMMA ReportStepSound ==
    ASSUME TypeOK, IdsAreNew, ReportSound, [Next]_vars
    PROVE  ReportSound'
<1>1. CASE UNCHANGED report
  BY <1>1, ReportUnchanged
<1>2. CASE Crash \/ ReportFails \/ ShowFinals
  BY <1>2 DEF Crash, ReportFails, ShowFinals, ReportSound, Free, Ended
<1>3. CASE SelectMax
  <2>1. /\ report'.at = "rows"
        /\ report'.snapshot = FinalRows
        /\ report'.ids = {row.id : row \in FinalRows}
        /\ report'.rows = {}
        /\ finals' = finals /\ lastId' = lastId
    BY <1>3 DEF SelectMax
  <2>2. FinalRows \subseteq finals
    BY DEF FinalRows
  <2> HIDE DEF FinalRows
  <2>3. \A x, y \in finals : x.id = y.id => x = y
    BY DEF TypeOK
  <2>4. report'.rows = {y \in report'.snapshot : y.id \notin report'.ids}
    BY <2>1
  <2> QED
    BY <2>1, <2>2, <2>3, <2>4 DEF ReportSound, IdsAreNew
<1>4. ASSUME report.at = "rows", NEW id \in report.ids, SelectRow(id)
      PROVE  ReportSound'
  BY <1>4, SelectRowSound
<1>5. CASE Render
  <2>1. report \in Fetching /\ report.at = "rows" /\ report.ids = {}
    BY <1>5, ReportKinds DEF Render
  <2>2. /\ report'.at = "answered" /\ report'.snapshot = report.snapshot
        /\ report'.ids = {} /\ report'.rows = report.rows
        /\ finals' = finals /\ lastId' = lastId
    BY <1>5, <2>1 DEF Render, Fetching
  <2> QED
    BY <2>1, <2>2 DEF ReportSound
<1> QED
  BY <1>1, <1>2, <1>3, <1>4, <1>5 DEF Next, RequestStep, MarkFinal, UnmarkFinal,
       ReadAssignment, InsertFinal, DeleteFinals, QueryFails, ReportStep, Remind,
       CheckReminders, Deliver, ActiveUsers, MassEmail, MarkSent, StaffStep, SetVisible,
       SetSendReminders, UpdateDeadline, Edit, Tick, PollHangs, Boot, finalVars, vars

(* The reminders: a mail is counted before the flag, and is never taken    *)
(* back.                                                                   *)
LEMMA RemindersStep ==
    ASSUME TypeOK, RemindersSound, FlagMeansMailed, [Next]_vars
    PROVE  RemindersSound' /\ FlagMeansMailed'
<1>1. Excused => Excused'
  BY StepCounted
<1>2. /\ \A a \in Assignments : flagged[a] => mails[a] > 0 \/ Excused
      /\ \A d \in deliveries : d.at = "flag" => mails[d.of] > 0 \/ Excused
  BY DEF FlagMeansMailed, RemindersSound, Excused
<1>3. SUFFICES
        /\ \A a \in Assignments : flagged'[a] => mails'[a] > 0 \/ Excused'
        /\ \A d \in deliveries' : d.at = "flag" => mails'[d.of] > 0 \/ Excused'
  BY DEF FlagMeansMailed, RemindersSound, Excused
<1> HIDE DEF Excused
<1>4. CASE UNCHANGED reminderVars
  BY <1>1, <1>2, <1>4 DEF reminderVars
<1>5. CASE Crash
  BY <1>1, <1>2, <1>5 DEF Crash
<1>6. ASSUME NEW a \in Assignments, CheckReminders(a)
      PROVE  /\ \A b \in Assignments : flagged'[b] => mails'[b] > 0 \/ Excused'
             /\ \A d \in deliveries' : d.at = "flag" => mails'[d.of] > 0 \/ Excused'
  BY <1>1, <1>2, <1>6 DEF CheckReminders
<1>7. ASSUME NEW d \in deliveries, ActiveUsers(d) \/ MassEmail(d) \/ MarkSent(d)
      PROVE  /\ \A a \in Assignments : flagged'[a] => mails'[a] > 0 \/ Excused'
             /\ \A e \in deliveries' : e.at = "flag" => mails'[e.of] > 0 \/ Excused'
  <2>1. /\ d \in [of : Assignments, round : Rounds, at : {"users", "mail", "flag"}]
        /\ \A e \in deliveries : e.of \in Assignments
        /\ mails \in [Assignments -> Nat] /\ flagged \in [Assignments -> BOOLEAN]
    BY DEF TypeOK
  <2>2. \A place \in {"mail", "flag"} :
           [d EXCEPT !.at = place].of = d.of /\ [d EXCEPT !.at = place].at = place
    BY <2>1
  <2>3. CASE ActiveUsers(d)
    <3>1. flagged' = flagged /\ mails' = mails
      BY <2>3 DEF ActiveUsers
    <3>2. CASE Moves(d, "mail")
      BY <1>1, <1>2, <2>2, <3>1, <3>2 DEF Moves
    <3>3. CASE Moves(d, "flag") /\ Fault("users")
      <4>1. Excused'
        BY <3>3 DEF Fault, TypeOK, Excused
      <4> QED
        BY <1>2, <3>1, <4>1
    <3> QED
      BY <2>3, <3>2, <3>3 DEF ActiveUsers
  <2>4. CASE MassEmail(d)
    <3>1. flagged' = flagged
      BY <2>4 DEF MassEmail
    <3>2. CASE mails' = [mails EXCEPT ![d.of] = @ + 1] /\ Moves(d, "flag")
      <4>1. /\ mails'[d.of] > 0
            /\ \A a \in Assignments : mails[a] > 0 => mails'[a] > 0
        BY <2>1, <3>2
      <4> QED
        BY <1>1, <1>2, <2>1, <2>2, <3>1, <3>2, <4>1 DEF Moves
    <3>3. CASE AfterMailError(d) /\ mails' = mails
      BY <1>1, <1>2, <3>1, <3>3 DEF AfterMailError, Ends
    <3> QED
      BY <2>4, <3>2, <3>3 DEF MassEmail
  <2>5. CASE MarkSent(d)
    <3>1. /\ d.at = "flag" /\ mails' = mails /\ deliveries' \subseteq deliveries
          /\ flagged' = [flagged EXCEPT ![d.of] = TRUE] \/ flagged' = flagged
      BY <2>5 DEF MarkSent, Ends
    <3>2. \A a \in Assignments : flagged'[a] => flagged[a] \/ a = d.of
      BY <2>1, <3>1
    <3> QED
      BY <1>1, <1>2, <3>1, <3>2
  <2> QED
    BY <1>7, <2>3, <2>4, <2>5
<1> QED
  BY <1>4, <1>5, <1>6, <1>7 DEF Next, RequestStep, MarkFinal, UnmarkFinal, ReadAssignment,
       InsertFinal, DeleteFinals, QueryFails, ReportStep, ShowFinals, SelectMax, SelectRow,
       Render, ReportFails, Remind, Deliver, StaffStep, SetVisible, SetSendReminders,
       UpdateDeadline, Edit, Tick, PollHangs, Boot, vars

-----------------------------------------------------------------------------
(* The theorems.                                                           *)

LEMMA InitSound ==
    ASSUME Init
    PROVE  IInv
<1>1. TypeOK
  BY InitTyped
<1>2. RequestsSound
  <2>1. \A m \in Requests : request[m] \in {Free, Ended}
    BY DEF Init
  <2>2. Free.at = "free" /\ Ended.at = "ended"
    BY DEF Free, Ended
  <2> QED
    BY <2>1, <2>2 DEF RequestsSound
<1>3. IdsAreNew /\ RemindersSound
  BY DEF Init, IdsAreNew, RemindersSound
<1>4. ReportSound
  BY DEF Init, ReportSound, Free, Ended
<1>5. FlagMeansMailed
  BY DEF Init, FlagMeansMailed
<1> QED
  BY <1>1, <1>2, <1>3, <1>4, <1>5 DEF IInv

LEMMA StepSound ==
    ASSUME IInv, [Next]_vars
    PROVE  IInv'
BY TypeStep, RequestsStep, IdsStep, ReportStepSound, RemindersStep DEF IInv

(* The invariant holds of every behaviour of the handlers.                 *)
THEOREM Sound == Spec => []IInv
BY InitSound, StepSound, PTL DEF Spec

(* A row that is added is the one of a request that has passed its checks; *)
(* the rows that go are those of the request's own student and assignment. *)
LEMMA OwnStep ==
    ASSUME IInv, [Next]_vars
    PROVE  /\ \A row \in finals' \ finals :
                 /\ FilesReport[row.run] = "all found"
                 /\ \E m \in Requests :
                       /\ request[m].at = "insert"
                       /\ request[m].user = row.user /\ request[m].run = row.run
           /\ \A row \in finals \ finals' :
                 \E m \in Requests :
                    /\ request[m].at = "delete"
                    /\ request[m].user = row.user /\ request[m].assignment = row.assignment
<1>1. CASE finals' = finals
  BY <1>1
<1>2. ASSUME NEW m \in Requests, InsertFinal(m)
      PROVE  /\ finals \subseteq finals'
             /\ \A row \in finals' \ finals :
                   /\ FilesReport[row.run] = "all found"
                   /\ \E n \in Requests :
                         /\ request[n].at = "insert"
                         /\ request[n].user = row.user /\ request[n].run = row.run
  <2>1. request[m].at = "insert" /\ finals' = finals \cup {Inserted(m)}
    BY <1>2 DEF InsertFinal, Inserted
  <2>2. /\ request[m].user = OwnerOf[request[m].run]
        /\ FilesReport[request[m].run] = "all found"
    BY <2>1 DEF IInv, RequestsSound
  <2>3. /\ Inserted(m).run = request[m].run
        /\ Inserted(m).user = OwnerOf[request[m].run]
    BY DEF Inserted
  <2> QED
    BY <2>1, <2>2, <2>3
<1>3. ASSUME NEW m \in Requests, DeleteFinals(m)
      PROVE  /\ finals' \subseteq finals
             /\ \A row \in finals \ finals' :
                   \E n \in Requests :
                      /\ request[n].at = "delete"
                      /\ request[n].user = row.user /\ request[n].assignment = row.assignment
  BY <1>3 DEF DeleteFinals
<1> QED
  BY <1>1, <1>2, <1>3 DEF Next, RequestStep, MarkFinal, UnmarkFinal, ReadAssignment,
       QueryFails, ReportStep, ShowFinals, SelectMax, SelectRow, Render, ReportFails, Remind,
       CheckReminders, Deliver, ActiveUsers, MassEmail, MarkSent, StaffStep, SetVisible,
       SetSendReminders, UpdateDeadline, Edit, Tick, PollHangs, Crash, Boot, finalVars, vars

(* Whatever marks, unmarks, changes by staff, failures and crashes happen, *)
(* a step adds final runs only for a run that the student whose request it *)
(* is owns and that has all required files, and takes away only that       *)
(* student's own: the check of the owner, made before the last two queries,*)
(* still holds when the row is written with the run's owner.               *)
THEOREM OwnFinals == Spec => OwnFinalsOnly
<1>1. IInv /\ [Next]_vars =>
         [/\ \A row \in finals' \ finals :
                /\ FilesReport[row.run] = "all found"
                /\ \E m \in Requests :
                      /\ request[m].at = "insert"
                      /\ request[m].user = row.user /\ request[m].run = row.run
          /\ \A row \in finals \ finals' :
                \E m \in Requests :
                   /\ request[m].at = "delete"
                   /\ request[m].user = row.user /\ request[m].assignment = row.assignment]_vars
  BY OwnStep
<1> QED
  BY <1>1, Sound, PTL DEF Spec, OwnFinalsOnly

(* A page that is shown has exactly the final runs of the moment of its    *)
(* query for their numbers, however many marks and unmarks come between    *)
(* that and the queries for the rows: a number is given once.              *)
THEOREM PagesAreSnapshots == Spec => []ReportIsSnapshot
<1>1. IInv => ReportIsSnapshot
  BY DEF IInv, ReportSound, ReportIsSnapshot
<1> QED
  BY <1>1, Sound, PTL

(* A reminder that is flagged was mailed, or a query for the users failed. *)
THEOREM FlagsMeanMails == Spec => []FlagMeansMailed
<1>1. IInv => FlagMeansMailed
  BY DEF IInv
<1> QED
  BY <1>1, Sound, PTL

(* The days that move a deadline past a time, for natural numbers.         *)
MovesPast(time, due) == {n \in 0 .. time : time <= due + n * Day}

LEMMA TimesDayGrows ==
    ASSUME NEW m \in Nat, NEW n \in Nat, m <= n
    PROVE  m * Day <= n * Day
<1>1. Day \in Nat /\ n - m \in Nat
  BY BoundsTyped
<1>2. \A x, y \in Nat : x * y \in Nat
  OBVIOUS
<1>3. (n - m) * Day \in Nat
  BY <1>1, <1>2
<1>4. n * Day = m * Day + (n - m) * Day
  BY <1>1
<1> QED
  BY <1>1, <1>2, <1>3, <1>4

(* Division that rounds up: what is a day short is not enough.             *)
LEMMA CeilingBounds ==
    ASSUME NEW a \in Nat \ {0}
    PROVE  /\ (a + Day - 1) \div Day \in Nat \ {0}
           /\ a <= ((a + Day - 1) \div Day) * Day
           /\ ((a + Day - 1) \div Day - 1) * Day < a
<1> DEFINE k == (a + Day - 1) \div Day
<1>1. Day \in Nat /\ Day > 0
  BY BoundsTyped
<1>2. k \in Int /\ Day * k <= a + Day - 1 /\ a + Day - 1 < Day * k + Day
  BY <1>1
<1> HIDE DEF k
<1>3. k > 0
  <2>1. CASE k <= 0
    <3>1. Day * k <= 0
      BY <1>1, <1>2, <2>1
    <3> QED
      BY <1>1, <1>2, <3>1
  <2> QED
    BY <1>2, <2>1
<1>4. k * Day = Day * k /\ (k - 1) * Day = Day * k - Day
  BY <1>1, <1>2
<1>5. k \in Nat \ {0} /\ a <= k * Day /\ (k - 1) * Day < a
  BY <1>1, <1>2, <1>3, <1>4
<1> QED
  BY <1>5 DEF k

(* The division of score.js is the least of the numbers of days, and one   *)
(* there is.                                                               *)
LEMMA SlipDaysLeast ==
    ASSUME NEW time \in Nat, NEW due \in Nat
    PROVE  SlipDays(time, due) = Min(MovesPast(time, due))
<1> DEFINE k == SlipDays(time, due)
<1>1. Day \in Nat /\ Day > 0
  BY BoundsTyped
<1>2. k \in MovesPast(time, due) /\ \A n \in MovesPast(time, due) : k <= n
  <2>1. CASE time <= due
    BY <1>1, <2>1 DEF SlipDays, MovesPast
  <2>2. CASE time > due
    <3>1. time - due \in Nat \ {0} /\ k = (time - due + Day - 1) \div Day
      BY <2>2 DEF SlipDays
    <3>2. k \in Nat \ {0} /\ time - due <= k * Day /\ (k - 1) * Day < time - due
      BY <3>1, CeilingBounds
    <3> HIDE DEF k
    <3>3. k <= time
      <4>1. k - 1 \in Nat /\ Day - 1 \in Nat
        BY <1>1, <3>2
      <4>2. (k - 1) * (Day - 1) >= 0 /\ (k - 1) * Day = (k - 1) * (Day - 1) + (k - 1)
        BY <4>1, <1>1
      <4> QED
        BY <1>1, <3>2, <4>1, <4>2
    <3>4. time <= due + k * Day
      BY <1>1, <3>2
    <3>5. ASSUME NEW n \in 0 .. time, time <= due + n * Day, n < k
          PROVE  FALSE
      <4>1. n * Day <= (k - 1) * Day
        BY <3>2, <3>5, TimesDayGrows
      <4>2. n * Day \in Int /\ (k - 1) * Day \in Int
        BY <1>1, <3>2
      <4> QED
        BY <3>2, <3>5, <4>1, <4>2
    <3> QED
      BY <3>2, <3>3, <3>4, <3>5 DEF MovesPast
  <2> QED
    BY <2>1, <2>2
<1>3. \A m \in MovesPast(time, due) :
         (\A n \in MovesPast(time, due) : m <= n) => m = k
  BY <1>2 DEF MovesPast
<1> HIDE DEF k
<1> QED
  BY <1>2, <1>3 DEF Min, k

(* The slip days left are those allowed less, for each final run the query *)
(* of the page saw, the least number of days by which its deadline, as the *)
(* request read it, must move for it.                                      *)
THEOREM SlipDaysLeft == Spec => []SlipDaysAreLeast
<1>1. ASSUME IInv, report.at = "answered", NEW user \in Users
      PROVE  LET mine == {row \in report.snapshot : row.user = user}
                 need(row) == Min({n \in 0 .. row.timestamp :
                                row.timestamp <= report.deadlines[row.assignment] + n * Day})
             IN RemainingSlipDays(user, report.rows, report.deadlines)
                  = AllowedSlipDays[user] - MapThenSumSet(need, mine)
  <2> DEFINE S == {row \in report.snapshot : row.user = user}
             A(row) == SlipDays(row.timestamp, report.deadlines[row.assignment])
             B(row) == Min({n \in 0 .. row.timestamp :
                              row.timestamp <= report.deadlines[row.assignment] + n * Day})
             First(s) == CHOOSE x \in s : TRUE
             SumA(f) == [s \in SUBSET S |->
                           IF s = {} THEN 0 ELSE A(First(s)) + f[s \ {First(s)}]]
             SumB(f) == [s \in SUBSET S |->
                           IF s = {} THEN 0 ELSE B(First(s)) + f[s \ {First(s)}]]
  <2>1. report.rows = report.snapshot
    BY <1>1 DEF IInv, ReportSound
  <2>2. \A row \in S : A(row) = B(row)
    <3> TypeOK
      BY <1>1, Zenon DEF IInv
    <3>1. report \in Fetching
      BY <1>1 DEF TypeOK, Asking, Free, Ended
    <3>2. \A row \in S : row.timestamp \in Nat /\ report.deadlines[row.assignment] \in Nat
      BY <3>1, BoundsTyped DEF Fetching, Row
    <3> QED
      BY <3>2, SlipDaysLeast DEF MovesPast
  <2> HIDE DEF S, A, B
  <2>3. \A f : SumA(f) = SumB(f)
    <3>1. \A s \in SUBSET S : s # {} => A(First(s)) = B(First(s))
      BY <2>2
    <3> QED
      BY <3>1
  <2>4. (CHOOSE f : f = SumA(f)) = (CHOOSE f : f = SumB(f))
    <3> HIDE DEF SumA, SumB
    <3> QED
      BY <2>3, Zenon
  <2>5. MapThenSumSet(A, S) = MapThenSumSet(B, S)
    BY <2>4, Zenon DEF MapThenSumSet, MapThenFoldSet
  <2>6. RemainingSlipDays(user, report.rows, report.deadlines)
          = AllowedSlipDays[user] - MapThenSumSet(A, S)
    BY <2>1 DEF RemainingSlipDays, S, A
  <2> QED
    BY <2>5, <2>6 DEF S, B
<1>2. IInv => SlipDaysAreLeast
  BY <1>1 DEF SlipDaysAreLeast
<1> QED
  BY <1>2, Sound, PTL

(* A row comes from, or goes by, a request for its assignment that saw it  *)
(* enabled.                                                                *)
LEMMA FrozenStep ==
    ASSUME IInv, [Next]_vars, NEW a \in Assignments, ~ UnderWay(a)
    PROVE  {row \in finals' : row.assignment = a} = {row \in finals : row.assignment = a}
<1>1. CASE finals' = finals
  BY <1>1
<1>2. ASSUME NEW m \in Requests, InsertFinal(m)
      PROVE  {row \in finals' : row.assignment = a} = {row \in finals : row.assignment = a}
  <2>1. finals' = finals \cup {Inserted(m)}
    BY <1>2 DEF InsertFinal, Inserted
  <2>2. request[m].at = "insert" /\ request[m].seen
    BY <1>2 DEF InsertFinal, IInv, RequestsSound
  <2>3. Inserted(m).assignment # a
    BY <2>2 DEF UnderWay, Inserted
  <2> QED
    BY <2>1, <2>3
<1>3. ASSUME NEW m \in Requests, DeleteFinals(m)
      PROVE  {row \in finals' : row.assignment = a} = {row \in finals : row.assignment = a}
  <2>1. request[m].at = "delete" /\ request[m].seen
    BY <1>3 DEF DeleteFinals, IInv, RequestsSound
  <2>2. request[m].assignment # a
    BY <2>1 DEF UnderWay
  <2> QED
    BY <1>3, <2>2 DEF DeleteFinals
<1> QED
  BY <1>1, <1>2, <1>3 DEF Next, RequestStep, MarkFinal, UnmarkFinal, ReadAssignment,
       QueryFails, ReportStep, ShowFinals, SelectMax, SelectRow, Render, ReportFails, Remind,
       CheckReminders, Deliver, ActiveUsers, MassEmail, MarkSent, StaffStep, SetVisible,
       SetSendReminders, UpdateDeadline, Edit, Tick, PollHangs, Crash, Boot, finalVars, vars

(* Once an assignment is disabled, the final runs for it change only by    *)
(* requests that saw it enabled before.                                    *)
THEOREM FinalsFrozen == Spec => FrozenWhenDisabled
<1>1. IInv /\ [Next]_vars =>
         [\A a \in Assignments :
             ~ visible[a] /\ ~ UnderWay(a) =>
                {row \in finals' : row.assignment = a} = {row \in finals : row.assignment = a}]_vars
  BY FrozenStep
<1> QED
  BY <1>1, Sound, PTL DEF Spec, FrozenWhenDisabled
=============================================================================
