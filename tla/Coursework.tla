----------------------------- MODULE Coursework -----------------------------
(***************************************************************************)
(* Final runs, slip days and reminders (conductor/app.js:2596-2766, 758-774*)
(* 1006-1028, 3272-3313; score.js:665-679): what the requests of students  *)
(* and staff and the poll make of the tables final_runs and assignments.   *)
(*                                                                         *)
(* A step is one query or mail with the callback that gets its result, so  *)
(* handlers interleave between any two of theirs.  A request that fails a  *)
(* check, or whose query fails, is redirected and ends.                    *)
(***************************************************************************)
EXTENDS Integers, FiniteSets, FiniteSetsExt, Functions

CONSTANTS
    Users,
    Assignments,
    Runs,
    OwnerOf, AssignmentOf, StartOf,   \* columns of runs
    FilesReport,     \* "none" before the correctness tests, "missing", "all found"
    AllowedSlipDays,
    Deadlines,       \* the times a deadline may be set to
    Requests,        \* bound: the requests that change final runs
    Day, Window,     \* 24 hours; the reminders' 6 hours
    MaxTime,         \* bound
    MaxEdits,        \* bound: changes to the assignments
    Rounds,          \* bound: rounds of the poll with a reminder under way
    FaultKinds,      \* subset of {"query", "users", "mail", "flag", "copy", "crash"}
    MaxFaults        \* bound

ASSUME CourseworkAssumption ==
    /\ OwnerOf \in [Runs -> Users] /\ AssignmentOf \in [Runs -> Assignments]
    /\ StartOf \in [Runs -> Nat] /\ AllowedSlipDays \in [Users -> Nat]
    /\ FilesReport \in [Runs -> {"none", "missing", "all found"}]
    /\ Deadlines \subseteq Nat /\ Deadlines # {}
    /\ Day \in Nat \ {0} /\ Window \in Nat /\ MaxTime \in Nat
    /\ MaxEdits \in Nat /\ MaxFaults \in Nat

VARIABLES
    conductor,    \* its process: "polling", "silent" (no poll any more) or "down"
    now,
    visible,      \* columns of assignments
    deadline,
    reminders,    \* send_reminder_emails
    flagged,      \* reminder_email_sent
    finals,       \* the table final_runs
    lastId,       \* its sequence final_run_id
    request,      \* per request, what it does and how far it has come
    report,       \* one request for a page with final runs
    deliveries,   \* reminders under way
    mails,        \* history: reminders mailed, by assignment
    edits,
    faults        \* history: kinds of the faults so far

assignmentVars == <<now, visible, deadline, reminders, edits>>
finalVars == <<finals, lastId, request, report>>
reminderVars == <<flagged, deliveries, mails>>
vars == <<conductor, assignmentVars, finalVars, reminderVars, faults>>

Row == [id : Nat, user : Users, assignment : Assignments, run : Runs, timestamp : Nat]

Free == [at |-> "free"]
Ended == [at |-> "ended"]
Marking == [at : {"assignment", "insert"}, user : Users, run : Runs, seen : BOOLEAN]
Unmarking == [at : {"delete"}, user : Users, assignment : Assignments, seen : BOOLEAN]
Asking == [at : {"finals"}, deadlines : [Assignments -> Deadlines]]
Fetching == [at : {"rows", "answered"}, deadlines : [Assignments -> Deadlines],
             snapshot : SUBSET Row, ids : SUBSET Nat, rows : SUBSET Row]

TypeOK ==
    /\ conductor \in {"polling", "silent", "down"}
    /\ now \in 0 .. MaxTime
    /\ visible \in [Assignments -> BOOLEAN]
    /\ deadline \in [Assignments -> Deadlines]
    /\ {reminders, flagged} \subseteq [Assignments -> BOOLEAN]
    /\ finals \subseteq Row /\ \A x, y \in finals : x.id = y.id => x = y
    /\ lastId \in Nat
    /\ request \in [Requests -> {Free, Ended} \cup Marking \cup Unmarking]
    /\ report \in {Free, Ended} \cup Asking \cup Fetching
    /\ deliveries \subseteq [of : Assignments, round : Rounds, at : {"users", "mail", "flag"}]
    /\ mails \in [Assignments -> Nat]
    /\ edits \in 0 .. MaxEdits
    /\ faults \in [FaultKinds -> Nat]

(* A request that is never made has ended from the start; a reminder may   *)
(* have been sent before.                                                  *)
Init ==
    /\ conductor = "polling"
    /\ now = 0 /\ edits = 0
    /\ visible = [a \in Assignments |-> TRUE]
    /\ deadline \in [Assignments -> Deadlines]
    /\ reminders = [a \in Assignments |-> TRUE]
    /\ flagged \in [Assignments -> BOOLEAN]
    /\ finals = {} /\ lastId = 0
    /\ request \in [Requests -> {Free, Ended}] /\ report \in {Free, Ended}
    /\ deliveries = {} /\ mails = [a \in Assignments |-> IF flagged[a] THEN 1 ELSE 0]
    /\ faults = [k \in FaultKinds |-> 0]

Fault(kind) ==
    /\ kind \in FaultKinds
    /\ MapThenSumSet(LAMBDA k : faults[k], FaultKinds) < MaxFaults
    /\ faults' = [faults EXCEPT ![kind] = @ + 1]

NoFault == UNCHANGED faults

-----------------------------------------------------------------------------
(* mark_final and unmark_final.  seen is history: whether the assignment   *)
(* was visible when the request looked.                                    *)

Goes(m, state) == request' = [request EXCEPT ![m] = state]

(* The run, then its log files, which are read at once.                    *)
MarkFinal_(m, user, run) ==
    /\ conductor # "down" /\ request[m] = Free
    /\ Goes(m, IF FilesReport[run] = "none" THEN Ended
               ELSE [at |-> "assignment", user |-> user, run |-> run, seen |-> FALSE])
    /\ NoFault
    /\ UNCHANGED <<conductor, assignmentVars, finals, lastId, report, reminderVars>>

MarkFinal(m, user, run) ==
    /\ conductor # "down" /\ request[m] = Free
    /\ Goes(m, IF OwnerOf[run] # user \/ FilesReport[run] = "none" THEN Ended
               ELSE [at |-> "assignment", user |-> user, run |-> run, seen |-> FALSE])
    /\ NoFault
    /\ UNCHANGED <<conductor, assignmentVars, finals, lastId, report, reminderVars>>

ReadAssignment(m) ==
    /\ request[m].at = "assignment"
    /\ LET run == request[m].run IN
       Goes(m, IF visible[AssignmentOf[run]] /\ FilesReport[run] = "all found"
                 THEN [request[m] EXCEPT !.at = "insert", !.seen = visible[AssignmentOf[run]]]
                 ELSE Ended)
    /\ NoFault
    /\ UNCHANGED <<conductor, assignmentVars, finals, lastId, report, reminderVars>>

InsertFinal(m) ==
    /\ request[m].at = "insert"
    /\ LET run == request[m].run IN
       finals' = finals \cup {[id |-> lastId + 1, user |-> OwnerOf[run], run |-> run,
                               assignment |-> AssignmentOf[run], timestamp |-> StartOf[run]]}
    /\ lastId' = lastId + 1
    /\ Goes(m, Ended)
    /\ NoFault
    /\ UNCHANGED <<conductor, assignmentVars, report, reminderVars>>

UnmarkFinal_(m, user, a) ==
    /\ conductor # "down" /\ request[m] = Free
    /\ Goes(m, [at |-> "delete", user |-> user, assignment |-> a, seen |-> visible[a]])
    /\ NoFault
    /\ UNCHANGED <<conductor, assignmentVars, finals, lastId, report, reminderVars>>

UnmarkFinal(m, user, a) ==
    /\ conductor # "down" /\ request[m] = Free
    /\ Goes(m, IF visible[a]
                 THEN [at |-> "delete", user |-> user, assignment |-> a, seen |-> visible[a]]
                 ELSE Ended)
    /\ NoFault
    /\ UNCHANGED <<conductor, assignmentVars, finals, lastId, report, reminderVars>>

DeleteFinals(m) ==
    /\ request[m].at = "delete"
    /\ finals' = {row \in finals : row.user # request[m].user
                                     \/ row.assignment # request[m].assignment}
    /\ Goes(m, Ended)
    /\ NoFault
    /\ UNCHANGED <<conductor, assignmentVars, lastId, report, reminderVars>>

QueryFails(m) ==
    /\ request[m].at \in {"assignment", "insert", "delete"}
    /\ Fault("query")
    /\ Goes(m, Ended)
    /\ UNCHANGED <<conductor, assignmentVars, finals, lastId, report, reminderVars>>

-----------------------------------------------------------------------------
(* The profile and admin pages: the assignments, the greatest final_run_id *)
(* of each user and assignment, and then each of these rows by itself.     *)

FinalRows ==
    {row \in finals : \A other \in finals :
        other.user = row.user /\ other.assignment = row.assignment => other.id <= row.id}

ShowFinals ==
    /\ conductor # "down" /\ report = Free
    /\ report' = [at |-> "finals", deadlines |-> deadline]
    /\ NoFault
    /\ UNCHANGED <<conductor, assignmentVars, finals, lastId, request, reminderVars>>

(* snapshot is history.                                                    *)
SelectMax ==
    /\ report.at = "finals"
    /\ report' = [at |-> "rows", deadlines |-> report.deadlines, snapshot |-> FinalRows,
                  ids |-> {row.id : row \in FinalRows}, rows |-> {}]
    /\ NoFault
    /\ UNCHANGED <<conductor, assignmentVars, finals, lastId, request, reminderVars>>

RowFor_(id) ==
    LET old == CHOOSE row \in report.snapshot : row.id = id IN
    {row \in FinalRows : row.user = old.user /\ row.assignment = old.assignment}
RowFor(id) == {row \in finals : row.id = id}

(* A row that has gone ends the request with an error.                     *)
SelectRow(id) ==
    /\ report.at = "rows" /\ id \in report.ids
    /\ report' = IF RowFor(id) = {} THEN Ended
                 ELSE [report EXCEPT !.ids = @ \ {id}, !.rows = @ \cup RowFor(id)]
    /\ NoFault
    /\ UNCHANGED <<conductor, assignmentVars, finals, lastId, request, reminderVars>>

Render ==
    /\ report.at = "rows" /\ report.ids = {}
    /\ report' = [report EXCEPT !.at = "answered"]
    /\ NoFault
    /\ UNCHANGED <<conductor, assignmentVars, finals, lastId, request, reminderVars>>

ReportFails ==
    /\ report.at \in {"finals", "rows"}
    /\ Fault("query")
    /\ report' = Ended
    /\ UNCHANGED <<conductor, assignmentVars, finals, lastId, request, reminderVars>>

(* calc_slip_days_for, for an assignment that costs slip days.             *)
SlipDays_(time, due) == IF time > due THEN (time - due) \div Day ELSE 0
SlipDays(time, due) == IF time > due THEN (time - due + Day - 1) \div Day ELSE 0

(* compute_remaining_slip_days_for.                                        *)
RemainingSlipDays(user, rows, due) ==
    AllowedSlipDays[user]
      - MapThenSumSet(LAMBDA row : SlipDays(row.timestamp, due[row.assignment]),
                      {row \in rows : row.user = user})

-----------------------------------------------------------------------------
(* The reminders of check_cluster.  One assignment is taken per round, and *)
(* the round does not wait for the mail.                                   *)

Due_(a) == reminders[a] /\ ~ flagged[a] /\ deadline[a] \in now .. now + Window - 1
Due(a) == reminders[a] /\ ~ flagged[a] /\ deadline[a] < now + Window

CheckReminders(a) ==
    /\ conductor = "polling" /\ Due(a)
    /\ \E n \in Rounds \ {d.round : d \in deliveries} :
          deliveries' = deliveries \cup {[of |-> a, round |-> n, at |-> "users"]}
    /\ NoFault
    /\ UNCHANGED <<conductor, assignmentVars, finalVars, flagged, mails>>

Moves(d, place) == deliveries' = (deliveries \ {d}) \cup {[d EXCEPT !.at = place]}
Ends(d) == deliveries' = deliveries \ {d}

(* get_all_active_users.  Its error is passed on where no error is looked  *)
(* for: the reminder counts as sent.                                       *)
ActiveUsers(d) ==
    /\ d.at = "users"
    /\ \/ Moves(d, "mail") /\ NoFault
       \/ Moves(d, "flag") /\ Fault("users")
    /\ UNCHANGED <<conductor, assignmentVars, finalVars, flagged, mails>>

AfterMailError_(d) == Moves(d, "flag")
AfterMailError(d) == Ends(d)

MassEmail(d) ==
    /\ d.at = "mail"
    /\ \/ /\ mails' = [mails EXCEPT ![d.of] = @ + 1]
          /\ Moves(d, "flag")
          /\ NoFault
       \/ /\ AfterMailError(d)
          /\ Fault("mail")
          /\ UNCHANGED mails
    /\ UNCHANGED <<conductor, assignmentVars, finalVars, flagged>>

MarkSent(d) ==
    /\ d.at = "flag"
    /\ \/ flagged' = [flagged EXCEPT ![d.of] = TRUE] /\ NoFault
       \/ UNCHANGED flagged /\ Fault("flag")
    /\ Ends(d)
    /\ UNCHANGED <<conductor, assignmentVars, finalVars, mails>>

-----------------------------------------------------------------------------
(* The staff's changes, time and the conductor's process.                  *)

Edit ==
    /\ conductor # "down" /\ edits < MaxEdits
    /\ edits' = edits + 1
    /\ UNCHANGED <<conductor, now, finalVars, reminderVars, faults>>

SetVisible(a, set) ==
    /\ visible' = [visible EXCEPT ![a] = set]
    /\ UNCHANGED <<deadline, reminders>>
    /\ Edit

UpdateDeadline(a, time) ==
    /\ deadline' = [deadline EXCEPT ![a] = time]
    /\ UNCHANGED <<visible, reminders>>
    /\ Edit

SetSendReminders(a, set) ==
    /\ reminders' = [reminders EXCEPT ![a] = set]
    /\ UNCHANGED <<visible, deadline>>
    /\ Edit

Tick ==
    /\ now < MaxTime
    /\ now' = now + 1
    /\ NoFault
    /\ UNCHANGED <<conductor, visible, deadline, reminders, edits, finalVars, reminderVars>>

(* A copy between conductor and cluster may never call back, when the      *)
(* connection closes: the poll does not come round again, and the rest of  *)
(* the process goes on.                                                    *)
PollHangs ==
    /\ conductor = "polling"
    /\ Fault("copy")
    /\ conductor' = "silent"
    /\ UNCHANGED <<assignmentVars, finalVars, reminderVars>>

(* Requests and reminders under way are lost; the tables are not.          *)
Crash ==
    /\ conductor # "down"
    /\ Fault("crash")
    /\ conductor' = "down"
    /\ request' = [m \in Requests |-> IF request[m] = Free THEN Free ELSE Ended]
    /\ report' = IF report = Free THEN Free ELSE Ended
    /\ deliveries' = {}
    /\ UNCHANGED <<assignmentVars, finals, lastId, flagged, mails>>

(* Somebody starts it again, with a poll.                                  *)
Boot ==
    /\ conductor = "down"
    /\ conductor' = "polling"
    /\ NoFault
    /\ UNCHANGED <<assignmentVars, finalVars, reminderVars>>

RequestStep(m) ==
    \/ \E user \in Users, run \in Runs : MarkFinal(m, user, run)
    \/ \E user \in Users, a \in Assignments : UnmarkFinal(m, user, a)
    \/ ReadAssignment(m) \/ InsertFinal(m) \/ DeleteFinals(m) \/ QueryFails(m)

ReportStep ==
    \/ ShowFinals \/ SelectMax \/ Render \/ ReportFails
    \/ report.at = "rows" /\ \E id \in report.ids : SelectRow(id)

Remind == \E a \in Assignments : CheckReminders(a)
Deliver == \E d \in deliveries : ActiveUsers(d) \/ MassEmail(d) \/ MarkSent(d)

StaffStep ==
    \E a \in Assignments :
       \/ \E set \in BOOLEAN : SetVisible(a, set) \/ SetSendReminders(a, set)
       \/ \E time \in Deadlines : UpdateDeadline(a, time)

Next ==
    \/ \E m \in Requests : RequestStep(m)
    \/ ReportStep \/ Remind \/ Deliver \/ StaffStep \/ Tick
    \/ PollHangs \/ Crash \/ Boot

Spec == Init /\ [][Next]_vars

(* While it polls, the poll comes round (Conductor's PollKeepsGoing), and  *)
(* queries and mails are answered.  Nothing says that a conductor that is  *)
(* down is started again, or that one whose poll hangs is restarted.       *)
Fairness == WF_vars(Remind) /\ WF_vars(Deliver)

FairSpec == Spec /\ Fairness

-----------------------------------------------------------------------------
(* Properties.                                                             *)

(* The final runs a step adds or takes away are of the student whose       *)
(* request it is, and for the run or the assignment it was made for: nobody*)
(* marks or unmarks for another, though the rows come from a query of their*)
(* own and the tables move on between the checks and the change.  What is  *)
(* added has all required files.                                           *)
OwnFinalsOnly ==
    [][/\ \A row \in finals' \ finals :
             /\ FilesReport[row.run] = "all found"
             /\ \E m \in Requests :
                   /\ request[m].at = "insert"
                   /\ request[m].user = row.user /\ request[m].run = row.run
       /\ \A row \in finals \ finals' :
             \E m \in Requests :
                /\ request[m].at = "delete"
                /\ request[m].user = row.user /\ request[m].assignment = row.assignment]_vars

(* "You are not permitted to change a run's final status if the assignment *)
(* ... is disabled" (app.js:31): after that only requests that have seen it*)
(* enabled change it.                                                      *)
UnderWay(a) ==
    \E m \in Requests :
       \/ request[m].at = "insert" /\ AssignmentOf[request[m].run] = a /\ request[m].seen
       \/ request[m].at = "delete" /\ request[m].assignment = a /\ request[m].seen

FrozenWhenDisabled ==
    [][\A a \in Assignments :
          ~ visible[a] /\ ~ UnderWay(a) =>
             {row \in finals' : row.assignment = a} = {row \in finals : row.assignment = a}]_vars

(* A page that is shown has the final runs of one moment, though each row  *)
(* is fetched later and marks and unmarks go on.  (And the types hold.)    *)
ReportIsSnapshot ==
    /\ TypeOK
    /\ report.at = "answered" => report.rows = report.snapshot

(* The slip days left are those allowed, less for each final run the least *)
(* number of days by which the deadline, as read before, must move for it. *)
SlipDaysAreLeast ==
    report.at = "answered" =>
       \A user \in Users :
          LET mine == {row \in report.snapshot : row.user = user}
              need(row) == Min({n \in 0 .. row.timestamp :
                                  row.timestamp <= report.deadlines[row.assignment] + n * Day})
          IN RemainingSlipDays(user, report.rows, report.deadlines)
               = AllowedSlipDays[user] - MapThenSumSet(need, mine)

(* An assignment is flagged only when its reminder was mailed, unless the  *)
(* query for the users failed.                                             *)
FlagMeansMailed ==
    \A a \in Assignments :
       flagged[a] => mails[a] > 0 \/ ("users" \in FaultKinds /\ faults["users"] > 0)

(* A reminder whose time has come is mailed, across crashes and failures,  *)
(* unless staff turn it off or move the deadline, or it is flagged, or the *)
(* conductor is down or its poll hangs; after a start it is due again.     *)
Outstanding(a) == reminders[a] /\ ~ flagged[a] /\ deadline[a] < now + Window

OutstandingIsMailed ==
    \A a \in Assignments :
       Outstanding(a) ~> mails[a] > 0 \/ ~ Outstanding(a) \/ conductor # "polling"
=============================================================================
