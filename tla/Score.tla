------------------------------- MODULE Score -------------------------------
(***************************************************************************)
(* Scoring (conductor/score.js): what the conductor and get_score_for_run  *)
(* make of the log files of a run with the rubric of its assignment.       *)
(*                                                                         *)
(* A log is a sequence of lines, a line a record that says what the parser *)
(* takes it for.  correct.txt is one file with the reports of many JUnit   *)
(* processes, one per test class (LocalTestRunner.java:495-565), and is    *)
(* built here from them.  Points, times and speedups are integers; a       *)
(* speedup is compared by cross-multiplication.  The words of the comments *)
(* are left out, the points each of them explains are kept.                *)
(***************************************************************************)
EXTENDS Integers, FiniteSetsExt, SequencesExt

CONSTANTS
    Rubrics,      \* what instructors have uploaded, valid or not
    Submissions,  \* runs as [status, ncores, reports, stderr, large, perf, style]
    Killed,       \* the report of a test class that ran out of time
    NoFile,
    Null,         \* null
    Died,         \* an exception that nobody catches
    NotAsked

VARIABLES
    rubric,
    run,
    score

vars == <<rubric, run, score>>

-----------------------------------------------------------------------------
(* load_and_validate_rubric.                                               *)

HasAll(fields, r) == fields \subseteq DOMAIN r

ValidGrading_(test) ==
    \A g \in ToSet(test.grading) :
       HasAll({"bottom_inclusive", "top_exclusive", "points_off"}, g)

ValidGrading(test) ==
    \A g \in ToSet(test.grading) :
       /\ HasAll({"bottom_inclusive", "top_exclusive", "points_off"}, g)
       /\ g.points_off <= test.points_worth

ValidRubric(r) ==
    /\ HasAll({"correctness", "performance", "style"}, r)
    /\ HasAll({"tests"}, r.performance)
    /\ r.performance.tests # <<>> => HasAll({"characteristic_test"}, r.performance)
    /\ \A test \in ToSet(r.correctness) :
          HasAll({"testname", "points_worth"}, test) /\ test.points_worth >= 0
    /\ \A test \in ToSet(r.performance.tests) :
          /\ HasAll({"testname", "points_worth", "ncores", "grading"}, test)
          /\ ValidGrading(test)
    /\ HasAll({"points_per_error", "max_points_off"}, r.style)

(* What is uploaded and printed: lists are lists, points are numbers.      *)
IsList(s) == s \in Seq(ToSet(s))

ASSUME ScoreAssumption ==
    /\ \A r \in Rubrics : ValidRubric(r) =>
          /\ IsList(r.correctness) /\ IsList(r.performance.tests)
          /\ \A test \in ToSet(r.correctness) : test.points_worth \in Int
          /\ \A test \in ToSet(r.performance.tests) :
                /\ test.points_worth \in Int /\ IsList(test.grading)
                /\ \A g \in ToSet(test.grading) : g.points_off \in Int
          /\ r.style.points_per_error \in Int /\ r.style.max_points_off \in Int
    /\ \A r \in Submissions :
          /\ r.reports # NoFile =>
                IsList(r.reports) /\ \A t \in ToSet(r.reports) : t # Killed => IsList(t)
          /\ IsList(r.stderr)
          /\ \A line \in ToSet(r.stderr) : line.kind = "count" => line.n \in Nat
          /\ IsList(r.ncores)
          /\ \A c \in ToSet(r.ncores) : r.perf[c] # NoFile => IsList(r.perf[c])
          /\ r.style # NoFile => IsList(r.style)

-----------------------------------------------------------------------------
(* correct.txt, as runLocalTests writes it (external: the text of JUnit).  *)

Text == [kind |-> "text"]
Blank == [kind |-> "blank"]
StderrHeader == [kind |-> "stderr"]
OkLine == [kind |-> "ok"]
CountLine(n) == [kind |-> "count", n |-> n]
FailureLine(n, test) == [kind |-> "failure", n |-> n, test |-> test]

JUnitReport(report) ==
    IF report = Killed THEN <<Text>>
    ELSE IF report = <<>> THEN <<Text, OkLine>>
    ELSE <<Text, CountLine(Len(report))>>
           \o FlattenSeq([n \in DOMAIN report |-> <<FailureLine(n, report[n]), Text>>])
           \o <<Text>>

(* runInProcess answers a class out of time with an ERROR line on stderr.  *)
Stderr(reports, stderr) ==
    stderr \o (IF Killed \in ToSet(reports) THEN <<Text>> ELSE <<>>)

CorrectTxt(reports, stderr) ==
    <<Text>> \o FlattenSeq([c \in DOMAIN reports |-> JUnitReport(reports[c])])
             \o <<Blank, StderrHeader>> \o Stderr(reports, stderr) \o <<Blank>>

ASSUME FileAssumption ==
    \A r \in Submissions : r.reports # NoFile => CorrectTxt(r.reports, r.stderr) # NoFile

(* load_log_files: a file above the limit is replaced by one line.         *)
Displayed(file, large) == IF file # NoFile /\ large THEN <<Text>> ELSE file

-----------------------------------------------------------------------------
(* The parts of a score: points, their total, and what the comments say    *)
(* was lost.                                                               *)

Part(points, total, losses) == [points |-> points, total |-> total, losses |-> losses]

NoPoints(total) == Part(0, total, <<total>>)

Sum(seq) ==
    LET sum[i \in 0 .. Len(seq)] == IF i = 0 THEN 0 ELSE sum[i - 1] + seq[i]
    IN  sum[Len(seq)]

Worth(tests) == Sum([i \in DOMAIN tests |-> tests[i].points_worth])

RunCompleted(status) == status \notin {"FAILED", "CANCELLED"}

(* check_for_empty_stderr: without the header, all lines are looked at.    *)
NonEmptyStderr(lines) ==
    LET header == Max({0} \cup {i \in DOMAIN lines : lines[i] = StderrHeader}) IN
    \E i \in header + 1 .. Len(lines) : lines[i] # Blank

(* The failures announced: 1, ..., n for each line with a count n.         *)
Announced(lines) ==
    FlattenSeq([i \in DOMAIN lines |->
       IF lines[i].kind = "count" THEN [n \in 1 .. lines[i].n |-> n] ELSE <<>>])

Heads(line, n) == line.kind = "failure" /\ line.n = n

(* The search for "n) " starts where the last one ended: at the line that  *)
(* it found, or behind the last line.                                      *)
SearchFrom_(i) == 1
SearchFrom(i) == i

Search(lines, at, n) ==
    LET hits == {i \in SearchFrom(at) .. Len(lines) : Heads(lines[i], n)} IN
    IF hits = {} THEN Len(lines) + 1 ELSE Min(hits)

(* find_correctness_test_with_name, for the failure at a line.             *)
LossAt(tests, lines, at) ==
    LET i == SelectInSeq(tests, LAMBDA test : test.testname = lines[at].test) IN
    IF at > Len(lines) \/ i = 0 THEN <<>> ELSE <<tests[i].points_worth>>

AfterFailure(tests, lines, acc, n) ==
    LET at == Search(lines, acc.at, n) IN
    [at |-> at, losses |-> acc.losses \o LossAt(tests, lines, at)]

CorrectnessLosses(tests, lines) ==
    LET numbers == Announced(lines)
        search[k \in 0 .. Len(numbers)] ==
          IF k = 0 THEN [at |-> 1, losses |-> <<>>]
          ELSE AfterFailure(tests, lines, search[k - 1], numbers[k])
    IN  search[Len(numbers)].losses

Reported(lines) == \E i \in DOMAIN lines : lines[i].kind \in {"ok", "count"}

Correctness(tests, status, lines) ==
    IF ~ RunCompleted(status) \/ lines = NoFile \/ NonEmptyStderr(lines) \/ ~ Reported(lines)
    THEN NoPoints(Worth(tests))
    ELSE LET losses == CorrectnessLosses(tests, lines) IN
         Part(Worth(tests) - Sum(losses), Worth(tests), losses)

-----------------------------------------------------------------------------
(* Performance.  A line is [test, seq, par]; other lines are left out.     *)

(* The speedup is 0 when the parallel time is.                             *)
AtLeast(line, bound) == IF line.par > 0 THEN bound * line.par <= line.seq ELSE bound <= 0

InInterval_(line, g) ==
    /\ AtLeast(line, g.bottom_inclusive)
    /\ ~ AtLeast(line, g.top_exclusive)

InInterval(line, g) ==
    /\ AtLeast(line, g.bottom_inclusive)
    /\ g.top_exclusive < 0 \/ ~ AtLeast(line, g.top_exclusive)

(* What the first interval of a test that holds the speedup takes off.     *)
IntervalLosses(test, line) ==
    LET i == SelectInSeq(test.grading, LAMBDA g : InInterval(line, g)) IN
    IF i = 0 THEN <<>> ELSE <<test.grading[i].points_off>>

(* find_performance_test_with_name_and_cores.                              *)
Position(tests, name, cores) ==
    SelectInSeq(tests, LAMBDA test : test.testname = name /\ test.ncores = cores)

Ungraded_(graded, name, cores) == graded
Ungraded(graded, name, cores) ==
    LET i == Position(graded, name, cores) IN
    IF i = 0 THEN graded ELSE RemoveAt(graded, i)

(* One line of the output with so many cores.                              *)
GradeLine(tests, cores, acc, line) ==
    LET i == Position(tests, line.test, cores)
        losses == IntervalLosses(tests[i], line)
    IN  IF i = 0 THEN acc
        ELSE [points |-> acc.points + tests[i].points_worth - Sum(losses),
              losses |-> acc.losses \o losses,
              graded |-> Ungraded(acc.graded, line.test, cores)]

GradeFile(tests, cores, acc, lines) ==
    LET file[k \in 0 .. Len(lines)] ==
          IF k = 0 THEN acc ELSE GradeLine(tests, cores, file[k - 1], lines[k])
    IN  file[Len(lines)]

GradeFiles(tests, ncores, perf) ==
    LET files[c \in 0 .. Len(ncores)] ==
          IF c = 0 THEN [points |-> 0, losses |-> <<>>, graded |-> tests]
          ELSE GradeFile(tests, ncores[c], files[c - 1], perf[ncores[c]])
    IN  files[Len(ncores)]

Performance(tests, status, ncores, perf) ==
    IF (\E c \in ToSet(ncores) : perf[c] = NoFile) \/ ~ RunCompleted(status)
    THEN NoPoints(Worth(tests))
    ELSE LET end == GradeFiles(tests, ncores, perf)
         IN  Part(end.points, Worth(tests),
                  end.losses \o [i \in DOMAIN end.graded |-> end.graded[i].points_worth])

-----------------------------------------------------------------------------
(* Style: the lines between "Starting audit" and "Audit done".             *)

Capped(off, style) == IF off > style.max_points_off THEN style.max_points_off ELSE off

StyleErrors(lines) ==
    LET start == SelectInSeq(lines, LAMBDA line : line = "start")
        after == IF start = 0 THEN <<>> ELSE SubSeq(lines, start + 1, Len(lines))
        done  == SelectInSeq(after, LAMBDA line : line = "done")
    IN IF done = 0 THEN Len(after) ELSE done - 1

Style(style, lines) ==
    IF lines = NoFile THEN NoPoints(style.max_points_off)
    ELSE LET off == Capped(StyleErrors(lines) * style.points_per_error, style) IN
         Part(style.max_points_off - off, style.max_points_off, <<off>>)

-----------------------------------------------------------------------------

CorrectFile(r) ==
    IF r.reports = NoFile THEN NoFile ELSE Displayed(CorrectTxt(r.reports, r.stderr), r.large)

(* calculate_score.                                                        *)
CalculateScore(rub, r) ==
    IF ~ ValidRubric(rub) THEN Null
    ELSE [correctness |-> Correctness(rub.correctness, r.status, CorrectFile(r)),
          performance |-> Performance(rub.performance.tests, r.status, r.ncores, r.perf),
          style       |-> Style(rub.style, r.style)]

Init ==
    /\ rubric \in Rubrics
    /\ run \in Submissions
    /\ score = NotAsked

(* get_score: a failed query gives null; the handler of the second one uses*)
(* names that do not exist.                                                *)
GetScore ==
    /\ score = NotAsked
    /\ score' \in {CalculateScore(rubric, run), Null, Died}
    /\ UNCHANGED <<rubric, run>>

Next == GetScore

Spec == Init /\ [][Next]_vars

-----------------------------------------------------------------------------
(* Properties.                                                             *)

Scored == score \notin {NotAsked, Null, Died}
Parts == {score.correctness, score.performance, score.style}

(* What the run really did.                                                *)
Completed == {c \in DOMAIN run.reports : run.reports[c] # Killed}
Failures == UNION {ToSet(run.reports[c]) : c \in Completed}
FailsOnce == \A c \in Completed : IsInjective(run.reports[c])
ResultsOnce ==
    /\ IsInjective(run.ncores)
    /\ \A c \in ToSet(run.ncores) : run.perf[c] # NoFile =>
          \A i, j \in DOMAIN run.perf[c] : run.perf[c][i].test = run.perf[c][j].test => i = j

(* The one failure of a class is found again for the next class that has   *)
(* failures.                                                               *)
FailuresBefore(c) == {d \in Completed : d < c /\ run.reports[d] # <<>>}
LoneFailureFollowed ==
    \E c \in Completed : /\ run.reports[c] # <<>> /\ FailuresBefore(c) # {}
                         /\ Len(run.reports[Max(FailuresBefore(c))]) = 1

HasReports == run.reports # NoFile

WorthWithout(tests, failed) ==
    Sum([i \in DOMAIN tests |->
           IF tests[i].testname \in failed THEN 0 ELSE tests[i].points_worth])

(* "Include detailed feedback on where points were lost" (score.js:596):   *)
(* unless a performance test printed two results, the comments account for *)
(* every point between a part and its total.                               *)
LossesExplained ==
    Scored /\ ResultsOnce => \A part \in Parts : part.total - part.points = Sum(part.losses)

(* No part is negative or above its total when every failure and every     *)
(* result is printed once and no lone failure is followed by others.       *)
PartsInBounds ==
    Scored /\ ResultsOnce /\ (HasReports => FailsOnce /\ ~ LoneFailureFollowed) =>
       \A part \in Parts : 0 <= part.points /\ part.points <= part.total

(* "calculated based on the correctness ... tests that the submission      *)
(* passed" (user_guide.html:73-75): the points are those of the tests of   *)
(* the rubric that did not fail if the run was not stopped, no class ran   *)
(* out of time, nothing was printed to stderr and there is some class;     *)
(* otherwise none.                                                         *)
PassedTestsPay ==
    Scored /\ HasReports /\ FailsOnce =>
       LET pays == /\ RunCompleted(run.status) /\ ~ run.large
                   /\ ToSet(run.stderr) \subseteq {Blank}
                   /\ Completed = DOMAIN run.reports /\ Completed # {}
       IN score.correctness.points =
             IF pays THEN WorthWithout(rubric.correctness, Failures) ELSE 0

(* The same, when no lone failure is followed by those of another class.   *)
PassedTestsPayUnlessLone == (HasReports /\ LoneFailureFollowed) \/ PassedTestsPay

(* A performance test pays its points, less those of the first interval its*)
(* speedup is in, if it printed a result on the cores that the rubric asks *)
(* for; without all files, or when the run was stopped, none pays.         *)
ResultsOf(test) ==
    {line \in UNION {ToSet(run.perf[c]) : c \in ToSet(run.ncores) \cap {test.ncores}} :
        line.test = test.testname}

Pay(test) ==
    LET line == CHOOSE l \in ResultsOf(test) : TRUE
        fits == {i \in DOMAIN test.grading :
                   LET g == test.grading[i] IN
                   IF line.par = 0 THEN g.bottom_inclusive = 0
                   ELSE /\ g.bottom_inclusive * line.par <= line.seq
                        /\ g.top_exclusive = -1 \/ line.seq < g.top_exclusive * line.par}
    IN IF ResultsOf(test) = {} THEN 0
       ELSE test.points_worth - (IF fits = {} THEN 0 ELSE test.grading[Min(fits)].points_off)

ResultsPay ==
    Scored /\ ResultsOnce =>
       LET tests == rubric.performance.tests IN
       score.performance.points =
          IF RunCompleted(run.status) /\ \A c \in ToSet(run.ncores) : run.perf[c] # NoFile
            THEN Sum([i \in DOMAIN tests |-> Pay(tests[i])])
            ELSE 0

-----------------------------------------------------------------------------
(* What the code takes for granted and does not validate: the hypotheses   *)
(* of the theorems.                                                        *)

NamedOnce(tests) ==
    \A i, j \in DOMAIN tests : tests[i].testname = tests[j].testname => i = j

(* A correctness test is named once in its rubric and fails in one class;  *)
(* what is printed to stderr does not hold the header of its section.      *)
OrdinaryReports ==
    /\ \A r \in Rubrics : ValidRubric(r) => NamedOnce(r.correctness)
    /\ \A s \in Submissions : s.reports # NoFile =>
          /\ StderrHeader \notin ToSet(s.stderr)
          /\ \A r \in Rubrics : ValidRubric(r) =>
                \A c, d \in DOMAIN s.reports : \A test \in ToSet(r.correctness) :
                   /\ s.reports[c] # Killed /\ test.testname \in ToSet(s.reports[c])
                   /\ s.reports[d] # Killed /\ test.testname \in ToSet(s.reports[d])
                   => c = d

Fits(test, name, cores) == test.testname = name /\ test.ncores = cores

Distinct(tests) ==
    \A i, j \in 1 .. Len(tests) :
       Fits(tests[i], tests[j].testname, tests[j].ncores) => i = j

(* An interval of speedups: from a bound on, up to a higher one or (-1)    *)
(* without end.                                                            *)
IsInterval(g) ==
    /\ g.bottom_inclusive \in Nat
    /\ g.top_exclusive \in Int /\ (g.top_exclusive = -1 \/ g.top_exclusive > 0)

HasTimes(line) == line.seq \in Nat /\ line.par \in Nat

(* A performance test is in its rubric once for so many cores; speedups are*)
(* above 0 or none.                                                        *)
RegularResults ==
    /\ \A r \in Rubrics : ValidRubric(r) =>
          /\ Distinct(r.performance.tests)
          /\ \A test \in ToSet(r.performance.tests) :
                \A g \in ToSet(test.grading) : IsInterval(g)
    /\ \A r \in Submissions : \A c \in ToSet(r.ncores) :
          r.perf[c] # NoFile => \A line \in ToSet(r.perf[c]) : HasTimes(line)

(* Of the points, only those of correctness tests are validated.           *)
NoNegativePoints ==
    \A r \in Rubrics : ValidRubric(r) =>
       /\ \A test \in ToSet(r.performance.tests) :
             /\ test.points_worth >= 0
             /\ \A g \in ToSet(test.grading) : g.points_off >= 0
       /\ r.style.points_per_error >= 0 /\ r.style.max_points_off >= 0
=============================================================================
