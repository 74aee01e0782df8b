------------------------------ MODULE MCScore ------------------------------
(* Score with a rubric of three correctness tests, one performance test on *)
(* one and two cores and style, four rubrics to be refused, and the log    *)
(* files of three test classes.  Correctness files vary with one set of    *)
(* other files, those with one correctness file.                           *)
EXTENDS Score

CONSTANTS A, B, C, D, p, q

Interval(bottom, top, off) ==
    [bottom_inclusive |-> bottom, top_exclusive |-> top, points_off |-> off]

PerfTest(cores, points, grading) ==
    [testname |-> p, ncores |-> cores, points_worth |-> points, grading |-> grading]

Good ==
    [correctness |-> << [testname |-> A, points_worth |-> 2],
                        [testname |-> B, points_worth |-> 1],
                        [testname |-> C, points_worth |-> 3] >>,
     performance |->
        [characteristic_test |-> p,
         tests |-> << PerfTest(1, 2, <<Interval(0, 1, 2), Interval(1, 2, 1)>>),
                      PerfTest(2, 4, <<Interval(0, 1, 4), Interval(1, -1, 1)>>) >>],
     style |-> [points_per_error |-> 2, max_points_off |-> 3]]

MCRubrics ==
    { Good,
      [Good EXCEPT !.performance.tests[1].grading[1].points_off = 3],
      [Good EXCEPT !.correctness[1].points_worth = -1],
      [Good EXCEPT !.style = [points_per_error |-> 1]],
      [correctness |-> <<>>, style |-> Good.style] }

Line(test, seq, par) == [test |-> test, seq |-> seq, par |-> par]

Base ==
    [status |-> "FINISHED", ncores |-> <<1, 2>>, reports |-> <<<<A>>, <<>>>>,
     stderr |-> <<>>, large |-> FALSE,
     perf |-> [c \in {1, 2} |-> <<Line(p, 4, 2)>>], style |-> <<"start", "error", "done">>]

Statuses == {"FINISHED", "FAILED", "CANCELLED", "TESTING PERFORMANCE"}

PerfFiles ==
    {NoFile, <<>>, <<Line(p, 4, 2)>>, <<Line(p, 2, 2)>>, <<Line(q, 4, 2), Line(p, 1, 2)>>,
     <<Line(p, 2, 0)>>, <<Line(p, 4, 2), Line(p, 1, 2)>>}

StyleFiles ==
    {NoFile, <<>>, <<"error">>, <<"start", "done">>, <<"start", "error", "done">>,
     <<"start", "error", "error", "done", "error">>, <<"start", "error">>}

MCSubmissions ==
    { [Base EXCEPT !.status = s, !.reports = <<r1, r2, r3>>, !.stderr = e, !.large = l] :
         s \in Statuses, r1 \in {<<>>, <<A>>, <<A, B>>, <<A, A>>, Killed},
         r2 \in {<<>>, <<C>>, <<C, D>>, Killed}, r3 \in {<<>>, <<D>>, Killed},
         e \in {<<>>, <<Text>>, <<Blank>>}, l \in BOOLEAN }
    \cup
    { [Base EXCEPT !.status = s, !.reports = r, !.ncores = n, !.perf = f, !.style = y] :
         s \in Statuses, r \in {NoFile, <<>>}, n \in {<<1>>, <<1, 2>>, <<2, 2>>},
         f \in [{1, 2} -> PerfFiles], y \in StyleFiles }

(* The hypotheses of the theorems hold here.                               *)
ASSUME OrdinaryInputs == OrdinaryReports /\ RegularResults /\ NoNegativePoints
=============================================================================
