------------------------------ MODULE Verdicts ------------------------------
(***************************************************************************)
(* The verdict on what a parser read, from the run to the threshold: a run *)
(* of pytest, the JSON report of it, complete or with one thing wrong with *)
(* it, the counters the parser finds there and what the operator makes of  *)
(* them.  The laws of ThresholdLaws stand beside it, for counters no       *)
(* report need claim.                                                      *)
(***************************************************************************)
EXTENDS ThresholdLaws, Reports

CONSTANT MaxTests    \* bound on the tests of a run

ASSUME TestsAssumption == MaxTests \in Nat

VARIABLES
  tests,       \* the raw outcome of each test of the run, or NoRun
  report,      \* what the parser is given
  intact       \* nothing is wrong with the report

account == <<tests, report, intact>>

NoRun == <<"no run">>
NoReport == [summary |-> <<>>, tests |-> <<>>]

Runs == UNION {[1..n -> RawOutcomes \cup {Novel}] : n \in 0..MaxTests}

Known(run) == \A i \in DOMAIN run : run[i] # Novel

\* Tests failing makes pytest exit 1; a gate of a plugin may, with none.
ExitsOf(run) ==
  IF \E i \in DOMAIN run : run[i] \in {"failed", "error"} THEN {1} ELSE {0, 1}

Complete(run) == [summary |-> SummaryOf(run), tests |-> run]

InitVerdicts ==
  /\ minRate \in Rates /\ cap \in Caps
  /\ \/ result \in Result /\ tests = NoRun /\ report = NoReport /\ intact = TRUE
     \/ \E run \in Runs : \E exit \in ExitsOf(run) :
          /\ tests = run /\ report = Complete(run) /\ intact = TRUE
          /\ result = JsonResult(report, exit)

----------------------------------------------------------------------------
(* What may be wrong with a report: the parser tolerates each of these *)

\* A key of the summary is not there.
LoseKey ==
  \E key \in DOMAIN report.summary :
    report' = [report EXCEPT !.summary =
                 [k \in DOMAIN report.summary \ {key} |-> report.summary[k]]]

\* The value of a key is not a number.
SpoilKey ==
  \E key \in DOMAIN report.summary :
    report' = [report EXCEPT !.summary[key] = Unreadable]

\* There is no summary, or it is not an object.
LoseSummary ==
  DOMAIN report.summary # {} /\ report' = [report EXCEPT !.summary = <<>>]

\* The last entries of tests[] are missing, or are not objects.
CutTests ==
  \E n \in 0..(Len(report.tests) - 1) :
    report' = [report EXCEPT !.tests = SubSeq(report.tests, 1, n)]

Drift ==
  /\ tests # NoRun /\ intact
  /\ LoseKey \/ SpoilKey \/ LoseSummary \/ CutTests
  /\ intact' = FALSE
  /\ UNCHANGED <<tests, result, minRate, cap>>

Improve == tests = NoRun /\ OneMorePasses /\ UNCHANGED account

VerdictsSpec == InitVerdicts /\ [][Drift \/ Improve]_<<vars, account>>

----------------------------------------------------------------------------
(* What the two parsers owe the operator *)

\* The verdict does not depend on the format the user picked, nor on where the
\* counters come from: on a run whose outcomes the parser knows, the JSON
\* summary, the JSON entries and the JUnit cases tell the same counters, and
\* both lists name the same failures (json_parser.py:87-227, junit_parser.py:
\* 112-194, models.py:165-171).
ParsersAgree ==
  tests # NoRun /\ Known(tests) /\ Len(report.tests) = Len(tests)
    /\ (intact \/ DOMAIN report.summary = {}) =>
    \A elements \in [DOMAIN tests -> UNION {ElementsOf(tests[i]) : i \in DOMAIN tests}] :
      (\A i \in DOMAIN tests : elements[i] \in ElementsOf(tests[i])) =>
        /\ JunitResult(elements, result.exit) = JsonResult(report, result.exit)
        /\ FailedCases(JunitCases(elements)) = FailedCases(JsonCases(report))

\* What a report loses is never to the run's advantage: whichever key, summary
\* or entries are gone, no failed run becomes a success and none outside the
\* tolerance comes within it.  Not so for a cap above zero that loses the
\* failures it counts, for a rate of zero that loses its skips, and for outcomes
\* the parser does not know when the summary is what is lost (json_parser.py:
\* 161-199, 309-332; _threshold.py:92-170; models.py:165-167).
DriftIsRed ==
  LET got == JsonResult(report, result.exit)
      spared == \/ tests = NoRun \/ minRate[1] = 0
                \/ cap > 0 /\ Failures(got) # Failures(result)
                \/ ~Known(tests) /\ DOMAIN report.summary = {}
  IN  ~spared =>
        /\ Success(got) => Success(result)
        /\ ~Breached(got, minRate, cap) => ~Breached(result, minRate, cap)
=============================================================================
