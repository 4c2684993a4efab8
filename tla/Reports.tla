------------------------------- MODULE Reports -------------------------------
(***************************************************************************)
(* reporters/json_parser.py and reporters/junit_parser.py: what the two    *)
(* parsers make of pytest's account of a run.  A JSON report is a summary, *)
(* a function from the keys it has to their values, and the outcomes of    *)
(* the entries in tests[]; a JUnit report is, for each testcase, the set   *)
(* of the child elements that tell its outcome.                            *)
(***************************************************************************)
EXTENDS Integers, Sequences, FiniteSets

Unreadable == -1       \* a value int() refuses

\* What pytest-json-report and pytest's JUnit writer put in a report (external).
RawOutcomes == {"passed", "failed", "error", "skipped", "xfailed", "xpassed"}
Novel       == "novel" \* an outcome no version of the parser knows yet

Times(outcome, cases) == Cardinality({i \in DOMAIN cases : cases[i] = outcome})

\* The counters a summary leaves out are those no test has (external).
SummaryOf(tests) ==
  [key \in {tests[i] : i \in DOMAIN tests} \cup {"total", "collected"} |->
     IF key \in {"total", "collected"} THEN Len(tests) ELSE Times(key, tests)]

\* A test that fails and then errors in teardown has both elements (external).
ElementsOf(raw) ==
  CASE raw = "error"                   -> {{"error"}, {"error", "failure"}}
    [] raw = "failed"                  -> {{"failure"}}
    [] raw \in {"skipped", "xfailed"}  -> {{"skipped"}}
    [] raw \in {"passed", "xpassed"}   -> {{}}

----------------------------------------------------------------------------
(* Both parsers *)

Tally(cases, exit) ==
  [total   |-> Len(cases),
   passed  |-> Times("passed", cases),  failed |-> Times("failed", cases),
   skipped |-> Times("skipped", cases), errors |-> Times("error", cases),
   exit    |-> exit]

\* TestRunResult.failed_node_ids; a case is known by its place in the report.
FailedCases(cases) == {i \in DOMAIN cases : cases[i] \in {"failed", "error"}}

----------------------------------------------------------------------------
(* JSONResultParser *)

\* _OUTCOME_MAP and its fallback.
Canonical(raw) ==
  CASE raw \in {"passed", "xpassed"}      -> "passed"
    [] raw \in {"failed", "error"}        -> raw
    [] OTHER                              -> "skipped"

JsonCases(report) == [i \in DOMAIN report.tests |-> Canonical(report.tests[i])]

\* _coerce_int()
Coerce(summary, key, default) ==
  IF key \in DOMAIN summary /\ summary[key] # Unreadable THEN summary[key] ELSE default

\* Bug: an expected failure counts nowhere.
BySummaryStrict(report, exit) ==
  LET value(key) == Coerce(report.summary, key, 0)
  IN  [total |-> Coerce(report.summary, "total", Len(report.tests)),
       passed |-> value("passed"), failed |-> value("failed"),
       skipped |-> value("skipped"), errors |-> value("error"), exit |-> exit]

\* The errors' key may be singular or plural; a report of tests that were
\* collected and not run has no other total.
BySummary(report, exit) ==
  LET value(key) == Coerce(report.summary, key, 0)
      total == Coerce(report.summary, "total", Len(report.tests))
  IN  [total   |-> IF total = 0 /\ report.tests = <<>> THEN value("collected") ELSE total,
       passed  |-> value("passed") + value("xpassed"),
       failed  |-> value("failed"),
       skipped |-> value("skipped") + value("xfailed"),
       errors  |-> IF value("error") # 0 THEN value("error") ELSE value("errors"),
       exit    |-> exit]

JsonResult(report, exit) ==
  IF DOMAIN report.summary = {}
    THEN Tally(JsonCases(report), exit)
    ELSE BySummary(report, exit)

----------------------------------------------------------------------------
(* JUnitResultParser *)

CaseOutcome(element) ==
  IF "error" \in element THEN "error"
  ELSE IF "failure" \in element THEN "failed"
  ELSE IF "skipped" \in element THEN "skipped" ELSE "passed"

JunitCases(elements) == [i \in DOMAIN elements |-> CaseOutcome(elements[i])]

JunitResult(elements, exit) == Tally(JunitCases(elements), exit)
=============================================================================
