---------------------------- MODULE ThresholdLaws ----------------------------
(***************************************************************************)
(* The laws the verdict of FailureThreshold obeys, over every result a     *)
(* report can claim, corrupt ones included, and over the step that makes a *)
(* run better: one of its failures passes.                                 *)
(***************************************************************************)
EXTENDS FailureThreshold

CONSTANTS
  MaxCount,    \* bound on each counter; -1 stands for a corrupt one
  Rates,       \* values of min_pass_rate
  Caps         \* values of max_failed

Rate == {NoRate} \cup {r \in Nat \X Nat : r[2] > 0 /\ r[1] <= r[2]}

ASSUME BoundsAssumption == MaxCount \in Nat
ASSUME LimitsAssumption == Rates \subseteq Rate /\ Caps \subseteq {NoCap} \cup Nat

VARIABLES result, minRate, cap

vars == <<result, minRate, cap>>

Counter == -1..MaxCount

Result == [total : Counter, passed : Counter, failed : Counter,
           skipped : Counter, errors : Counter, exit : 0..3]

Init == result \in Result /\ minRate \in Rates /\ cap \in Caps

\* The exit code pytest gives a completed run of these counters.
ExitOf(r) == IF Failures(r) = 0 THEN 0 ELSE 1
Completed(r) == Coherent(r) /\ r.exit = ExitOf(r)

Better(r) ==
  LET s == [r EXCEPT !.passed = @ + 1, !.failed = @ - 1]
  IN  [s EXCEPT !.exit = ExitOf(s)]

\* One failed test of a completed run passes instead.
OneMorePasses ==
  /\ Completed(result) /\ result.failed > 0
  /\ result' = Better(result)
  /\ UNCHANGED <<minRate, cap>>

Spec == Init /\ [][OneMorePasses]_vars

\* A cap of zero is the strict policy: within tolerance exactly when the run
\* is a success and its counters are those of a real run (README, "Failure
\* tolerance"; check(), lines 92-170).
ZeroCapIsStrict ==
  minRate = NoRate /\ cap = 0 =>
    (~Breached(result, minRate, cap) <=> Success(result) /\ Coherent(result))

\* A rate of one tolerates nothing: a run within it has passed every test it
\* executed, executed one, and exited 0 (lines 79-90, 118-160).
RateOneIsStrict ==
  minRate = <<1, 1>> /\ ~Breached(result, minRate, cap) =>
    Success(result) /\ result.passed = Executed(result) /\ result.passed > 0

\* Skipping is neutral: tests that did not run neither help nor hurt (81).
SkippingIsNeutral ==
  LET skippier == [result EXCEPT !.total = @ + 1, !.skipped = @ + 1]
  IN  Coherent(result) =>
        (Breached(result, minRate, cap) <=> Breached(skippier, minRate, cap))

\* A run within tolerance stays within it when one of its failures passes,
\* the last one included (116-160).
PassingNeverHurts ==
  [][~Breached(result, minRate, cap) => ~Breached(result', minRate, cap)]_vars
=============================================================================
