-------------------------- MODULE FailureThreshold --------------------------
(***************************************************************************)
(* operators/_threshold.py: when is a red run too red?  A result is a      *)
(* record [total, passed, failed, skipped, errors, exit]; min_pass_rate is *)
(* a fraction <<num, den>> and the rate it is compared with is kept exact. *)
(***************************************************************************)
EXTENDS Integers, FiniteSets

NoRate == <<-1, 1>>      \* min_pass_rate=None
NoCap  == -1             \* max_failed=None

Failures(r) == r.failed + r.errors
Executed(r) == r.total - r.skipped

\* TestRunResult.success
Success(r) == r.failed = 0 /\ r.errors = 0 /\ r.exit = 0

\* Bug: outcomes adding up to more than the total are accepted.
NonNegativeOnly(r) ==
  \A field \in {"total", "passed", "failed", "skipped", "errors"} : r[field] >= 0

\* counters_are_coherent
Coherent(r) ==
  /\ \A field \in {"total", "passed", "failed", "skipped", "errors"} : r[field] >= 0
  /\ r.passed + r.failed + r.errors + r.skipped <= r.total

\* pass_rate() is not None
RateDefined(r) == Coherent(r) /\ Executed(r) > 0

\* The reasons check() reports; enabled unless both thresholds are None.
Enabled(minRate, cap) == minRate # NoRate \/ cap # NoCap

RateBelow(r, minRate) == r.passed * minRate[2] < minRate[1] * Executed(r)

\* Bug: the cap counts failures and forgets errors.
OverCapFailuresOnly(r, cap) == r.failed > cap

OverCap(r, cap) == Failures(r) > cap

\* Bug: only a red run counts as completed.
ExitUnexplainedGreen(r) == r.exit # 1 \/ Failures(r) = 0

\* Bug: exit code 1 needs no failure to show for it.
ExitUnexplainedCrash(r) == r.exit \notin {0, 1}

\* Neither "all passed" nor "tests failed" with a failure to show for it.
ExitUnexplained(r) == r.exit \notin {0, 1} \/ (r.exit = 1 /\ Failures(r) = 0)

Breached(r, minRate, cap) ==
  /\ Enabled(minRate, cap)
  /\ \/ minRate # NoRate /\ (~RateDefined(r) \/ RateBelow(r, minRate))
     \/ cap # NoCap /\ OverCap(r, cap)
     \/ ~Coherent(r)
     \/ ExitUnexplained(r)
=============================================================================
