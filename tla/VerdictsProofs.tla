--------------------------- MODULE VerdictsProofs ---------------------------
(***************************************************************************)
(* The laws of the verdict, for all counters, rates and caps, and what the *)
(* parsers owe the operator, for runs of any length.                       *)
(***************************************************************************)
EXTENDS Verdicts, FiniteSetTheorems, TLAPS

----------------------------------------------------------------------------
(* The laws *)

\* Counters no report bounds; the exit code is any integer.
Tallies == [total : Int, passed : Int, failed : Int,
            skipped : Int, errors : Int, exit : Int]

LEMMA CounterLemma == Result \subseteq Tallies
BY BoundsAssumption DEF Result, Tallies, Counter

\* A threshold is a fraction of two numbers, the second positive.
LEMMA RateLemma ==
  ASSUME NEW r \in Rates
  PROVE  r[1] \in Int /\ r[2] \in Nat /\ r[2] > 0
BY LimitsAssumption DEF Rate, NoRate

\* Skipping leaves the number of executed tests alone.
LEMMA SkipLemma ==
  ASSUME NEW r \in Tallies, Coherent(r),
         NEW s, s = [r EXCEPT !.total = @ + 1, !.skipped = @ + 1]
  PROVE  /\ Executed(s) = Executed(r) /\ Failures(s) = Failures(r)
         /\ s.passed = r.passed /\ s.exit = r.exit /\ Coherent(s)
BY DEF Tallies, Coherent, Executed, Failures

\* What one more passing test does to the tally of a completed run.
LEMMA BetterLemma ==
  ASSUME NEW r \in Tallies, Completed(r), r.failed > 0
  PROVE  /\ Better(r) \in Tallies /\ Completed(Better(r))
         /\ Executed(Better(r)) = Executed(r)
         /\ Failures(Better(r)) = Failures(r) - 1
         /\ Better(r).passed = r.passed + 1
<1> DEFINE s == [r EXCEPT !.passed = @ + 1, !.failed = @ - 1]
            b == [s EXCEPT !.exit = ExitOf(s)]
<1>1. s \in Tallies /\ ExitOf(s) \in Int
  <2>1. s \in Tallies
    <3>1. r.passed + 1 \in Int /\ r.failed - 1 \in Int
      BY DEF Tallies
    <3>2. [r EXCEPT !.passed = @ + 1] \in Tallies
      BY <3>1 DEF Tallies
    <3>3. s = [[r EXCEPT !.passed = @ + 1] EXCEPT !.failed = r.failed - 1]
      BY DEF Tallies
    <3> QED BY <3>1, <3>2, <3>3 DEF Tallies
  <2>2. ExitOf(s) \in {0, 1}
    BY DEF ExitOf
  <2> QED BY <2>1, <2>2
<1>2. b \in Tallies /\ b.exit = ExitOf(s)
  BY <1>1 DEF Tallies
<1>3. /\ b.total = r.total /\ b.passed = r.passed + 1 /\ b.failed = r.failed - 1
      /\ b.skipped = r.skipped /\ b.errors = r.errors
  BY DEF Tallies
<1>4. Failures(b) = Failures(r) - 1 /\ Failures(b) = Failures(s)
  BY <1>3 DEF Failures, Tallies
<1>5. b.exit = ExitOf(b)
  BY <1>2, <1>4 DEF ExitOf
<1>6. Coherent(b)
  BY <1>3 DEF Completed, Coherent, Tallies
<1>7. Executed(b) = Executed(r)
  BY <1>3 DEF Executed
<1>8. Better(r) = b
  BY DEF Better
<1> QED BY <1>2, <1>3, <1>4, <1>5, <1>6, <1>7, <1>8 DEF Completed

\* A fraction is reached by more when it is reached by less.
LEMMA ReachLemma ==
  ASSUME NEW p \in Int, NEW d \in Nat, NEW x \in Int, p * d >= x
  PROVE  (p + 1) * d >= x
<1>1. (p + 1) * d = p * d + d
  OBVIOUS
<1>2. p * d \in Int
  OBVIOUS
<1> QED BY <1>1, <1>2

\* A completed run is coherent and its exit code is explained.
LEMMA CompletedLemma ==
  ASSUME NEW r \in Tallies, Completed(r)
  PROVE  Coherent(r) /\ ~ExitUnexplained(r)
BY DEF Tallies, Completed, Coherent, ExitOf, ExitUnexplained, Failures

\* One more test that passes keeps a completed run within its tolerance: the
\* rate rises, the failures fall, and the exit code is still explained.
THEOREM PassingLemma ==
  ASSUME NEW r \in Tallies, Completed(r), r.failed > 0,
         NEW m \in Rates, NEW c \in Caps, ~Breached(r, m, c)
  PROVE  ~Breached(Better(r), m, c)
<1> DEFINE b == Better(r)
<1>1. b \in Tallies /\ Completed(b)
  BY BetterLemma
<1>2. Coherent(b) /\ ~ExitUnexplained(b)
  BY <1>1, CompletedLemma
<1>3. c \in Int
  BY LimitsAssumption DEF NoCap
<1>4. Failures(r) \in Int /\ Failures(b) = Failures(r) - 1
  BY BetterLemma DEF Tallies, Failures
<1>5. ~(c # NoCap /\ OverCap(b, c))
  <2>1. SUFFICES ASSUME c # NoCap PROVE ~OverCap(b, c)
    OBVIOUS
  <2>2. Enabled(m, c) /\ ~OverCap(r, c)
    BY <2>1 DEF Breached, Enabled
  <2> QED BY <2>2, <1>3, <1>4 DEF OverCap
<1>6. ~(m # NoRate /\ (~RateDefined(b) \/ RateBelow(b, m)))
  <2>1. SUFFICES ASSUME m # NoRate PROVE RateDefined(b) /\ ~RateBelow(b, m)
    OBVIOUS
  <2>2. RateDefined(r) /\ ~RateBelow(r, m)
    BY <2>1 DEF Breached, Enabled
  <2>3. Executed(b) = Executed(r) /\ b.passed = r.passed + 1
    BY BetterLemma
  <2>4. RateDefined(b)
    BY <1>2, <2>2, <2>3 DEF RateDefined
  <2>5. /\ r.passed \in Int /\ Executed(r) \in Int /\ m[1] \in Int /\ m[2] \in Nat
    BY RateLemma DEF Tallies, Executed
  <2>6. m[1] * Executed(r) \in Int /\ r.passed * m[2] \in Int
    BY <2>5
  <2>7. r.passed * m[2] >= m[1] * Executed(r)
    BY <2>2, <2>6 DEF RateBelow
  <2>8. (r.passed + 1) * m[2] >= m[1] * Executed(r)
    BY <2>5, <2>6, <2>7, ReachLemma
  <2>9. (r.passed + 1) * m[2] \in Int
    BY <2>5
  <2> QED BY <2>3, <2>4, <2>6, <2>8, <2>9 DEF RateBelow
<1> QED BY <1>2, <1>5, <1>6 DEF Breached

-----------------------------------------------------------------------------

LawsInv == result \in Tallies /\ minRate \in Rates /\ cap \in Caps

\* The counters stay numbers, the thresholds are those of the operator.
THEOREM LawsInvariant == Spec => []LawsInv
<1>1. Init => LawsInv
  BY CounterLemma DEF Init, LawsInv
<1>2. LawsInv /\ [OneMorePasses]_vars => LawsInv'
  BY BetterLemma DEF LawsInv, OneMorePasses, vars
<1> QED BY <1>1, <1>2, PTL DEF Spec

LEMMA ZeroCapLemma == LawsInv => ZeroCapIsStrict
BY DEF LawsInv, Tallies, ZeroCapIsStrict, Breached, Enabled, NoRate, NoCap, OverCap,
       Failures, Coherent, ExitUnexplained, Success

LEMMA RateOneLemma == LawsInv => RateOneIsStrict
<1> SUFFICES ASSUME LawsInv, minRate = <<1, 1>>, ~Breached(result, minRate, cap)
             PROVE  /\ Success(result)
                    /\ result.passed = Executed(result) /\ result.passed > 0
  BY DEF RateOneIsStrict
<1>1. minRate # NoRate /\ minRate[1] = 1 /\ minRate[2] = 1
  BY DEF NoRate
<1>2. RateDefined(result) /\ ~RateBelow(result, minRate) /\ ~ExitUnexplained(result)
  BY <1>1 DEF Breached, Enabled
<1> QED BY <1>1, <1>2 DEF LawsInv, Tallies, RateDefined, RateBelow, Executed, Coherent,
                          Success, ExitUnexplained, Failures

\* A cap of zero is the strict policy, for all counters.
THEOREM ZeroCap == Spec => []ZeroCapIsStrict
BY LawsInvariant, ZeroCapLemma, PTL

\* A rate of one tolerates nothing, for all counters.
THEOREM RateOne == Spec => []RateOneIsStrict
BY LawsInvariant, RateOneLemma, PTL

\* Skipped tests weigh nothing, for all counters, rates and caps.
THEOREM Skipping == Spec => []SkippingIsNeutral
<1>1. LawsInv => SkippingIsNeutral
  BY SkipLemma DEF LawsInv, SkippingIsNeutral, Breached, RateDefined, RateBelow, OverCap,
                   ExitUnexplained
<1> QED BY <1>1, LawsInvariant, PTL

\* check() is monotone: no completed run within tolerance leaves it because one
\* of its failures passes, whatever the rate and the cap.
THEOREM Passing == Spec => PassingNeverHurts
<1>1. LawsInv /\ [OneMorePasses]_vars
        => [~Breached(result, minRate, cap) => ~Breached(result', minRate, cap)]_vars
  BY PassingLemma DEF LawsInv, OneMorePasses, vars
<1> QED BY <1>1, LawsInvariant, PTL DEF Spec, PassingNeverHurts

----------------------------------------------------------------------------
(* Counting *)

Outcomes == RawOutcomes \cup {Novel}

\* The cases of an outcome; Times counts them.
Places(outcome, cases) == {i \in DOMAIN cases : cases[i] = outcome}

LEMMA RunsLemma ==
  ASSUME NEW run \in Runs
  PROVE  run \in Seq(Outcomes) /\ run # NoRun
<1>1. PICK n \in 0..MaxTests : run \in [1..n -> Outcomes]
  BY DEF Runs, Outcomes
<1>2. n \in Nat
  BY TestsAssumption
<1>3. run \in Seq(Outcomes)
  BY <1>1, <1>2
<1>4. NoRun[1] \notin Outcomes /\ 1 \in DOMAIN NoRun
  BY DEF NoRun, Outcomes, RawOutcomes, Novel
<1> QED
  BY <1>1, <1>3, <1>4

LEMMA PlacesLemma ==
  ASSUME NEW n \in Nat, NEW cases, DOMAIN cases = 1..n, NEW outcome
  PROVE  /\ IsFiniteSet(Places(outcome, cases))
         /\ Times(outcome, cases) = Cardinality(Places(outcome, cases))
         /\ Times(outcome, cases) \in Nat
         /\ Times(outcome, cases) = 0 <=> Places(outcome, cases) = {}
<1>1. IsFiniteSet(1..n)
  BY FS_Interval
<1>2. Places(outcome, cases) \in SUBSET (1..n)
  BY DEF Places
<1>3. IsFiniteSet(Places(outcome, cases))
  BY <1>1, <1>2, FS_Subset
<1>4. Times(outcome, cases) = Cardinality(Places(outcome, cases))
  BY DEF Times, Places
<1> QED
  BY <1>3, <1>4, FS_CardinalityType, FS_EmptySet

LEMMA DisjointUnion ==
  ASSUME NEW S, IsFiniteSet(S), NEW T, IsFiniteSet(T), S \cap T = {}
  PROVE  /\ IsFiniteSet(S \cup T)
         /\ Cardinality(S \cup T) = Cardinality(S) + Cardinality(T)
<1>1. Cardinality(S \cap T) = 0
  BY FS_EmptySet
<1>2. Cardinality(S) \in Nat /\ Cardinality(T) \in Nat
  BY FS_CardinalityType
<1>3. /\ IsFiniteSet(S \cup T)
      /\ Cardinality(S \cup T) = Cardinality(S) + Cardinality(T) - Cardinality(S \cap T)
  BY FS_Union
<1>4. \A a, b, c, d \in Int : c = a + b - d /\ d = 0 => c = a + b
  OBVIOUS
<1>5. Cardinality(S \cup T) \in Nat
  BY <1>3, FS_CardinalityType
<1> QED
  BY <1>1, <1>2, <1>3, <1>4, <1>5

\* _OUTCOME_MAP puts each test into one of four classes, those no version of
\* the parser knows among the skipped ones.
LEMMA CanonLemma ==
  ASSUME NEW run \in Seq(Outcomes), NEW cases,
         cases = [i \in DOMAIN run |-> Canonical(run[i])]
  PROVE  /\ Times("passed", cases) = Times("passed", run) + Times("xpassed", run)
         /\ Times("failed", cases) = Times("failed", run)
         /\ Times("error", cases) = Times("error", run)
         /\ Times("skipped", run) + Times("xfailed", run) <= Times("skipped", cases)
         /\ Known(run) =>
              Times("skipped", cases) = Times("skipped", run) + Times("xfailed", run)
         /\ Times("passed", cases) + Times("failed", cases) + Times("error", cases)
              + Times("skipped", cases) = Len(run)
<1>1. Len(run) \in Nat /\ DOMAIN run = 1..Len(run) /\ DOMAIN cases = 1..Len(run)
  OBVIOUS
<1>2. \A i \in 1..Len(run) : run[i] \in Outcomes /\ cases[i] = Canonical(run[i])
  BY <1>1
<1>r. ASSUME NEW o
      PROVE  IsFiniteSet(Places(o, run)) /\ Times(o, run) = Cardinality(Places(o, run))
             /\ Times(o, run) \in Nat
  BY <1>1, PlacesLemma
<1>c. ASSUME NEW o
      PROVE  IsFiniteSet(Places(o, cases)) /\ Times(o, cases) = Cardinality(Places(o, cases))
             /\ Times(o, cases) \in Nat
  BY <1>1, PlacesLemma
<1>3. /\ Places("failed", cases) = Places("failed", run)
      /\ Places("error", cases) = Places("error", run)
      /\ Places("passed", cases) = Places("passed", run) \cup Places("xpassed", run)
  BY <1>1, <1>2 DEF Places, Canonical, Outcomes, RawOutcomes, Novel
<1>4. Places("skipped", cases)
        = (Places("skipped", run) \cup Places("xfailed", run)) \cup Places(Novel, run)
  BY <1>1, <1>2 DEF Places, Canonical, Outcomes, RawOutcomes, Novel
<1>5. /\ Places("passed", run) \cap Places("xpassed", run) = {}
      /\ Places("skipped", run) \cap Places("xfailed", run) = {}
      /\ (Places("skipped", run) \cup Places("xfailed", run)) \cap Places(Novel, run) = {}
  BY DEF Places, Novel
<1>6. /\ Times("failed", cases) = Times("failed", run)
      /\ Times("error", cases) = Times("error", run)
  BY <1>r, <1>c, <1>3
<1>7. Times("passed", cases) = Times("passed", run) + Times("xpassed", run)
  <2>1. Cardinality(Places("passed", run) \cup Places("xpassed", run))
          = Cardinality(Places("passed", run)) + Cardinality(Places("xpassed", run))
    BY <1>r, <1>5, DisjointUnion
  <2> QED
    BY <1>r, <1>c, <1>3, <2>1
<1>8. Times("skipped", cases)
        = Times("skipped", run) + Times("xfailed", run) + Times(Novel, run)
  <2> DEFINE both == Places("skipped", run) \cup Places("xfailed", run)
  <2>1. IsFiniteSet(both)
        /\ Cardinality(both) = Times("skipped", run) + Times("xfailed", run)
    <3>1. IsFiniteSet(both) /\ Cardinality(both)
            = Cardinality(Places("skipped", run)) + Cardinality(Places("xfailed", run))
      BY <1>r, <1>5, DisjointUnion
    <3> QED
      BY <1>r, <3>1
  <2>2. both \cap Places(Novel, run) = {}
    BY <1>5
  <2> HIDE DEF both
  <2>3. Cardinality(both \cup Places(Novel, run))
          = Cardinality(both) + Cardinality(Places(Novel, run))
    BY <1>r, <2>1, <2>2, DisjointUnion
  <2>4. Places("skipped", cases) = both \cup Places(Novel, run)
    BY <1>4 DEF both
  <2> QED
    BY <1>r, <1>c, <2>1, <2>3, <2>4
<1>9. Known(run) => Times(Novel, run) = 0
  <2>1. Known(run) => Places(Novel, run) = {}
    BY DEF Known, Places
  <2> QED
    BY <1>r, <2>1, FS_EmptySet
<1>10. Times("passed", cases) + Times("failed", cases) + Times("error", cases)
         + Times("skipped", cases) = Len(run)
  <2> DEFINE two   == Places("passed", cases) \cup Places("failed", cases)
             three == two \cup Places("error", cases)
  <2>1. IsFiniteSet(two) /\ Cardinality(two) = Times("passed", cases) + Times("failed", cases)
    <3>1. Places("passed", cases) \cap Places("failed", cases) = {}
      BY DEF Places
    <3>2. IsFiniteSet(two) /\ Cardinality(two)
            = Cardinality(Places("passed", cases)) + Cardinality(Places("failed", cases))
      BY <1>c, <3>1, DisjointUnion
    <3> QED
      BY <1>c, <3>2
  <2>2. IsFiniteSet(three) /\ Cardinality(three)
          = Times("passed", cases) + Times("failed", cases) + Times("error", cases)
    <3>1. two \cap Places("error", cases) = {}
      BY DEF Places
    <3> HIDE DEF two
    <3>2. IsFiniteSet(three)
          /\ Cardinality(three) = Cardinality(two) + Cardinality(Places("error", cases))
      BY <1>c, <2>1, <3>1, DisjointUnion
    <3> QED
      BY <1>c, <2>1, <3>2
  <2>3. /\ three \cap Places("skipped", cases) = {}
        /\ three \cup Places("skipped", cases) = 1..Len(run)
    BY <1>1, <1>2 DEF Places, Canonical, Outcomes, RawOutcomes
  <2> HIDE DEF three
  <2>4. Cardinality(three \cup Places("skipped", cases))
          = Cardinality(three) + Cardinality(Places("skipped", cases))
    BY <1>c, <2>2, <2>3, DisjointUnion
  <2>5. Cardinality(1..Len(run)) = Len(run)
    <3>1. Cardinality(1..Len(run)) = IF 1 > Len(run) THEN 0 ELSE Len(run) - 1 + 1
      BY <1>1, FS_Interval
    <3> QED
      BY <1>1, <3>1
  <2>6. Len(run) = Cardinality(three) + Cardinality(Places("skipped", cases))
    BY <2>3, <2>4, <2>5, Zenon
  <2>7. Times("skipped", cases) = Cardinality(Places("skipped", cases))
        /\ Times("skipped", cases) \in Nat
    BY <1>c
  <2>8. Len(run) = Cardinality(three) + Times("skipped", cases)
    BY <2>6, <2>7, Zenon
  <2> QED
    BY <2>2, <2>8
<1>11. Times("skipped", run) \in Nat /\ Times("xfailed", run) \in Nat /\ Times(Novel, run) \in Nat
  BY <1>r
<1> QED
  BY <1>6, <1>7, <1>8, <1>9, <1>10, <1>11

----------------------------------------------------------------------------
(* What a report tells *)

\* A report of the run, complete or with one thing wrong with it.
Worn(rep, run) ==
  /\ \A key \in DOMAIN rep.summary :
       key \in DOMAIN SummaryOf(run) /\ rep.summary[key] \in {SummaryOf(run)[key], Unreadable}
  /\ rep.tests = run \/ rep.summary = SummaryOf(run)

LEMMA SummaryLemma ==
  ASSUME NEW run \in Seq(Outcomes)
  PROVE  /\ {"total", "collected"} \subseteq DOMAIN SummaryOf(run)
         /\ SummaryOf(run)["total"] = Len(run) /\ SummaryOf(run)["collected"] = Len(run)
         /\ \A key : key \notin {"total", "collected"} =>
              /\ key \in DOMAIN SummaryOf(run) => SummaryOf(run)[key] = Times(key, run)
              /\ key \notin DOMAIN SummaryOf(run) => Times(key, run) = 0
         /\ \A key : Times(key, run) \in Nat
<1> DEFINE keys == {run[i] : i \in DOMAIN run} \cup {"total", "collected"}
<1>1. DOMAIN SummaryOf(run) = keys
  BY DEF SummaryOf
<1>2. \A key \in keys : SummaryOf(run)[key]
        = IF key \in {"total", "collected"} THEN Len(run) ELSE Times(key, run)
  BY DEF SummaryOf
<1>3. ASSUME NEW key
      PROVE  /\ Times(key, run) \in Nat
             /\ key \notin keys => Times(key, run) = 0
  <2>1. Len(run) \in Nat /\ DOMAIN run = 1..Len(run)
    OBVIOUS
  <2>2. key \notin keys => Places(key, run) = {}
    BY DEF Places
  <2> QED
    BY <2>1, <2>2, PlacesLemma
<1> HIDE DEF keys
<1>4. {"total", "collected"} \subseteq keys
  BY DEF keys
<1> QED
  BY <1>1, <1>2, <1>3, <1>4

\* A value the parser reads is the true count or none.
LEMMA ValueLemma ==
  ASSUME NEW run \in Seq(Outcomes), NEW rep, Worn(rep, run),
         NEW key, key \notin {"total", "collected"}
  PROVE  /\ Coerce(rep.summary, key, 0) \in {0, Times(key, run)}
         /\ rep.summary = SummaryOf(run) => Coerce(rep.summary, key, 0) = Times(key, run)
<1>1. /\ key \in DOMAIN SummaryOf(run) => SummaryOf(run)[key] = Times(key, run)
      /\ key \notin DOMAIN SummaryOf(run) => Times(key, run) = 0
      /\ Times(key, run) \in Nat
  BY SummaryLemma
<1>2. Times(key, run) # Unreadable
  BY <1>1 DEF Unreadable
<1> QED
  BY <1>1, <1>2 DEF Coerce, Worn

\* The total is that of the run, whatever else is wrong.
LEMMA TotalLemma ==
  ASSUME NEW run \in Seq(Outcomes), NEW rep, Worn(rep, run), NEW exit
  PROVE  BySummary(rep, exit).total = Len(run)
<1> DEFINE total == Coerce(rep.summary, "total", Len(rep.tests))
<1>1. Len(run) \in Nat /\ (Len(run) = 0 <=> run = <<>>) /\ Len(run) # Unreadable
  BY DEF Unreadable
<1>2. /\ "total" \in DOMAIN SummaryOf(run) /\ "collected" \in DOMAIN SummaryOf(run)
      /\ SummaryOf(run)["total"] = Len(run) /\ SummaryOf(run)["collected"] = Len(run)
  BY SummaryLemma
<1>3. total = Len(run)
  BY <1>1, <1>2 DEF Coerce, Worn
<1>4. total = 0 => Coerce(rep.summary, "collected", 0) = 0
  BY <1>1, <1>2, <1>3 DEF Coerce, Worn
<1> HIDE DEF total
<1>5. BySummary(rep, exit).total
        = IF total = 0 /\ rep.tests = <<>> THEN Coerce(rep.summary, "collected", 0) ELSE total
  BY DEF BySummary, total
<1> QED
  BY <1>3, <1>4, <1>5

\* The other counters are sums of such values.
LEMMA CountersLemma ==
  ASSUME NEW run \in Seq(Outcomes), NEW rep, Worn(rep, run), NEW exit,
         NEW got, got = BySummary(rep, exit)
  PROVE  /\ got.passed \in 0..(Times("passed", run) + Times("xpassed", run))
         /\ got.failed \in 0..Times("failed", run)
         /\ got.skipped \in 0..(Times("skipped", run) + Times("xfailed", run))
         /\ got.errors \in 0..Times("error", run)
         /\ got.exit = exit
         /\ got = [total |-> got.total, passed |-> got.passed, failed |-> got.failed,
                   skipped |-> got.skipped, errors |-> got.errors, exit |-> exit]
         /\ rep.summary = SummaryOf(run) =>
              /\ got.passed = Times("passed", run) + Times("xpassed", run)
              /\ got.failed = Times("failed", run) /\ got.errors = Times("error", run)
              /\ got.skipped = Times("skipped", run) + Times("xfailed", run)
<1> DEFINE value(key) == Coerce(rep.summary, key, 0)
<1>1. /\ got.passed = value("passed") + value("xpassed")
      /\ got.failed = value("failed")
      /\ got.skipped = value("skipped") + value("xfailed")
      /\ got.errors = IF value("error") # 0 THEN value("error") ELSE value("errors")
      /\ got.exit = exit
      /\ got = [total |-> got.total, passed |-> got.passed, failed |-> got.failed,
                skipped |-> got.skipped, errors |-> got.errors, exit |-> exit]
  BY DEF BySummary
<1>2. ASSUME NEW key \in Outcomes \cup {"errors"}
      PROVE  /\ value(key) \in {0, Times(key, run)} /\ Times(key, run) \in Nat
             /\ rep.summary = SummaryOf(run) => value(key) = Times(key, run)
  BY <1>2, ValueLemma, SummaryLemma DEF Outcomes, RawOutcomes, Novel
<1>3. Times("errors", run) = 0
  <2>1. Places("errors", run) = {}
    BY DEF Places, Outcomes, RawOutcomes, Novel
  <2> QED
    BY <2>1, PlacesLemma
<1> HIDE DEF value
<1>4. {"passed", "xpassed", "failed", "skipped", "xfailed", "error", "errors"}
        \subseteq Outcomes \cup {"errors"}
  BY DEF Outcomes, RawOutcomes
<1>5. /\ value("passed") \in {0, Times("passed", run)}
      /\ value("xpassed") \in {0, Times("xpassed", run)}
      /\ value("failed") \in {0, Times("failed", run)}
      /\ value("skipped") \in {0, Times("skipped", run)}
      /\ value("xfailed") \in {0, Times("xfailed", run)}
      /\ value("error") \in {0, Times("error", run)}
      /\ value("errors") = 0
  BY <1>2, <1>3, <1>4
<1>6. /\ Times("passed", run) \in Nat /\ Times("xpassed", run) \in Nat
      /\ Times("failed", run) \in Nat /\ Times("skipped", run) \in Nat
      /\ Times("xfailed", run) \in Nat /\ Times("error", run) \in Nat
  BY <1>2, <1>4
<1>7. rep.summary = SummaryOf(run) =>
        /\ value("passed") = Times("passed", run) /\ value("xpassed") = Times("xpassed", run)
        /\ value("failed") = Times("failed", run) /\ value("skipped") = Times("skipped", run)
        /\ value("xfailed") = Times("xfailed", run) /\ value("error") = Times("error", run)
  BY <1>2, <1>4
<1> QED
  BY <1>1, <1>5, <1>6, <1>7

\* A complete report tells the counters of its cases, and they add up.
LEMMA CompleteLemma ==
  ASSUME NEW run \in Runs, NEW exit \in Int, NEW res,
         res = JsonResult(Complete(run), exit)
  PROVE  /\ res \in Tallies /\ Coherent(res) /\ res.exit = exit /\ res.total = Len(run)
         /\ res.passed = Times("passed", run) + Times("xpassed", run)
         /\ res.failed = Times("failed", run) /\ res.errors = Times("error", run)
         /\ res.skipped = Times("skipped", run) + Times("xfailed", run)
         /\ Known(run) => res = Tally([i \in DOMAIN run |-> Canonical(run[i])], exit)
<1> DEFINE cases == [i \in DOMAIN run |-> Canonical(run[i])]
<1>1. run \in Seq(Outcomes)
  BY RunsLemma
<1>2. Complete(run).summary = SummaryOf(run) /\ Complete(run).tests = run
  BY DEF Complete
<1>3. Worn(Complete(run), run)
  BY <1>2 DEF Worn
<1>4. res = BySummary(Complete(run), exit)
  BY <1>1, <1>2, SummaryLemma DEF JsonResult
<1>5. res.total = Len(run)
  BY <1>1, <1>3, <1>4, TotalLemma
<1>6. /\ res.passed = Times("passed", run) + Times("xpassed", run)
      /\ res.failed = Times("failed", run) /\ res.errors = Times("error", run)
      /\ res.skipped = Times("skipped", run) + Times("xfailed", run)
      /\ res.exit = exit
      /\ res = [total |-> res.total, passed |-> res.passed, failed |-> res.failed,
                skipped |-> res.skipped, errors |-> res.errors, exit |-> exit]
  BY <1>1, <1>2, <1>3, <1>4, CountersLemma
<1>7. /\ Times("passed", run) \in Nat /\ Times("xpassed", run) \in Nat
      /\ Times("failed", run) \in Nat /\ Times("skipped", run) \in Nat
      /\ Times("xfailed", run) \in Nat /\ Times("error", run) \in Nat
  BY <1>1, SummaryLemma
<1>8. Len(run) \in Nat /\ Len(cases) = Len(run) /\ DOMAIN cases = 1..Len(run)
  <2>1. Len(run) \in Nat /\ DOMAIN run = 1..Len(run)
    BY <1>1
  <2>2. \A i \in 1..Len(run) : cases[i] \in {"passed", "failed", "error", "skipped"}
    BY <2>1 DEF Canonical
  <2>3. cases \in Seq({"passed", "failed", "error", "skipped"})
    BY <2>1, <2>2
  <2> QED
    BY <2>1, <2>3
<1>c. \A o : Times(o, cases) \in Nat
  BY <1>8, PlacesLemma
<1> HIDE DEF cases
<1>9. /\ Times("passed", cases) = Times("passed", run) + Times("xpassed", run)
      /\ Times("failed", cases) = Times("failed", run)
      /\ Times("error", cases) = Times("error", run)
      /\ Times("skipped", run) + Times("xfailed", run) <= Times("skipped", cases)
      /\ Known(run) => Times("skipped", cases) = Times("skipped", run) + Times("xfailed", run)
      /\ Times("passed", cases) + Times("failed", cases) + Times("error", cases)
           + Times("skipped", cases) = Len(run)
  BY <1>1, CanonLemma DEF cases
<1>10. res \in Tallies
  BY <1>5, <1>6, <1>7, <1>8 DEF Tallies
<1>11. res.passed + res.failed + res.errors + res.skipped <= res.total
  <2>1. res.passed + res.failed + res.errors + res.skipped <=
          Times("passed", cases) + Times("failed", cases) + Times("error", cases)
            + Times("skipped", cases)
    BY <1>6, <1>7, <1>9, <1>c, SMTT(20)
  <2> QED
    BY <1>5, <1>9, <2>1
<1>12. Coherent(res)
  BY <1>5, <1>6, <1>7, <1>8, <1>11 DEF Coherent
<1>13. Known(run) => res = Tally(cases, exit)
  BY <1>5, <1>6, <1>8, <1>9 DEF Tally
<1> QED
  BY <1>5, <1>6, <1>10, <1>12, <1>13 DEF cases

\* What is wrong with a report takes from the counters and adds to none.
LEMMA WornLemma ==
  ASSUME NEW run \in Runs, NEW rep, Worn(rep, run), NEW exit \in Int,
         DOMAIN rep.summary = {} => Known(run),
         NEW res, res = JsonResult(Complete(run), exit),
         NEW got, got = JsonResult(rep, exit)
  PROVE  /\ got \in Tallies /\ got.exit = exit /\ got.total = res.total
         /\ got.passed <= res.passed /\ got.skipped <= res.skipped
         /\ got.failed \in 0..res.failed /\ got.errors \in 0..res.errors
<1>1. run \in Seq(Outcomes)
  BY RunsLemma
<1>2. /\ res \in Tallies /\ res.exit = exit /\ res.total = Len(run) /\ Coherent(res)
      /\ res.passed = Times("passed", run) + Times("xpassed", run)
      /\ res.failed = Times("failed", run) /\ res.errors = Times("error", run)
      /\ res.skipped = Times("skipped", run) + Times("xfailed", run)
      /\ Known(run) => res = Tally([i \in DOMAIN run |-> Canonical(run[i])], exit)
  BY CompleteLemma
<1>3. CASE DOMAIN rep.summary = {}
  <2>1. rep.tests = run
    BY <1>1, <1>3, SummaryLemma DEF Worn
  <2>2. got = res
    BY <1>2, <1>3, <2>1 DEF JsonResult, JsonCases
  <2> QED
    BY <1>2, <2>2 DEF Coherent, Tallies
<1>4. CASE DOMAIN rep.summary # {}
  <2>1. got = BySummary(rep, exit)
    BY <1>4 DEF JsonResult
  <2>2. got.total = Len(run)
    BY <1>1, <2>1, TotalLemma
  <2>3. /\ got.passed \in 0..res.passed /\ got.failed \in 0..res.failed
        /\ got.skipped \in 0..res.skipped /\ got.errors \in 0..res.errors
        /\ got.exit = exit
        /\ got = [total |-> got.total, passed |-> got.passed, failed |-> got.failed,
                  skipped |-> got.skipped, errors |-> got.errors, exit |-> exit]
    BY <1>1, <1>2, <2>1, CountersLemma
  <2>4. Len(run) \in Int
    BY <1>1
  <2>5. got \in Tallies
    BY <2>2, <2>3, <2>4 DEF Tallies
  <2> QED
    BY <1>2, <2>2, <2>3, <2>5 DEF Tallies
<1> QED
  BY <1>3, <1>4

\* Nor does the verdict get any better.
LEMMA RedLemma ==
  ASSUME NEW m \in Rates, m[1] # 0, NEW c \in Caps,
         NEW res \in Tallies, Coherent(res), res.exit \in {0, 1},
         res.exit = 0 => Failures(res) = 0,
         NEW got \in Tallies, got.exit = res.exit, got.total = res.total,
         got.passed <= res.passed, got.skipped <= res.skipped,
         got.failed \in 0..res.failed, got.errors \in 0..res.errors,
         c > 0 => Failures(got) = Failures(res)
  PROVE  /\ Success(got) => Success(res)
         /\ ~Breached(got, m, c) => ~Breached(res, m, c)
<1>1. /\ Failures(res) \in Nat /\ Failures(got) \in 0..Failures(res)
      /\ Executed(got) \in Int /\ Executed(res) \in Int /\ Executed(got) >= Executed(res)
      /\ res.passed \in Nat /\ got.passed \in Int /\ res.passed <= Executed(res)
  BY DEF Tallies, Coherent, Failures, Executed
<1>2. Success(got) => Success(res)
  BY DEF Success, Failures, Tallies, Coherent
<1>3. SUFFICES ASSUME ~Breached(got, m, c), Enabled(m, c)
               PROVE  ~Breached(res, m, c)
  BY <1>2 DEF Breached
<1>4. ~ExitUnexplained(res) /\ (got.exit = 1 => Failures(got) > 0)
  BY <1>1, <1>3 DEF Breached, ExitUnexplained
<1>5. ~(c # NoCap /\ OverCap(res, c))
  <2>1. c \in Nat \/ c = NoCap
    BY LimitsAssumption
  <2>2. c # NoCap => ~(Failures(got) > c)
    BY <1>3 DEF Breached, OverCap
  <2> QED
    BY <1>1, <1>4, <2>1, <2>2 DEF OverCap, NoCap
<1>6. ASSUME m # NoRate
      PROVE  RateDefined(res) /\ ~RateBelow(res, m)
  <2>1. m[1] \in Nat /\ m[1] > 0 /\ m[2] \in Nat /\ m[2] > 0
    BY <1>6, LimitsAssumption DEF Rate
  <2>2. Executed(got) > 0 /\ ~(got.passed * m[2] < m[1] * Executed(got))
    BY <1>3, <1>6 DEF Breached, RateDefined, RateBelow
  <2> DEFINE p == got.passed     q == res.passed    d == m[2]
             n == m[1]           e == Executed(res) f == Executed(got)
  <2>3. /\ p \in Int /\ q \in Int /\ d \in Int /\ n \in Int /\ e \in Int /\ f \in Int
        /\ d > 0 /\ n > 0 /\ f > 0 /\ f >= e /\ p <= q /\ q <= e /\ ~(p * d < n * f)
    BY <1>1, <2>1, <2>2
  <2> HIDE DEF p, q, d, n, e, f
  <2>4. e > 0 /\ ~(q * d < n * e)
    <3>1. n * f > 0 /\ n * f >= n * e
      BY <2>3
    <3>2. q * d >= p * d
      BY <2>3
    <3>3. p * d \in Int /\ q * d \in Int /\ n * f \in Int /\ n * e \in Int
      BY <2>3
    <3>4. p > 0
      BY <2>3, <3>1, <3>3
    <3> QED
      BY <2>3, <3>1, <3>2, <3>3, <3>4
  <2>5. Executed(res) > 0 /\ ~(res.passed * m[2] < m[1] * Executed(res))
    BY <2>4 DEF q, d, n, e
  <2> QED
    BY <2>5 DEF RateDefined, RateBelow
<1> QED
  BY <1>4, <1>5, <1>6 DEF Breached

----------------------------------------------------------------------------
(* The invariant *)

VerdictInv ==
  /\ minRate \in Rates /\ cap \in Caps /\ result \in Tallies
  /\ tests # NoRun =>
       /\ tests \in Runs /\ result.exit \in ExitsOf(tests)
       /\ result = JsonResult(Complete(tests), result.exit)
       /\ Worn(report, tests)
       /\ intact => report = Complete(tests)

LEMMA VerdictInit == InitVerdicts => VerdictInv
<1> SUFFICES ASSUME InitVerdicts
             PROVE  VerdictInv
  OBVIOUS
<1>1. minRate \in Rates /\ cap \in Caps
  BY DEF InitVerdicts
<1>2. CASE result \in Result /\ tests = NoRun
  BY <1>1, <1>2, CounterLemma DEF VerdictInv
<1>3. ASSUME NEW run \in Runs, NEW exit \in ExitsOf(run),
             tests = run, report = Complete(run), intact = TRUE,
             result = JsonResult(report, exit)
      PROVE  VerdictInv
  <2>1. exit \in Int
    BY DEF ExitsOf
  <2>2. result \in Tallies /\ result.exit = exit
    BY <1>3, <2>1, CompleteLemma
  <2>3. Worn(report, tests)
    BY <1>3 DEF Worn, Complete
  <2> QED
    BY <1>1, <1>3, <2>2, <2>3 DEF VerdictInv
<1> QED
  BY <1>2, <1>3 DEF InitVerdicts

\* Each way a report goes wrong wears it, and only a complete one goes wrong.
LEMMA DriftLemma ==
  ASSUME VerdictInv, Drift
  PROVE  Worn(report', tests)
<1>1. report = Complete(tests) /\ tests \in Seq(Outcomes)
  BY RunsLemma DEF VerdictInv, Drift
<1>2. report = [summary |-> SummaryOf(tests), tests |-> tests]
  BY <1>1 DEF Complete
<1>3. CASE LoseKey
  BY <1>2, <1>3 DEF LoseKey, Worn
<1>4. CASE SpoilKey
  BY <1>2, <1>4 DEF SpoilKey, Worn
<1>5. CASE LoseSummary
  <2>1. report'.tests = tests /\ report'.summary = <<>>
    BY <1>2, <1>5 DEF LoseSummary
  <2>2. DOMAIN report'.summary = {}
    BY <2>1
  <2> QED
    BY <2>1, <2>2 DEF Worn
<1>6. CASE CutTests
  BY <1>2, <1>6 DEF CutTests, Worn
<1> QED
  BY <1>3, <1>4, <1>5, <1>6 DEF Drift

LEMMA VerdictStep == VerdictInv /\ [Drift \/ Improve]_<<vars, account>> => VerdictInv'
<1> SUFFICES ASSUME VerdictInv, [Drift \/ Improve]_<<vars, account>>
             PROVE  VerdictInv'
  OBVIOUS
<1>1. CASE Drift
  <2>1. Worn(report', tests) /\ tests' = tests /\ intact' = FALSE
        /\ UNCHANGED <<result, minRate, cap>>
    BY <1>1, DriftLemma DEF Drift
  <2> QED
    BY <2>1 DEF VerdictInv
<1>2. CASE Improve
  <2>1. tests' = NoRun /\ result' = Better(result) /\ UNCHANGED <<minRate, cap>>
        /\ Completed(result) /\ result.failed > 0
    BY <1>2 DEF Improve, OneMorePasses, account
  <2>2. result' \in Tallies
    BY <2>1, BetterLemma DEF VerdictInv
  <2> QED
    BY <2>1, <2>2 DEF VerdictInv
<1>3. CASE UNCHANGED <<vars, account>>
  BY <1>3 DEF vars, account, VerdictInv
<1> QED
  BY <1>1, <1>2, <1>3

\* The counters are those a parser makes of the report of a run, and what the
\* parser is given is that report with at most one thing wrong with it.
THEOREM VerdictsAccount == VerdictsSpec => []VerdictInv
BY VerdictInit, VerdictStep, PTL DEF VerdictsSpec

----------------------------------------------------------------------------
(* What follows from it *)

LEMMA SameCases ==
  ASSUME NEW run \in Seq(Outcomes), Known(run),
         NEW elements, DOMAIN elements = DOMAIN run,
         \A i \in DOMAIN run : elements[i] \in ElementsOf(run[i])
  PROVE  JunitCases(elements) = [i \in DOMAIN run |-> Canonical(run[i])]
<1>1. ASSUME NEW i \in DOMAIN run
      PROVE  CaseOutcome(elements[i]) = Canonical(run[i])
  <2>1. run[i] \in RawOutcomes
    BY DEF Known, Outcomes
  <2>2. CASE run[i] = "error"
    <3>1. elements[i] \in {{"error"}, {"error", "failure"}}
      BY <2>2 DEF ElementsOf
    <3> QED
      BY <2>2, <3>1 DEF CaseOutcome, Canonical
  <2>3. CASE run[i] = "failed"
    <3>1. elements[i] = {"failure"}
      BY <2>3 DEF ElementsOf
    <3> QED
      BY <2>3, <3>1 DEF CaseOutcome, Canonical
  <2>4. CASE run[i] \in {"skipped", "xfailed"}
    <3>1. elements[i] = {"skipped"}
      BY <2>4 DEF ElementsOf
    <3> QED
      BY <2>4, <3>1 DEF CaseOutcome, Canonical
  <2>5. CASE run[i] \in {"passed", "xpassed"}
    <3>1. elements[i] = {}
      BY <2>5 DEF ElementsOf
    <3> QED
      BY <2>5, <3>1 DEF CaseOutcome, Canonical
  <2> QED
    BY <2>1, <2>2, <2>3, <2>4, <2>5 DEF RawOutcomes
<1> QED
  BY <1>1 DEF JunitCases

\* The verdict does not depend on the format of the report, for runs of any
\* length whose outcomes the parsers know (json_parser.py:87-227,
\* junit_parser.py:112-194).
THEOREM FormatsAgree == VerdictsSpec => []ParsersAgree
<1>1. VerdictInv => ParsersAgree
  <2> SUFFICES ASSUME VerdictInv, tests # NoRun, Known(tests),
                      intact \/ DOMAIN report.summary = {},
                      NEW elements \in [DOMAIN tests ->
                                          UNION {ElementsOf(tests[i]) : i \in DOMAIN tests}],
                      \A i \in DOMAIN tests : elements[i] \in ElementsOf(tests[i])
               PROVE  /\ JunitResult(elements, result.exit) = JsonResult(report, result.exit)
                      /\ FailedCases(JunitCases(elements)) = FailedCases(JsonCases(report))
    BY DEF ParsersAgree
  <2> DEFINE cases == [i \in DOMAIN tests |-> Canonical(tests[i])]
  <2>1. tests \in Runs /\ tests \in Seq(Outcomes)
    BY RunsLemma DEF VerdictInv
  <2>2. JunitCases(elements) = cases
    BY <2>1, SameCases
  <2>3. report.tests = tests
    <3>1. intact => report.tests = tests
      BY DEF VerdictInv, Complete
    <3>2. DOMAIN report.summary = {} => report.tests = tests
      BY <2>1, SummaryLemma DEF VerdictInv, Worn
    <3> QED
      BY <3>1, <3>2
  <2>4. JsonCases(report) = cases
    BY <2>3 DEF JsonCases
  <2>5. JsonResult(report, result.exit) = Tally(cases, result.exit)
    <3>1. CASE DOMAIN report.summary = {}
      BY <2>4, <3>1 DEF JsonResult
    <3>2. CASE intact
      <4>1. report = Complete(tests) /\ result.exit \in Int
        BY <3>2 DEF VerdictInv, Tallies
      <4> QED
        BY <2>1, <4>1, CompleteLemma
    <3> QED
      BY <3>1, <3>2
  <2> QED
    BY <2>2, <2>4, <2>5 DEF JunitResult
<1> QED
  BY <1>1, VerdictsAccount, PTL

\* What a report loses is never to the run's advantage, for runs of any length,
\* every rate but zero and every cap (json_parser.py:161-199, 309-332).
THEOREM LossIsRed == VerdictsSpec => []DriftIsRed
<1>1. VerdictInv => DriftIsRed
  <2> DEFINE got == JsonResult(report, result.exit)
  <2> SUFFICES ASSUME VerdictInv, tests # NoRun, minRate[1] # 0,
                      cap > 0 => Failures(got) = Failures(result),
                      DOMAIN report.summary = {} => Known(tests)
               PROVE  /\ Success(got) => Success(result)
                      /\ ~Breached(got, minRate, cap) => ~Breached(result, minRate, cap)
    BY DEF DriftIsRed
  <2>1. /\ tests \in Runs /\ result.exit \in ExitsOf(tests) /\ Worn(report, tests)
        /\ result = JsonResult(Complete(tests), result.exit)
        /\ minRate \in Rates /\ cap \in Caps /\ result \in Tallies /\ result.exit \in Int
    BY DEF VerdictInv, Tallies
  <2>2. result.exit \in {0, 1} /\ (result.exit = 0 => Failures(result) = 0)
    <3>1. ASSUME result.exit = 0
          PROVE  Failures(result) = 0
      <4>1. Places("failed", tests) = {} /\ Places("error", tests) = {}
        BY <2>1, <3>1 DEF ExitsOf, Places
      <4>2. Times("failed", tests) = 0 /\ Times("error", tests) = 0
        <5>1. tests \in Seq(Outcomes)
          BY <2>1, RunsLemma
        <5>2. Len(tests) \in Nat /\ DOMAIN tests = 1..Len(tests)
          BY <5>1
        <5> QED
          BY <4>1, <5>2, PlacesLemma
      <4>3. result.failed = 0 /\ result.errors = 0
        BY <2>1, <4>2, CompleteLemma
      <4> QED
        BY <4>3 DEF Failures
    <3> QED
      BY <2>1, <3>1 DEF ExitsOf
  <2>3. Coherent(result)
    BY <2>1, CompleteLemma
  <2>4. /\ got \in Tallies /\ got.exit = result.exit /\ got.total = result.total
        /\ got.passed <= result.passed /\ got.skipped <= result.skipped
        /\ got.failed \in 0..result.failed /\ got.errors \in 0..result.errors
    BY <2>1, WornLemma
  <2> HIDE DEF got
  <2> QED
    BY <2>1, <2>2, <2>3, <2>4, RedLemma
<1> QED
  BY <1>1, VerdictsAccount, PTL

\* The laws of the verdict hold beside the reports too: what a parser tells, of
\* a run of any length, is a tally like any other.
THEOREM VerdictsLaws ==
  VerdictsSpec => [](ZeroCapIsStrict /\ RateOneIsStrict) /\ PassingNeverHurts
<1>1. VerdictInv => ZeroCapIsStrict /\ RateOneIsStrict
  BY ZeroCapLemma, RateOneLemma DEF VerdictInv, LawsInv
<1>2. VerdictInv /\ [Drift \/ Improve]_<<vars, account>>
        => [~Breached(result, minRate, cap) => ~Breached(result', minRate, cap)]_vars
  BY PassingLemma DEF VerdictInv, Drift, Improve, OneMorePasses, vars
<1> QED
  BY <1>1, <1>2, VerdictsAccount, PTL DEF VerdictsSpec, PassingNeverHurts
=============================================================================
