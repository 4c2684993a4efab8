--------------------------- MODULE PytestOperator ---------------------------
(***************************************************************************)
(* operators/pytest_operator.py: execute() over the attempts Airflow makes *)
(* at one task instance, with the in-process reruns of rerun_failed and the*)
(* set of failures that failed_only carries to the next attempt in an      *)
(* Airflow Variable (stores/variable_store.py).                            *)
(*                                                                         *)
(* The steps are the points between which a worker can die: reading the    *)
(* Variable, deleting it, each pytest run, the decision, writing it back.  *)
(* A step of pytest picks any outcome pytest can have; `latest` remembers  *)
(* what really became of each test, which execute() never knows.  Temp dirs*)
(* and the process are the business of SubprocessRunner.                   *)
(***************************************************************************)
EXTENDS FailureThreshold

CONSTANTS
  Cases,        \* node-ids of tests: they contain "::"
  Modules,      \* ids of modules, listed when one fails to import: they do not
  ModuleOf,     \* the module of each test
  Settings,     \* the operators that may be built, see Setting
  MaxTries      \* Airflow's retries=, the bound on attempts

Ids == Cases \cup Modules

Setting == [
  strategy : {"all", "failed_only"},
  keyed    : BOOLEAN,          \* the context has the ids a key is made of
  counted  : BOOLEAN,          \* ... and try_number and max_tries
  located  : BOOLEAN,          \* test_path exists on this worker
  lost     : SUBSET Cases,     \* ids whose file reselect() does not find
  faulty   : SUBSET {"read", "write", "delete"},  \* what the Variable may refuse
  mishaps  : SUBSET {"stop", "interrupt", "collect", "continue", "unlisted"},  \* see Outcomes
  rerun    : Nat,              \* rerun_failed
  strict   : BOOLEAN,          \* fail_on_test_failure
  rate     : {NoRate} \cup (Nat \X Nat),  \* min_pass_rate
  cap      : {NoCap} \cup Nat,            \* max_failed
  covGate  : BOOLEAN,          \* cov_fail_under, with coverage active
  dry      : BOOLEAN]          \* dry_run

\* A module is a file with at least one test.
ASSUME IdsAssumption ==
  /\ Cases \cap Modules = {} /\ IsFiniteSet(Ids)
  /\ ModuleOf \in [Cases -> Modules]
  /\ \A m \in Modules : \E c \in Cases : ModuleOf[c] = m
ASSUME TriesAssumption == MaxTries \in Nat
ASSUME SettingsAssumption == Settings \subseteq Setting

VARIABLES
  cfg,        \* the operator's arguments, fixed
  attempt,    \* try_number
  phase,      \* where execute() is
  store,      \* the Variable: a set of ids, {} when it does not exist
  narrowed,   \* this attempt runs `targets`, not the whole suite
  targets,
  first,      \* first_result
  result,     \* the result of the latest round
  pending, stuck, rounds,
  recovered,  \* recovered_node_ids
  status,     \* of the task: "running", "success" or "failed"
  unread,     \* ghost: the latest attempt died before its Variable was consumed
  latest      \* ghost: what became of each id the last time it ran

local == <<narrowed, targets, first, result, pending, stuck, rounds, recovered>>
task  == <<attempt, status, unread>>
vars  == <<cfg, phase, store, local, task, latest>>

Phases == {"idle", "read", "consume", "first", "rerun", "decide", "forward",
           "settle", "end"}

\* What one pytest run leaves in its report, and what it did: the ids that ran,
\* those that failed, those the report lists as failed, the exit code.
Outcome == [ran : SUBSET Cases, bad : SUBSET Ids, failed : SUBSET Ids, exit : {0, 1, 2, 3, 5}]
NoOutcome == [ran |-> {}, bad |-> {}, failed |-> {}, exit |-> 0]

TypeOK ==
  /\ cfg \in Setting
  /\ attempt \in 0..(MaxTries + 1)
  /\ phase \in Phases
  /\ store \subseteq Ids
  /\ narrowed \in BOOLEAN /\ targets \subseteq Cases
  /\ first \in Outcome /\ result \in Outcome
  /\ pending \subseteq Ids /\ stuck \subseteq Ids /\ recovered \subseteq Ids
  /\ rounds \in 0..cfg.rerun
  /\ status \in {"running", "success", "failed"}
  /\ unread \in BOOLEAN
  /\ latest \in [Ids -> {"never", "passed", "failed"}]

Init ==
  /\ cfg \in Settings
  /\ attempt = 0 /\ phase = "idle" /\ store = {}
  /\ narrowed = FALSE /\ targets = Cases
  /\ first = NoOutcome /\ result = NoOutcome
  /\ pending = {} /\ stuck = {} /\ rounds = 0 /\ recovered = {}
  /\ status = "running" /\ unread = FALSE
  /\ latest = [i \in Ids |-> "never"]

----------------------------------------------------------------------------
(* pytest *)

HomesOf(tests) == {ModuleOf[c] : c \in tests}
Within(mods) == {c \in Cases : ModuleOf[c] \in mods}
Ran(tests, failed, exit) == [ran |-> tests, bad |-> failed, failed |-> failed, exit |-> exit]

\* Every test ran; exit code 1 without a failure is some plugin's own gate.
Completed(tests) ==
  {Ran(tests, f, IF f = {} THEN 0 ELSE 1) : f \in SUBSET tests} \cup {Ran(tests, {}, 1)}

\* Modules failed to import: nothing ran, and a JSON report does not list them.
Uncollected(tests) ==
  UNION {{Ran({}, b, 2), [Ran({}, b, 2) EXCEPT !.failed = {}]} :
           b \in (SUBSET HomesOf(tests)) \ {{}}}

\* --continue-on-collection-errors with a JUnit report: the other modules' tests
\* ran, and the broken ones are listed.
Continued(tests) ==
  UNION {{Ran(tests \ Within(b), b \cup f, 1) : f \in SUBSET (tests \ Within(b))} :
           b \in (SUBSET HomesOf(tests)) \ {{}}}

\* ... and with a JSON report, whose collectors JSONResultParser does not read:
\* of the broken modules the exit code alone tells.
Unlisted(tests) ==
  {[o EXCEPT !.failed = o.failed \ Modules] : o \in Continued(tests)}

\* -x, --maxfail: a failure ended the run.
Stopped(tests) ==
  UNION {{Ran(r, f, 1) : f \in (SUBSET r) \ {{}}} : r \in SUBSET tests}

\* pytest.exit(), an internal error: the report holds what ran until then.
Interrupted(tests) ==
  UNION {{Ran(r, f, x) : f \in SUBSET r, x \in {2, 3}} : r \in SUBSET tests}

May(mishap, outcomes) == IF mishap \in cfg.mishaps THEN outcomes ELSE {}

\* A run of the whole suite always may find a module broken, or no test at all.
\* A run of chosen tests finds them collectable, as before, unless "collect".
FullOutcomes == Completed(Cases) \cup Uncollected(Cases) \cup {Ran({}, {}, 5)}
PartOutcomes(tests) == Completed(tests) \cup May("collect", Uncollected(tests))

Outcomes(tests, part) ==
  (IF part THEN PartOutcomes(tests) ELSE FullOutcomes)
    \cup May("continue", Continued(tests))
    \cup May("unlisted", Unlisted(tests))
    \cup May("stop", Stopped(tests))
    \cup May("interrupt", Interrupted(tests))

\* --collect-only runs no test body.
DryOutcomes == {Ran({}, {}, 0), Ran({}, {}, 5)} \cup Uncollected(Cases)

\* The counters of the report.
Tally(o) ==
  [total   |-> Cardinality(o.ran \cup o.failed),
   passed  |-> Cardinality(o.ran \ o.failed),
   failed  |-> Cardinality(o.failed \cap Cases),
   errors  |-> Cardinality(o.failed \cap Modules),
   skipped |-> 0,
   exit    |-> o.exit]

Passed(o) == Success(Tally(o))

\* pytest imports every module it was asked for before it runs a test.
Remember(o, tests) ==
  LET good == o.ran \cup IF o.ran = {} THEN {} ELSE HomesOf(tests)
  IN  latest' = [i \in Ids |-> IF i \in o.bad THEN "failed"
                               ELSE IF i \in good THEN "passed" ELSE latest[i]]

----------------------------------------------------------------------------
(* reselect() *)

Unreachable == Modules \cup cfg.lost

\* Without the suite on this worker's filesystem nothing can be checked.
Missing(ids) == IF cfg.located THEN ids \cap Unreachable ELSE {}
Selectors(ids) == ids \ Missing(ids)

\* pytest rejects a target it does not find with exit code 4.
Accepted(ids) == ids \cap Unreachable = {}

\* Bug: stored entries that cannot be re-selected are dropped.
UsableInPart(prior) == Selectors(prior) \ Modules # {}

\* failed_only narrows when every stored entry is a node-id with a selector.
Usable(prior) == prior \cap Modules = {} /\ Missing(prior) = {}

----------------------------------------------------------------------------
(* Airflow *)

Carries == cfg.strategy = "failed_only" /\ cfg.keyed /\ ~cfg.dry

Start ==
  /\ phase = "idle"
  /\ attempt' = attempt + 1
  /\ phase' = IF Carries THEN "read" ELSE "first"
  /\ unread' = Carries
  /\ narrowed' = FALSE /\ targets' = Cases
  /\ first' = NoOutcome /\ result' = NoOutcome
  /\ pending' = {} /\ stuck' = {} /\ rounds' = 0 /\ recovered' = {}
  /\ UNCHANGED <<cfg, store, status, latest>>

\* The attempt is over without success; Airflow retries while it has tries left.
Over ==
  IF attempt > MaxTries
  THEN phase' = "end" /\ status' = "failed"
  ELSE phase' = "idle" /\ UNCHANGED status

\* The worker dies (OOM, eviction), or the attempt is killed, at any step.
Crash ==
  /\ phase \notin {"idle", "end"}
  /\ Over
  /\ UNCHANGED <<cfg, attempt, store, local, unread, latest>>

----------------------------------------------------------------------------
(* execute(): failed_only, before the run *)

Read ==
  /\ phase = "read"
  /\ phase' = IF store = {} THEN "first" ELSE "consume"
  /\ unread' = (store # {})
  /\ UNCHANGED <<cfg, attempt, store, local, status, latest>>

\* A backend error reads as "no store".
ReadFails ==
  /\ phase = "read" /\ "read" \in cfg.faulty
  /\ phase' = "first"
  /\ unread' = FALSE
  /\ UNCHANGED <<cfg, attempt, store, local, status, latest>>

Narrow(prior) ==
  /\ narrowed' = Usable(prior)
  /\ targets' = IF Usable(prior) THEN Selectors(prior) \ Modules ELSE Cases

Consume ==
  /\ phase = "consume"
  /\ phase' = "first"
  /\ store' = {}
  /\ unread' = FALSE
  /\ Narrow(store)
  /\ UNCHANGED <<cfg, attempt, status, first, result, pending, stuck, rounds,
                 recovered, latest>>

ConsumeFails ==
  /\ phase = "consume" /\ "delete" \in cfg.faulty
  /\ phase' = "first"
  /\ unread' = FALSE
  /\ Narrow(store)
  /\ UNCHANGED <<cfg, attempt, status, store, first, result, pending, stuck, rounds,
                 recovered, latest>>

----------------------------------------------------------------------------
(* execute(): the first run and the reruns *)

FirstRun ==
  /\ phase = "first"
  /\ narrowed => Accepted(targets)
  /\ \E o \in IF cfg.dry THEN DryOutcomes ELSE Outcomes(targets, narrowed) :
       /\ first' = o /\ result' = o
       /\ pending' = o.failed
       /\ phase' = IF ~cfg.dry /\ cfg.rerun > 0 /\ o.failed # {} THEN "rerun" ELSE "decide"
       /\ Remember(o, targets)
  /\ UNCHANGED <<cfg, store, narrowed, targets, stuck, rounds, recovered, task>>

\* No report, exit code 4, a report that cannot be parsed, a timeout: execute()
\* raises and the bookkeeping after the run is skipped.
RunRaises ==
  /\ phase \in {"first", "rerun"}
  /\ phase = "rerun" => Selectors(pending) # {}
  /\ Over
  /\ UNCHANGED <<cfg, attempt, store, local, unread, latest>>

\* Bug: failures no selector reaches are forgotten.
RerunForgets ==
  /\ phase = "rerun" /\ Selectors(pending) # {} /\ Accepted(Selectors(pending))
  /\ \E o \in Outcomes(Selectors(pending), TRUE) :
       /\ result' = o /\ pending' = o.failed /\ Remember(o, Selectors(pending))
  /\ rounds' = rounds + 1
  /\ phase' = IF rounds + 1 = cfg.rerun THEN "decide" ELSE "rerun"
  /\ UNCHANGED <<cfg, store, narrowed, targets, first, stuck, recovered, task>>

\* Bug: one round too many.
RerunOnceMore ==
  /\ phase = "rerun" /\ Selectors(pending) # {} /\ Accepted(Selectors(pending))
  /\ stuck' = stuck \cup Missing(pending)
  /\ \E o \in Outcomes(Selectors(pending), TRUE) :
       /\ result' = o /\ pending' = o.failed /\ Remember(o, Selectors(pending))
  /\ rounds' = rounds + 1
  /\ phase' = IF rounds = cfg.rerun THEN "decide" ELSE "rerun"
  /\ UNCHANGED <<cfg, store, narrowed, targets, first, recovered, task>>

Rerun ==
  /\ phase = "rerun" /\ Selectors(pending) # {} /\ Accepted(Selectors(pending))
  /\ stuck' = stuck \cup Missing(pending)
  /\ \E o \in Outcomes(Selectors(pending), TRUE) :
       /\ result' = o /\ pending' = o.failed /\ Remember(o, Selectors(pending))
  /\ rounds' = rounds + 1
  /\ phase' = IF rounds + 1 = cfg.rerun THEN "decide" ELSE "rerun"
  /\ UNCHANGED <<cfg, store, narrowed, targets, first, recovered, task>>

\* Bug: a round with nothing to rerun is skipped, and not counted, instead of
\* ending the loop.
RerunSkips ==
  /\ phase = "rerun" /\ Selectors(pending) = {}
  /\ stuck' = stuck \cup Missing(pending)
  /\ pending' = {}
  /\ UNCHANGED <<cfg, phase, store, narrowed, targets, first, result, rounds, recovered,
                 task, latest>>

\* Nothing left that a selector can reach: the loop is left early.
RerunEnds ==
  /\ phase = "rerun" /\ Selectors(pending) = {}
  /\ stuck' = stuck \cup Missing(pending)
  /\ pending' = {}
  /\ phase' = "decide"
  /\ UNCHANGED <<cfg, store, narrowed, targets, first, result, rounds, recovered, task, latest>>

----------------------------------------------------------------------------
(* execute(): the verdict *)

StillFailing == pending \cup stuck

\* Bug: a green last round is a green run.
RunOkLastRound == Passed(result)

RunOk == Passed(result) /\ stuck = {}

Tolerant == Enabled(cfg.rate, cfg.cap) /\ ~cfg.dry

\* Bug: the tolerance judges the last round.
TaskFailsLastRound ==
  IF Tolerant THEN Breached(Tally(result), cfg.rate, cfg.cap)
  ELSE cfg.strict /\ ~RunOk

\* The tolerance judges the first run; without one, fail_on_test_failure does.
TaskFails ==
  IF Tolerant THEN Breached(Tally(first), cfg.rate, cfg.cap)
  ELSE cfg.strict /\ ~RunOk

IsFinalAttempt == cfg.counted /\ attempt > MaxTries

\* Bug: the failures are handed forward whenever the attempt fails.
HandsForwardAlways == Carries /\ StillFailing # {} /\ TaskFails

HandsForward == Carries /\ StillFailing # {} /\ TaskFails /\ ~IsFinalAttempt

Decide ==
  /\ phase = "decide"
  /\ recovered' = IF rounds > 0 THEN first.failed \ StillFailing ELSE {}
  /\ phase' = IF HandsForward THEN "forward" ELSE "settle"
  /\ UNCHANGED <<cfg, store, narrowed, targets, first, result, pending, stuck, rounds,
                 task, latest>>

\* Bug: what the first run failed is handed forward, recovered or not.
WriteFirst ==
  /\ phase = "forward"
  /\ phase' = "settle"
  /\ store' = first.failed
  /\ UNCHANGED <<cfg, local, task, latest>>

Write ==
  /\ phase = "forward"
  /\ phase' = "settle"
  /\ store' = StillFailing
  /\ UNCHANGED <<cfg, local, task, latest>>

WriteFails ==
  /\ phase = "forward" /\ "write" \in cfg.faulty
  /\ phase' = "settle"
  /\ UNCHANGED <<cfg, store, local, task, latest>>

Fail ==
  /\ phase = "settle" /\ TaskFails
  /\ Over
  /\ UNCHANGED <<cfg, attempt, store, local, unread, latest>>

\* The coverage of the first run is unknown here, and may be below the gate.
CoverageFails ==
  /\ phase = "settle" /\ ~TaskFails /\ cfg.covGate /\ ~cfg.dry
  /\ Over
  /\ UNCHANGED <<cfg, attempt, store, local, unread, latest>>

Succeed ==
  /\ phase = "settle" /\ ~TaskFails
  /\ phase' = "end" /\ status' = "success"
  /\ UNCHANGED <<cfg, attempt, store, local, unread, latest>>

Ended == phase = "end" /\ UNCHANGED vars

Execute ==
  \/ Read \/ ReadFails \/ Consume \/ ConsumeFails
  \/ FirstRun \/ RunRaises \/ Rerun \/ RerunEnds
  \/ Decide \/ Write \/ WriteFails \/ Fail \/ CoverageFails \/ Succeed

Next == Start \/ Execute \/ Crash \/ Ended
Spec == Init /\ [][Next]_vars

\* Airflow's scheduler starts the attempts it owes, and an attempt proceeds or
\* dies: pytest is taken to end, which a timeout sees to.
FairSpec == Spec /\ WF_vars(Start \/ Execute)

----------------------------------------------------------------------------
(* What the operator promises *)

Outstanding == {i \in Ids : latest[i] # "passed"}

\* The Variable backend is up when it is read; and when it is deleted, too.
Readable   == "read" \notin cfg.faulty
Consumable == cfg.faulty \subseteq {"write"}

\* Runs end by themselves (no -x, no interruption) and say what is outstanding
\* (no broken module that a report with failures leaves out); and, with no
\* collection error once the whole suite has been collected, run all they were
\* given.
ByThemselves == cfg.mishaps \subseteq {"collect", "continue"}
Untroubled   == cfg.mishaps = {}

\* What failed_only can rely on.
Reliable == ByThemselves /\ Readable

\* No false green: when a task that tolerates nothing ends in success, every
\* test of the suite passed the last time it ran, whichever attempt and round
\* that was, and whichever writes and deletes of the Variable failed (README
\* "failed_only", "rerun_failed"; execute(), 499-605).
NoFalseGreen ==
  status = "success" /\ cfg.strict /\ ~Tolerant /\ ~cfg.dry /\ Reliable => Outstanding = {}

\* The least of it: such a task does not succeed while a test that failed in
\* one of its runs has not passed since (README "fail_on_test_failure").
NoFailureForgotten ==
  status = "success" /\ cfg.strict /\ ~Tolerant => \A i \in Ids : latest[i] # "failed"

\* An attempt that does not run the whole suite runs everything that has not
\* passed: nothing is dropped on the way through the Variable (404-434).
NothingDropped ==
  phase = "first" /\ narrowed /\ Reliable => Outstanding \subseteq targets \cup HomesOf(targets)

\* ... and, when the Variable backend works, nothing else (597-603).
NarrowedExact ==
  phase = "first" /\ narrowed /\ Consumable /\ Untroubled => targets = Outstanding \cap Cases

\* Consume on read: no test runs before the Variable this attempt found is gone,
\* so that a worker dying in the middle of a run strands none (391-402; README
\* "Crash-safe cleanup").
ConsumedFirst == phase \in {"first", "rerun", "decide"} /\ Consumable => store = {}

\* The last attempt leaves no Variable behind, unless it died before it came to
\* read the one it was to consume (594-603; README "Crash-safe cleanup").
NoOrphanVariable == phase = "end" /\ store # {} /\ Consumable => unread \/ ~cfg.counted

\* A failure is reported as recovered only if it passed in a rerun (493-494).
RecoveredPassed == \A i \in recovered : latest[i] = "passed"

\* ... which holds as long as no rerun meets a collection error.
RecoveredHonest == Untroubled => RecoveredPassed

\* max_failed composes with both retries: a task that succeeds under a cap has
\* no more outstanding tests than the cap allows (threshold over the first
\* result, 556-577; README "Failure tolerance").
ToleranceHonest ==
  status = "success" /\ Tolerant /\ cfg.cap # NoCap /\ Readable /\ Untroubled =>
    Cardinality(Outstanding) <= cfg.cap

----------------------------------------------------------------------------
(* The contract of a task, implemented *)

Contract == INSTANCE RetryContract WITH
  Retries <- MaxTries, tries <- attempt, verdict <- status, open <- Outstanding,
  lenient <- ~cfg.strict \/ Tolerant \/ cfg.dry \/ ~Reliable

\* This operator keeps it, whatever happens to the Variable's writes and
\* deletes and wherever a worker dies (README "failed_only"; execute(), 251-631).
IsRetrier == Contract!RetrySpec

\* ... and comes to a verdict, however many rounds and attempts that takes: no
\* failure is rerun for ever (the loop of rounds, 508-548).
IsDecisive == Contract!RetryFairness
=============================================================================
