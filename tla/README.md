# A formal model of airflow-pytest-operator

`src/` is an Airflow provider: an operator that runs pytest as a task, judges the
report, reruns failures and carries them to the next attempt. This directory
holds TLA+ modules that model it, TLC configurations that check them on small
instances, and TLAPS proofs for every instance. Paths below are relative to
`src/src/airflow_pytest_operator/`; line numbers are those of the sources beside
this directory.

## The system

| Component | State | Operations | Talks to |
|---|---|---|---|
| `runners/subprocess_runner.py` | `_running`, `_cancelled`, `_proc`, `_created_report_dir`, `_lock`; a temp dir, a child process and its group, two drainer threads with their buffers | `run`, `cancel`, `cleanup`, `_terminate` | the operating system; called by `execute()` on the task's thread and by `on_kill()` |
| `operators/pytest_operator.py` | arguments, fixed; per `execute()`: targets, first result, pending and stuck failures | `execute`, `on_kill` | runner, parser, store, threshold, coverage; raises to Airflow, which retries |
| `stores/variable_store.py` | one Airflow Variable per task instance | `read`, `write`, `delete`, `is_final_attempt` | Airflow's metadata; every error is swallowed |
| `operators/_threshold.py` | none | `check`, `pass_rate` | judges a parsed report |
| `operators/_reselect.py`, `utils/node_id.py` | none | failed ids to selectors and a rootdir | the file system, to locate ids |
| `operators/_coverage.py` | none | flags, extract, gate | pytest-cov's text |
| `reporters/*` | none | `report_request`, `parse` | the report file |
| `utils/shard.py` | none | partition ids | callers' DAGs |
| `operators/_validation.py`, `_constants.py`, `compat`, `exceptions`, `provider_info` | none | checks, imports | - |

What is hard in it:

* *Interleaving.* `on_kill()` runs while `execute()` is inside `run()`: the cancel
  may come before the child's handle is published, with the timeout, while the
  report is parsed, or together with the other cleanup; in a signal handler it runs
  on the very thread it interrupts, and may leave it with an exception.
* *Processes.* The child and its descendants exit, obey SIGTERM or do not; a
  signal may be refused; a reaped child can no longer be found by its group; a
  descendant keeps the pipes open; a pipe that nobody reads stops the child.
* *Exceptions from outside* (`AirflowTaskTimeout`, `KeyboardInterrupt`) between any
  two statements.
* *Crash and retry.* A worker dies between reading, deleting and writing the
  Variable; the next attempt trusts what is left.
* *Partial outcomes.* Interrupted runs, `-x`, collection errors, ids no selector
  reaches, exit codes the report does not explain, reports that lost a part.
* *Names.* A test has three names (node-id, dotted id, selector), two of them
  relative to a directory that depends on what the run was asked for.

What makes each part correct:

* Runner: one run at a time; no live child nobody answers for; no cancel lost; no
  temp dir leaked, none removed twice, none removed that the policy keeps; a
  cancelled or timed-out run ends and `on_kill` returns; the text it returns says
  what it lacks.
* Operator and store: a task that tolerates nothing is green only if every test
  passed the last time it ran; a narrowed attempt runs all that has not; the
  Variable does not outlive the last attempt; "recovered" means passed; a tolerance
  is not widened by reruns and retries; a killed task does not go on.
* Re-selection: what is run again is what failed, under the same rootdir.
* Parsers and threshold: one verdict for both formats; a damaged report is never an
  advantage; fail-closed, strict at its ends, monotone.

## The modules

| Module | What it is |
|---|---|
| `RunnerContract` | what a runner promises (`runners/base.py`): one run at a time, a child only inside its run, a stop that works |
| `SubprocessRunner` | one runner instance, its threads, the child, its descendants, temp dirs and reports; implements `RunnerContract` |
| `MCSubprocessRunner` | symmetry, for TLC |
| `SubprocessRunnerProofs`, `RunnerFilesProofs` | the theorems about its threads, its child and the refinement, and about its directories |
| `KilledTask` | `execute()`'s rounds and `on_kill()` on one `SubprocessRunner`, the kill coming from a thread or a signal handler |
| `MCKilledTask` | one worker and one kill |
| `KilledTaskProofs` | the theorems about what a killed task leaves behind and starts again |
| `OutputDrain` | the drainers of one run, their pipes, caps and live sink, and the runner that joins them |
| `OutputDrainProofs` | the theorems about the text, the live view and the pipes |
| `RetryContract` | what a task promises the author of a DAG: bounded tries, green only when all has passed |
| `PytestOperator` | `execute()` over all attempts of a task instance, with the store; uses `FailureThreshold` for the verdict; implements `RetryContract` |
| `MCPytestOperator` | the operators it is checked with |
| `PytestOperatorProofs` | the theorems about it: types, no false green, the Variable, the refinement; and that what it reports and retries is exact |
| `NodeIds` | the three names of a test: `_split_nodeid`, `CaseResult.node_id`, `node_id_to_pytest_args` |
| `Shards` | the loop of `partition_node_ids` |
| `Selection` | `_reselect.py` over a tree of directories, between the runs of a suite or of a shard; uses `NodeIds` and `Shards` |
| `MCSelection` | the projects it is checked with |
| `SelectionProofs` | the theorems about shards, rootdirs and reruns |
| `FailureThreshold` | `_threshold.py` as operators on the counters of a result |
| `ThresholdLaws` | the laws of the verdict, over all results and the step "one more test passes" |
| `Reports` | both parsers, from a report to counters, outcomes and failed ids |
| `Verdicts` | a run, its report, what may get lost of it, the parser and the threshold; extends `ThresholdLaws` and `Reports` |
| `MCVerdicts` | the rates and caps it is checked with |
| `VerdictsProofs` | the theorems about the threshold and the parsers |
| `RecursionTheorems` | induction over the numbers, recursive functions, greatest and least numbers: what the proofs about sequences rest on |

Operators whose comment begins with `Bug:` are not part of any specification: each
is a definition of the module as a plausible slip in the code would have it.
`PROJECT.json` pairs each with a property it violates.

### SubprocessRunner

Threads are workers, which call `run()`, parse and `cleanup(success)` as `execute()`
does and may then run again (a rerun round), and killers, which call `cancel()` and
`cleanup(success=False)` once, as `on_kill()` does. `pc[t]` is the statement a thread
is about to execute. A block under `with self._lock` is one step (`Enter`, `Leave`,
`Register`, `Unregister`, `Cancel`, `Claim`), and so is each system call and each
unlocked assignment that another thread can see (`RequestReport` assigns
`_created_report_dir` without the lock; `MakeDirs` follows it). `run`'s number
stands for its temp dir and child, so the shared attributes hold a run number or 0
for `None`. `_terminate` is one machine (`Poll` to `KillDirect`) that any thread
enters with the handle it holds (`target`) and a step to return to (`back`).

A caller that `run()` rejects goes on to its own cleanup, a third claimant of the
directory (`Reject`). A parsed report is green or red (`Parsed`), and only a green one
makes a cleanup report success.

The environment is the child (`ChildExits`, with or without a report, whose directory
a reporter makes anew), descendants (`kids`: some process of the group other than the
child is alive), a group signal that may be refused (`GroupSignalDenied`), and a direct
kill that may fail (`DirectKillDenied`); between SIGTERM and SIGKILL the child may exit
or ignore the signal, so the grace period may end either way. An asynchronous exception
(`Interrupt`) may strike a worker at any step in `InterruptAt`, which may hold every
step but an idle one: around `proc.wait()` it is handled, in a termination it cuts that
short, elsewhere it goes to `run()`'s finally, to `execute()`'s, or is swallowed by
`_safe_cleanup`. Where it breaks a promise is named: `OrphanWindows`, `LeakWindows`,
`CancelWindows`, `FlagWindow`. A report lives in the temp dir (`home = "fallback"`), at a path
of the user's that all runs share (`"own"`), or is not declared (`"none"`).

Left out: the resolution of targets, cwd and environment (they can only raise,
`Raise`), a start of the drainer threads that fails, `_kept_report_dir` (it is only
logged), and Windows.

### KilledTask

The same steps, with one worker and one kill, in the order `execute()` gives them:
a round follows the first run or one whose report was parsed (`MayEnter`), a cleanup
may come between two rounds (`TaskCleanup`). Each critical section of the worker is
split into `TakeLock` and the section, so that a signal can arrive with the lock held.

`delivery = "thread"` runs `on_kill` beside `execute()`; `"signal"` runs it in a
handler, and `execute()` stands still until the handler is done. The handler then
returns (`HandlerReturns`) or raises (`HandlerRaises`), and the exception strikes the
step `execute()` was in (`StrikeParserRequest`, `StrikeExecute`, `StrikeSwallowed`:
the strikes of `SubprocessRunner`, with `execute()`'s finally around them). `hit`
remembers at which step of the worker the kill came to its cleanup, `known` whether
its cancel had found the handle of that run.

### OutputDrain

The two drainers with bounded pipes. A chunk is what `readline()` returns: a length
and whether it is only a line break. A drainer reads, keeps the chunk or what fits,
counts, emits; the text is appended before it is counted, and the runner reads text
and flag after a join that may run out of time (`late`), so every order of these is
there. Output that cannot be decoded (`ReadFails`), a sink that raises (`SinkRaises`),
and descendants that keep the pipes open and go on writing (`heirs`) are modelled. Left
out: the characters, the wording of the marker, a sink that never returns.

### PytestOperator

`cfg` is a record of the arguments that reach a branch of `execute()`, with two
facts about the context (are the ids there, are `try_number` and `max_tries`), two
about the file system (does `test_path` exist here, which ids are not found), and two
sets of what may go wrong: `faulty`, the operations the Variable may refuse, and
`mishaps`, the ways a run may end. They are part of the state so that one run checks
every combination and each property names the conditions it needs (`Readable`,
`Consumable`, `ByThemselves`, `Untroubled`).

A step is what happens between two points where a worker can die: `Read`, `Consume`,
`FirstRun`, each `Rerun` round, `Decide`, `Write`, and the end; `Crash` is enabled at
each of them, and `Over` is Airflow's retry. A pytest run is one step that picks any
outcome pytest can have: everything ran, nothing was collected, modules failed to
import (exit 2, unlisted by the JSON parser), and, by `mishaps`, a stop at the
first failure (`"stop"`), exit 2 or 3 in the middle (`"interrupt"`), an import failure
in a run of chosen tests (`"collect"`), `--continue-on-collection-errors`
(`"continue"`, and `"unlisted"` with a JSON report, whose collectors the parser does
not read). A missing or unreadable report, exit 4 and a timeout are `RunRaises`.
A failed import is listed under the module's id, which has no `::` and no selector.
`latest` is a ghost: what became of each id the last time it ran. `execute()` never
knows it; the properties compare its verdict with it.

Left out: command-line flags (markers, coverage, xdist, cache; the rootdir is in
`Selection`), skipped tests, duplicates and the order of ids, and the runner's cleanup
calls, which are steps of the worker in `SubprocessRunner`.

### NodeIds, Shards and Selection

A path is a sequence of names. `Split` loses what the code loses: a slash and a dot
in a folder's name both become a separator, and only a suffix in brackets protects the
`::` of a parameter. `Converted` cuts the dotted id before its first class-like
segment. `Selection` holds a project (test files with their tests, `test_path`, a
`--rootdir` of the user's, and which directories hold a file pytest is configured by, a
file of a name `reselect` knows, a `pyproject.toml` without pytest's table, a
`setup.py`), the ids of the latest report, and the rootdir pytest used. pytest's own
choice of a rootdir (`DerivedRootdirs`) is a search above all its arguments, then for a
`setup.py`, then above each argument; where it hangs on their order it is any of them. `Plan` is `reselect`; `Hit` is pytest's reading of a
selector; `Rerun` is a round of `rerun_failed`, `Retry` an attempt under `failed_only`,
`FirstRun` the whole suite or one shard of it as cut by `Shards`. Left out: a `cwd` or
a `-c` of the user's.

### FailureThreshold, Reports and Verdicts

A result is its six counters and exit code. `min_pass_rate` is a fraction and rates
are compared by cross-multiplication, so the model decides exactly what the code
decides up to the rounding of floats; `pass_rate`'s correction past 9e15 tests is
what makes the float agree with the fraction at 1. A JSON report is its summary (a
function from the keys it has) and the outcomes of `tests[]`, a JUnit report the set of
child elements of each testcase. `Verdicts` starts from a run of pytest and takes one
thing away from its report: a key, the value of a key, the summary, entries.


## What is checked

| Run | Instance | Shows |
|---|---|---|
| `RunnerKills` | 2 workers, 1 kill, 2 runs with a timeout, policy `always`, group signals may be refused, exceptions at `wait` | `TypeOK`, `SingleRun`, `NoOrphan`, `CancelHonoured`, `ClaimedOnce`; the refinement `IsRunner` |
| `RunnerLive` | 1 worker, 1 kill, 2 runs with and without a timeout, three policies, exceptions at `mkdtemp`, `launch`, `wait` and `report`, fairness | `NoLeakBeforeKill`, `KeptByPolicy`, `TimeoutEndsRun`, `KillReturns`; `IsObedientRunner`: a run asked to stop stops |
| `KilledTask` | 2 runs, kill by thread or signal, an exception at any step, report in the temp dir, at a fixed path or none, fairness | `NoOrphanAfterKill`, `NoDirAfterKill`, `LastRound`, `HandlerEnds`, `KillEndsRun` |
| `OutputDrain` | 2 streams, limits 0-2, chunks of at most 2, 2 writes each, a pipe of 1, fairness | `TextHonest`, `LiveAgrees`, `NeverCutOff`, `NeverBlocked`, `Returns` |
| `OperatorRetries` | 3 tests in 2 modules, 3 attempts, 2 reruns, every setting, store faults, crashes, fairness | `NoFalseGreen`, `NothingDropped`, `NarrowedExact`, `NoOrphanVariable`, `RecoveredHonest`, `ToleranceHonest`; the refinement `IsRetrier`, and its liveness `IsDecisive` |
| `Selection` | every pair out of 12 tests and one set of four, ten arrangements of config files, four suites, up to 3 shards, 2 rounds | `FairShares`, `RerunExact`, `RootdirKept` |
| `Verdicts` | counters -1..3, runs of up to 3 tests with seven outcomes, five rates, three caps | `ZeroCapIsStrict`, `RateOneIsStrict`, `PassingNeverHurts`, `ParsersAgree`, `DriftIsRed` |

Deadlock is checked except in `Selection` and `Verdicts`, which stop when the rounds
are used up and when a report has lost something; elsewhere a state at rest has a
step that says so (`AtRest`, `Rest`, `Over`). Symmetry is used by `RunnerKills` only,
whose properties are safety.

The bounds. A timeout of one worker and a kill are two terminators of one child, and
the worker's cleanup, the kill's and another caller's are three claims of one
directory; a second kill does what the first does, and the proofs below allow any
number. Two runs let every leftover of a run (flag, handle, directory, claim, report)
meet the next one. Limits 0, 1 and 2 with chunks of length 2 put the cap before, in
the middle of and after a chunk, and the second write comes when the cap is already
reached; a pipe of one chunk is full as soon as anything is in it. Three attempts are
a first, one that narrows, and one that reads what a narrowed attempt left; three
tests in two modules are one that is recovered or dropped, one that is not, and one
that separates a cap from its neighbours. Two rounds of reruns separate "last" from
"first" and leave one in the middle of the loop. Pairs of tests suffice for what a
name can be confused with, a second name; four tests into three shards leave a
remainder. The ten arrangements put a config file
nowhere, at the root, above it and below it, at one of two targets and at both, and add
each kind of file that pytest and `_CONFIGS` disagree on. The report homes other than
the temp dir are in `KilledTask` and `RunnerStaleReport`. Counters up to 3 separate every comparison in `check()` from its off-by-one;
-1 is any negative one. The proofs below remove every one of these bounds for
everything but the properties under fairness.

### Fairness

* `RunnerLive`, `KilledTask`: a thread that is inside a call keeps running. Python
  schedules its threads, and every wait in these calls except `proc.wait()` without a
  timeout has a bound (the grace period, the join). Nothing is assumed of the child,
  its descendants, the callers, or that a kill ever comes. A signal handler may return
  or raise; only that it does one of the two is assumed.
* `OutputDrain`: the runner and the drainers are scheduled, and `on_output` comes
  back, with an exception or without. The child need not write or exit.
* `OperatorRetries`: Airflow starts the attempts it owes, and an attempt proceeds or
  dies.

### Refinements

* `SubprocessRunner` implements `RunnerContract`: `busy` is `_running`, `stop` is
  `_cancelled`, `live` the set of runs whose child has not exited. The contract has no
  directories, groups, timeouts, threads: most steps are stutters. `Die` is a child that
  exits or is killed, and `End` asks for no live child, which is what the many ways out
  of `run()` must not violate. `ContractFairSpec` adds that a run asked to stop loses
  its child and ends, and follows from the runner's own fairness.
* `PytestOperator` implements `RetryContract`: `open` is what has not passed the last
  time it ran (from the ghost `latest`, not from anything `execute()` computes),
  `lenient` says that the author tolerates failures, or that the conditions of
  `Reliable` are not met and nobody guards the promise. `IsRetrier` is the safety half;
  `IsDecisive` is the contract's fairness: a task that owes a step takes it.

### What the passing runs exclude

Each exclusion is there because the property fails without it.

* `NoOrphan`, `IsRunner` and an exception in `OrphanWindows`: raised between `Popen`
  and the registration (674-716), or inside the worker's own `_terminate` (a timeout's,
  828, or an early cancel's, 720), it leaves a child nobody waits for.
  `NoOrphanAfterKill` has the first window only: a handler that finds a handle has
  terminated the child before it raises.
* `CancelHonoured` and an exception that cuts a termination short or keeps the handle
  from being withdrawn (`CancelWindows`); `SingleRun` and one that strikes `run()`'s
  finally, after which the flag is set for good and every later call is rejected
  (`FlagWindow`).
* `NoLeakBeforeKill` and an exception in `LeakWindows`: between `mkdtemp()` and the
  assignment of `_created_report_dir` (578-592), which only `report_request` guards;
  inside the cleanup, before the claim or in `rmtree` (984-1012); and in the orphan
  windows, where the child outlives the cleanup and its reporter makes the directory
  anew. The runs have exceptions at steps outside these windows; the proofs have every
  one. The property ends with the kill's cleanup, since `makedirs` may bring the
  directory back (`RunnerKillLeak` below). `NoDirAfterKill` names that window and three
  more: a child the kill found no handle to, alive at its cleanup, which makes the
  directory anew; and an exception that cuts off the assignment (592) or the removal
  (1012).
* `LastRound` speaks of a kill by signal that finds the run, or its report, being
  worked on, and of a report in the temp dir. Between two rounds the kill is forgotten
  when `run()` resets `_cancelled` (508); with `report_dir` the report of the killed
  run may survive and be parsed; and an exception that lands inside `_safe_cleanup` is
  swallowed there. In each of these cases `execute()` may start another round.
* `HandlerEnds` excludes a signal that arrives while the same thread holds `_lock`:
  the handler then waits for itself (`SelfDeadlock`). It says that nothing else blocks
  the handler, not that this deadlock cannot happen.
* `KeptByPolicy` and `NoLeakBeforeKill` with a second worker: the runner has one
  `_created_report_dir`, and a caller's cleanup removes the directory of whoever ran
  last: a caller that `run()` rejects may take the directory of the one that is running.
* `NoFalseGreen` and a `"read"` fault: an attempt that cannot read the Variable does
  not delete it; if it then dies, or cannot write its own failures over it, the next
  attempt trusts the set of the attempt before.
* `NoFalseGreen` and `"stop"` or `"interrupt"`: a retry narrowed to c1 and c2 that is
  cut short after c2 hands c2 forward alone, and c1 is never run again (603).
* `NoFalseGreen`, `NothingDropped`, `IsRetrier` and `"unlisted"`: a run with
  `--continue-on-collection-errors` and a JSON report lists the test that failed and not
  the module that did not import (`json_parser.py:137-152` reads `tests[]` only). A
  rerun or a narrowed retry of that test alone passes, and the task is green though the
  module never ran, which `tests/operator/test_op_rootdir.py:210-214` calls the worst
  outcome for a test operator. With JUnit, the default parser, the module is listed.
* `RecoveredHonest` and runs that do not do all they were given: what is then reported
  as recovered is shown by `OperatorRerunCollect` and `OperatorStopOnFirst` below.
* `NoOrphanVariable` and a `"read"` fault: the delete is inside `if prior:` (397), so
  a last attempt that cannot read does not delete either.
* `RerunExact` and `RootdirKept` hold where the rootdir of a run of the whole
  `test_path` is one the code infers (`Anchored`): the common directory of the targets,
  or one above it with a file of `_CONFIGS`. With targets `a/b` and `a/c` and a config
  file in `a/b` only, pytest's rootdir is `a/b`: the ids are not found from the common
  directory upward, the failures are stuck or the whole share runs again. With a
  `setup.py` or a `.pytest.ini` above, which `_CONFIGS` (`_reselect.py:128`) lacks,
  nothing is pinned and a config file on the way to the failed test takes the narrowed
  run's rootdir over, although "not pinning is always safe" (140).
* `RerunExact` and `RootdirKept` hold of layouts with `NoEcho`. With a config file at
  `a`, a shard of `a/b`, and both `a/b/m` and `a/b/b/m`, the deepest base that has the
  file is the wrong one: the rerun runs the other test, and a test that failed counts
  as recovered. With `a/v1.2/m` and `a/v1/2/m` the dotted id of the one is converted
  into the file of the other, with the same effect. A name outside the convention of
  `utils/node_id.py` (`Conventional`) may be out of a selector's reach; `RerunExact`
  then asks that this is known. A `--rootdir` of the user's is taken to hold the suite.
* `ParsersAgree` is about tests. Of a module that failed to import a JSON report lists
  nothing under `tests[]` and a JUnit report an error, so there the formats disagree.
* `DriftIsRed` does not speak of a cap above zero whose report lost the failures it
  counts, of a rate of 0 whose report lost its skips, or of unknown outcomes when the
  whole summary is lost; the last is in tension with the comment at
  `reporters/json_parser.py:42-50`. Two losses at once are not modelled.

One more disagreement is noted and not modelled: `has_flag` is said to find an option
"in any spelling" (`operators/_constants.py:150-157`) and does not see one inside a
cluster of short ones (`-xn4`, `-vk expr`).

### Where the code and its words disagree

Five further runs end in a counterexample. Each is the disagreement `PROJECT.json`
quotes, and each is a run of the same modules with one more thing allowed.

| Run | Shortest story |
|---|---|
| `RunnerTree` | `cancel()` sends SIGTERM; the child exits in the grace period, a descendant that ignores it or started after it does not, nobody sends SIGKILL |
| `RunnerKillLeak` | the kill's cleanup removes the temp dir, `makedirs` brings it back, nobody knows it |
| `RunnerStaleReport` | fixed `report_dir`: a run that wrote nothing parses the report of the run before |
| `OperatorRerunCollect` | a module breaks during a rerun; its tests did not run and are "recovered" |
| `OperatorStopOnFirst` | `-x` and two rounds: the round stops at c1, c2 is forgotten, c1 passes, green |

## What is proved

`SubprocessRunnerProofs` (every set of threads, number of runs and configuration):

* `TypeCorrect`: `Spec => []TypeOK`. The induction needs `Numbered` (a worker inside
  a call has a run), else `disk \cup {run[w]}` would not be typed.
* `OneRun`: `Spec => []SingleRun`, if no exception strikes in `FlagWindow`. The
  inductive invariant is `RunInv`: besides the exclusion (`Exclusive`, whatever an
  exception strikes), that a worker in `_terminate` holds the child of its own run and
  returns to a step of `run()` (`TargetOwn`), and, outside the windows, that a set flag
  has a worker inside `run()` (`FlagCurrent`) and a published handle belongs to one that
  has yet to withdraw it (`ProcCurrent`). Without `TargetOwn` a termination could return
  somewhere outside `run()`.
* `NoOrphans`: `Spec => []NoOrphan`, assuming that no exception strikes in
  `OrphanWindows` and that a child can be killed directly. The exclusion above shows
  that the first assumption is needed.
* `NoLostCancel`: `Spec => []CancelHonoured`, assuming that no exception strikes in
  `CancelWindows` and that a child can be killed directly. Both use `RunInv`: only the
  worker that published a handle withdraws it.
* `RunnerImplementsContract`: `Spec => IsRunner`, under the assumptions of `NoOrphans`.
  Besides `RunInv` and `NoOrphan` the step needs `Current`: a worker inside `run()` is
  in the run that was started last, so the child it spawns is the one the contract's
  `Spawn` names, and there is no other (`OneChild`).

`RunnerFilesProofs`:

* `OneClaim`: `Spec => []ClaimedOnce`. A directory that is offered again must be a new
  one; `Aged` says that the run of a worker that has yet to create its own is later
  than every run whose directory is claimed or on offer.
* `NoLeakUntilKilled` and `RemovedByPolicy`, for an instance with one worker (`Sole`),
  as an operator's has: `NoLeakBeforeKill`, if a child can be killed directly and no
  exception strikes in `LeakWindows`, and `KeptByPolicy` whatever fails and whatever an
  exception strikes, for any number of kills. The invariant follows a directory from `mkdtemp` to its claim:
  what is on offer is the directory of the worker's run, what is claimed was claimed
  by a cleanup the policy allows (`Owned`), and until a kill's cleanup what is on disk
  is known to somebody (`Unleaked`).
* `RunConsistent`: `RunInv` is an invariant.

`KilledTaskProofs` (every number of runs, policy and report home, the handler's
exception at any step; one worker and one kill, as a task has):

* `TaskTyping`, `NoDirLeft`, `KillsTheLastRound`: `TaskSpec => []TaskTypeOK`,
  `[]NoDirAfterKill` and `LastRound`. The inductive invariant `TaskInv` says who is
  whose: a handler finds `execute()` standing at `hit` (`Turn`, `Marked`); from the
  request on, the runner's `_created_report_dir` is the directory of the worker's run
  and nobody else's (`Holding`), a run's number is new to the disk until the kill's
  cleanup (`Fresh`), and every directory on disk is somebody's to remove or fell into a
  window the property names (`Accounted`). Since a live child may make its directory
  anew, the last two theorems assume that `proc.kill()` is not refused and follow the
  child too: up to its registration no handle is the run's own (`Unseen`), so a kill
  that comes then is the window's; and whoever may make the directory again,
  `makedirs` or a live child, does so while it is recorded, or in a window
  (`Watched`). For `LastRound`, `Closing` follows the
  killed round: its report went with its directory and no child is left to write
  another, so it ends in an outcome after which `execute()` starts no other.
* `NoOrphanLeft`: `TaskSpec => []NoOrphanAfterKill`, assuming that `proc.kill()` is not
  refused; with a refusal the property fails. `Stopping` says that a handler
  terminates the child whose handle was published when it struck, since `execute()`
  stands still meanwhile; `Answered` that every live child has the worker or is the
  orphan of the one window.

`OutputDrainProofs` (every limit, chunk length, number of writes and pipe size): the
invariant `DrainInv` (`DrainInvariant`) accounts for each chunk that was written. Below
the cap the buffer, the chunk in hand and the pipe make up the output (`Carried`), the
count lags the buffer by the chunk in hand and the cut follows the count (`Counted`),
the live view lags the buffer by the same chunk (`Streamed`), a drainer stops only at
the end or at a failed read (`Closing`), and what the runner has of a stream depends on
whether it joined it in time (`Collected`). From it follow `DrainTyping`
(`[]DrainTypeOK`), `HonestText` (`[]TextHonest`), `LiveIsText` (`[]LiveAgrees`) and
`OpenToWriters` (`[]NeverCutOff`). What `Size` and `Lines` do to a concatenation are
lemmas, by induction over its length.

`PytestOperatorProofs` (every suite of modules with tests, every set of operators,
number of retries and reruns):

* `TypeCorrect`: `Spec => []TypeOK`. The induction needs `Room`: a rerun loop has a
  round left, an attempt waiting to start has a try left.
* `GreenIsGreen`: `Spec => []NoFalseGreen` and `NothingForgotten`:
  `Spec => []NothingDropped`. Where a property asks for `Reliable`, runs end by
  themselves (no `-x`, no interruption; collection errors are allowed, if the report of
  a run that goes on after them lists them) and the Variable can be read. Writes and deletes may fail and a worker may die at any step. The
  inductive invariant `GreenInv` follows the set of failures around its loop: what
  counts as failing accounts for all that is outstanding, or contains something no
  retry can narrow to, or is empty in a run that is not green (`Accounted`); so a
  stored set a retry can narrow to reaches all that is outstanding (`StoreCovers`), and
  so do the targets of an attempt (`TargetsCover`). A Variable whose deletion failed
  stays while tests run; `StoreKept` says that the attempt is then running what the
  next one will make of it, so `StoreCovers` survives the run.
* `ConsumedBeforeRun`: `Spec => []ConsumedFirst` and `NoneLeft`:
  `Spec => []NoOrphanVariable`, where reads and deletes work (`Consumable`). The
  invariant is `StoreLife`: the Variable exists from a write to the next consume, and
  a verdict that hands failures forward is a red, not final one.
* `OperatorImplementsContract`: `Spec => IsRetrier`. Its one hard step is `Accept`: a
  success is green by `NoFalseGreen`, so nothing is open.

The same module, as long as runs do all they were given (`Untroubled`):

* `RecoveredIsPassed`: `Spec => []RecoveredHonest`. The invariant (`Cleared`) is that
  in the rounds whatever the first run failed and is neither pending nor stuck has
  passed.
* `NarrowedToOutstanding`: `Spec => []NarrowedExact`, where the Variable can be read and
  deleted. `NothingDropped` is the one inclusion; for the other `StillOpen` says that
  what is stored, counted as failing or chosen has indeed not passed. It needs that
  failed modules are stuck at once: a round of a test of theirs would import them, and
  what is handed forward would no longer be outstanding.
* `ToleranceHolds`: `Spec => []ToleranceHonest`, where the Variable can be read. With
  `TargetsCover`, the first run of the last attempt lists all that is outstanding, and
  the rounds only take away (`FirstTells`); `WithinCap` counts.

`SelectionProofs` (every project, number of shards and number of rounds):

* `SharesAreFair`: `ShardSpec => []FairShares` for every number of ids and shards. The
  invariant of the loop gives `start` after i groups in closed form (`HandedOut`), from
  which the last group is seen to end at the last id. `SuiteShared` says the same of
  the shards inside `SelectionSpec`.
* `RootdirStays` and `RerunsExact`: `SelectionSpec => RootdirKept` and
  `SelectionSpec => RerunExact`. The invariant (`SelectionInv`, `ReportsFaithful`) is
  that, without an echo and under a rootdir that can be inferred (`Anchored`), the ids
  the operator holds are those of tests of its share relative to the rootdir of a run of
  the whole share (`Faithful`). The step has two
  halves. Where an id leads: `ConvertedLemma` computes the way from a test to its dotted
  id and back, segment by segment (`SegmentsExact`), and `LookupLemma` finds that
  `_locate` then either reaches the test's own file from the rootdir, or nothing, and
  that in the second case the name breaks the convention. What the rootdir is:
  `RootLemma` and `RootdirLemma` show that such a rootdir is one directory, the
  suite's root or a parent of it (`Settled`), and one that `_plausible_rootdir` accepts:
  it is pinned, whatever the narrowed run would derive.
* The assumption `LayoutsAssumption` says what a project is (finitely many tests that
  differ by name, targets that exist), `DottedAssumption` that the pieces of a dotted
  name have no dot. Outside `NoEcho` or `Anchored` both properties fail, as told above; an earlier,
  weaker `NoEcho` that held of every tree TLC was given did not survive the proof, which
  is how the dotted twin was found.

`VerdictsProofs`:

* `ZeroCap`, `RateOne`, `Skipping` and `Passing`, the laws for every counter, rate and
  cap. `LawsInv` only says that the counters are numbers: the laws are facts about
  `Breached`, and the one about a step (`Passing`) rests on `BetterLemma` and on
  `ReachLemma`, the only multiplication of two unknowns. `VerdictsLaws` repeats them
  beside the reports.
* `FormatsAgree` and `LossIsRed`: `VerdictsSpec => []ParsersAgree` and `[]DriftIsRed` for
  runs of any number of tests. The invariant `VerdictInv` (`VerdictsAccount`) ties the
  counters to the whole report and the report at hand to the whole one but for one loss
  (`Worn`). The rest is counting: how often an outcome occurs in a sequence of tests is
  a cardinality, and cutting or translating the sequence changes it as it should.

`Skipping` and `ConsumedBeforeRun` are proved and not run.

`RecursionTheorems` is what lets these proofs reach recursive functions. The library's
induction theorems take an operator as a parameter, which none of the provers can
instantiate; `SetInduction` says the same of a set, and is proved by the pigeonhole
principle. `RecursionSolved` and `RecursionUnique` then give a recursive function its
equation, and induction over a length is induction over a set of numbers.

### What is only model-checked

Every invariant of the passing runs, the refinements `IsRunner` and `IsRetrier`, and
every action property (`LastRound`, `RerunExact`, `RootdirKept`, `PassingNeverHurts`)
has a theorem. What remains with TLC are the eight properties under fairness
(`IsObedientRunner`, `IsDecisive`, `TimeoutEndsRun`, `KillReturns`, `HandlerEnds`,
`KillEndsRun`, `NeverBlocked`, `Returns`): they need `ENABLED`, which the provers do not
expand. The counterexamples of the five runs under "Where the code and its words
disagree" are TLC's too.

## Not modelled

* Argument validation (`_validation.py`) but for the ranges of `min_pass_rate` and
  `max_failed`: each check looks at one value and keeps no state.
* The splicing of pytest's flags (`_constants.py`, `pytest_operator.py`), except
  `--rootdir`: its rules are pytest's option parser's.
* `compat`, `exceptions`, `provider_info`: imports by version, classes, a dictionary.
* The text work: env files and the resolution of cwd and targets before a run has any
  effect (a failure there is `Raise`), decoding of the report (`_safe_open.py`), the
  TOTAL row of a coverage table, durations, messages, log lines, the Variable's hash.
* Windows, reused pids, a drainer thread that cannot be started, symbolic links.
* The example DAGs; the sharded one is the caller that `Shards` and `Selection` assume.
