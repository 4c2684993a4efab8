-------------------------- MODULE SubprocessRunner --------------------------
(***************************************************************************)
(* One instance of runners/subprocess_runner.py: run(), cancel(), cleanup()*)
(* and _terminate(), used by worker threads the way execute() uses it      *)
(* (run, parse, cleanup, perhaps again for a rerun round) and by killer    *)
(* threads the way on_kill() does (cancel, then cleanup(success=False)).   *)
(*                                                                         *)
(* A block under `with self._lock` is one step; so is each system call and *)
(* each unlocked assignment another thread can observe.  Between steps the *)
(* other threads, the pytest child and its descendants move.               *)
(*                                                                         *)
(* Run n owns temp dir n and child n, so a run number stands for all three;*)
(* 0 stands for Python's None.                                             *)
(***************************************************************************)
EXTENDS Integers, FiniteSets

CONSTANTS
  Workers,            \* threads that call run() and then cleanup()
  Killers,            \* threads that call on_kill(), once each
  MaxRuns,            \* bound on the number of accepted run() calls
  Policies,           \* cleanup= values an instance may be built with
  ReportHomes,        \* where the parser may put its report, see Homes
  Timeouts,           \* whether timeout= is given: a subset of BOOLEAN
  InterruptAt,        \* worker steps an asynchronous exception may hit
  GroupSignalDenied,  \* killpg may fail with an OSError such as EPERM
  DirectKillDenied    \* and so may the fallback proc.kill()

Homes == {"fallback", "own", "none"}

TerminateSteps == {"poll", "term", "grace", "kill", "direct"}
RunSteps == {"resolve", "mkdtemp", "request", "makedirs", "launch", "register",
             "wait", "unregister", "join", "report", "leave"}
WorkerSteps == RunSteps \cup {"idle", "parse", "cleanup", "remove"}
KillerSteps == {"idle", "check", "cleanup", "remove", "done"}
Steps == WorkerSteps \cup KillerSteps \cup TerminateSteps

ASSUME ThreadsAssumption == Workers \cap Killers = {}
ASSUME MaxRunsAssumption == MaxRuns \in Nat
ASSUME ConfigAssumption ==
  /\ Policies \subseteq {"always", "on_success", "never"}
  /\ ReportHomes \subseteq Homes
  /\ Timeouts \subseteq BOOLEAN
  /\ InterruptAt \subseteq (WorkerSteps \ {"idle"}) \cup TerminateSteps
  /\ GroupSignalDenied \in BOOLEAN
  /\ DirectKillDenied \in BOOLEAN

Threads == Workers \cup Killers
Runs    == 1..MaxRuns
NoRun   == 0
MaybeRun == 0..MaxRuns

VARIABLES
  \* the configuration of the instance, fixed by its constructor
  policy, home, timed,
  \* the attributes of the runner that its threads share
  running, cancelled, proc, created,
  \* threads: step, handle held by _terminate, where it returns, dir claimed
  pc, target, back, claim,
  \* workers: current run, how it ended, writer of the report that was parsed
  run, outcome, got,
  \* the operating system: children, descendants, temp dirs, report files
  started, child, kids, disk, report, userReport

config  == <<policy, home, timed>>
shared  == <<running, cancelled, proc, created>>
threads == <<pc, target, back, claim>>
workers == <<run, outcome, got>>
procs   == <<child, kids>>
files   == <<disk, report, userReport>>
vars    == <<config, shared, threads, workers, started, procs, files>>

Returns == {"wait", "unregister", "cleanup"}
ChildStates == {"none", "running", "zombie", "reaped"}
Outcomes == {"none", "rejected", "error", "timeout", "interrupted",
             "noreport", "report", "passed", "failed"}
Parsed == {"passed", "failed"}   \* what a report that was parsed says

TypeOK ==
  /\ policy \in Policies /\ home \in ReportHomes /\ timed \in Timeouts
  /\ running \in BOOLEAN /\ cancelled \in BOOLEAN
  /\ proc \in MaybeRun /\ created \in MaybeRun
  /\ pc \in [Threads -> Steps]
  /\ target \in [Threads -> MaybeRun]
  /\ back \in [Threads -> Returns]
  /\ claim \in [Threads -> MaybeRun]
  /\ run \in [Workers -> MaybeRun]
  /\ outcome \in [Workers -> Outcomes]
  /\ got \in [Workers -> MaybeRun]
  /\ started \in MaybeRun
  /\ child \in [Runs -> ChildStates]
  /\ kids \in [Runs -> BOOLEAN]
  /\ disk \subseteq Runs /\ report \subseteq Runs
  /\ userReport \in MaybeRun

Init ==
  /\ policy \in Policies /\ home \in ReportHomes /\ timed \in Timeouts
  /\ running = FALSE /\ cancelled = FALSE /\ proc = NoRun /\ created = NoRun
  /\ pc = [t \in Threads |-> "idle"]
  /\ target = [t \in Threads |-> NoRun]
  /\ back = [t \in Threads |-> "cleanup"]
  /\ claim = [t \in Threads |-> NoRun]
  /\ run = [w \in Workers |-> NoRun]
  /\ outcome = [w \in Workers |-> "none"]
  /\ got = [w \in Workers |-> NoRun]
  /\ started = 0
  /\ child = [r \in Runs |-> "none"]
  /\ kids = [r \in Runs |-> FALSE]
  /\ disk = {} /\ report = {} /\ userReport = NoRun

Goto(t, step) == pc' = [pc EXCEPT ![t] = step]
Move(t, from, to) == pc[t] = from /\ Goto(t, to)

\* The exception that leaves _run_locked reaches run()'s finally.
Fail(w, how) ==
  /\ Goto(w, "leave")
  /\ outcome' = [outcome EXCEPT ![w] = how]

\* Enter _terminate(r) and come back at the given step.
Terminating(t, r, return) ==
  /\ Goto(t, "poll")
  /\ target' = [target EXCEPT ![t] = r]
  /\ back' = [back EXCEPT ![t] = return]

\* waitpid() collects a child that has exited.
Reaped(c, r) == IF c[r] = "zombie" THEN [c EXCEPT ![r] = "reaped"] ELSE c

----------------------------------------------------------------------------
(* run() *)

\* Bug: run() does not look at _running.
EnterUnchecked(w) ==
  /\ pc[w] = "idle" /\ started < MaxRuns
  /\ running' = TRUE /\ cancelled' = FALSE /\ started' = started + 1
  /\ run' = [run EXCEPT ![w] = started + 1]
  /\ outcome' = [outcome EXCEPT ![w] = "none"]
  /\ got' = [got EXCEPT ![w] = NoRun]
  /\ Goto(w, "resolve")
  /\ UNCHANGED <<config, proc, created, target, back, claim, procs, files>>

Enter(w) ==
  /\ pc[w] = "idle" /\ ~running /\ started < MaxRuns
  /\ running' = TRUE
  /\ cancelled' = FALSE
  /\ started' = started + 1
  /\ run' = [run EXCEPT ![w] = started + 1]
  /\ outcome' = [outcome EXCEPT ![w] = "none"]
  /\ got' = [got EXCEPT ![w] = NoRun]
  /\ Goto(w, "resolve")
  /\ UNCHANGED <<config, proc, created, target, back, claim, procs, files>>

\* A second run() on an instance that is running is refused; its caller goes
\* on to the cleanup in its finally.
Reject(w) ==
  /\ pc[w] = "idle" /\ running
  /\ Goto(w, "cleanup")
  /\ outcome' = [outcome EXCEPT ![w] = "rejected"]
  /\ UNCHANGED <<config, shared, target, back, claim, run, got, started, procs, files>>

\* Target filtering and the environment are resolved before any side effect.
Resolve(w) ==
  /\ Move(w, "resolve", "mkdtemp")
  /\ UNCHANGED <<config, shared, target, back, claim, workers, started, procs, files>>

\* No usable target, a bad env_file, a report directory that cannot be made,
\* an interpreter that cannot be launched.
Raise(w) ==
  /\ pc[w] \in {"resolve", "launch"} \cup IF home = "none" THEN {} ELSE {"makedirs"}
  /\ Fail(w, "error")
  /\ UNCHANGED <<config, shared, target, back, claim, run, got, started, procs, files>>

Mkdtemp(w) ==
  /\ Move(w, "mkdtemp", "request")
  /\ disk' = disk \cup {run[w]}
  /\ UNCHANGED <<config, shared, target, back, claim, workers, started, procs,
                 report, userReport>>

\* Bug: a parser that raises leaves the fallback directory behind.
ParserRaisesNoRmtree(w) ==
  /\ pc[w] = "request"
  /\ Fail(w, "error")
  /\ UNCHANGED <<config, shared, target, back, claim, run, got, started, procs, files>>

ParserRaises(w) ==
  /\ pc[w] = "request"
  /\ Fail(w, "error")
  /\ disk' = disk \ {run[w]}
  /\ UNCHANGED <<config, shared, target, back, claim, run, got, started, procs,
                 report, userReport>>

\* The parser names the report file; whether that lies in the fallback dir
\* decides who owns it.  The assignment to _created_report_dir takes no lock.
RequestReport(w) ==
  /\ Move(w, "request", "makedirs")
  /\ created' = IF home = "fallback" THEN run[w] ELSE NoRun
  /\ disk' = IF home = "fallback" THEN disk ELSE disk \ {run[w]}
  /\ UNCHANGED <<config, running, cancelled, proc, target, back, claim, workers,
                 started, procs, report, userReport>>

\* makedirs(exist_ok=True) brings back a temp dir a cleanup has removed.
MakeDirs(w) ==
  /\ Move(w, "makedirs", "launch")
  /\ disk' = IF home = "fallback" THEN disk \cup {run[w]} ELSE disk
  /\ UNCHANGED <<config, shared, target, back, claim, workers, started, procs,
                 report, userReport>>

Launch(w) ==
  /\ Move(w, "launch", "register")
  /\ child' = [child EXCEPT ![run[w]] = "running"]
  /\ UNCHANGED <<config, shared, target, back, claim, workers, started, kids, files>>

\* Bug: a cancel that came before the registration is not looked for.
RegisterUnchecked(w) ==
  /\ pc[w] = "register"
  /\ proc' = run[w]
  /\ Goto(w, "wait")
  /\ UNCHANGED <<config, running, cancelled, created, target, back, claim, workers,
                 started, procs, files>>

\* Publish the handle and, in the same critical section, look for a cancel
\* that came too early to find it.
Register(w) ==
  /\ pc[w] = "register" /\ ~cancelled
  /\ proc' = run[w]
  /\ Goto(w, "wait")
  /\ UNCHANGED <<config, running, cancelled, created, target, back, claim, workers,
                 started, procs, files>>

RegisterCancelled(w) ==
  /\ pc[w] = "register" /\ cancelled
  /\ proc' = run[w]
  /\ Terminating(w, run[w], "wait")
  /\ UNCHANGED <<config, running, cancelled, created, claim, workers, started, procs, files>>

WaitReturns(w) ==
  /\ pc[w] = "wait" /\ child[run[w]] \in {"zombie", "reaped"}
  /\ Goto(w, "unregister")
  /\ child' = Reaped(child, run[w])
  /\ UNCHANGED <<config, shared, target, back, claim, workers, started, kids, files>>

\* Bug: the timeout path skips the finally that clears _proc.
WaitExpiresNoFinally(w) ==
  /\ pc[w] = "wait" /\ timed
  /\ outcome' = [outcome EXCEPT ![w] = "timeout"]
  /\ Terminating(w, run[w], "join")
  /\ UNCHANGED <<config, shared, claim, run, got, started, procs, files>>

WaitExpires(w) ==
  /\ pc[w] = "wait" /\ timed
  /\ outcome' = [outcome EXCEPT ![w] = "timeout"]
  /\ Terminating(w, run[w], "unregister")
  /\ UNCHANGED <<config, shared, claim, run, got, started, procs, files>>

Unregister(w) ==
  /\ pc[w] = "unregister"
  /\ proc' = NoRun
  /\ Goto(w, IF outcome[w] = "interrupted" THEN "leave" ELSE "join")
  /\ UNCHANGED <<config, running, cancelled, created, target, back, claim, workers,
                 started, procs, files>>

\* Bug: the drainers are joined without a timeout; a descendant that keeps
\* the pipe open blocks the join.
JoinDrainersForever(w) ==
  /\ Move(w, "join", IF outcome[w] = "timeout" THEN "leave" ELSE "report")
  /\ ~kids[run[w]]
  /\ UNCHANGED <<config, shared, target, back, claim, workers, started, procs, files>>

\* The drainer threads are joined for a bounded time, whether they ended or not.
JoinDrainers(w) ==
  /\ Move(w, "join", IF outcome[w] = "timeout" THEN "leave" ELSE "report")
  /\ UNCHANGED <<config, shared, target, back, claim, workers, started, procs, files>>

\* os.path.exists(report_path)
ReportExists(w) ==
  \/ home = "fallback" /\ run[w] \in report
  \/ home = "own" /\ userReport # NoRun

CheckReport(w) ==
  /\ Move(w, "report", "leave")
  /\ outcome' = [outcome EXCEPT ![w] = IF ReportExists(w) THEN "report" ELSE "noreport"]
  /\ UNCHANGED <<config, shared, target, back, claim, run, got, started, procs, files>>

Leave(w) ==
  /\ Move(w, "leave", IF outcome[w] = "report" THEN "parse" ELSE "cleanup")
  /\ running' = FALSE
  /\ UNCHANGED <<config, cancelled, proc, created, target, back, claim, workers,
                 started, procs, files>>

----------------------------------------------------------------------------
(* The caller of run(): parse the report, then cleanup(success) *)

Parse(w) ==
  /\ Move(w, "parse", "cleanup")
  /\ ReportExists(w)
  /\ \E verdict \in Parsed : outcome' = [outcome EXCEPT ![w] = verdict]
  /\ got' = [got EXCEPT ![w] = IF home = "own" THEN userReport ELSE run[w]]
  /\ UNCHANGED <<config, shared, target, back, claim, run, started, procs, files>>

ParseFails(w) ==
  /\ Move(w, "parse", "cleanup")
  /\ outcome' = [outcome EXCEPT ![w] = "error"]
  /\ UNCHANGED <<config, shared, target, back, claim, run, got, started, procs, files>>

\* Bug: "on_success" is taken for "always".
RemovesUnlessNever(success) == policy # "never"

\* The policy's verdict on a directory this runner created.
Removes(success) ==
  \/ policy = "always"
  \/ policy = "on_success" /\ success

\* Bug: the attribute is read but not cleared.
ClaimNotCleared(t, success, idle) ==
  /\ IF created # NoRun /\ Removes(success)
     THEN claim' = [claim EXCEPT ![t] = created] /\ Goto(t, "remove")
     ELSE Goto(t, idle) /\ UNCHANGED claim
  /\ UNCHANGED <<config, shared, target, back, workers, started, procs, files>>

\* Claim the directory under the lock, act on it afterwards.
Claim(t, success, idle) ==
  /\ created' = NoRun
  /\ IF created # NoRun /\ Removes(success)
     THEN claim' = [claim EXCEPT ![t] = created] /\ Goto(t, "remove")
     ELSE Goto(t, idle) /\ UNCHANGED claim
  /\ UNCHANGED <<config, running, cancelled, proc, target, back, workers, started,
                 procs, files>>

\* Only a report without failures can make the caller report success.
WorkerCleanup(w) ==
  /\ pc[w] = "cleanup"
  /\ \E success \in IF outcome[w] = "passed" THEN BOOLEAN ELSE {FALSE} :
       Claim(w, success, "idle")

RemoveDir(t) ==
  /\ Move(t, "remove", IF t \in Killers THEN "done" ELSE "idle")
  /\ disk' = disk \ {claim[t]}
  /\ report' = report \ {claim[t]}
  /\ claim' = [claim EXCEPT ![t] = NoRun]
  /\ UNCHANGED <<config, shared, target, back, workers, started, procs, userReport>>

----------------------------------------------------------------------------
(* on_kill(): cancel(), then cleanup(success=False) *)

Cancel(k) ==
  /\ Move(k, "idle", "check")
  /\ cancelled' = TRUE
  /\ target' = [target EXCEPT ![k] = proc]
  /\ UNCHANGED <<config, running, proc, created, back, claim, workers, started, procs, files>>

\* No handle, or a child that has exited: nothing to do.
CancelNothing(k) ==
  /\ Move(k, "check", "cleanup")
  /\ target[k] # NoRun => child[target[k]] # "running"
  /\ child' = IF target[k] # NoRun THEN Reaped(child, target[k]) ELSE child
  /\ UNCHANGED <<config, shared, target, back, claim, workers, started, kids, files>>

CancelTerminates(k) ==
  /\ pc[k] = "check" /\ target[k] # NoRun /\ child[target[k]] = "running"
  /\ Terminating(k, target[k], "cleanup")
  /\ UNCHANGED <<config, shared, claim, workers, started, procs, files>>

KillerCleanup(k) == pc[k] = "cleanup" /\ Claim(k, FALSE, "done")

----------------------------------------------------------------------------
(* _terminate(target[t]), called without the lock *)

Poll(t) ==
  /\ Move(t, "poll", IF child[target[t]] = "running" THEN "term" ELSE back[t])
  /\ child' = Reaped(child, target[t])
  /\ UNCHANGED <<config, shared, target, back, claim, workers, started, kids, files>>

\* getpgid() of a child that has been reaped raises ProcessLookupError, even
\* if descendants remain in its group.
GroupGone(t) ==
  /\ pc[t] \in {"term", "kill"} /\ child[target[t]] = "reaped"
  /\ Goto(t, back[t])
  /\ UNCHANGED <<config, shared, target, back, claim, workers, started, procs, files>>

GroupDenied(t) ==
  /\ pc[t] \in {"term", "kill"} /\ GroupSignalDenied
  /\ Goto(t, "direct")
  /\ UNCHANGED <<config, shared, target, back, claim, workers, started, procs, files>>

\* Descendants may obey SIGTERM or not; the child's reaction is its own later
\* step.
SigTerm(t) ==
  /\ Move(t, "term", "grace")
  /\ child[target[t]] # "reaped"
  /\ \E left \in {FALSE, kids[target[t]]} : kids' = [kids EXCEPT ![target[t]] = left]
  /\ UNCHANGED <<config, shared, target, back, claim, workers, started, child, files>>

\* Bug: no escalation, the end of the grace period ends the termination.
GraceExpiresNoKill(t) ==
  /\ Move(t, "grace", back[t])
  /\ UNCHANGED <<config, shared, target, back, claim, workers, started, procs, files>>

\* Bug: the grace wait has no timeout.
GraceNeverExpires(t) == FALSE

\* proc.wait(grace_period): returns with the direct child, or times out.
GraceReturns(t) ==
  /\ Move(t, "grace", back[t])
  /\ child[target[t]] # "running"
  /\ child' = Reaped(child, target[t])
  /\ UNCHANGED <<config, shared, target, back, claim, workers, started, kids, files>>

GraceExpires(t) ==
  /\ Move(t, "grace", "kill")
  /\ UNCHANGED <<config, shared, target, back, claim, workers, started, procs, files>>

\* What SIGKILL makes of a child.
Killed(r) == IF child[r] = "running" THEN [child EXCEPT ![r] = "zombie"] ELSE child

SigKill(t) ==
  /\ Move(t, "kill", back[t])
  /\ child[target[t]] # "reaped"
  /\ child' = Killed(target[t])
  /\ kids' = [kids EXCEPT ![target[t]] = FALSE]
  /\ UNCHANGED <<config, shared, target, back, claim, workers, started, files>>

KillDirect(t) ==
  /\ Move(t, "direct", back[t])
  /\ child' \in {Killed(target[t])} \cup IF DirectKillDenied THEN {child} ELSE {}
  /\ UNCHANGED <<config, shared, target, back, claim, workers, started, kids, files>>

----------------------------------------------------------------------------
(* Asynchronous exceptions -- AirflowTaskTimeout, KeyboardInterrupt, one a  *)
(* signal handler raises -- by the step of a worker they strike             *)

\* Around proc.wait() they are handled ...
StruckWaiting(w) ==
  /\ pc[w] = "wait"
  /\ Terminating(w, run[w], "unregister")
  /\ outcome' = [outcome EXCEPT ![w] = "interrupted"]
  /\ UNCHANGED <<config, shared, claim, run, got, started, procs, files>>

\* ... a termination they cut short: the one of the wait passes the finally,
\* the one after an early cancel does not ...
StruckTerminating(w) ==
  /\ pc[w] \in TerminateSteps
  /\ Goto(w, IF back[w] = "wait" THEN "leave" ELSE "unregister")
  /\ outcome' = [outcome EXCEPT ![w] = "interrupted"]
  /\ UNCHANGED <<config, shared, target, back, claim, run, got, started, procs, files>>

\* ... and from any other step they go straight to run()'s finally.
StruckRun(w) ==
  /\ pc[w] \in RunSteps \ {"wait", "leave"}
  /\ Fail(w, "interrupted")
  /\ UNCHANGED <<config, shared, target, back, claim, run, got, started, procs, files>>

\* Outside the block run()'s finally guards: to the caller's finally.  At
\* "leave" the flag _running stays set.
StruckCaller(w) ==
  /\ pc[w] \in {"leave", "parse", "idle"}
  /\ Goto(w, "cleanup")
  /\ outcome' = [outcome EXCEPT ![w] = "interrupted"]
  /\ UNCHANGED <<config, shared, target, back, claim, run, got, started, procs, files>>

\* Inside _safe_cleanup, before the claim or at the removal: swallowed by
\* `except Exception`, or the end of the call ...
StruckCleaning(w) ==
  /\ pc[w] \in {"cleanup", "remove"}
  /\ Goto(w, "idle")
  /\ claim' = [claim EXCEPT ![w] = NoRun]
  /\ UNCHANGED <<config, shared, target, back, workers, started, procs, files>>

\* ... or, not an Exception, from a cleanup between two rounds to the last.
StruckBetween(w) ==
  /\ pc[w] \in {"cleanup", "remove"}
  /\ Goto(w, "cleanup")
  /\ claim' = [claim EXCEPT ![w] = NoRun]
  /\ outcome' = [outcome EXCEPT ![w] = "interrupted"]
  /\ UNCHANGED <<config, shared, target, back, run, got, started, procs, files>>

Interrupt(w) ==
  /\ pc[w] \in InterruptAt
  /\ \/ StruckWaiting(w) \/ StruckTerminating(w) \/ StruckRun(w)
     \/ StruckCaller(w) \/ StruckCleaning(w) \/ StruckBetween(w)

\* Where an exception breaks what the component promises below: with the child
\* not registered yet or not terminated yet; also with the directory not
\* recorded yet, not claimed yet or not removed yet; with the handle not
\* withdrawn yet; with the flag not cleared yet.
OrphanWindows == {"register"} \cup TerminateSteps
LeakWindows   == {"request", "cleanup", "remove"} \cup OrphanWindows
CancelWindows == {"unregister"} \cup TerminateSteps
FlagWindow    == {"leave"}

----------------------------------------------------------------------------
(* pytest and its descendants *)

\* The child exits on its own or on SIGTERM, with or without a report.  A
\* reporter makes the directory of its file anew if that is gone.
ChildExits(r) ==
  /\ child[r] = "running"
  /\ child' = [child EXCEPT ![r] = "zombie"]
  /\ \/ UNCHANGED files
     \/ /\ home = "fallback"
        /\ disk' = disk \cup {r}
        /\ report' = report \cup {r}
        /\ UNCHANGED userReport
     \/ /\ home = "own"
        /\ userReport' = r
        /\ UNCHANGED <<disk, report>>
  /\ UNCHANGED <<config, shared, threads, workers, started, kids>>

KidsStart(r) ==
  /\ child[r] = "running" /\ ~kids[r]
  /\ kids' = [kids EXCEPT ![r] = TRUE]
  /\ UNCHANGED <<config, shared, threads, workers, started, child, files>>

KidsExit(r) ==
  /\ kids[r]
  /\ kids' = [kids EXCEPT ![r] = FALSE]
  /\ UNCHANGED <<config, shared, threads, workers, started, child, files>>

----------------------------------------------------------------------------
Terminate(t) ==
  \/ Poll(t) \/ GroupGone(t) \/ GroupDenied(t) \/ SigTerm(t)
  \/ GraceReturns(t) \/ GraceExpires(t) \/ SigKill(t) \/ KillDirect(t)

\* The steps a worker takes by itself once it is inside run().
WorkerStep(w) ==
  \/ Resolve(w) \/ Mkdtemp(w) \/ RequestReport(w) \/ MakeDirs(w) \/ Launch(w)
  \/ Raise(w) \/ ParserRaises(w)
  \/ Register(w) \/ RegisterCancelled(w) \/ WaitReturns(w) \/ WaitExpires(w)
  \/ Unregister(w) \/ JoinDrainers(w) \/ CheckReport(w) \/ Leave(w)
  \/ Parse(w) \/ ParseFails(w) \/ WorkerCleanup(w) \/ RemoveDir(w) \/ Terminate(w)

KillerStep(k) ==
  \/ Cancel(k) \/ CancelNothing(k) \/ CancelTerminates(k)
  \/ KillerCleanup(k) \/ RemoveDir(k) \/ Terminate(k)

Environment ==
  \/ \E w \in Workers : Enter(w) \/ Reject(w) \/ Interrupt(w)
  \/ \E r \in Runs : ChildExits(r) \/ KidsStart(r) \/ KidsExit(r)

\* Nobody is inside a call: the instance may stay like this for ever.
AtRest ==
  /\ \A w \in Workers : pc[w] = "idle"
  /\ \A k \in Killers : pc[k] \in {"idle", "done"}
  /\ UNCHANGED vars

Next ==
  \/ \E w \in Workers : WorkerStep(w)
  \/ \E k \in Killers : KillerStep(k)
  \/ Environment
  \/ AtRest

Spec == Init /\ [][Next]_vars

\* A thread inside a call keeps running: Python threads are scheduled, and
\* every wait in these calls but an untimed proc.wait() is bounded.  Nothing is
\* assumed of the caller, the child, its descendants or the interrupts, and a
\* kill need not come: a killer is only held to what it has begun.
Fairness ==
  /\ \A w \in Workers : WF_vars(WorkerStep(w))
  /\ \A k \in Killers : WF_vars(pc[k] # "idle" /\ KillerStep(k))

FairSpec == Spec /\ Fairness

----------------------------------------------------------------------------
(* What the component promises *)

InRun(w) == pc[w] \in RunSteps \cup TerminateSteps

\* The steps between Popen and the end of the wait, over which a worker
\* answers for the child of its run.
Owns(w, r) ==
  /\ run[w] = r
  /\ pc[w] \in {"register", "wait"} \cup TerminateSteps

\* Single-run contract: the flag tells exactly whether a worker is inside
\* run(), and there is never a second one (lines 493-507 and 520-522), unless
\* an exception kept the flag from being cleared (FlagWindow).
SingleRun ==
  /\ running <=> \E w \in Workers : InRun(w)
  /\ \A v, w \in Workers : InRun(v) /\ InRun(w) => v = w

\* No orphan: a live pytest always has the worker of its run still waiting for
\* it or terminating it, on every path out of run() -- timeout, interruption,
\* cancel -- even when the group cannot be signalled (lines 821-838, 1064-1078),
\* unless an exception comes before the registration or cuts a termination
\* short (OrphanWindows).
NoOrphan ==
  \A r \in Runs : child[r] = "running" => \E w \in Workers : Owns(w, r)

\* No lost cancel: once a cancel has been requested of a run whose child is
\* published, a live child has some thread inside _terminate (or about to
\* enter it) on its handle.  The two critical sections, cancel()'s and
\* run()'s at the registration, leave no gap (lines 707-720, 1034-1045), unless
\* an exception cuts the termination short (CancelWindows).
CancelHonoured ==
  \A r \in Runs :
    cancelled /\ proc = r /\ child[r] = "running" =>
      \E t \in Threads : target[t] = r /\ pc[t] \in {"check"} \cup TerminateSteps

\* What the three properties above rest on, whatever an exception strikes: the
\* flag is never clear with a worker inside run(); a worker inside _terminate
\* holds the child of its own run and returns to a step of run(); but for the
\* windows a set flag means a worker inside run(), and a published handle is
\* the child of a worker that has yet to withdraw it.
Exclusive ==
  /\ (\E w \in Workers : InRun(w)) => running
  /\ \A v, w \in Workers : InRun(v) /\ InRun(w) => v = w
TargetOwn ==
  \A w \in Workers : pc[w] \in TerminateSteps =>
    target[w] = run[w] /\ back[w] \in {"wait", "unregister"}
FlagCurrent == running => \E w \in Workers : InRun(w)
ProcCurrent ==
  proc # NoRun => \E w \in Workers :
    run[w] = proc /\ pc[w] \in {"wait", "unregister"} \cup TerminateSteps
RunInv ==
  /\ Exclusive /\ TargetOwn
  /\ InterruptAt \cap FlagWindow = {} => FlagCurrent
  /\ InterruptAt \cap CancelWindows = {} => ProcCurrent

\* A directory is removed by one cleanup at most, and nobody can claim it
\* again while it is being removed (lines 984-992).
ClaimedOnce ==
  \A t \in Threads : claim[t] # NoRun =>
    /\ claim[t] # created
    /\ \A u \in Threads \ {t} : claim[u] # claim[t]

\* Every temp dir on disk is known to somebody who will remove it, or was
\* kept by the policy.
Tracked(d) ==
  \/ created = d
  \/ \E t \in Threads : claim[t] = d
  \/ \E w \in Workers : run[w] = d /\ pc[w] = "request"
NoTempLeak ==
  policy = "always" => \A d \in disk : Tracked(d)

\* ... and so it is, at least until an on_kill() has come to its cleanup: up to
\* there no failure and no timeout leaves a directory behind, nor does an
\* exception, but in LeakWindows: between mkdtemp() and the assignment (578-592),
\* between Popen and the registration or inside _terminate, after which the
\* child outlives the run and makes the directory anew, and inside the cleanup
\* (984-1012).
NoLeakBeforeKill ==
  (\A k \in Killers : pc[k] \notin {"remove", "done"}) => NoTempLeak

\* A report the caller parsed was written by the run it asked for, not left
\* behind by an earlier one (lines 882-884).
OwnReport == \A w \in Workers : outcome[w] \in Parsed => got[w] = run[w]

\* A cancel() that had to terminate pytest and saw it go leaves no process of
\* its tree behind, descendants included (lines 1049-1055, 1072-1086).
TreeTerminated ==
  [][\A k \in Killers :
       pc[k] = "grace" /\ pc'[k] = "cleanup" => ~kids'[target[k]]]_vars

\* A temp dir disappears only while nobody has been told to keep it: under
\* "never" not at all once the parser has accepted it, under "on_success" only
\* for the caller of its run and when that run's report has no failures; a red
\* run, an error, a timeout or a kill keeps it (lines 997-1012).
KeptByPolicy ==
  [][\A d \in disk \ disk' :
       \/ policy = "always"
       \/ \E w \in Workers : run[w] = d /\
            \/ pc[w] = "request"
            \/ policy = "on_success" /\ outcome[w] = "passed"]_vars

\* A timeout bounds the run: a worker waiting for its child under a timeout
\* gets out of run() (lines 821-838).
TimeoutEndsRun == \A w \in Workers : (pc[w] = "wait" /\ timed) ~> ~InRun(w)

\* on_kill returns: it waits for nothing that can block for ever.
KillReturns == \A k \in Killers : (pc[k] = "check") ~> (pc[k] = "done")

----------------------------------------------------------------------------
(* The contract of a runner, implemented *)

\* The children that are alive: exited ones have ended their run's work.
Live == {r \in Runs : child[r] = "running"}

Contract == INSTANCE RunnerContract WITH
  busy <- running, stop <- cancelled, runs <- started, live <- Live

\* This runner is a runner: one run at a time, the child of a run alive only
\* inside it, no way out of run() with a live child (runners/base.py;
\* SubprocessPytestRunner's docstring; lines 482-522, 821-838).
IsRunner == Contract!ContractSpec

\* ... and one that obeys cancel(): a run asked to stop does.
IsObedientRunner == Contract!ContractFairSpec
=============================================================================
