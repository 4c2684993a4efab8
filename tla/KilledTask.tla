----------------------------- MODULE KilledTask -----------------------------
(***************************************************************************)
(* A task that is killed: execute()'s rounds on one SubprocessRunner and   *)
(* the operator's on_kill(), which Airflow calls from a thread or, like    *)
(* most executors, from a signal handler.  A signal handler runs on the    *)
(* task's own thread: execute() stands still wherever it is, possibly      *)
(* inside a `with self._lock` block, and when the handler returns Airflow  *)
(* may raise an exception at that point.                                   *)
(*                                                                         *)
(* The steps are SubprocessRunner's.  Each of the worker's critical        *)
(* sections is split in two, TakeLock and the section itself, so that a    *)
(* signal can arrive with the lock held.                                   *)
(***************************************************************************)
EXTENDS SubprocessRunner

CONSTANT Deliveries   \* how on_kill may be called

ASSUME OneTaskAssumption ==
  (\E t \in Workers : Workers = {t}) /\ (\E t \in Killers : Killers = {t})
ASSUME DeliveriesAssumption == Deliveries \subseteq {"signal", "thread"}

VARIABLES
  delivery,   \* how on_kill is called, fixed
  held,       \* the worker is inside a critical section of _lock
  handler,    \* the signal handler runs, so execute() does not
  over,       \* execute() is in, or past, its last cleanup
  hit,        \* the worker's step when on_kill came to its cleanup
  known,      \* on_kill's cancel had the handle of that worker's run
  raised      \* the handler ended in an exception

task == <<delivery, held, handler, over, hit, known, raised>>
all  == <<vars, task>>

w == CHOOSE t \in Workers : TRUE
k == CHOOSE t \in Killers : TRUE

TaskTypeOK ==
  /\ TypeOK
  /\ delivery \in Deliveries
  /\ held \in BOOLEAN /\ handler \in BOOLEAN /\ over \in BOOLEAN /\ raised \in BOOLEAN
  /\ hit \in Steps \cup {"none"} /\ known \in BOOLEAN

TaskInit ==
  /\ Init
  /\ delivery \in Deliveries
  /\ held = FALSE /\ handler = FALSE /\ over = FALSE /\ raised = FALSE
  /\ hit = "none" /\ known = FALSE

Finished == over /\ pc[w] = "idle"

----------------------------------------------------------------------------
(* execute(): rounds of run(), parse and cleanup *)

LockSteps == {"idle", "register", "unregister", "leave", "cleanup"}

\* A round follows the first run or one whose report lists failures.
MayEnter == ~over /\ started < MaxRuns /\ outcome[w] \in {"none", "failed"}

TakeLock ==
  /\ pc[w] \in LockSteps /\ ~held
  /\ pc[w] = "idle" => MayEnter
  /\ held' = TRUE
  /\ UNCHANGED <<vars, delivery, handler, over, hit, known, raised>>

\* A cleanup after a report with failures may come before another round.
Cleanups == IF outcome[w] = "failed" /\ started < MaxRuns THEN BOOLEAN ELSE {TRUE}

\* The last cleanup carries the verdict, one between two rounds does not.
TaskCleanup ==
  /\ pc[w] = "cleanup"
  /\ \E last \in Cleanups :
       /\ over' = last
       /\ \E success \in IF outcome[w] = "passed" THEN BOOLEAN ELSE {FALSE} :
            Claim(w, success, "idle")

UnderLock ==
  /\ held /\ held' = FALSE
  /\ \/ /\ Enter(w) \/ Register(w) \/ RegisterCancelled(w) \/ Unregister(w) \/ Leave(w)
        /\ UNCHANGED over
     \/ TaskCleanup
  /\ UNCHANGED <<delivery, handler, hit, known, raised>>

NoLock ==
  /\ \/ Resolve(w) \/ Mkdtemp(w) \/ RequestReport(w) \/ MakeDirs(w) \/ Launch(w)
     \/ Raise(w) \/ ParserRaises(w)
     \/ WaitReturns(w) \/ WaitExpires(w) \/ JoinDrainers(w) \/ CheckReport(w)
     \/ Parse(w) \/ ParseFails(w) \/ RemoveDir(w) \/ Terminate(w)
  /\ UNCHANGED task

Execute == ~handler /\ (TakeLock \/ UnderLock \/ NoLock)

----------------------------------------------------------------------------
(* on_kill() *)

\* Bug: on_kill leaves the directory to execute()'s finally.
KillCleanupSkipped ==
  /\ pc[k] = "cleanup" /\ ~held
  /\ Goto(k, "done")
  /\ hit' = pc[w] /\ known' = (target[k] = run[w])
  /\ UNCHANGED <<config, shared, target, back, claim, workers, started, procs, files>>

KillCleanup ==
  /\ ~held
  /\ hit' = pc[w] /\ known' = (target[k] = run[w])
  /\ KillerCleanup(k)

\* Both critical sections of on_kill wait for the lock.
OnKill ==
  /\ \/ KillCleanup
     \/ /\ \/ ~held /\ Cancel(k)
           \/ CancelNothing(k) \/ CancelTerminates(k) \/ RemoveDir(k) \/ Terminate(k)
        /\ UNCHANGED <<hit, known>>
  /\ UNCHANGED <<delivery, held, handler, over, raised>>

KillThread == delivery = "thread" /\ OnKill
KillHandler == delivery = "signal" /\ handler /\ OnKill

Signal ==
  /\ delivery = "signal" /\ ~handler /\ pc[k] = "idle" /\ ~Finished
  /\ handler' = TRUE
  /\ UNCHANGED <<vars, delivery, held, over, hit, known, raised>>

\* The handler waits for a lock that its own thread holds.
SelfDeadlock == handler /\ held /\ UNCHANGED all

\* Airflow 3's handler, or an executor that ends the process later.
HandlerReturns ==
  /\ handler /\ pc[k] = "done"
  /\ handler' = FALSE
  /\ UNCHANGED <<vars, delivery, held, over, hit, known, raised>>

----------------------------------------------------------------------------
(* ... and the exception it may end in, by the step it strikes *)

\* Inside report_request() the fallback directory is still removed.
StrikeParserRequest == ParserRaises(w) /\ UNCHANGED over

\* Anywhere in execute() but in, or past, its last cleanup.
StrikeExecute ==
  /\ \/ StruckRun(w) \/ StruckTerminating(w) \/ StruckWaiting(w)
     \/ StruckCaller(w) /\ (pc[w] = "idle" => ~over)
     \/ StruckBetween(w) /\ ~over
  /\ UNCHANGED over

\* Inside _safe_cleanup: `except Exception` swallows the exception and execute()
\* goes on with its next round, or with its return.
StrikeSwallowed ==
  /\ StruckCleaning(w)
  /\ over' \in IF pc[w] = "remove" THEN {over} ELSE Cleanups

HandlerRaises ==
  /\ handler /\ pc[k] = "done"
  /\ handler' = FALSE /\ raised' = TRUE
  /\ StrikeParserRequest \/ StrikeExecute \/ StrikeSwallowed
  /\ UNCHANGED <<delivery, held, hit, known>>

----------------------------------------------------------------------------
Processes ==
  /\ \E r \in Runs : ChildExits(r) \/ KidsStart(r) \/ KidsExit(r)
  /\ UNCHANGED task

\* The task is over; a kill may still come.
Rest == Finished /\ UNCHANGED all

TaskNext ==
  \/ Execute \/ Signal \/ KillThread \/ KillHandler \/ HandlerReturns \/ HandlerRaises
  \/ SelfDeadlock \/ Processes \/ Rest

\* As in SubprocessRunner: what has begun goes on, nothing need begin.  Both
\* ways out of the handler are ways to go on.
TaskFairness ==
  /\ WF_all(Execute)
  /\ WF_all(pc[k] # "idle" /\ KillThread)
  /\ WF_all(KillHandler)
  /\ WF_all(HandlerReturns \/ HandlerRaises)

TaskSpec == TaskInit /\ [][TaskNext]_all /\ TaskFairness

----------------------------------------------------------------------------
(* What a killed task promises *)

\* The end of a killed task leaves no pytest behind, unless the exception came
\* between Popen and the registration, where neither run() nor on_kill knows
\* the child (lines 674-716; class docstring, "the run is never left orphaned").
NoOrphanAfterKill ==
  Finished => \A r \in Runs : child[r] = "running" => raised /\ hit = "register"

\* The steps at which the child of the run may be alive, or about to be.
Alive == {"launch", "register", "wait"} \cup TerminateSteps

\* ... and no temp dir, but for four windows: the kill's cleanup comes before
\* makedirs() creates the directory again (615); or before the child has gone,
\* whose reporter makes it again, since cancel() had come before the child was
\* registered and so found no handle to it (674-720); or the exception cuts off
\* the assignment of _created_report_dir (592) or the removal itself (1012).
NoDirAfterKill ==
  Finished /\ pc[k] = "done" /\ policy = "always" /\ disk # {} =>
    \/ hit = "makedirs"
    \/ hit \in Alive /\ ~known
    \/ raised /\ hit \in {"request", "remove"}

\* The steps at which pytest is registered, or its report awaited.
Working == {"wait", "unregister", "join", "report", "leave", "parse"}
           \cup TerminateSteps

\* A kill by signal that finds a run at work makes it the last: the report goes
\* with the directory, so whether the handler raises or not, and though run()
\* has promised a report already, no further round starts (883-884, 990-1012,
\* on_kill).  run() forgets a cancel when it starts (508), so this rests on the
\* cleanup; with a report that survives it, or between rounds, it does not hold.
LastRound ==
  [][delivery = "signal" /\ home = "fallback" /\ policy = "always"
       /\ pc[k] = "done" /\ hit \in Working => UNCHANGED started]_all

\* on_kill returns, unless its signal arrives inside a critical section of the
\* lock that it takes itself: the lock is not reentrant (lines 1034-1045).
HandlerEnds == (handler /\ ~held) ~> (pc[k] = "done")

\* A kill ends the run it finds, at whatever step and with whatever exception,
\* even if the child ignores SIGTERM and no timeout is set (1024-1045).
KillEndsRun == (cancelled /\ InRun(w)) ~> ~InRun(w)
=============================================================================
