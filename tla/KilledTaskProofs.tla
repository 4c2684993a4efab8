-------------------------- MODULE KilledTaskProofs --------------------------
(***************************************************************************)
(* Theorems about a task that is killed, for every configuration, however  *)
(* the kill is delivered and wherever its exception strikes.               *)
(***************************************************************************)
EXTENDS KilledTask, SubprocessRunnerProofs

----------------------------------------------------------------------------
(* The inductive invariant *)

\* Whose turn it is: under a signal the killer moves only inside the handler,
\* and a handler that has got past the lock found it free.
Turn ==
  /\ handler => delivery = "signal"
  /\ delivery = "signal" /\ pc[k] \notin {"idle", "done"} => handler
  /\ handler /\ pc[k] # "idle" => ~held

\* The lock is held where a critical section begins, for a round only if one
\* may begin.
Locked ==
  /\ held => pc[w] \in LockSteps
  /\ held /\ pc[w] = "idle" => MayEnter

\* `hit` is set by the kill's cleanup, and a worker that a handler has stopped
\* is still where it was hit.
Marked ==
  /\ hit = "none" <=> pc[k] \notin {"remove", "done"}
  /\ handler /\ pc[k] \in {"remove", "done"} => hit = pc[w]

\* The handle on_kill looks for is the one published for the worker's run.
Published ==
  /\ pc[w] \in {"wait", "unregister"} \cup TerminateSteps => proc = run[w]
  /\ TargetOwn

\* The handle a kill has got hold of is never that of a run yet to be launched.
Early == {"resolve", "mkdtemp", "request", "makedirs", "launch"}
Unseen ==
  /\ proc <= started /\ target[k] <= started
  /\ pc[w] \in Early \cup {"register"} => proc # run[w] /\ target[k] # run[w]
  /\ hit \in {"launch", "register"} => ~known

\* What on_kill does with that handle; in a handler, while it runs, nobody
\* replaces it.
Stopping ==
  /\ pc[k] \in TerminateSteps => target[k] # NoRun /\ back[k] = "cleanup"
  /\ pc[k] \in {"cleanup", "remove", "done"} /\ target[k] # NoRun =>
       child[target[k]] # "running"
  /\ handler /\ pc[k] # "idle" => target[k] = proc

\* A live child belongs to the worker, or is the one orphan NoOrphanAfterKill
\* allows.
Answered ==
  \A r \in Runs : child[r] = "running" => Owns(w, r) \/ (raised /\ hit = "register")

\* An error before the directory was made, or after the parser refused it.
NothingMade ==
  /\ pc[w] = "leave" /\ outcome[w] = "error" /\ created = NoRun
  /\ run[w] \notin disk \cup report /\ child[run[w]] = "none"

\* From the request to a cleanup _created_report_dir names the directory of the
\* worker's run, at other steps none.
Holding ==
  /\ pc[w] \in {"resolve", "mkdtemp", "request", "idle", "remove"} => created = NoRun
  /\ handler /\ pc[k] \in {"remove", "done"} => created = NoRun
  /\ home = "fallback" /\ hit = "none"
       /\ pc[w] \in {"makedirs", "launch", "register"} \cup Working =>
       created = run[w] \/ NothingMade
  /\ \A t \in Threads : claim[t] # NoRun => pc[t] = "remove"

\* The child of a run comes with its launch.
Unborn ==
  /\ \A r \in Runs : r > started => child[r] = "none"
  /\ pc[w] \in Early /\ run[w] \in Runs => child[run[w]] = "none"

\* Up to the kill's cleanup a run finds no directory and no report of its number.
Fresh ==
  /\ disk \cup report \subseteq 1..started /\ run[w] <= started
  /\ hit = "none" /\ pc[w] \in {"resolve", "mkdtemp"} => run[w] \notin disk
  /\ hit = "none" /\ pc[w] \in {"resolve", "mkdtemp", "request"} => run[w] \notin report

\* The two windows of NoDirAfterKill that open without an exception.
Window == hit = "makedirs" \/ (hit \in Alive /\ ~known)

\* Whoever may make the directory again, makedirs() or a live child, does so
\* while it is recorded, or in a window.
Watched ==
  home = "fallback" /\ (\/ pc[w] \in {"makedirs", "launch"}
                        \/ pc[w] \in Alive /\ child[run[w]] = "running") =>
    created = run[w] \/ Window

\* Every directory has an owner, or fell into a window of NoDirAfterKill.
Accounted ==
  policy = "always" =>
    \/ \A d \in disk : Tracked(d)
    \/ Window \/ (raised /\ hit \in {"request", "remove"})

\* A run that has ended has an outcome, and is not parsed yet.
Ended == pc[w] \in {"leave", "parse"} => outcome[w] \notin {"none"} \cup Parsed

\* The kill of LastRound: by signal, of a run at work whose report goes with
\* its directory.
Doomed == delivery = "signal" /\ home = "fallback" /\ policy = "always" /\ hit \in Working

\* No round follows these outcomes.
Final == outcome[w] \notin {"none", "failed"}

\* Once it is done there is no report to find any more, nor a child to write
\* one, so the round ends in an outcome that no other round follows.
Closing ==
  Doomed =>
    /\ pc[k] \in {"remove", "done"} /\ run[w] \in Runs => child[run[w]] # "running"
    /\ pc[k] = "remove" => claim[k] = run[w]
    /\ pc[k] = "done" =>
         /\ run[w] \notin disk \cup report
         /\ \/ pc[w] \in Working
            \/ pc[w] \in {"cleanup", "remove", "idle"} /\ Final

TaskInv ==
  /\ TypeInv /\ TaskTypeOK /\ Turn /\ Locked /\ Marked
  /\ Published /\ Unseen /\ Holding /\ Unborn /\ Fresh /\ Ended

\* ... and what needs a child that proc.kill() may signal.
ChildInv == Stopping /\ Answered /\ Watched /\ Accounted /\ Closing

----------------------------------------------------------------------------
(* Who is who *)

LEMMA OneTask ==
  /\ w \in Workers /\ k \in Killers /\ w # k
  /\ Workers = {w} /\ Killers = {k} /\ Threads = {w, k}
<1>1. w \in Workers
  BY OneTaskAssumption DEF w
<1>2. k \in Killers
  BY OneTaskAssumption DEF k
<1>3. Workers = {w} /\ Killers = {k}
  BY <1>1, <1>2, OneTaskAssumption
<1> QED
  BY <1>1, <1>2, <1>3, ThreadsAssumption DEF Threads

\* The types, for the two threads there are.
LEMMA TaskTypes ==
  ASSUME TypeInv
  PROVE  /\ pc \in [{w, k} -> Steps] /\ claim \in [{w, k} -> MaybeRun]
         /\ target \in [{w, k} -> MaybeRun] /\ back \in [{w, k} -> Returns]
         /\ run \in [{w} -> MaybeRun] /\ outcome \in [{w} -> Outcomes]
         /\ child \in [Runs -> ChildStates]
         /\ proc \in MaybeRun /\ created \in MaybeRun /\ started \in MaybeRun
         /\ disk \subseteq Runs /\ report \subseteq Runs
         /\ InRun(w) => run[w] \in Runs
BY OneTask, MaxRunsAssumption DEF TypeInv, TypeOK, Numbered, MaybeRun, Runs, NoRun

\* Every step but a strike is a step of SubprocessRunner, or none.
LEMMA RunnerSteps ==
  ASSUME TaskNext, ~HandlerRaises
  PROVE  [Next]_vars
<1>1. TakeLock \/ Signal \/ HandlerReturns \/ SelfDeadlock \/ Rest => UNCHANGED vars
  BY DEF TakeLock, Signal, HandlerReturns, SelfDeadlock, Rest, all
<1>2. UnderLock => Next
  <2>1. TaskCleanup => WorkerCleanup(w)
    BY DEF TaskCleanup, WorkerCleanup
  <2> QED
    BY <2>1, OneTask DEF UnderLock, Next, WorkerStep, Environment
<1>3. NoLock => Next
  BY OneTask DEF NoLock, Next, WorkerStep
<1>4. OnKill => Next
  BY OneTask DEF OnKill, KillCleanup, Next, KillerStep
<1>5. Processes => Next
  BY DEF Processes, Next, Environment
<1> QED
  BY <1>1, <1>2, <1>3, <1>4, <1>5 DEF TaskNext, Execute, KillThread, KillHandler

----------------------------------------------------------------------------
(* Types *)

LEMMA StrikeTypes ==
  ASSUME TypeInv, TaskTypeOK, HandlerRaises
  PROVE  TypeInv'
<1> USE Literals
    DEF TypeInv, TypeOK, Numbered, InRun, RunSteps, TerminateSteps, Goto, Fail,
        config, shared, threads, workers, procs, files
<1>1. w \in Threads /\ w \in Workers /\ \A v \in Workers : v = w
  BY OneTask
<1>2. CASE StrikeParserRequest
  BY <1>1, <1>2 DEF StrikeParserRequest, ParserRaises
<1>3. CASE StrikeExecute
  <2>1. CASE StruckRun(w) \/ StruckTerminating(w) \/ StruckWaiting(w)
    BY <1>1, <2>1 DEF StruckRun, StruckTerminating, StruckWaiting, Terminating
  <2>2. CASE StruckCaller(w) \/ StruckBetween(w)
    BY <1>1, <2>2, MaxRunsAssumption DEF StruckCaller, StruckBetween, MaybeRun, NoRun
  <2> QED
    BY <1>3, <2>1, <2>2 DEF StrikeExecute
<1>4. CASE StrikeSwallowed
  BY <1>1, <1>4, MaxRunsAssumption DEF StrikeSwallowed, StruckCleaning, MaybeRun, NoRun
<1> QED
  BY <1>2, <1>3, <1>4 DEF HandlerRaises

LEMMA TaskTypeStep ==
  ASSUME TypeInv, TaskTypeOK, [TaskNext]_all
  PROVE  TypeInv' /\ TaskTypeOK'
<1>1. TypeInv'
  <2>1. CASE UNCHANGED all
    BY <2>1, TypeStep DEF all
  <2>2. CASE HandlerRaises
    BY <2>2, StrikeTypes
  <2>3. CASE TaskNext /\ ~HandlerRaises
    BY <2>3, RunnerSteps, TypeStep
  <2> QED
    BY <2>1, <2>2, <2>3
<1>2. TypeOK'
  BY <1>1 DEF TypeInv
<1>3. pc[w] \in Steps
  BY OneTask DEF TypeInv, TypeOK
<1>4. over' \in BOOLEAN
  BY DEF TaskTypeOK, TaskNext, Execute, TakeLock, UnderLock, TaskCleanup, Cleanups, NoLock,
         task, all, KillThread, KillHandler, OnKill, Signal, HandlerReturns, SelfDeadlock,
         Rest, Processes, HandlerRaises, StrikeParserRequest, StrikeExecute, StrikeSwallowed
<1>5. /\ delivery' \in Deliveries /\ held' \in BOOLEAN /\ handler' \in BOOLEAN
      /\ raised' \in BOOLEAN /\ hit' \in Steps \cup {"none"} /\ known' \in BOOLEAN
  BY <1>3
     DEF TaskTypeOK, TaskNext, Execute, TakeLock, UnderLock, NoLock,
         task, all, KillThread, KillHandler, OnKill, KillCleanup, Signal, HandlerReturns,
         SelfDeadlock, Rest, Processes, HandlerRaises
<1> QED
  BY <1>2, <1>1, <1>4, <1>5 DEF TaskTypeOK

----------------------------------------------------------------------------
(* Who changes what *)

\* execute()'s own steps leave the kill where it is.
LEMMA WorkerFrame ==
  ASSUME TypeInv, Execute
  PROVE  /\ pc'[k] = pc[k] /\ target'[k] = target[k] /\ back'[k] = back[k]
         /\ claim'[k] = claim[k]
         /\ UNCHANGED <<policy, home, delivery, handler, hit, known, raised>>
<1> USE DEF Goto, Move, Fail, Terminating, config, shared, threads, workers, procs, files
<1>1. pc \in [{w, k} -> Steps] /\ claim \in [{w, k} -> MaybeRun] /\ w # k
  BY TaskTypes, OneTask
<1>2. target \in [{w, k} -> MaybeRun] /\ back \in [{w, k} -> Returns]
  BY TaskTypes
<1>3. CASE TakeLock
  BY <1>3 DEF TakeLock, vars
<1>4. CASE UnderLock
  BY <1>1, <1>2, <1>4 DEF UnderLock, Enter, Register, RegisterCancelled, Unregister, Leave,
     TaskCleanup, Claim
<1>5. CASE NoLock
  BY <1>1, <1>2, <1>5
     DEF NoLock, task, Resolve, Mkdtemp, RequestReport, MakeDirs, Launch, Raise, ParserRaises,
         WaitReturns, WaitExpires, JoinDrainers, CheckReport, Parse, ParseFails, RemoveDir,
         Terminate, Poll, GroupGone, GroupDenied, SigTerm, GraceReturns, GraceExpires,
         SigKill, KillDirect
<1> QED
  BY <1>3, <1>4, <1>5 DEF Execute

\* on_kill() leaves execute() where it is.
LEMMA KillerFrame ==
  ASSUME TypeInv, OnKill
  PROVE  /\ pc'[w] = pc[w] /\ target'[w] = target[w] /\ back'[w] = back[w]
         /\ claim'[w] = claim[w]
         /\ UNCHANGED <<policy, home, running, proc, run, outcome, got, started,
                        delivery, held, handler, over, raised>>
<1> USE DEF Goto, Move, Terminating, config, shared, threads, workers, procs, files
<1>1. pc \in [{w, k} -> Steps] /\ claim \in [{w, k} -> MaybeRun] /\ w # k
  BY TaskTypes, OneTask
<1>2. target \in [{w, k} -> MaybeRun] /\ back \in [{w, k} -> Returns]
  BY TaskTypes
<1>3. CASE KillCleanup
  BY <1>1, <1>2, <1>3 DEF OnKill, KillCleanup, KillerCleanup, Claim
<1>4. CASE ~KillCleanup
  BY <1>1, <1>2, <1>4
     DEF OnKill, Cancel, CancelNothing, CancelTerminates, RemoveDir, Terminate, Poll,
         GroupGone, GroupDenied, SigTerm, GraceReturns, GraceExpires, SigKill, KillDirect
<1> QED
  BY <1>3, <1>4

\* An exception strikes execute() only.
LEMMA StrikeFrame ==
  ASSUME TypeInv, HandlerRaises
  PROVE  /\ handler /\ ~handler' /\ raised' /\ pc[k] = "done"
         /\ pc'[k] = pc[k] /\ target'[k] = target[k] /\ back'[k] = back[k]
         /\ claim'[k] = claim[k]
         /\ UNCHANGED <<policy, home, running, cancelled, proc, created, run, started, child,
                        report, delivery, held, hit, known>>
<1> USE DEF Goto, Fail, Terminating, config, shared, threads, workers, procs, files
<1>1. pc \in [{w, k} -> Steps] /\ claim \in [{w, k} -> MaybeRun] /\ w # k
  BY TaskTypes, OneTask
<1>2. target \in [{w, k} -> MaybeRun] /\ back \in [{w, k} -> Returns]
  BY TaskTypes
<1>3. handler /\ ~handler' /\ raised' /\ pc[k] = "done"
      /\ UNCHANGED <<delivery, held, hit, known>>
  BY DEF HandlerRaises
<1>4. CASE StrikeParserRequest
  BY <1>1, <1>2, <1>3, <1>4 DEF StrikeParserRequest, ParserRaises
<1>5. CASE StrikeExecute
  <2>1. CASE StruckRun(w) \/ StruckTerminating(w) \/ StruckWaiting(w)
    BY <1>1, <1>2, <1>3, <2>1 DEF StruckRun, StruckTerminating, StruckWaiting
  <2>2. CASE StruckCaller(w) \/ StruckBetween(w)
    BY <1>1, <1>2, <1>3, <2>2 DEF StruckCaller, StruckBetween
  <2> QED
    BY <1>5, <2>1, <2>2 DEF StrikeExecute
<1>6. CASE StrikeSwallowed
  BY <1>1, <1>2, <1>3, <1>6 DEF StrikeSwallowed, StruckCleaning
<1> QED
  BY <1>4, <1>5, <1>6 DEF HandlerRaises

\* The processes move nobody.  They make files of runs whose child is alive.
LEMMA ProcessFrame ==
  ASSUME Processes
  PROVE  /\ UNCHANGED <<config, shared, threads, workers, started, task>>
         /\ \A r \in Runs : child[r] # "running" => child'[r] = child[r]
         /\ \A r \in (disk' \cup report') \ (disk \cup report) :
              r \in Runs /\ child[r] = "running" /\ home = "fallback"
         /\ disk \subseteq disk' /\ report \subseteq report'
         /\ \/ UNCHANGED <<disk, report>>
            \/ \E r \in Runs : /\ child[r] = "running" /\ home = "fallback"
                               /\ disk' = disk \cup {r} /\ report' = report \cup {r}
<1>1. CASE \E r \in Runs : ChildExits(r)
  BY <1>1 DEF Processes, ChildExits, files
<1>2. CASE \E r \in Runs : KidsStart(r) \/ KidsExit(r)
  BY <1>2 DEF Processes, KidsStart, KidsExit, files
<1> QED
  BY <1>1, <1>2 DEF Processes

\* on_kill()'s way: cancel and terminate, claim, remove.
LEMMA KillerWay ==
  ASSUME TypeInv, OnKill
  PROVE  \/ /\ pc[k] = "cleanup" /\ pc'[k] \in {"remove", "done"}
            /\ hit' = pc[w] /\ known' = (target[k] = run[w])
            /\ KillerCleanup(k) /\ ~held
         \/ /\ pc[k] = "remove" /\ pc'[k] = "done" /\ RemoveDir(k)
            /\ UNCHANGED <<hit, known>>
         \/ /\ pc[k] \in {"idle", "check"} \cup TerminateSteps
            /\ pc'[k] \in {"check"} \cup TerminateSteps \cup Returns
            /\ pc[k] = "idle" => ~held /\ Cancel(k)
            /\ UNCHANGED <<created, claim, disk, report, hit, known>>
<1> USE OneTask, TaskTypes DEF Goto, Move, Terminating, shared, threads, files
<1>1. CASE KillCleanup
  BY <1>1 DEF KillCleanup, KillerCleanup, Claim
<1>2. CASE RemoveDir(k) /\ UNCHANGED <<hit, known>>
  BY <1>2 DEF RemoveDir
<1>3. CASE (Cancel(k) \/ CancelNothing(k) \/ CancelTerminates(k)) /\ UNCHANGED <<hit, known>>
           /\ (Cancel(k) => ~held)
  BY <1>3 DEF Cancel, CancelNothing, CancelTerminates, TerminateSteps, Returns
<1>4. CASE Terminate(k) /\ UNCHANGED <<hit, known>>
  BY <1>4 DEF Terminate, Poll, GroupGone, GroupDenied, SigTerm, GraceReturns, GraceExpires,
     SigKill, KillDirect, TerminateSteps, Returns
<1>5. Cancel(k) => pc[k] = "idle"
  BY DEF Cancel
<1>6. CancelNothing(k) \/ CancelTerminates(k) \/ Terminate(k) => pc[k] # "idle"
  BY DEF CancelNothing, CancelTerminates, Terminate, Poll, GroupGone, GroupDenied, SigTerm,
     GraceReturns, GraceExpires, SigKill, KillDirect
<1> QED
  BY <1>1, <1>2, <1>3, <1>4, <1>5, <1>6 DEF OnKill

----------------------------------------------------------------------------
(* Turns, the lock and the mark *)

LEMMA TurnStep ==
  ASSUME TaskInv, [TaskNext]_all
  PROVE  Turn'
<1> USE DEF TaskInv, Turn
<1>1. CASE Execute
  BY <1>1, WorkerFrame DEF Execute
<1>2. CASE KillThread \/ KillHandler
  <2>1. OnKill /\ (delivery = "signal" => handler)
    BY <1>2 DEF KillThread, KillHandler
  <2>2. handler /\ pc[k] = "idle" => ~held
    BY <2>1, KillerWay
  <2> QED
    BY <2>1, <2>2, KillerFrame
<1>3. CASE HandlerRaises
  BY <1>3, StrikeFrame
<1>4. CASE Signal \/ HandlerReturns
  BY <1>4 DEF Signal, HandlerReturns, vars, threads
<1>5. CASE Processes
  BY <1>5, ProcessFrame DEF threads, task
<1>6. CASE UNCHANGED all
  BY <1>6 DEF all, vars, threads, task
<1> QED
  BY <1>1, <1>2, <1>3, <1>4, <1>5, <1>6 DEF TaskNext, SelfDeadlock, Rest

LEMMA LockedStep ==
  ASSUME TaskInv, [TaskNext]_all
  PROVE  Locked'
<1> USE DEF TaskInv, Locked, MayEnter
<1>1. CASE TakeLock
  BY <1>1 DEF TakeLock, vars, threads, workers, MayEnter
<1>2. CASE UnderLock
  BY <1>2 DEF UnderLock
<1>3. CASE NoLock
  <2>1. pc[w] \notin LockSteps
    BY <1>3 DEF NoLock, LockSteps, Resolve, Mkdtemp, RequestReport, MakeDirs, Launch, Raise,
       ParserRaises, WaitReturns, WaitExpires, JoinDrainers, CheckReport, Parse, ParseFails,
       RemoveDir, Terminate, Poll, GroupGone, GroupDenied, SigTerm, GraceReturns,
       GraceExpires, SigKill, KillDirect, Move
  <2> QED
    BY <1>3, <2>1 DEF NoLock, task
<1>4. CASE OnKill
  BY <1>4, KillerFrame
<1>5. CASE HandlerRaises
  BY <1>5, StrikeFrame DEF Turn
<1>6. CASE Signal \/ HandlerReturns
  BY <1>6 DEF Signal, HandlerReturns, vars, threads, workers
<1>7. CASE Processes
  BY <1>7, ProcessFrame DEF threads, task, workers
<1>8. CASE UNCHANGED all
  BY <1>8 DEF all, vars, threads, task, workers
<1> QED
  BY <1>1, <1>2, <1>3, <1>4, <1>5, <1>6, <1>7, <1>8
     DEF TaskNext, Execute, KillThread, KillHandler, SelfDeadlock, Rest

LEMMA MarkedStep ==
  ASSUME TaskInv, [TaskNext]_all
  PROVE  Marked'
<1> USE DEF TaskInv, Marked
<1>1. CASE Execute
  BY <1>1, WorkerFrame DEF Execute
<1>2. CASE OnKill
  <2>1. pc[w] # "none"
    BY OneTask, TaskTypes
       DEF Steps, WorkerSteps, KillerSteps, RunSteps, TerminateSteps
  <2>2. pc'[w] = pc[w] /\ handler' = handler
    BY <1>2, KillerFrame
  <2> QED
    BY <1>2, <2>1, <2>2, KillerWay DEF TerminateSteps, Returns
<1>3. CASE HandlerRaises
  BY <1>3, StrikeFrame
<1>4. CASE Signal \/ HandlerReturns
  BY <1>4 DEF Signal, HandlerReturns, vars, threads
<1>5. CASE Processes
  BY <1>5, ProcessFrame DEF threads, task
<1>6. CASE UNCHANGED all
  BY <1>6 DEF all, vars, threads, task
<1> QED
  BY <1>1, <1>2, <1>3, <1>4, <1>5, <1>6
     DEF TaskNext, KillThread, KillHandler, SelfDeadlock, Rest

----------------------------------------------------------------------------
(* The child *)

LEMMA PublishedStep ==
  ASSUME TaskInv, [TaskNext]_all
  PROVE  Published'
<1> USE OneTask, TaskTypes
    DEF TaskInv, Published, TargetOwn, TerminateSteps, Goto, Move, Fail, Terminating,
        config, shared, threads, workers, procs, files
<1>1. CASE TakeLock
  BY <1>1 DEF TakeLock, vars
<1>2. CASE UnderLock
  <2>1. CASE Enter(w) \/ Register(w) \/ RegisterCancelled(w)
    BY <2>1 DEF Enter, Register, RegisterCancelled
  <2>2. CASE Unregister(w) \/ Leave(w)
    BY <2>2 DEF Unregister, Leave
  <2>3. CASE TaskCleanup
    BY <2>3 DEF TaskCleanup, Claim
  <2> QED
    BY <1>2, <2>1, <2>2, <2>3 DEF UnderLock
<1>3. CASE NoLock
  <2>1. CASE \/ Resolve(w) \/ Mkdtemp(w) \/ RequestReport(w) \/ MakeDirs(w) \/ Launch(w)
             \/ Raise(w) \/ ParserRaises(w) \/ JoinDrainers(w) \/ CheckReport(w)
             \/ Parse(w) \/ ParseFails(w) \/ RemoveDir(w)
    BY <2>1 DEF Resolve, Mkdtemp, RequestReport, MakeDirs, Launch, Raise, ParserRaises,
       JoinDrainers, CheckReport, Parse, ParseFails, RemoveDir
  <2>2. CASE WaitReturns(w) \/ WaitExpires(w)
    BY <2>2 DEF WaitReturns, WaitExpires
  <2>3. CASE Terminate(w)
    BY <2>3 DEF Terminate, Poll, GroupGone, GroupDenied, SigTerm, GraceReturns,
       GraceExpires, SigKill, KillDirect
  <2> QED
    BY <1>3, <2>1, <2>2, <2>3 DEF NoLock
<1>4. CASE OnKill
  BY <1>4, KillerFrame
<1>5. CASE HandlerRaises
  <2>1. UNCHANGED <<proc, run>>
    BY <1>5, StrikeFrame
  <2>2. CASE StrikeParserRequest \/ StruckRun(w) \/ StruckCaller(w)
    BY <2>1, <2>2 DEF StrikeParserRequest, ParserRaises, StruckRun, StruckCaller
  <2>3. CASE StrikeSwallowed \/ StruckBetween(w)
    BY <2>1, <2>3 DEF StrikeSwallowed, StruckCleaning, StruckBetween
  <2>4. CASE StruckTerminating(w) \/ StruckWaiting(w)
    BY <2>1, <2>4 DEF StruckTerminating, StruckWaiting
  <2> QED
    BY <1>5, <2>2, <2>3, <2>4 DEF HandlerRaises, StrikeExecute
<1>6. CASE Signal \/ HandlerReturns
  BY <1>6 DEF Signal, HandlerReturns, vars
<1>7. CASE Processes
  BY <1>7, ProcessFrame
<1>8. CASE UNCHANGED all
  BY <1>8 DEF all, vars
<1> QED
  BY <1>1, <1>2, <1>3, <1>4, <1>5, <1>6, <1>7, <1>8
     DEF TaskNext, Execute, KillThread, KillHandler, SelfDeadlock, Rest

LEMMA UnseenStep ==
  ASSUME TaskInv, [TaskNext]_all
  PROVE  Unseen'
<1> USE OneTask, TaskTypes
    DEF TaskInv, Unseen, Early, Fresh, TerminateSteps, Goto, Move, Fail, Terminating,
        config, shared, threads, workers, procs, files
<1>t. run[w] \in Nat /\ started \in Nat /\ proc \in Nat /\ target[k] \in Nat
  BY MaxRunsAssumption DEF MaybeRun
<1>1. CASE Execute
  <2>1. target'[k] = target[k] /\ UNCHANGED <<hit, known>>
    BY <1>1, WorkerFrame
  <2>2. CASE TakeLock
    BY <2>1, <2>2 DEF TakeLock, vars
  <2>3. CASE Enter(w)
    BY <1>t, <2>1, <2>3 DEF Enter
  <2>4. CASE Register(w) \/ RegisterCancelled(w)
    BY <1>t, <2>1, <2>4 DEF Register, RegisterCancelled
  <2>5. CASE Unregister(w) \/ Leave(w)
    BY <1>t, <2>1, <2>5 DEF Unregister, Leave, NoRun
  <2>6. CASE TaskCleanup
    BY <2>1, <2>6 DEF TaskCleanup, Claim
  <2>7. CASE NoLock
    <3>1. UNCHANGED <<proc, run, started>>
      BY <2>7 DEF NoLock, Resolve, Mkdtemp, RequestReport, MakeDirs, Launch, Raise,
         ParserRaises, WaitReturns, WaitExpires, JoinDrainers, CheckReport, Parse, ParseFails,
         RemoveDir, Terminate, Poll, GroupGone, GroupDenied, SigTerm, GraceReturns,
         GraceExpires, SigKill, KillDirect
    <3>2. pc'[w] \in Early \cup {"register"} => pc[w] \in Early \cup {"register"}
      BY <2>7 DEF NoLock, Resolve, Mkdtemp, RequestReport, MakeDirs, Launch, Raise,
         ParserRaises, WaitReturns, WaitExpires, JoinDrainers, CheckReport, Parse, ParseFails,
         RemoveDir, Terminate, Poll, GroupGone, GroupDenied, SigTerm, GraceReturns,
         GraceExpires, SigKill, KillDirect, Returns
    <3> QED
      BY <2>1, <3>1, <3>2
  <2> QED
    BY <1>1, <2>2, <2>3, <2>4, <2>5, <2>6, <2>7 DEF Execute, UnderLock
<1>2. CASE OnKill
  <2>1. pc'[w] = pc[w] /\ UNCHANGED <<proc, run, started>>
    BY <1>2, KillerFrame
  <2>2. target'[k] \in {target[k], proc}
    BY <1>2 DEF OnKill, KillCleanup, KillerCleanup, Claim, Cancel, CancelNothing,
       CancelTerminates, RemoveDir, Terminate, Poll, GroupGone, GroupDenied, SigTerm,
       GraceReturns, GraceExpires, SigKill, KillDirect
  <2>3. UNCHANGED <<hit, known>> \/ (hit' = pc[w] /\ (target[k] # run[w] => ~known'))
    BY <1>2, KillerWay
  <2> QED
    BY <2>1, <2>2, <2>3
<1>3. CASE HandlerRaises
  <2>1. target'[k] = target[k] /\ UNCHANGED <<hit, known, proc, run, started>>
    BY <1>3, StrikeFrame
  <2>2. pc'[w] \notin Early \cup {"register"}
    BY <1>3 DEF HandlerRaises, StrikeParserRequest, ParserRaises, StrikeExecute, StruckRun,
       StruckTerminating, StruckWaiting, StruckCaller, StruckBetween, StrikeSwallowed,
       StruckCleaning
  <2> QED
    BY <2>1, <2>2
<1>4. CASE Processes \/ Signal \/ HandlerReturns \/ UNCHANGED all
  BY <1>4, ProcessFrame DEF task, Signal, HandlerReturns, all, vars
<1> QED
  BY <1>1, <1>2, <1>3, <1>4 DEF TaskNext, KillThread, KillHandler, SelfDeadlock, Rest

LEMMA StoppingStep ==
  ASSUME DirectKillDenied = FALSE, TaskInv, Stopping, [TaskNext]_all
  PROVE  Stopping'
<1> USE OneTask, TaskTypes
    DEF TaskInv, Stopping, TerminateSteps, Goto, Move, Terminating,
        config, shared, threads, workers, procs, files
<1>r. /\ proc # NoRun => proc \in Runs
      /\ target[k] # NoRun => target[k] \in Runs
  BY MaxRunsAssumption DEF MaybeRun, Runs, NoRun
<1>1. CASE Execute
  <2>1. /\ pc'[k] = pc[k] /\ target'[k] = target[k] /\ back'[k] = back[k]
        /\ ~handler /\ ~handler'
    BY <1>1, WorkerFrame DEF Execute
  <2>2. \A r \in Runs : child[r] # "running" => child'[r] # "running"
                          \/ (pc[w] = "launch" /\ r = run[w])
    <3>1. CASE UnderLock \/ TakeLock
      BY <3>1 DEF TakeLock, vars, UnderLock, Enter, Register, RegisterCancelled, Unregister,
         Leave, TaskCleanup, Claim
    <3>2. CASE NoLock /\ ~Terminate(w)
      BY <3>2 DEF NoLock, Resolve, Mkdtemp, RequestReport, MakeDirs, Launch, Raise,
         ParserRaises, WaitReturns, WaitExpires, JoinDrainers, CheckReport, Parse, ParseFails,
         RemoveDir, Reaped
    <3>3. CASE Terminate(w)
      BY <3>3 DEF Terminate, Poll, GroupGone, GroupDenied, SigTerm, GraceReturns,
         GraceExpires, SigKill, KillDirect, Reaped, Killed
    <3> QED
      BY <1>1, <3>1, <3>2, <3>3 DEF Execute
  <2>3. pc[w] = "launch" => target[k] # run[w]
    BY DEF Unseen, Early
  <2> QED
    BY <1>r, <2>1, <2>2, <2>3
<1>2. CASE OnKill
  <2>1. proc' = proc /\ handler' = handler
    BY <1>2, KillerFrame
  <2>2. CASE KillCleanup \/ RemoveDir(k)
    BY <1>2, <2>1, <2>2 DEF KillCleanup, KillerCleanup, Claim, RemoveDir
  <2>3. CASE Cancel(k)
    BY <2>1, <2>3 DEF Cancel
  <2>4. CASE CancelNothing(k) \/ CancelTerminates(k)
    BY <1>r, <1>2, <2>1, <2>4 DEF CancelNothing, CancelTerminates, Reaped
  <2>5. CASE Poll(k) \/ GroupGone(k) \/ GroupDenied(k)
    BY <1>r, <1>2, <2>1, <2>5 DEF Poll, GroupGone, GroupDenied, Reaped
  <2>6. CASE SigTerm(k) \/ GraceReturns(k) \/ GraceExpires(k)
    BY <1>r, <1>2, <2>1, <2>6 DEF SigTerm, GraceReturns, GraceExpires, Reaped
  <2>7. CASE SigKill(k) \/ KillDirect(k)
    BY <1>r, <1>2, <2>1, <2>7 DEF SigKill, KillDirect, Killed
  <2> QED
    BY <1>2, <2>2, <2>3, <2>4, <2>5, <2>6, <2>7 DEF OnKill, Terminate
<1>3. CASE HandlerRaises
  BY <1>3, StrikeFrame
<1>4. CASE Signal \/ HandlerReturns
  BY <1>4 DEF Signal, HandlerReturns, vars
<1>5. CASE Processes
  <2>1. UNCHANGED <<pc, target, back, proc, handler>>
    BY <1>5, ProcessFrame DEF task
  <2>2. \A r \in Runs : child[r] # "running" => child'[r] # "running"
    BY <1>5, ProcessFrame
  <2> QED
    BY <1>r, <2>1, <2>2
<1>6. CASE UNCHANGED all
  BY <1>6 DEF all, vars, task
<1> QED
  BY <1>1, <1>2, <1>3, <1>4, <1>5, <1>6
     DEF TaskNext, KillThread, KillHandler, SelfDeadlock, Rest

LEMMA AnsweredStep ==
  ASSUME DirectKillDenied = FALSE, TaskInv, Stopping, Answered, [TaskNext]_all
  PROVE  Answered'
<1> USE OneTask, TaskTypes
    DEF TaskInv, Answered, Owns, Published, TargetOwn, TerminateSteps, Goto, Move, Fail,
        Terminating, config, shared, threads, workers, procs, files
<1>1. CASE TakeLock
  BY <1>1 DEF TakeLock, vars
<1>2. CASE UnderLock
  <2>1. UNCHANGED <<raised, hit, child>>
    BY <1>2 DEF UnderLock, Enter, Register, RegisterCancelled, Unregister, Leave, TaskCleanup,
       Claim
  <2>2. CASE Enter(w) \/ Register(w) \/ RegisterCancelled(w)
    BY <2>1, <2>2 DEF Enter, Register, RegisterCancelled
  <2>3. CASE Unregister(w) \/ Leave(w)
    BY <2>1, <2>3 DEF Unregister, Leave
  <2>4. CASE TaskCleanup
    BY <2>1, <2>4 DEF TaskCleanup, Claim
  <2> QED
    BY <1>2, <2>2, <2>3, <2>4 DEF UnderLock
<1>3. CASE NoLock
  <2>0. UNCHANGED <<raised, hit>>
    BY <1>3 DEF NoLock, task
  <2>1. CASE \/ Resolve(w) \/ Mkdtemp(w) \/ RequestReport(w) \/ MakeDirs(w)
             \/ Raise(w) \/ ParserRaises(w) \/ JoinDrainers(w) \/ CheckReport(w)
             \/ Parse(w) \/ ParseFails(w) \/ RemoveDir(w)
    BY <2>0, <2>1 DEF Resolve, Mkdtemp, RequestReport, MakeDirs, Raise, ParserRaises,
       JoinDrainers, CheckReport, Parse, ParseFails, RemoveDir
  <2>2. CASE WaitReturns(w) \/ WaitExpires(w)
    BY <2>0, <2>2 DEF WaitReturns, WaitExpires, Reaped
  <2>3. CASE Launch(w)
    BY <2>0, <2>3 DEF Launch
  <2>4. CASE Poll(w) \/ GroupGone(w) \/ GroupDenied(w) \/ SigTerm(w)
    BY <2>0, <2>4 DEF Poll, GroupGone, GroupDenied, SigTerm, Reaped
  <2>5. CASE GraceReturns(w) \/ GraceExpires(w) \/ SigKill(w) \/ KillDirect(w)
    BY <2>0, <2>5 DEF GraceReturns, GraceExpires, SigKill, KillDirect, Reaped, Killed
  <2> QED
    BY <1>3, <2>1, <2>2, <2>3, <2>4, <2>5 DEF NoLock, Terminate
<1>4. CASE OnKill
  <2>1. pc'[w] = pc[w] /\ UNCHANGED <<run, raised>>
    BY <1>4, KillerFrame
  <2>2. \A r \in Runs : child'[r] = "running" => child[r] = "running"
    BY <1>4 DEF OnKill, KillCleanup, KillerCleanup, Claim, Cancel, CancelNothing,
       CancelTerminates, RemoveDir, Terminate, Poll, GroupGone, GroupDenied, SigTerm,
       GraceReturns, GraceExpires, SigKill, KillDirect, Reaped, Killed
  <2>3. hit' = hit \/ hit = "none"
    BY <1>4, KillerWay DEF Marked
  <2> QED
    BY <2>1, <2>2, <2>3
<1>5. CASE HandlerRaises
  <2>1. \A r \in Runs : child[r] = "running" =>
          (Owns(w, r) /\ pc[w] = "register") \/ (raised /\ hit = "register")
    BY <1>5, StrikeFrame DEF Stopping, Runs, NoRun
  <2>2. handler /\ pc[k] = "done" /\ raised' /\ UNCHANGED <<child, hit>>
    BY <1>5, StrikeFrame
  <2> QED
    BY <2>1, <2>2 DEF Marked
<1>6. CASE Signal \/ HandlerReturns
  BY <1>6 DEF Signal, HandlerReturns, vars
<1>7. CASE Processes
  BY <1>7, ProcessFrame DEF Processes, ChildExits, KidsStart, KidsExit, task
<1>8. CASE UNCHANGED all
  BY <1>8 DEF all, vars, task
<1> QED
  BY <1>1, <1>2, <1>3, <1>4, <1>5, <1>6, <1>7, <1>8
     DEF TaskNext, Execute, KillThread, KillHandler, SelfDeadlock, Rest

----------------------------------------------------------------------------
(* The directories *)

LEMMA HoldingStep ==
  ASSUME TaskInv, [TaskNext]_all
  PROVE  Holding'
<1> USE OneTask, TaskTypes
    DEF TaskInv, Holding, NothingMade, Working, TerminateSteps, InRun, RunSteps, Goto, Move, Fail, Terminating,
        config, shared, threads, workers, procs, files
<1>1. CASE TakeLock
  BY <1>1 DEF TakeLock, vars
<1>2. CASE UnderLock
  <2>1. CASE Enter(w) \/ Register(w) \/ RegisterCancelled(w)
    BY <1>2, <2>1 DEF UnderLock, Enter, Register, RegisterCancelled
  <2>2. CASE Unregister(w) \/ Leave(w)
    BY <1>2, <2>2 DEF UnderLock, Unregister, Leave
  <2>3. CASE TaskCleanup
    BY <1>2, <2>3 DEF UnderLock, TaskCleanup, Claim
  <2> QED
    BY <1>2, <2>1, <2>2, <2>3 DEF UnderLock
<1>3. CASE NoLock /\ ~handler
  <2>0. UNCHANGED <<handler, hit>>
    BY <1>3 DEF NoLock, task
  <2>1. CASE Resolve(w) \/ Mkdtemp(w) \/ MakeDirs(w) \/ Launch(w)
    BY <2>0, <2>1 DEF Resolve, Mkdtemp, MakeDirs, Launch
  <2>2. CASE Raise(w) \/ ParserRaises(w)
    BY <2>0, <2>2 DEF Raise, ParserRaises, Fresh, Unborn, Early
  <2>3. CASE RequestReport(w)
    BY <1>3, <2>0, <2>3 DEF RequestReport
  <2>4. CASE JoinDrainers(w) \/ CheckReport(w) \/ Parse(w) \/ ParseFails(w) \/ RemoveDir(w)
    BY <2>0, <2>4 DEF JoinDrainers, CheckReport, Parse, ParseFails, RemoveDir
  <2>5. CASE WaitReturns(w) \/ WaitExpires(w)
    BY <2>0, <2>5 DEF WaitReturns, WaitExpires
  <2>6. CASE Terminate(w)
    BY <2>0, <2>6 DEF Terminate, Poll, GroupGone, GroupDenied, SigTerm, GraceReturns,
       GraceExpires, SigKill, KillDirect, Published, TargetOwn
  <2> QED
    BY <1>3, <2>1, <2>2, <2>3, <2>4, <2>5, <2>6 DEF NoLock
<1>4. CASE OnKill
  <2>1. pc'[w] = pc[w] /\ UNCHANGED <<home, run, outcome, handler>> /\ claim'[w] = claim[w]
    BY <1>4, KillerFrame
  <2>2. CASE KillerCleanup(k) /\ hit' = pc[w]
    BY <2>1, <2>2 DEF KillerCleanup, Claim
  <2>3. CASE RemoveDir(k) /\ hit' = hit
    BY <2>1, <2>3 DEF RemoveDir, Marked
  <2>4. CASE /\ pc[k] \in {"idle", "check"} \cup TerminateSteps
             /\ pc'[k] \in {"check"} \cup TerminateSteps \cup Returns
             /\ UNCHANGED <<created, claim, disk, report, hit>>
    <3>1. \A r \in Runs : child[r] = "none" => child'[r] = "none"
      BY <1>4, <2>4 DEF OnKill, KillCleanup, KillerCleanup, Cancel, CancelNothing,
         CancelTerminates, RemoveDir, Terminate, Poll, GroupGone, GroupDenied, SigTerm,
         GraceReturns, GraceExpires, SigKill, KillDirect, Reaped, Killed, Returns
    <3> QED
      BY <2>1, <2>4, <3>1 DEF Returns
  <2> QED
    BY <1>4, <2>2, <2>3, <2>4, KillerWay
<1>5. CASE HandlerRaises
  <2>1. /\ handler /\ ~handler' /\ pc[k] = "done" /\ pc'[k] = "done" /\ claim'[k] = claim[k]
        /\ UNCHANGED <<created, home, hit>>
    BY <1>5, StrikeFrame
  <2>2. hit # "none" /\ created = NoRun
    BY <1>5, <2>1 DEF Marked
  <2>3. claim'[w] # NoRun => claim'[w] = claim[w] /\ pc'[w] = pc[w]
    BY <1>5, <2>1
       DEF HandlerRaises, StrikeParserRequest, ParserRaises, StrikeExecute, StruckRun,
           StruckTerminating, StruckWaiting, StruckCaller, StruckBetween, StrikeSwallowed,
           StruckCleaning
  <2> QED
    BY <2>1, <2>2, <2>3
<1>6. CASE Signal \/ HandlerReturns
  BY <1>6 DEF Signal, HandlerReturns, vars
<1>7. CASE Processes
  <2>1. UNCHANGED <<created, claim, pc, run, outcome, home, handler, hit>>
    BY <1>7, ProcessFrame DEF task
  <2>2. NothingMade => NothingMade'
    BY <1>7, <2>1, ProcessFrame
  <2> QED
    BY <2>1, <2>2
<1>8. CASE UNCHANGED all
  BY <1>8 DEF all, vars, task
<1> QED
  BY <1>1, <1>2, <1>3, <1>4, <1>5, <1>6, <1>7, <1>8
     DEF TaskNext, Execute, KillThread, KillHandler, SelfDeadlock, Rest

LEMMA UnbornStep ==
  ASSUME TaskInv, [TaskNext]_all
  PROVE  Unborn'
<1> USE OneTask, TaskTypes DEF TaskInv, Early
<1>t. run[w] \in 0..started /\ started \in Nat
  BY MaxRunsAssumption DEF Fresh, MaybeRun
<1>1. CASE Enter(w)
  BY <1>t, <1>1 DEF Unborn, Enter, Goto, procs, Runs
<1>2. CASE Launch(w)
  BY <1>t, <1>2 DEF Unborn, Launch, Move, Goto, workers
<1>3. CASE /\ UNCHANGED <<run, started>>
           /\ pc'[w] \in Early => pc[w] \in Early
           /\ \A r \in Runs : child[r] = "none" => child'[r] = "none"
  BY <1>3 DEF Unborn
<1>4. ASSUME ~Enter(w), ~Launch(w), [TaskNext]_all
      PROVE  /\ UNCHANGED <<run, started>>
             /\ pc'[w] \in Early => pc[w] \in Early
             /\ \A r \in Runs : child[r] = "none" => child'[r] = "none"
  <2> USE DEF Goto, Move, Fail, Terminating, Reaped, Killed,
              config, shared, threads, workers, procs, files
  <2>1. CASE UnderLock
    BY <1>4, <2>1 DEF UnderLock, Register, RegisterCancelled, Unregister, Leave,
       TaskCleanup, Claim
  <2>2. CASE NoLock /\ ~Terminate(w)
    BY <1>4, <2>2 DEF NoLock, Resolve, Mkdtemp, RequestReport, MakeDirs, Raise,
       ParserRaises, WaitReturns, WaitExpires, JoinDrainers, CheckReport, Parse, ParseFails,
       RemoveDir
  <2>3. CASE Terminate(w)
    BY <2>3 DEF Terminate, Poll, GroupGone, GroupDenied, SigTerm, GraceReturns,
       GraceExpires, SigKill, KillDirect, Returns
  <2>4. CASE OnKill
    <3>1. pc'[w] = pc[w] /\ UNCHANGED <<run, started>>
      BY <2>4, KillerFrame
    <3>2. \A r \in Runs : child[r] = "none" => child'[r] = "none"
      BY <2>4 DEF OnKill, KillCleanup, KillerCleanup, Claim, Cancel, CancelNothing,
         CancelTerminates, RemoveDir, Terminate, Poll, GroupGone, GroupDenied, SigTerm,
         GraceReturns, GraceExpires, SigKill, KillDirect
    <3> QED
      BY <3>1, <3>2
  <2>5. CASE HandlerRaises
    <3>1. UNCHANGED <<run, started, child>>
      BY <2>5, StrikeFrame
    <3>2. pc'[w] \notin Early
      BY <2>5 DEF HandlerRaises, StrikeParserRequest, ParserRaises, StrikeExecute, StruckRun, StruckTerminating,
         StruckWaiting, StruckCaller, StruckBetween, StrikeSwallowed, StruckCleaning
    <3> QED
      BY <3>1, <3>2
  <2>6. CASE Processes
    BY <2>6 DEF Processes, ChildExits, KidsStart, KidsExit
  <2>7. CASE TakeLock \/ Signal \/ HandlerReturns \/ UNCHANGED all
    BY <2>7 DEF TakeLock, Signal, HandlerReturns, all, vars
  <2> QED
    BY <1>4, <2>1, <2>2, <2>3, <2>4, <2>5, <2>6, <2>7
       DEF TaskNext, Execute, NoLock, KillThread, KillHandler, SelfDeadlock, Rest
<1> QED
  BY <1>1, <1>2, <1>3, <1>4

LEMMA FreshStep ==
  ASSUME TaskInv, [TaskNext]_all
  PROVE  Fresh'
<1> USE OneTask, TaskTypes
    DEF TaskInv, Fresh, Goto, Move, Fail, Terminating,
        config, shared, threads, workers, procs, files
<1>t. disk \cup report \subseteq 1..started /\ run[w] \in 0..started /\ started \in Nat
  BY MaxRunsAssumption DEF MaybeRun
<1>1. CASE UnderLock
  <2>1. UNCHANGED <<disk, report, hit>>
    BY <1>1 DEF UnderLock, Enter, Register, RegisterCancelled, Unregister, Leave,
       TaskCleanup, Claim
  <2>2. CASE Enter(w)
    BY <1>t, <2>1, <2>2 DEF Enter
  <2>3. CASE Register(w) \/ RegisterCancelled(w) \/ Unregister(w) \/ Leave(w) \/ TaskCleanup
    <3>1. UNCHANGED <<run, started>>
      BY <2>3 DEF Register, RegisterCancelled, Unregister, Leave, TaskCleanup, Claim
    <3>2. pc'[w] \notin {"resolve", "mkdtemp", "request"}
      BY <2>3 DEF Register, RegisterCancelled, Unregister, Leave, TaskCleanup, Claim
    <3> QED
      BY <2>1, <3>1, <3>2
  <2> QED
    BY <1>1, <2>2, <2>3 DEF UnderLock
<1>2. CASE NoLock
  <2>1. UNCHANGED <<run, started, hit>>
    BY <1>2 DEF NoLock, task, Resolve, Mkdtemp, RequestReport, MakeDirs, Launch, Raise,
       ParserRaises, WaitReturns, WaitExpires, JoinDrainers, CheckReport, Parse, ParseFails,
       RemoveDir, Terminate, Poll, GroupGone, GroupDenied, SigTerm, GraceReturns,
       GraceExpires, SigKill, KillDirect
  <2>2. CASE Resolve(w)
    BY <2>1, <2>2 DEF Resolve
  <2>3. CASE Mkdtemp(w) \/ MakeDirs(w)
    <3>1. run[w] \in 1..started
      BY <1>t, <2>3 DEF Mkdtemp, MakeDirs, InRun, RunSteps, Runs
    <3> QED
      BY <2>1, <2>3, <3>1 DEF Mkdtemp, MakeDirs
  <2>4. CASE RequestReport(w) \/ ParserRaises(w) \/ RemoveDir(w)
    BY <2>1, <2>4 DEF RequestReport, ParserRaises, RemoveDir
  <2>5. CASE \/ Launch(w) \/ Raise(w) \/ WaitReturns(w) \/ WaitExpires(w)
             \/ JoinDrainers(w) \/ CheckReport(w) \/ Parse(w) \/ ParseFails(w)
    BY <2>1, <2>5 DEF Launch, Raise, WaitReturns, WaitExpires, JoinDrainers, CheckReport,
       Parse, ParseFails
  <2>6. CASE Terminate(w)
    <3>1. UNCHANGED <<disk, report>>
      BY <2>6 DEF Terminate, Poll, GroupGone, GroupDenied, SigTerm, GraceReturns,
         GraceExpires, SigKill, KillDirect
    <3>2. pc'[w] \notin {"resolve", "mkdtemp", "request"}
      BY <2>6 DEF Terminate, Poll, GroupGone, GroupDenied, SigTerm, GraceReturns,
         GraceExpires, SigKill, KillDirect, Returns
    <3> QED
      BY <2>1, <3>1, <3>2
  <2> QED
    BY <1>2, <2>2, <2>3, <2>4, <2>5, <2>6 DEF NoLock
<1>3. CASE OnKill
  <2>1. pc'[w] = pc[w] /\ UNCHANGED <<run, started>>
    BY <1>3, KillerFrame
  <2>2. disk' \subseteq disk /\ report' \subseteq report
    BY <1>3, KillerWay DEF KillerCleanup, Claim, RemoveDir
  <2>3. hit' = "none" => hit = "none"
    BY <1>3, KillerWay DEF Marked
  <2> QED
    BY <2>1, <2>2, <2>3
<1>4. CASE HandlerRaises
  <2>1. hit # "none" /\ UNCHANGED <<hit, report, run, started>>
    BY <1>4, StrikeFrame DEF Marked
  <2>2. disk' \subseteq disk
    BY <1>4 DEF HandlerRaises, StrikeParserRequest, ParserRaises, StrikeExecute, StruckRun, StruckTerminating,
         StruckWaiting, StruckCaller, StruckBetween, StrikeSwallowed, StruckCleaning
  <2> QED
    BY <2>1, <2>2
<1>5. CASE Processes
  <2>1. UNCHANGED <<pc, run, started, hit>>
    BY <1>5, ProcessFrame DEF task
  <2>2. \A r \in (disk' \cup report') \ (disk \cup report) : r \in Runs /\ r <= started
    BY <1>5, <1>t, ProcessFrame DEF Unborn, Runs
  <2>3. \/ UNCHANGED <<disk, report>>
        \/ \E r \in Runs : /\ child[r] = "running"
                           /\ disk' = disk \cup {r} /\ report' = report \cup {r}
    BY <1>5, ProcessFrame
  <2>4. pc[w] \in {"resolve", "mkdtemp", "request"} => child[run[w]] = "none"
    BY DEF Unborn, Early, InRun, RunSteps
  <2>5. disk' \cup report' \subseteq 1..started
    BY <1>t, <2>2 DEF Runs
  <2> QED
    BY <2>1, <2>3, <2>4, <2>5
<1>6. CASE TakeLock \/ Signal \/ HandlerReturns \/ UNCHANGED all
  BY <1>6 DEF TakeLock, Signal, HandlerReturns, all, vars, task
<1> QED
  BY <1>1, <1>2, <1>3, <1>4, <1>5, <1>6
     DEF TaskNext, Execute, KillThread, KillHandler, SelfDeadlock, Rest

LEMMA WatchedStep ==
  ASSUME TaskInv, ChildInv, [TaskNext]_all
  PROVE  Watched'
<1> USE OneTask, TaskTypes
    DEF TaskInv, ChildInv, Watched, Window, Alive, TerminateSteps, InRun, RunSteps,
        Goto, Move, Fail, Terminating, config, shared, threads, workers, procs, files
<1>1. CASE Execute
  <2>1. UNCHANGED <<home, hit, known>>
    BY <1>1, WorkerFrame
  <2>2. CASE TakeLock
    BY <2>1, <2>2 DEF TakeLock, vars
  <2>3. CASE Enter(w) \/ Register(w) \/ RegisterCancelled(w)
    BY <2>1, <2>3 DEF Enter, Register, RegisterCancelled
  <2>4. CASE Unregister(w) \/ Leave(w) \/ TaskCleanup
    BY <2>4 DEF Unregister, Leave, TaskCleanup, Claim
  <2>5. CASE Resolve(w) \/ Mkdtemp(w) \/ RequestReport(w)
    BY <2>1, <2>5 DEF Resolve, Mkdtemp, RequestReport
  <2>6. CASE MakeDirs(w) \/ Launch(w)
    BY <2>1, <2>6 DEF MakeDirs, Launch
  <2>7. CASE \/ Raise(w) \/ ParserRaises(w) \/ WaitReturns(w) \/ JoinDrainers(w)
             \/ CheckReport(w) \/ Parse(w) \/ ParseFails(w) \/ RemoveDir(w)
    BY <2>7 DEF Raise, ParserRaises, WaitReturns, JoinDrainers, CheckReport, Parse,
       ParseFails, RemoveDir
  <2>8. CASE WaitExpires(w)
    BY <2>1, <2>8 DEF WaitExpires
  <2>9. CASE Terminate(w)
    <3>1. pc[w] \in TerminateSteps /\ UNCHANGED <<created, run>>
      BY <2>9 DEF Terminate, Poll, GroupGone, GroupDenied, SigTerm, GraceReturns,
         GraceExpires, SigKill, KillDirect
    <3>2. pc'[w] \notin {"makedirs", "launch"}
      BY <2>9 DEF Terminate, Poll, GroupGone, GroupDenied, SigTerm, GraceReturns,
         GraceExpires, SigKill, KillDirect, Returns
    <3>3. \A r \in Runs : child'[r] = "running" => child[r] = "running"
      BY <2>9 DEF Terminate, Poll, GroupGone, GroupDenied, SigTerm, GraceReturns,
         GraceExpires, SigKill, KillDirect, Reaped, Killed
    <3> QED
      BY <2>1, <3>1, <3>2, <3>3
  <2> QED
    BY <1>1, <2>2, <2>3, <2>4, <2>5, <2>6, <2>7, <2>8, <2>9 DEF Execute, UnderLock, NoLock
<1>2. CASE OnKill
  <2>1. pc'[w] = pc[w] /\ UNCHANGED <<home, run>>
    BY <1>2, KillerFrame
  <2>2. \A r \in Runs : child'[r] = "running" => child[r] = "running"
    BY <1>2 DEF OnKill, KillCleanup, KillerCleanup, Claim, Cancel, CancelNothing,
       CancelTerminates, RemoveDir, Terminate, Poll, GroupGone, GroupDenied, SigTerm,
       GraceReturns, GraceExpires, SigKill, KillDirect, Reaped, Killed
  <2>3. CASE pc[k] = "cleanup" /\ hit' = pc[w] /\ known' = (target[k] = run[w])
    <3>1. CASE pc[w] \in {"makedirs", "launch", "register"}
      BY <2>1, <2>3, <3>1 DEF Unseen, Early
    <3>2. CASE pc[w] \in {"wait"} \cup TerminateSteps
      <4>1. run[w] \in Runs /\ run[w] # NoRun
        BY <3>2 DEF Runs, NoRun
      <4>2. target[k] = run[w] => child[run[w]] # "running"
        BY <2>3, <4>1 DEF Stopping
      <4> QED
        BY <2>1, <2>2, <2>3, <3>2, <4>1, <4>2
    <3> QED
      BY <2>1, <3>1, <3>2
  <2>4. CASE UNCHANGED <<created, hit, known>>
    BY <2>1, <2>2, <2>4
  <2> QED
    BY <1>2, <2>3, <2>4, KillerWay DEF RemoveDir
<1>3. CASE HandlerRaises
  <2>1. UNCHANGED <<home, created, run, child, hit, known>>
    BY <1>3, StrikeFrame
  <2>2. /\ pc'[w] \notin {"makedirs", "launch", "register"}
        /\ pc'[w] \in Alive => pc[w] \in Alive
    BY <1>3 DEF HandlerRaises, StrikeParserRequest, ParserRaises, StrikeExecute, StruckRun, StruckTerminating,
         StruckWaiting, StruckCaller, StruckBetween, StrikeSwallowed, StruckCleaning
  <2> QED
    BY <2>1, <2>2
<1>4. CASE Processes
  <2>1. UNCHANGED <<home, created, run, pc, hit, known>>
    BY <1>4, ProcessFrame DEF task
  <2>2. \A r \in Runs : child'[r] = "running" => child[r] = "running"
    BY <1>4, ProcessFrame
  <2> QED
    BY <2>1, <2>2
<1>5. CASE Signal \/ HandlerReturns \/ UNCHANGED all
  BY <1>5 DEF Signal, HandlerReturns, all, vars, task
<1> QED
  BY <1>1, <1>2, <1>3, <1>4, <1>5 DEF TaskNext, KillThread, KillHandler, SelfDeadlock, Rest

\* Who owns a directory, with the two threads there are.
LEMMA Owners ==
  \A d : Tracked(d) <=> \/ created = d \/ claim[w] = d \/ claim[k] = d
                        \/ run[w] = d /\ pc[w] = "request"
BY OneTask DEF Tracked

LEMMA OwnersNext ==
  \A d : Tracked(d)' <=> \/ created' = d \/ claim'[w] = d \/ claim'[k] = d
                         \/ run'[w] = d /\ pc'[w] = "request"
BY OneTask DEF Tracked

LEMMA AccountedStep ==
  ASSUME TaskInv, ChildInv, [TaskNext]_all
  PROVE  Accounted'
<1> USE OneTask, TaskTypes
    DEF TaskInv, ChildInv, Accounted, Window, Holding, Goto, Move, Fail, Terminating,
        config, shared, threads, workers, procs, files
<1>t. \A d \in disk : d # NoRun
  BY DEF Runs, NoRun
<1>1. CASE UnderLock
  <2>1. UNCHANGED <<policy, disk, hit, known, raised>>
    BY <1>1 DEF UnderLock, Enter, Register, RegisterCancelled, Unregister, Leave,
       TaskCleanup, Claim
  <2>2. CASE Enter(w) \/ Register(w) \/ RegisterCancelled(w) \/ Unregister(w) \/ Leave(w)
    <3>1. UNCHANGED <<created, claim>> /\ pc[w] # "request"
      BY <2>2 DEF Enter, Register, RegisterCancelled, Unregister, Leave
    <3> QED
      BY <2>1, <3>1, Owners, OwnersNext
  <2>3. CASE TaskCleanup
    <3>1. PICK success \in BOOLEAN : pc[w] = "cleanup" /\ Claim(w, success, "idle")
      BY <2>3 DEF TaskCleanup
    <3>2. claim[w] = NoRun /\ (policy = "always" => Removes(success))
      BY <3>1 DEF Removes
    <3>3. claim'[k] = claim[k] /\ (policy = "always" /\ created # NoRun => claim'[w] = created)
      BY <3>1, <3>2 DEF Claim
    <3> QED
      BY <1>t, <2>1, <3>1, <3>2, <3>3, Owners, OwnersNext
  <2> QED
    BY <1>1, <2>2, <2>3 DEF UnderLock
<1>2. CASE NoLock
  <2>1. UNCHANGED <<policy, home, hit, known, raised, run>>
    BY <1>2 DEF NoLock, task, Resolve, Mkdtemp, RequestReport, MakeDirs, Launch, Raise,
       ParserRaises, WaitReturns, WaitExpires, JoinDrainers, CheckReport, Parse, ParseFails,
       RemoveDir, Terminate, Poll, GroupGone, GroupDenied, SigTerm, GraceReturns,
       GraceExpires, SigKill, KillDirect
  <2>2. CASE Mkdtemp(w)
    BY <2>1, <2>2, Owners, OwnersNext DEF Mkdtemp
  <2>3. CASE RequestReport(w)
    BY <1>t, <2>1, <2>3, Owners, OwnersNext DEF RequestReport
  <2>4. CASE MakeDirs(w)
    BY <2>1, <2>4, Owners, OwnersNext DEF MakeDirs, Watched
  <2>5. CASE ParserRaises(w)
    BY <2>1, <2>5, Owners, OwnersNext DEF ParserRaises
  <2>6. CASE RemoveDir(w)
    <3>1. disk' = disk \ {claim[w]} /\ pc[w] = "remove" /\ claim'[k] = claim[k]
          /\ created' = created
      BY <2>6 DEF RemoveDir
    <3> QED
      BY <2>1, <3>1, Owners, OwnersNext
  <2>7. CASE \/ Resolve(w) \/ Launch(w) \/ Raise(w) \/ WaitReturns(w) \/ WaitExpires(w)
             \/ JoinDrainers(w) \/ CheckReport(w) \/ Parse(w) \/ ParseFails(w) \/ Terminate(w)
    <3>1. UNCHANGED <<disk, created, claim>>
      BY <2>7 DEF Resolve, Launch, Raise, WaitReturns, WaitExpires, JoinDrainers, CheckReport,
         Parse, ParseFails, Terminate, Poll, GroupGone, GroupDenied, SigTerm, GraceReturns,
         GraceExpires, SigKill, KillDirect
    <3>2. pc[w] # "request"
      BY <2>7 DEF Resolve, Launch, Raise, WaitReturns, WaitExpires, JoinDrainers, CheckReport,
         Parse, ParseFails, Terminate, Poll, GroupGone, GroupDenied, SigTerm, GraceReturns,
         GraceExpires, SigKill, KillDirect
    <3> QED
      BY <2>1, <3>1, <3>2, Owners, OwnersNext
  <2> QED
    BY <1>2, <2>2, <2>3, <2>4, <2>5, <2>6, <2>7 DEF NoLock
<1>3. CASE OnKill
  <2>1. pc'[w] = pc[w] /\ UNCHANGED <<policy, run, raised>> /\ claim'[w] = claim[w]
    BY <1>3, KillerFrame
  <2>2. CASE KillerCleanup(k) /\ hit = "none"
    <3>1. pc[k] = "cleanup" /\ Claim(k, FALSE, "done") /\ disk' = disk
      BY <2>2 DEF KillerCleanup, Claim
    <3>2. claim[k] = NoRun /\ (policy = "always" => Removes(FALSE))
      BY <3>1 DEF Removes
    <3>3. policy = "always" /\ created # NoRun => claim'[k] = created
      BY <3>1, <3>2 DEF Claim
    <3>4. ~Window
      BY <2>2 DEF Alive, TerminateSteps
    <3> QED
      BY <1>t, <2>1, <2>2, <3>1, <3>2, <3>3, <3>4, Owners, OwnersNext
  <2>3. CASE RemoveDir(k) /\ UNCHANGED <<hit, known>>
    <3>1. disk' = disk \ {claim[k]} /\ created' = created
      BY <2>3 DEF RemoveDir
    <3> QED
      BY <2>1, <2>3, <3>1, Owners, OwnersNext
  <2>4. CASE UNCHANGED <<created, claim, disk, report, hit, known>>
    BY <2>1, <2>4, Owners, OwnersNext
  <2> QED
    BY <1>3, <2>2, <2>3, <2>4, KillerWay DEF Marked
<1>4. CASE HandlerRaises
  <2>1. /\ handler /\ pc[k] = "done" /\ raised' /\ hit = pc[w] /\ claim'[k] = claim[k]
        /\ UNCHANGED <<created, policy, run, hit, known>>
    BY <1>4, StrikeFrame DEF Marked
  <2>2. CASE pc[w] \in {"request", "remove"}
    BY <2>1, <2>2
  <2>3. CASE pc[w] \notin {"request", "remove"}
    <3>1. claim[w] = NoRun /\ disk' = disk
      BY <1>4, <2>3
         DEF HandlerRaises, StrikeParserRequest, ParserRaises, StrikeExecute, StruckRun, StruckTerminating,
         StruckWaiting, StruckCaller, StruckBetween, StrikeSwallowed, StruckCleaning
    <3> QED
      BY <1>t, <2>1, <2>3, <3>1, Owners, OwnersNext
  <2> QED
    BY <2>2, <2>3
<1>5. CASE TakeLock \/ Signal \/ HandlerReturns \/ UNCHANGED all
  <2>1. UNCHANGED <<disk, created, claim, pc, run, policy, hit, known, raised>>
    BY <1>5 DEF task, TakeLock, Signal, HandlerReturns, all, vars
  <2> QED
    BY <2>1, Owners, OwnersNext
<1>6. CASE Processes
  <2>1. UNCHANGED <<created, claim, pc, run, policy, hit, known, raised>>
    BY <1>6, ProcessFrame DEF task
  <2>2. ASSUME NEW r \in Runs, child[r] = "running", home = "fallback"
        PROVE  created = r \/ Window
    <3>1. CASE Owns(w, r)
      BY <2>2, <3>1 DEF Owns, Watched, Alive
    <3>2. CASE hit = "register"
      BY <3>2 DEF Unseen, Alive
    <3> QED
      BY <2>2, <3>1, <3>2 DEF Answered
  <2>3. disk' = disk \/ \E r \in Runs : disk' = disk \cup {r} /\ (created = r \/ Window)
    BY <1>6, <2>2, ProcessFrame
  <2> QED
    BY <2>1, <2>3, Owners, OwnersNext
<1> QED
  BY <1>1, <1>2, <1>3, <1>4, <1>5, <1>6
     DEF TaskNext, Execute, KillThread, KillHandler, SelfDeadlock, Rest

----------------------------------------------------------------------------
(* The last round *)

LEMMA EndedStep ==
  ASSUME TaskInv, [TaskNext]_all
  PROVE  Ended'
<1> USE OneTask, TaskTypes
    DEF TaskInv, Ended, Parsed, Goto, Move, Fail, Terminating,
        config, shared, threads, workers, procs, files
<1>1. CASE UnderLock
  <2>1. CASE Enter(w) \/ Register(w) \/ RegisterCancelled(w)
    BY <2>1 DEF Enter, Register, RegisterCancelled
  <2>2. CASE Unregister(w) \/ Leave(w)
    BY <2>2 DEF Unregister, Leave
  <2>3. CASE TaskCleanup
    BY <2>3 DEF TaskCleanup, Claim
  <2> QED
    BY <1>1, <2>1, <2>2, <2>3 DEF UnderLock
<1>2. CASE NoLock
  <2>1. CASE Resolve(w) \/ Mkdtemp(w) \/ RequestReport(w) \/ MakeDirs(w) \/ Launch(w)
    BY <2>1 DEF Resolve, Mkdtemp, RequestReport, MakeDirs, Launch
  <2>2. CASE Raise(w) \/ ParserRaises(w) \/ WaitReturns(w) \/ WaitExpires(w)
    BY <2>2 DEF Raise, ParserRaises, WaitReturns, WaitExpires
  <2>3. CASE JoinDrainers(w) \/ CheckReport(w) \/ Parse(w) \/ ParseFails(w) \/ RemoveDir(w)
    BY <2>3 DEF JoinDrainers, CheckReport, Parse, ParseFails, RemoveDir
  <2>4. CASE Terminate(w)
    BY <2>4 DEF Terminate, Poll, GroupGone, GroupDenied, SigTerm, GraceReturns,
       GraceExpires, SigKill, KillDirect, Published, TargetOwn, TerminateSteps
  <2> QED
    BY <1>2, <2>1, <2>2, <2>3, <2>4 DEF NoLock
<1>3. CASE OnKill
  BY <1>3, KillerFrame
<1>4. CASE HandlerRaises
  BY <1>4 DEF HandlerRaises, StrikeParserRequest, ParserRaises, StrikeExecute, StruckRun, StruckTerminating,
         StruckWaiting, StruckCaller, StruckBetween, StrikeSwallowed, StruckCleaning
<1>5. CASE Processes \/ TakeLock \/ Signal \/ HandlerReturns \/ UNCHANGED all
  BY <1>5, ProcessFrame DEF TakeLock, Signal, HandlerReturns, all, vars
<1> QED
  BY <1>1, <1>2, <1>3, <1>4, <1>5
     DEF TaskNext, Execute, KillThread, KillHandler, SelfDeadlock, Rest

\* What a handler has found at work, execute() takes to its end.
LEMMA DoomedStep ==
  ASSUME TaskInv, Closing, Execute, Doomed, pc[k] = "done"
  PROVE  /\ run'[w] = run[w] /\ started' = started /\ run[w] \notin disk' \cup report'
         /\ \/ pc'[w] \in Working
            \/ pc'[w] \in {"cleanup", "remove", "idle"} /\ Final'
         /\ run[w] \in Runs => child'[run[w]] # "running"
<1> USE OneTask, TaskTypes
    DEF TaskInv, Closing, Doomed, Final, Working, TerminateSteps, InRun, RunSteps, Goto, Move, Fail, Terminating,
        config, shared, threads, workers, procs, files
<1>1. CASE TakeLock
  BY <1>1 DEF TakeLock, vars
<1>2. CASE UnderLock
  <2>1. ~Enter(w)
    BY <1>2 DEF UnderLock, Enter, Locked, MayEnter
  <2>2. CASE Register(w) \/ RegisterCancelled(w)
    BY <2>2 DEF Register, RegisterCancelled
  <2>3. CASE Unregister(w) \/ Leave(w)
    BY <2>3 DEF Unregister, Leave, Ended, Parsed
  <2>4. CASE TaskCleanup
    BY <2>4 DEF TaskCleanup, Claim
  <2> QED
    BY <1>2, <2>1, <2>2, <2>3, <2>4 DEF UnderLock
<1>3. CASE NoLock
  <2>1. CASE Resolve(w) \/ Mkdtemp(w) \/ RequestReport(w) \/ ParserRaises(w) \/ MakeDirs(w)
    BY <2>1 DEF Resolve, Mkdtemp, RequestReport, MakeDirs, ParserRaises
  <2>2. CASE Launch(w) \/ Raise(w) \/ WaitReturns(w) \/ WaitExpires(w)
    BY <2>2 DEF Launch, Raise, WaitReturns, WaitExpires, Reaped
  <2>3. CASE JoinDrainers(w) \/ CheckReport(w) \/ ParseFails(w) \/ RemoveDir(w)
    BY <2>3 DEF JoinDrainers, CheckReport, ParseFails, RemoveDir
  <2>4. ~Parse(w)
    BY DEF Parse, ReportExists
  <2>5. CASE Terminate(w)
    BY <2>5 DEF Terminate, Poll, GroupGone, GroupDenied, SigTerm, GraceReturns,
       GraceExpires, SigKill, KillDirect, Published, TargetOwn, Reaped, Killed
  <2> QED
    BY <1>3, <2>1, <2>2, <2>3, <2>4, <2>5 DEF NoLock
<1> QED
  BY <1>1, <1>2, <1>3 DEF Execute

LEMMA ClosingStep ==
  ASSUME TaskInv, ChildInv, [TaskNext]_all
  PROVE  Closing'
<1> USE OneTask, TaskTypes DEF TaskInv, ChildInv, Closing, Doomed, Final
<1>1. CASE Execute
  <2>1. /\ pc'[k] = pc[k] /\ claim'[k] = claim[k]
        /\ UNCHANGED <<policy, home, delivery, hit>>
    BY <1>1, WorkerFrame
  <2>2. Doomed => pc[k] # "remove"
    BY <1>1 DEF Execute, Turn
  <2> QED
    BY <1>1, <2>1, <2>2, DoomedStep
<1>2. CASE OnKill /\ (delivery = "signal" => handler)
  <2>1. /\ pc'[w] = pc[w] /\ UNCHANGED <<policy, home, delivery, run, outcome>>
    BY <1>2, KillerFrame
  <2>2. CASE KillerCleanup(k) /\ hit' = pc[w]
    <3>1. /\ pc[k] = "cleanup" /\ Claim(k, FALSE, "done")
          /\ UNCHANGED <<disk, report, child>>
      BY <2>2 DEF KillerCleanup, Claim, files, procs
    <3>2. hit = "none"
      BY <3>1 DEF Marked
    <3>3. SUFFICES ASSUME Doomed' PROVE Closing'
      OBVIOUS
    <3>4. pc[w] \in Working /\ home = "fallback" /\ policy = "always"
      BY <2>1, <2>2, <3>3 DEF Working, TerminateSteps
    <3>c. run[w] \in Runs => child[run[w]] # "running"
      BY <1>2, <3>1, <3>2, <3>3, <3>4, <2>1
         DEF Stopping, Answered, Owns, Published, Working, TerminateSteps, Runs, NoRun
    <3>5. created = run[w] \/ (created = NoRun /\ run[w] \notin disk \cup report)
      BY <3>2, <3>4 DEF Holding, NothingMade
    <3>6. CASE created # NoRun
      BY <2>1, <3>1, <3>4, <3>c, <3>5, <3>6 DEF Claim, Removes, Goto
    <3>7. CASE created = NoRun
      <4>1. run[w] \notin disk \cup report
        BY <3>5, <3>7 DEF Runs, NoRun
      <4>2. pc'[k] = "done"
        BY <3>1, <3>7 DEF Claim, Goto
      <4> QED
        BY <2>1, <3>1, <3>4, <3>c, <4>1, <4>2 DEF Working, TerminateSteps
    <3> QED
      BY <3>6, <3>7
  <2>3. CASE RemoveDir(k) /\ hit' = hit
    BY <1>2, <2>1, <2>3 DEF RemoveDir, Move, Goto, Marked, Working, TerminateSteps, procs
  <2>4. CASE pc'[k] \notin {"remove", "done"}
    BY <2>4
  <2> QED
    BY <1>2, <2>2, <2>3, <2>4, KillerWay DEF TerminateSteps, Returns
<1>3. CASE HandlerRaises
  <2>1. /\ handler /\ pc[k] = "done" /\ pc'[k] = "done" /\ hit = pc[w]
        /\ UNCHANGED <<policy, home, delivery, hit, run, report, child>>
    BY <1>3, StrikeFrame DEF Marked
  <2>2. disk' \subseteq disk
    BY <1>3 DEF HandlerRaises, StrikeParserRequest, ParserRaises, StrikeExecute, StruckRun, StruckTerminating,
         StruckWaiting, StruckCaller, StruckBetween, StrikeSwallowed, StruckCleaning, files
  <2>3. pc[w] \in Working =>
          \/ pc'[w] \in Working
          \/ pc'[w] = "cleanup" /\ outcome'[w] = "interrupted"
    BY <1>3 DEF HandlerRaises, StrikeParserRequest, ParserRaises, StrikeExecute, StruckRun, StruckTerminating,
         StruckWaiting, StruckCaller, StruckBetween, StrikeSwallowed, StruckCleaning,
         Fail, Goto, Terminating, Working, TerminateSteps
  <2> QED
    BY <2>1, <2>2, <2>3
<1>4. CASE Processes
  <2>1. UNCHANGED <<policy, home, pc, run, outcome, claim, delivery, hit>>
    BY <1>4, ProcessFrame DEF config, threads, workers, task
  <2>2. run[w] \in Runs /\ child[run[w]] # "running" => child'[run[w]] # "running"
    BY <1>4, ProcessFrame
  <2>3. \A r \in (disk' \cup report') \ (disk \cup report) :
          r \in Runs /\ child[r] = "running"
    BY <1>4, ProcessFrame
  <2> QED
    BY <2>1, <2>2, <2>3
<1>5. CASE TakeLock \/ Signal \/ HandlerReturns \/ UNCHANGED all
  BY <1>5 DEF TakeLock, Signal, HandlerReturns, all, vars, config, threads, workers, files, procs, task
<1> QED
  BY <1>1, <1>2, <1>3, <1>4, <1>5 DEF TaskNext, KillThread, KillHandler, SelfDeadlock, Rest

----------------------------------------------------------------------------
(* The theorems *)

LEMMA TaskInvInit == TaskInit => TaskInv
<1> SUFFICES ASSUME TaskInit PROVE TaskInv
  OBVIOUS
<1> USE OneTask DEF TaskInit
<1>1. TypeInv /\ TaskTypeOK
  <2>1. TypeInv
    BY TypeInit
  <2> QED
    BY <2>1 DEF TypeInv, TaskTypeOK
<1>2. Turn /\ Locked /\ Marked
  BY DEF Init, Turn, Locked, Marked
<1>3. Published /\ Unseen
  BY MaxRunsAssumption DEF Init, Published, TargetOwn, TerminateSteps, Unseen, Early, NoRun
<1>4. Holding /\ Unborn /\ Fresh
  BY MaxRunsAssumption
     DEF Init, Holding, Unborn, Early, Working, TerminateSteps, Fresh, NoRun
<1>5. Ended
  BY DEF Init, Ended
<1> QED
  BY <1>1, <1>2, <1>3, <1>4, <1>5 DEF TaskInv

LEMMA TaskInvStep ==
  ASSUME TaskInv, [TaskNext]_all
  PROVE  TaskInv'
<1>1. TypeInv' /\ TaskTypeOK'
  BY TaskTypeStep DEF TaskInv
<1>2. Turn' /\ Locked' /\ Marked'
  BY TurnStep, LockedStep, MarkedStep
<1>3. Published' /\ Unseen'
  BY PublishedStep, UnseenStep
<1>4. Holding' /\ Unborn' /\ Fresh' /\ Ended'
  BY HoldingStep, UnbornStep, FreshStep, EndedStep
<1> QED
  BY <1>1, <1>2, <1>3, <1>4 DEF TaskInv

\* The inductive invariant holds however the kill comes.
LEMMA TaskInvAlways == TaskSpec => []TaskInv
BY TaskInvInit, TaskInvStep, PTL DEF TaskSpec

\* ... and so does what it needs of proc.kill(), if that is not denied.
LEMMA ChildInvAlways ==
  ASSUME DirectKillDenied = FALSE
  PROVE  TaskSpec => []ChildInv
<1>1. TaskInit => ChildInv
  BY OneTask DEF TaskInit, Init, ChildInv, Stopping, Answered, Watched, Accounted, Closing,
     Doomed, Working, Alive, TerminateSteps
<1>2. ASSUME TaskInv, ChildInv, [TaskNext]_all PROVE ChildInv'
  <2>1. Stopping' /\ Answered'
    BY <1>2, StoppingStep, AnsweredStep DEF ChildInv
  <2>2. Watched' /\ Accounted' /\ Closing'
    BY <1>2, WatchedStep, AccountedStep, ClosingStep
  <2> QED
    BY <2>1, <2>2 DEF ChildInv
<1> QED
  BY <1>1, <1>2, TaskInvAlways, PTL DEF TaskSpec

\* Types, strikes included.
THEOREM TaskTyping == TaskSpec => []TaskTypeOK
<1>1. TaskInv => TaskTypeOK
  BY DEF TaskInv
<1> QED
  BY <1>1, TaskInvAlways, PTL

\* A killed task leaves no pytest behind, unless the exception came between
\* Popen and the registration.
THEOREM NoOrphanLeft ==
  ASSUME DirectKillDenied = FALSE
  PROVE  TaskSpec => []NoOrphanAfterKill
<1>1. ChildInv => NoOrphanAfterKill
  BY DEF ChildInv, Answered, Owns, TerminateSteps, Finished, NoOrphanAfterKill
<1> QED
  BY <1>1, ChildInvAlways, PTL

\* Nor does it leave a directory, but for the four windows.
THEOREM NoDirLeft ==
  ASSUME DirectKillDenied = FALSE
  PROVE  TaskSpec => []NoDirAfterKill
<1>1. ASSUME TaskInv, ChildInv PROVE NoDirAfterKill
  <2> SUFFICES ASSUME Finished, pc[k] = "done", policy = "always", NEW d \in disk
               PROVE  Window \/ (raised /\ hit \in {"request", "remove"})
    BY DEF NoDirAfterKill, Window
  <2>1. created = NoRun /\ claim[w] = NoRun /\ claim[k] = NoRun /\ pc[w] = "idle"
    BY <1>1, OneTask DEF TaskInv, Holding, Finished
  <2>2. d # NoRun
    BY <1>1 DEF TaskInv, TypeInv, TypeOK, Runs, NoRun
  <2>3. ~Tracked(d)
    BY <2>1, <2>2, Owners
  <2> QED
    BY <1>1, <2>3 DEF ChildInv, Accounted
<1> QED
  BY <1>1, TaskInvAlways, ChildInvAlways, PTL

\* A kill by signal that finds a run at work makes it the last.
THEOREM KillsTheLastRound ==
  ASSUME DirectKillDenied = FALSE
  PROVE  TaskSpec => LastRound
<1>1. ASSUME TaskInv, ChildInv, [TaskNext]_all, Doomed, pc[k] = "done"
      PROVE  started' = started
  <2>1. CASE Execute
    BY <1>1, <2>1, DoomedStep DEF ChildInv
  <2>2. CASE OnKill
    BY <1>1, <2>2, KillerFrame DEF TaskInv
  <2>3. CASE HandlerRaises
    BY <1>1, <2>3, StrikeFrame DEF TaskInv
  <2>4. CASE Processes \/ Signal \/ HandlerReturns \/ UNCHANGED all
    BY <2>4, ProcessFrame DEF Signal, HandlerReturns, all, vars
  <2> QED
    BY <1>1, <2>1, <2>2, <2>3, <2>4 DEF TaskNext, KillThread, KillHandler, SelfDeadlock, Rest
<1>2. TaskInv /\ ChildInv /\ [TaskNext]_all =>
        [delivery = "signal" /\ home = "fallback" /\ policy = "always"
           /\ pc[k] = "done" /\ hit \in Working => UNCHANGED started]_all
  BY <1>1 DEF Doomed
<1> QED
  BY <1>2, TaskInvAlways, ChildInvAlways, PTL DEF TaskSpec, LastRound
=============================================================================
