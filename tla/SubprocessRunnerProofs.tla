----------------------- MODULE SubprocessRunnerProofs -----------------------
(* Theorems about SubprocessRunner, for every set of threads, every number  *)
(* of runs and every configuration.                                         *)
EXTENDS SubprocessRunner, TLAPS

\* A thread inside run() has a run: what makes disk \cup {run[w]} well typed.
Numbered == \A w \in Workers : InRun(w) => run[w] # NoRun

TypeInv == TypeOK /\ Numbered

\* The values the actions assign, so that the steps below need not expand the
\* enumerations.
LEMMA Literals ==
  /\ "resolve" \in Steps /\ "mkdtemp" \in Steps /\ "request" \in Steps
  /\ "makedirs" \in Steps /\ "launch" \in Steps /\ "register" \in Steps
  /\ "wait" \in Steps /\ "unregister" \in Steps /\ "join" \in Steps
  /\ "report" \in Steps /\ "leave" \in Steps /\ "idle" \in Steps
  /\ "parse" \in Steps /\ "cleanup" \in Steps /\ "remove" \in Steps
  /\ "check" \in Steps /\ "done" \in Steps /\ "poll" \in Steps
  /\ "term" \in Steps /\ "grace" \in Steps /\ "kill" \in Steps
  /\ "direct" \in Steps
  /\ \A s \in Returns : s \in Steps /\ s # "idle"
  /\ "wait" \in Returns /\ "unregister" \in Returns /\ "cleanup" \in Returns
  /\ "none" \in ChildStates /\ "running" \in ChildStates /\ "zombie" \in ChildStates
  /\ "reaped" \in ChildStates
  /\ "none" \in Outcomes /\ "rejected" \in Outcomes /\ "error" \in Outcomes
  /\ "timeout" \in Outcomes /\ "interrupted" \in Outcomes /\ "noreport" \in Outcomes
  /\ "report" \in Outcomes /\ Parsed \subseteq Outcomes
BY DEF Steps, WorkerSteps, KillerSteps, RunSteps, TerminateSteps, Returns,
       ChildStates, Outcomes, Parsed

LEMMA TypeInit == Init => TypeInv
<1> SUFFICES ASSUME Init PROVE TypeInv
  OBVIOUS
<1> USE MaxRunsAssumption, Literals DEF NoRun, MaybeRun
<1>1. /\ pc \in [Threads -> Steps] /\ back \in [Threads -> Returns]
      /\ target \in [Threads -> MaybeRun] /\ claim \in [Threads -> MaybeRun]
  BY DEF Init
<1>2. /\ run \in [Workers -> MaybeRun] /\ got \in [Workers -> MaybeRun]
      /\ outcome \in [Workers -> Outcomes]
  BY DEF Init
<1>3. child \in [Runs -> ChildStates] /\ kids \in [Runs -> BOOLEAN]
  BY DEF Init
<1>4. /\ policy \in Policies /\ home \in ReportHomes /\ timed \in Timeouts
      /\ running \in BOOLEAN /\ cancelled \in BOOLEAN
      /\ disk \subseteq Runs /\ report \subseteq Runs
  BY DEF Init
<1>5. /\ proc \in MaybeRun /\ created \in MaybeRun /\ started \in MaybeRun
      /\ userReport \in MaybeRun
  BY DEF Init
<1>6. Numbered
  BY DEF Init, Numbered, Threads, InRun, RunSteps, TerminateSteps
<1> QED
  BY <1>1, <1>2, <1>3, <1>4, <1>5, <1>6 DEF TypeInv, TypeOK

LEMMA TypeStep == TypeInv /\ [Next]_vars => TypeInv'
<1> SUFFICES ASSUME TypeInv, [Next]_vars PROVE TypeInv'
  OBVIOUS
<1> USE MaxRunsAssumption, Literals
    DEF TypeInv, TypeOK, Numbered, InRun, RunSteps, TerminateSteps, Threads, Runs,
        MaybeRun, NoRun, Goto, Move, config, shared, threads, workers, procs, files
<1>1. ASSUME NEW w \in Workers, Enter(w) PROVE TypeInv'
  <2> USE <1>1 DEF Enter
  <2>1. pc' \in [Threads -> Steps]
    OBVIOUS
  <2>2. started' \in MaybeRun /\ run' \in [Workers -> MaybeRun] /\ got' \in [Workers -> MaybeRun]
    OBVIOUS
  <2>3. outcome' \in [Workers -> Outcomes]
    OBVIOUS
  <2>4. Numbered'
    OBVIOUS
  <2> QED
    BY <2>1, <2>2, <2>3, <2>4
<1>2. ASSUME NEW w \in Workers, Reject(w) PROVE TypeInv'
  BY <1>2 DEF Reject
<1>3. ASSUME NEW w \in Workers, Resolve(w) PROVE TypeInv'
  BY <1>3 DEF Resolve
<1>4. ASSUME NEW w \in Workers, Raise(w) PROVE TypeInv'
  BY <1>4 DEF Raise, Fail
<1>5. ASSUME NEW w \in Workers, Mkdtemp(w) PROVE TypeInv'
  <2> USE <1>5 DEF Mkdtemp
  <2>1. run[w] \in Runs
    OBVIOUS
  <2>2. disk' \subseteq Runs
    BY <2>1
  <2>3. pc' \in [Threads -> Steps] /\ Numbered'
    OBVIOUS
  <2> QED
    BY <2>1, <2>2, <2>3
<1>6. ASSUME NEW w \in Workers, ParserRaises(w) PROVE TypeInv'
  BY <1>6 DEF ParserRaises, Fail
<1>7. ASSUME NEW w \in Workers, RequestReport(w) PROVE TypeInv'
  <2> USE <1>7 DEF RequestReport
  <2>1. run[w] \in Runs
    OBVIOUS
  <2>2. disk' \subseteq Runs
    BY <2>1
  <2>3. pc' \in [Threads -> Steps] /\ Numbered'
    OBVIOUS
  <2> QED
    BY <2>1, <2>2, <2>3
<1>8. ASSUME NEW w \in Workers, MakeDirs(w) PROVE TypeInv'
  <2> USE <1>8 DEF MakeDirs
  <2>1. run[w] \in Runs
    OBVIOUS
  <2>2. disk' \subseteq Runs
    BY <2>1
  <2>3. pc' \in [Threads -> Steps] /\ Numbered'
    OBVIOUS
  <2> QED
    BY <2>1, <2>2, <2>3
<1>9. ASSUME NEW w \in Workers, Launch(w) PROVE TypeInv'
  BY <1>9 DEF Launch
<1>10. ASSUME NEW w \in Workers, Register(w) PROVE TypeInv'
  BY <1>10 DEF Register
<1>11. ASSUME NEW w \in Workers, RegisterCancelled(w) PROVE TypeInv'
  BY <1>11 DEF RegisterCancelled, Terminating
<1>12. ASSUME NEW w \in Workers, WaitReturns(w) PROVE TypeInv'
  BY <1>12 DEF WaitReturns, Reaped
<1>13. ASSUME NEW w \in Workers, WaitExpires(w) PROVE TypeInv'
  BY <1>13 DEF WaitExpires, Terminating
<1>14. ASSUME NEW w \in Workers, StruckWaiting(w) PROVE TypeInv'
  BY <1>14 DEF StruckWaiting, Terminating
<1>15. ASSUME NEW w \in Workers, Interrupt(w) PROVE TypeInv'
  <2>1. CASE StruckTerminating(w)
    BY <2>1 DEF StruckTerminating
  <2>2. CASE StruckRun(w)
    BY <2>2 DEF StruckRun, Fail
  <2>3. CASE StruckCaller(w)
    BY <2>3 DEF StruckCaller
  <2>4. CASE StruckCleaning(w)
    BY <2>4 DEF StruckCleaning
  <2>5. CASE StruckBetween(w)
    BY <2>5 DEF StruckBetween
  <2> QED
    BY <1>14, <1>15, <2>1, <2>2, <2>3, <2>4, <2>5 DEF Interrupt
<1>16. ASSUME NEW w \in Workers, Unregister(w) PROVE TypeInv'
  BY <1>16 DEF Unregister
<1>17. ASSUME NEW w \in Workers, JoinDrainers(w) PROVE TypeInv'
  BY <1>17 DEF JoinDrainers
<1>18. ASSUME NEW w \in Workers, CheckReport(w) PROVE TypeInv'
  BY <1>18 DEF CheckReport
<1>19. ASSUME NEW w \in Workers, Leave(w) PROVE TypeInv'
  BY <1>19 DEF Leave
<1>20. ASSUME NEW w \in Workers, Parse(w) PROVE TypeInv'
  BY <1>20 DEF Parse
<1>21. ASSUME NEW w \in Workers, ParseFails(w) PROVE TypeInv'
  BY <1>21 DEF ParseFails
<1>22. ASSUME NEW w \in Workers, WorkerCleanup(w) PROVE TypeInv'
  <2> PICK success \in BOOLEAN : Claim(w, success, "idle")
    BY <1>22 DEF WorkerCleanup
  <2> pc[w] = "cleanup"
    BY <1>22 DEF WorkerCleanup
  <2> USE DEF Claim
  <2>1. pc' \in [Threads -> Steps]
    OBVIOUS
  <2>2. claim' \in [Threads -> MaybeRun]
    <3>1. CASE created # NoRun /\ Removes(success)
      BY <3>1
    <3>2. CASE ~(created # NoRun /\ Removes(success))
      BY <3>2
    <3> QED
      BY <3>1, <3>2
  <2>3. Numbered'
    OBVIOUS
  <2> QED
    BY <2>1, <2>2, <2>3
<1>23. ASSUME NEW t \in Threads, RemoveDir(t) PROVE TypeInv'
  <2> USE <1>23 DEF RemoveDir
  <2>1. pc' \in [Threads -> Steps]
    OBVIOUS
  <2>2. claim' \in [Threads -> MaybeRun]
    OBVIOUS
  <2>3. disk' \subseteq Runs /\ report' \subseteq Runs
    OBVIOUS
  <2>4. Numbered'
    OBVIOUS
  <2> QED
    BY <2>1, <2>2, <2>3, <2>4
<1>24. ASSUME NEW k \in Killers, Cancel(k) PROVE TypeInv'
  BY <1>24, ThreadsAssumption DEF Cancel
<1>25. ASSUME NEW k \in Killers, CancelNothing(k) PROVE TypeInv'
  BY <1>25, ThreadsAssumption DEF CancelNothing, Reaped
<1>26. ASSUME NEW k \in Killers, CancelTerminates(k) PROVE TypeInv'
  BY <1>26, ThreadsAssumption DEF CancelTerminates, Terminating
<1>27. ASSUME NEW k \in Killers, KillerCleanup(k) PROVE TypeInv'
  <2> USE <1>27, ThreadsAssumption DEF KillerCleanup, Claim
  <2>1. pc' \in [Threads -> Steps]
    OBVIOUS
  <2>2. claim' \in [Threads -> MaybeRun]
    <3>1. CASE created # NoRun /\ Removes(FALSE)
      BY <3>1
    <3>2. CASE ~(created # NoRun /\ Removes(FALSE))
      BY <3>2
    <3> QED
      BY <3>1, <3>2
  <2>3. \A w \in Workers : pc'[w] = pc[w] /\ run'[w] = run[w]
    OBVIOUS
  <2>4. Numbered'
    BY <2>3
  <2> QED
    BY <2>1, <2>2, <2>4
<1>28. ASSUME NEW t \in Threads, Poll(t) PROVE TypeInv'
  BY <1>28 DEF Poll, Reaped
<1>29. ASSUME NEW t \in Threads, GroupGone(t) PROVE TypeInv'
  BY <1>29 DEF GroupGone
<1>30. ASSUME NEW t \in Threads, GroupDenied(t) PROVE TypeInv'
  BY <1>30 DEF GroupDenied
<1>31. ASSUME NEW t \in Threads, SigTerm(t) PROVE TypeInv'
  BY <1>31 DEF SigTerm
<1>32. ASSUME NEW t \in Threads, GraceReturns(t) PROVE TypeInv'
  BY <1>32 DEF GraceReturns, Reaped
<1>33. ASSUME NEW t \in Threads, GraceExpires(t) PROVE TypeInv'
  BY <1>33 DEF GraceExpires
<1>34. ASSUME NEW t \in Threads, SigKill(t) PROVE TypeInv'
  BY <1>34 DEF SigKill, Killed
<1>35. ASSUME NEW t \in Threads, KillDirect(t) PROVE TypeInv'
  BY <1>35 DEF KillDirect, Killed
<1>36. ASSUME NEW r \in Runs, ChildExits(r) PROVE TypeInv'
  <2> USE <1>36 DEF ChildExits
  <2>1. child' \in [Runs -> ChildStates]
    OBVIOUS
  <2>2. disk' \subseteq Runs /\ report' \subseteq Runs
    OBVIOUS
  <2>3. userReport' \in MaybeRun
    OBVIOUS
  <2> QED
    BY <2>1, <2>2, <2>3
<1>37. ASSUME NEW r \in Runs, KidsStart(r) PROVE TypeInv'
  BY <1>37 DEF KidsStart
<1>38. ASSUME NEW r \in Runs, KidsExit(r) PROVE TypeInv'
  BY <1>38 DEF KidsExit
<1>39. CASE UNCHANGED vars
  BY <1>39 DEF vars
<1> QED
  BY <1>1, <1>2, <1>3, <1>4, <1>5, <1>6, <1>7, <1>8, <1>9, <1>10, <1>11, <1>12,
     <1>13, <1>14, <1>15, <1>16, <1>17, <1>18, <1>19, <1>20, <1>21, <1>22, <1>23, <1>24,
     <1>25, <1>26, <1>27, <1>28, <1>29, <1>30, <1>31, <1>32, <1>33, <1>34, <1>35, <1>36,
     <1>37, <1>38, <1>39
     DEF Next, WorkerStep, KillerStep, Environment, Terminate, AtRest

\* The type invariant holds in every reachable state of every instance.
THEOREM Typing == Spec => []TypeInv
<1>1. Init => TypeInv
  BY TypeInit
<1>2. TypeInv /\ [Next]_vars => TypeInv'
  BY TypeStep
<1> QED
  BY <1>1, <1>2, PTL DEF Spec

\* ... in particular the one the model-checker checks.
THEOREM TypeCorrect == Spec => []TypeOK
<1>1. TypeInv => TypeOK
  BY DEF TypeInv
<1> QED
  BY <1>1, Typing, PTL

----------------------------------------------------------------------------
\* A kill's cleanup moves no worker.
LEMMA KillerClaim ==
  ASSUME TypeInv, NEW k \in Killers, KillerCleanup(k)
  PROVE  \A w \in Workers : pc'[w] = pc[w]
<1>1. \E step \in {"remove", "done"} : pc' = [pc EXCEPT ![k] = step]
  BY DEF KillerCleanup, Claim, Goto
<1> QED
  BY <1>1, ThreadsAssumption DEF TypeInv, TypeOK, Threads

LEMMA RunInit == Init => RunInv
BY DEF Init, RunInv, Exclusive, TargetOwn, FlagCurrent, ProcCurrent, InRun, Threads, NoRun,
       RunSteps, TerminateSteps

LEMMA RunStep == TypeInv /\ RunInv /\ [Next]_vars => RunInv'
<1> SUFFICES ASSUME TypeInv, RunInv, [Next]_vars PROVE RunInv'
  OBVIOUS
<1> USE MaxRunsAssumption, ConfigAssumption
    DEF TypeInv, TypeOK, RunInv, Exclusive, TargetOwn, FlagCurrent, ProcCurrent, InRun,
        RunSteps, TerminateSteps, Threads, NoRun, Goto, Move,
        config, shared, threads, workers, procs, files
<1>1. ASSUME NEW w \in Workers, Enter(w) PROVE RunInv'
  BY <1>1 DEF Enter
<1>2. ASSUME NEW w \in Workers, Reject(w) PROVE RunInv'
  BY <1>2 DEF Reject
<1>3. ASSUME NEW w \in Workers, Resolve(w) PROVE RunInv'
  BY <1>3 DEF Resolve
<1>4. ASSUME NEW w \in Workers, Raise(w) PROVE RunInv'
  BY <1>4 DEF Raise, Fail
<1>5. ASSUME NEW w \in Workers, Mkdtemp(w) PROVE RunInv'
  BY <1>5 DEF Mkdtemp
<1>6. ASSUME NEW w \in Workers, ParserRaises(w) PROVE RunInv'
  BY <1>6 DEF ParserRaises, Fail
<1>7. ASSUME NEW w \in Workers, RequestReport(w) PROVE RunInv'
  BY <1>7 DEF RequestReport
<1>8. ASSUME NEW w \in Workers, MakeDirs(w) PROVE RunInv'
  BY <1>8 DEF MakeDirs
<1>9. ASSUME NEW w \in Workers, Launch(w) PROVE RunInv'
  BY <1>9 DEF Launch
<1>10. ASSUME NEW w \in Workers, Register(w) PROVE RunInv'
  BY <1>10 DEF Register
<1>11. ASSUME NEW w \in Workers, RegisterCancelled(w) PROVE RunInv'
  BY <1>11 DEF RegisterCancelled, Terminating
<1>12. ASSUME NEW w \in Workers, WaitReturns(w) PROVE RunInv'
  BY <1>12 DEF WaitReturns, Reaped
<1>13. ASSUME NEW w \in Workers, WaitExpires(w) PROVE RunInv'
  BY <1>13 DEF WaitExpires, Terminating
<1>14. ASSUME NEW w \in Workers, StruckWaiting(w) PROVE RunInv'
  BY <1>14 DEF StruckWaiting, Terminating
<1>15. ASSUME NEW w \in Workers, Interrupt(w) PROVE RunInv'
  <2> pc[w] \in InterruptAt
    BY <1>15 DEF Interrupt
  <2>1. CASE StruckTerminating(w)
    BY <2>1 DEF StruckTerminating, CancelWindows
  <2>2. CASE StruckRun(w)
    BY <2>2 DEF StruckRun, Fail, CancelWindows
  <2>3. CASE StruckCaller(w)
    BY <2>3 DEF StruckCaller, FlagWindow
  <2>4. CASE StruckCleaning(w) \/ StruckBetween(w)
    BY <2>4 DEF StruckCleaning, StruckBetween
  <2> QED
    BY <1>14, <1>15, <2>1, <2>2, <2>3, <2>4 DEF Interrupt
<1>16. ASSUME NEW w \in Workers, Unregister(w) PROVE RunInv'
  BY <1>16 DEF Unregister
<1>17. ASSUME NEW w \in Workers, JoinDrainers(w) PROVE RunInv'
  BY <1>17 DEF JoinDrainers
<1>18. ASSUME NEW w \in Workers, CheckReport(w) PROVE RunInv'
  BY <1>18 DEF CheckReport
<1>19. ASSUME NEW w \in Workers, Leave(w) PROVE RunInv'
  BY <1>19 DEF Leave
<1>20. ASSUME NEW w \in Workers, Parse(w) PROVE RunInv'
  BY <1>20 DEF Parse
<1>21. ASSUME NEW w \in Workers, ParseFails(w) PROVE RunInv'
  BY <1>21 DEF ParseFails
<1>22. ASSUME NEW w \in Workers, WorkerCleanup(w) PROVE RunInv'
  BY <1>22 DEF WorkerCleanup, Claim
<1>23. ASSUME NEW t \in Threads, RemoveDir(t) PROVE RunInv'
  BY <1>23 DEF RemoveDir
<1>24. ASSUME NEW k \in Killers, Cancel(k) PROVE RunInv'
  BY <1>24, ThreadsAssumption DEF Cancel
<1>25. ASSUME NEW k \in Killers, CancelNothing(k) PROVE RunInv'
  BY <1>25, ThreadsAssumption DEF CancelNothing, Reaped
<1>26. ASSUME NEW k \in Killers, CancelTerminates(k) PROVE RunInv'
  BY <1>26, ThreadsAssumption DEF CancelTerminates, Terminating
<1>27. ASSUME NEW k \in Killers, KillerCleanup(k) PROVE RunInv'
  <2>1. \A w \in Workers : pc'[w] = pc[w]
    BY <1>27, KillerClaim
  <2>2. UNCHANGED <<running, proc, target, back, run>>
    BY <1>27 DEF KillerCleanup, Claim
  <2> QED
    BY <2>1, <2>2
<1>28. ASSUME NEW t \in Threads, Poll(t) PROVE RunInv'
  BY <1>28 DEF Poll, Reaped
<1>29. ASSUME NEW t \in Threads, GroupGone(t) PROVE RunInv'
  BY <1>29 DEF GroupGone
<1>30. ASSUME NEW t \in Threads, GroupDenied(t) PROVE RunInv'
  BY <1>30 DEF GroupDenied
<1>31. ASSUME NEW t \in Threads, SigTerm(t) PROVE RunInv'
  BY <1>31 DEF SigTerm
<1>32. ASSUME NEW t \in Threads, GraceReturns(t) PROVE RunInv'
  BY <1>32 DEF GraceReturns, Reaped
<1>33. ASSUME NEW t \in Threads, GraceExpires(t) PROVE RunInv'
  BY <1>33 DEF GraceExpires
<1>34. ASSUME NEW t \in Threads, SigKill(t) PROVE RunInv'
  BY <1>34 DEF SigKill, Killed
<1>35. ASSUME NEW t \in Threads, KillDirect(t) PROVE RunInv'
  BY <1>35 DEF KillDirect, Killed
<1>36. ASSUME NEW r \in Runs, ChildExits(r) PROVE RunInv'
  BY <1>36 DEF ChildExits
<1>37. ASSUME NEW r \in Runs, KidsStart(r) PROVE RunInv'
  BY <1>37 DEF KidsStart
<1>38. ASSUME NEW r \in Runs, KidsExit(r) PROVE RunInv'
  BY <1>38 DEF KidsExit
<1>39. CASE UNCHANGED vars
  BY <1>39 DEF vars
<1> QED
  BY <1>1, <1>2, <1>3, <1>4, <1>5, <1>6, <1>7, <1>8, <1>9, <1>10, <1>11, <1>12,
     <1>13, <1>14, <1>15, <1>16, <1>17, <1>18, <1>19, <1>20, <1>21, <1>22, <1>23, <1>24,
     <1>25, <1>26, <1>27, <1>28, <1>29, <1>30, <1>31, <1>32, <1>33, <1>34, <1>35, <1>36,
     <1>37, <1>38, <1>39
     DEF Next, WorkerStep, KillerStep, Environment, Terminate, AtRest

\* Two workers are never inside run() together, and the flag says when one is,
\* if no exception keeps it from being cleared.
THEOREM OneRun ==
  ASSUME InterruptAt \cap FlagWindow = {}
  PROVE  Spec => []SingleRun
<1>1. Init => RunInv
  BY RunInit
<1>2. TypeInv /\ RunInv /\ [Next]_vars => RunInv'
  BY RunStep
<1>3. RunInv => SingleRun
  BY DEF RunInv, Exclusive, FlagCurrent, SingleRun
<1> QED
  BY <1>1, <1>2, <1>3, Typing, PTL DEF Spec

----------------------------------------------------------------------------
\* Where the two assumptions come from: an exception between Popen and the
\* registration, or inside _terminate, leaves nobody to answer for the child, and
\* a child that even proc.kill() may not signal cannot be stopped by anybody.
LEMMA OrphanStep ==
  ASSUME InterruptAt \cap OrphanWindows = {}, DirectKillDenied = FALSE,
         TypeInv, RunInv, NoOrphan, [Next]_vars
  PROVE  NoOrphan'
<1> USE MaxRunsAssumption, ConfigAssumption
    DEF TypeInv, TypeOK, RunInv, TargetOwn, NoOrphan, Owns,
        TerminateSteps, Threads, NoRun, Goto, Move,
        config, shared, threads, workers, procs, files
<1>1. ASSUME NEW w \in Workers, Enter(w) PROVE NoOrphan'
  BY <1>1 DEF Enter
<1>2. ASSUME NEW w \in Workers, Reject(w) PROVE NoOrphan'
  BY <1>2 DEF Reject
<1>3. ASSUME NEW w \in Workers, Resolve(w) PROVE NoOrphan'
  BY <1>3 DEF Resolve
<1>4. ASSUME NEW w \in Workers, Raise(w) PROVE NoOrphan'
  BY <1>4 DEF Raise, Fail
<1>5. ASSUME NEW w \in Workers, Mkdtemp(w) PROVE NoOrphan'
  BY <1>5 DEF Mkdtemp
<1>6. ASSUME NEW w \in Workers, ParserRaises(w) PROVE NoOrphan'
  BY <1>6 DEF ParserRaises, Fail
<1>7. ASSUME NEW w \in Workers, RequestReport(w) PROVE NoOrphan'
  BY <1>7 DEF RequestReport
<1>8. ASSUME NEW w \in Workers, MakeDirs(w) PROVE NoOrphan'
  BY <1>8 DEF MakeDirs
<1>9. ASSUME NEW w \in Workers, Launch(w) PROVE NoOrphan'
  BY <1>9 DEF Launch
<1>10. ASSUME NEW w \in Workers, Register(w) PROVE NoOrphan'
  BY <1>10 DEF Register
<1>11. ASSUME NEW w \in Workers, RegisterCancelled(w) PROVE NoOrphan'
  BY <1>11 DEF RegisterCancelled, Terminating
<1>12. ASSUME NEW w \in Workers, WaitReturns(w) PROVE NoOrphan'
  BY <1>12 DEF WaitReturns, Reaped
<1>13. ASSUME NEW w \in Workers, WaitExpires(w) PROVE NoOrphan'
  BY <1>13 DEF WaitExpires, Terminating
<1>14. ASSUME NEW w \in Workers, StruckWaiting(w) PROVE NoOrphan'
  BY <1>14 DEF StruckWaiting, Terminating
<1>15. ASSUME NEW w \in Workers, Interrupt(w) PROVE NoOrphan'
  <2>1. pc[w] \notin {"register"} \cup TerminateSteps
    BY <1>15 DEF Interrupt, OrphanWindows
  <2>2. CASE StruckRun(w) \/ StruckCaller(w) \/ StruckCleaning(w) \/ StruckBetween(w)
    BY <2>1, <2>2 DEF StruckRun, StruckCaller, StruckCleaning, StruckBetween, Fail
  <2> QED
    BY <1>14, <1>15, <2>1, <2>2 DEF Interrupt, StruckTerminating
<1>16. ASSUME NEW w \in Workers, Unregister(w) PROVE NoOrphan'
  BY <1>16 DEF Unregister
<1>17. ASSUME NEW w \in Workers, JoinDrainers(w) PROVE NoOrphan'
  BY <1>17 DEF JoinDrainers
<1>18. ASSUME NEW w \in Workers, CheckReport(w) PROVE NoOrphan'
  BY <1>18 DEF CheckReport
<1>19. ASSUME NEW w \in Workers, Leave(w) PROVE NoOrphan'
  BY <1>19 DEF Leave
<1>20. ASSUME NEW w \in Workers, Parse(w) PROVE NoOrphan'
  BY <1>20 DEF Parse
<1>21. ASSUME NEW w \in Workers, ParseFails(w) PROVE NoOrphan'
  BY <1>21 DEF ParseFails
<1>22. ASSUME NEW w \in Workers, WorkerCleanup(w) PROVE NoOrphan'
  BY <1>22 DEF WorkerCleanup, Claim
<1>23. ASSUME NEW t \in Threads, RemoveDir(t) PROVE NoOrphan'
  BY <1>23 DEF RemoveDir
<1>24. ASSUME NEW k \in Killers, Cancel(k) PROVE NoOrphan'
  BY <1>24, ThreadsAssumption DEF Cancel
<1>25. ASSUME NEW k \in Killers, CancelNothing(k) PROVE NoOrphan'
  BY <1>25, ThreadsAssumption DEF CancelNothing, Reaped
<1>26. ASSUME NEW k \in Killers, CancelTerminates(k) PROVE NoOrphan'
  BY <1>26, ThreadsAssumption DEF CancelTerminates, Terminating
<1>27. ASSUME NEW k \in Killers, KillerCleanup(k) PROVE NoOrphan'
  <2>1. \A w \in Workers : pc'[w] = pc[w]
    BY <1>27, KillerClaim
  <2>2. UNCHANGED <<run, child>>
    BY <1>27 DEF KillerCleanup, Claim
  <2> QED
    BY <2>1, <2>2
<1>28. ASSUME NEW t \in Threads, Poll(t) PROVE NoOrphan'
  BY <1>28 DEF Poll, Reaped
<1>29. ASSUME NEW t \in Threads, GroupGone(t) PROVE NoOrphan'
  BY <1>29 DEF GroupGone
<1>30. ASSUME NEW t \in Threads, GroupDenied(t) PROVE NoOrphan'
  BY <1>30 DEF GroupDenied
<1>31. ASSUME NEW t \in Threads, SigTerm(t) PROVE NoOrphan'
  BY <1>31 DEF SigTerm
<1>32. ASSUME NEW t \in Threads, GraceReturns(t) PROVE NoOrphan'
  BY <1>32 DEF GraceReturns, Reaped
<1>33. ASSUME NEW t \in Threads, GraceExpires(t) PROVE NoOrphan'
  BY <1>33 DEF GraceExpires
<1>34. ASSUME NEW t \in Threads, SigKill(t) PROVE NoOrphan'
  BY <1>34 DEF SigKill, Killed
<1>35. ASSUME NEW t \in Threads, KillDirect(t) PROVE NoOrphan'
  BY <1>35 DEF KillDirect, Killed
<1>36. ASSUME NEW r \in Runs, ChildExits(r) PROVE NoOrphan'
  BY <1>36 DEF ChildExits
<1>37. ASSUME NEW r \in Runs, KidsStart(r) PROVE NoOrphan'
  BY <1>37 DEF KidsStart
<1>38. ASSUME NEW r \in Runs, KidsExit(r) PROVE NoOrphan'
  BY <1>38 DEF KidsExit
<1>39. CASE UNCHANGED vars
  BY <1>39 DEF vars
<1> QED
  BY <1>1, <1>2, <1>3, <1>4, <1>5, <1>6, <1>7, <1>8, <1>9, <1>10, <1>11, <1>12,
     <1>13, <1>14, <1>15, <1>16, <1>17, <1>18, <1>19, <1>20, <1>21, <1>22, <1>23, <1>24,
     <1>25, <1>26, <1>27, <1>28, <1>29, <1>30, <1>31, <1>32, <1>33, <1>34, <1>35, <1>36,
     <1>37, <1>38, <1>39
     DEF Next, WorkerStep, KillerStep, Environment, Terminate, AtRest

LEMMA CancelStep ==
  ASSUME InterruptAt \cap CancelWindows = {}, DirectKillDenied = FALSE,
         TypeInv, RunInv, CancelHonoured, [Next]_vars
  PROVE  CancelHonoured'
<1> USE MaxRunsAssumption, ConfigAssumption
    DEF TypeInv, TypeOK, RunInv, Exclusive, ProcCurrent, CancelHonoured, InRun,
        RunSteps, TerminateSteps, Threads, Runs, NoRun, Goto, Move,
        config, shared, threads, workers, procs, files
<1>1. ASSUME NEW w \in Workers, Enter(w) PROVE CancelHonoured'
  BY <1>1 DEF Enter
<1>2. ASSUME NEW w \in Workers, Reject(w) PROVE CancelHonoured'
  BY <1>2 DEF Reject
<1>3. ASSUME NEW w \in Workers, Resolve(w) PROVE CancelHonoured'
  BY <1>3 DEF Resolve
<1>4. ASSUME NEW w \in Workers, Raise(w) PROVE CancelHonoured'
  BY <1>4 DEF Raise, Fail
<1>5. ASSUME NEW w \in Workers, Mkdtemp(w) PROVE CancelHonoured'
  BY <1>5 DEF Mkdtemp
<1>6. ASSUME NEW w \in Workers, ParserRaises(w) PROVE CancelHonoured'
  BY <1>6 DEF ParserRaises, Fail
<1>7. ASSUME NEW w \in Workers, RequestReport(w) PROVE CancelHonoured'
  BY <1>7 DEF RequestReport
<1>8. ASSUME NEW w \in Workers, MakeDirs(w) PROVE CancelHonoured'
  BY <1>8 DEF MakeDirs
<1>9. ASSUME NEW w \in Workers, Launch(w) PROVE CancelHonoured'
  BY <1>9 DEF Launch
<1>10. ASSUME NEW w \in Workers, Register(w) PROVE CancelHonoured'
  BY <1>10 DEF Register
<1>11. ASSUME NEW w \in Workers, RegisterCancelled(w) PROVE CancelHonoured'
  BY <1>11 DEF RegisterCancelled, Terminating
<1>12. ASSUME NEW w \in Workers, WaitReturns(w) PROVE CancelHonoured'
  BY <1>12 DEF WaitReturns, Reaped
<1>13. ASSUME NEW w \in Workers, WaitExpires(w) PROVE CancelHonoured'
  BY <1>13 DEF WaitExpires, Terminating
<1>14. ASSUME NEW w \in Workers, StruckWaiting(w) PROVE CancelHonoured'
  BY <1>14 DEF StruckWaiting, Terminating
<1>15. ASSUME NEW w \in Workers, Interrupt(w) PROVE CancelHonoured'
  <2>1. pc[w] \notin TerminateSteps
    BY <1>15 DEF Interrupt, CancelWindows
  <2>2. CASE StruckRun(w) \/ StruckCaller(w) \/ StruckCleaning(w) \/ StruckBetween(w)
    <3>1. pc[w] \notin {"check"} \cup TerminateSteps
      BY <2>1, <2>2 DEF StruckRun, StruckCaller, StruckCleaning, StruckBetween
    <3>2. \A t \in Threads \ {w} : pc'[t] = pc[t]
      BY <2>2 DEF StruckRun, StruckCaller, StruckCleaning, StruckBetween, Fail
    <3>3. UNCHANGED <<cancelled, proc, child, target>>
      BY <2>2 DEF StruckRun, StruckCaller, StruckCleaning, StruckBetween
    <3> QED
      BY <3>1, <3>2, <3>3
  <2> QED
    BY <1>14, <1>15, <2>1, <2>2 DEF Interrupt, StruckTerminating
<1>16. ASSUME NEW w \in Workers, Unregister(w) PROVE CancelHonoured'
  BY <1>16 DEF Unregister
<1>17. ASSUME NEW w \in Workers, JoinDrainers(w) PROVE CancelHonoured'
  BY <1>17 DEF JoinDrainers
<1>18. ASSUME NEW w \in Workers, CheckReport(w) PROVE CancelHonoured'
  BY <1>18 DEF CheckReport
<1>19. ASSUME NEW w \in Workers, Leave(w) PROVE CancelHonoured'
  BY <1>19 DEF Leave
<1>20. ASSUME NEW w \in Workers, Parse(w) PROVE CancelHonoured'
  BY <1>20 DEF Parse
<1>21. ASSUME NEW w \in Workers, ParseFails(w) PROVE CancelHonoured'
  BY <1>21 DEF ParseFails
<1>22. ASSUME NEW w \in Workers, WorkerCleanup(w) PROVE CancelHonoured'
  BY <1>22 DEF WorkerCleanup, Claim
<1>23. ASSUME NEW t \in Threads, RemoveDir(t) PROVE CancelHonoured'
  BY <1>23 DEF RemoveDir
<1>24. ASSUME NEW k \in Killers, Cancel(k) PROVE CancelHonoured'
  BY <1>24, ThreadsAssumption DEF Cancel
<1>25. ASSUME NEW k \in Killers, CancelNothing(k) PROVE CancelHonoured'
  BY <1>25, ThreadsAssumption DEF CancelNothing, Reaped
<1>26. ASSUME NEW k \in Killers, CancelTerminates(k) PROVE CancelHonoured'
  BY <1>26, ThreadsAssumption DEF CancelTerminates, Terminating
<1>27. ASSUME NEW k \in Killers, KillerCleanup(k) PROVE CancelHonoured'
  <2>1. pc[k] = "cleanup" /\ \A t \in Threads \ {k} : pc'[t] = pc[t]
    BY <1>27 DEF KillerCleanup, Claim
  <2>2. UNCHANGED <<cancelled, proc, target, child>>
    BY <1>27 DEF KillerCleanup, Claim
  <2> QED
    BY <2>1, <2>2
<1>28. ASSUME NEW t \in Threads, Poll(t) PROVE CancelHonoured'
  BY <1>28 DEF Poll, Reaped
<1>29. ASSUME NEW t \in Threads, GroupGone(t) PROVE CancelHonoured'
  BY <1>29 DEF GroupGone
<1>30. ASSUME NEW t \in Threads, GroupDenied(t) PROVE CancelHonoured'
  BY <1>30 DEF GroupDenied
<1>31. ASSUME NEW t \in Threads, SigTerm(t) PROVE CancelHonoured'
  BY <1>31 DEF SigTerm
<1>32. ASSUME NEW t \in Threads, GraceReturns(t) PROVE CancelHonoured'
  BY <1>32 DEF GraceReturns, Reaped
<1>33. ASSUME NEW t \in Threads, GraceExpires(t) PROVE CancelHonoured'
  BY <1>33 DEF GraceExpires
<1>34. ASSUME NEW t \in Threads, SigKill(t) PROVE CancelHonoured'
  BY <1>34 DEF SigKill, Killed
<1>35. ASSUME NEW t \in Threads, KillDirect(t) PROVE CancelHonoured'
  BY <1>35 DEF KillDirect, Killed
<1>36. ASSUME NEW r \in Runs, ChildExits(r) PROVE CancelHonoured'
  BY <1>36 DEF ChildExits
<1>37. ASSUME NEW r \in Runs, KidsStart(r) PROVE CancelHonoured'
  BY <1>37 DEF KidsStart
<1>38. ASSUME NEW r \in Runs, KidsExit(r) PROVE CancelHonoured'
  BY <1>38 DEF KidsExit
<1>39. CASE UNCHANGED vars
  BY <1>39 DEF vars
<1> QED
  BY <1>1, <1>2, <1>3, <1>4, <1>5, <1>6, <1>7, <1>8, <1>9, <1>10, <1>11, <1>12,
     <1>13, <1>14, <1>15, <1>16, <1>17, <1>18, <1>19, <1>20, <1>21, <1>22, <1>23, <1>24,
     <1>25, <1>26, <1>27, <1>28, <1>29, <1>30, <1>31, <1>32, <1>33, <1>34, <1>35, <1>36,
     <1>37, <1>38, <1>39
     DEF Next, WorkerStep, KillerStep, Environment, Terminate, AtRest

\* A live pytest always has the worker of its run waiting for it or
\* terminating it: no path out of run() leaves an orphan behind.
THEOREM NoOrphans ==
  ASSUME InterruptAt \cap OrphanWindows = {}, DirectKillDenied = FALSE
  PROVE  Spec => []NoOrphan
<1>1. Init => NoOrphan
  BY DEF Init, NoOrphan
<1>2. TypeInv /\ RunInv /\ NoOrphan /\ [Next]_vars => NoOrphan'
  BY OrphanStep
<1>3. Spec => [](TypeInv /\ RunInv)
  BY TypeInit, TypeStep, RunInit, RunStep, PTL DEF Spec
<1> QED
  BY <1>1, <1>2, <1>3, PTL DEF Spec

\* The registration and cancel() leave no gap through which a cancel is lost.
THEOREM NoLostCancel ==
  ASSUME InterruptAt \cap CancelWindows = {}, DirectKillDenied = FALSE
  PROVE  Spec => []CancelHonoured
<1>1. Init => CancelHonoured
  BY DEF Init, CancelHonoured
<1>2. TypeInv /\ RunInv /\ CancelHonoured /\ [Next]_vars => CancelHonoured'
  BY CancelStep
<1>3. Spec => [](TypeInv /\ RunInv)
  BY TypeInit, TypeStep, RunInit, RunStep, PTL DEF Spec
<1> QED
  BY <1>1, <1>2, <1>3, PTL DEF Spec

----------------------------------------------------------------------------
(* SubprocessRunner implements RunnerContract, for every set of threads,    *)
(* every number of runs and every configuration the code can keep it in.    *)

\* A worker inside run() is there for the latest accepted run.
Current == \A w \in Workers : InRun(w) => run[w] = started

Inv == TypeInv /\ RunInv /\ Current /\ NoOrphan

LEMMA CurrentStep == TypeInv /\ RunInv /\ Current /\ [Next]_vars => Current'
<1> SUFFICES ASSUME TypeInv, RunInv, Current, [Next]_vars PROVE Current'
  OBVIOUS
<1> USE DEF TypeInv, TypeOK, Current, RunInv, Exclusive, InRun, RunSteps,
            TerminateSteps, Threads, Goto, Move,
            config, shared, threads, workers, procs, files
<1>1. ASSUME NEW w \in Workers, Enter(w) PROVE Current'
  BY <1>1 DEF Enter
<1>2. ASSUME NEW w \in Workers,
             Reject(w) \/ Resolve(w) \/ Raise(w) \/ Mkdtemp(w) \/ ParserRaises(w)
             \/ RequestReport(w) \/ MakeDirs(w) \/ Launch(w)
      PROVE  Current'
  BY <1>2 DEF Reject, Resolve, Raise, Mkdtemp, ParserRaises, RequestReport, MakeDirs,
              Launch, Fail
<1>3. ASSUME NEW w \in Workers,
             Register(w) \/ RegisterCancelled(w) \/ WaitReturns(w) \/ WaitExpires(w)
             \/ Unregister(w) \/ JoinDrainers(w) \/ CheckReport(w)
      PROVE  Current'
  BY <1>3 DEF Register, RegisterCancelled, WaitReturns, WaitExpires,
              Unregister, JoinDrainers, CheckReport, Terminating
<1>4. ASSUME NEW w \in Workers, Interrupt(w) PROVE Current'
  <2>1. CASE StruckWaiting(w) \/ StruckTerminating(w) \/ StruckRun(w)
    BY <2>1 DEF StruckWaiting, StruckTerminating, StruckRun, Terminating, Fail
  <2>2. CASE StruckCaller(w) \/ StruckCleaning(w) \/ StruckBetween(w)
    BY <2>2 DEF StruckCaller, StruckCleaning, StruckBetween
  <2> QED
    BY <1>4, <2>1, <2>2 DEF Interrupt
<1>5. ASSUME NEW w \in Workers,
             Leave(w) \/ Parse(w) \/ ParseFails(w)
      PROVE  Current'
  BY <1>5 DEF Leave, Parse, ParseFails
<1>6. ASSUME NEW w \in Workers, WorkerCleanup(w) PROVE Current'
  BY <1>6 DEF WorkerCleanup, Claim
<1>7. ASSUME NEW t \in Threads, RemoveDir(t) PROVE Current'
  BY <1>7 DEF RemoveDir
<1>8. ASSUME NEW k \in Killers, Cancel(k) \/ CancelNothing(k) \/ CancelTerminates(k)
      PROVE  Current'
  BY <1>8, ThreadsAssumption DEF Cancel, CancelNothing, CancelTerminates, Terminating
<1>9. ASSUME NEW k \in Killers, KillerCleanup(k) PROVE Current'
  <2>1. \A w \in Workers : pc'[w] = pc[w]
    BY <1>9, KillerClaim
  <2> QED
    BY <1>9, <2>1 DEF KillerCleanup, Claim
<1>10. ASSUME NEW t \in Threads, Terminate(t) PROVE Current'
  <2>1. t \in Workers => InRun(t)
    BY <1>10 DEF Terminate, Poll, GroupGone, GroupDenied, SigTerm, GraceReturns,
                 GraceExpires, SigKill, KillDirect
  <2>2. UNCHANGED <<run, started>> /\ \A u \in Threads \ {t} : pc'[u] = pc[u]
    BY <1>10 DEF Terminate, Poll, GroupGone, GroupDenied, SigTerm, GraceReturns,
                 GraceExpires, SigKill, KillDirect
  <2> QED
    BY <2>1, <2>2
<1>11. ASSUME NEW r \in Runs, ChildExits(r) \/ KidsStart(r) \/ KidsExit(r) PROVE Current'
  BY <1>11 DEF ChildExits, KidsStart, KidsExit
<1>12. CASE UNCHANGED vars
  BY <1>12 DEF vars
<1> QED
  BY <1>1, <1>2, <1>3, <1>4, <1>5, <1>6, <1>7, <1>8, <1>9, <1>10, <1>11, <1>12
     DEF Next, WorkerStep, KillerStep, Environment, AtRest

----------------------------------------------------------------------------
\* At most one child is alive, and only while its worker answers for it.
LEMMA OneChild ==
  ASSUME Inv
  PROVE  /\ Live \subseteq {started}
         /\ Live # {} => running
         /\ \A w \in Workers : InRun(w) /\ ~Owns(w, started) => Live = {}
<1> USE DEF Inv, TypeInv, TypeOK, RunInv, Exclusive, Current, NoOrphan, Live, Threads
<1>1. \A w \in Workers, r \in Runs : Owns(w, r) => InRun(w) /\ run[w] = r
  BY DEF Owns, InRun, RunSteps
<1>2. \A r \in Live : r = started /\ running /\ \E w \in Workers : Owns(w, started) /\ InRun(w)
  BY <1>1
<1>3. \A w \in Workers : InRun(w) /\ ~Owns(w, started) => Live = {}
  BY <1>2
<1> QED
  BY <1>2, <1>3

\* A step that leaves the contract's state alone is a stutter of it.
LEMMA Stutter ==
  UNCHANGED <<running, cancelled, started, Live>> => UNCHANGED Contract!contract
BY DEF Contract!contract

\* The death of a child.
LEMMA Death ==
  ASSUME Inv, UNCHANGED <<running, cancelled, started>>, Live' \subseteq Live
  PROVE  [Contract!ContractNext]_(Contract!contract)
<1>1. CASE Live' = Live
  BY <1>1, Stutter
<1>2. CASE Live' # Live
  <2>1. Live # {} /\ Live' = {}
    BY <1>2, OneChild
  <2> QED
    BY <2>1 DEF Contract!ContractNext, Contract!Die
<1> QED
  BY <1>1, <1>2

\* Every step of the runner is a step of the contract or changes nothing in it.
LEMMA ContractStep ==
  Inv /\ [Next]_vars => [Contract!ContractNext]_(Contract!contract)
<1> SUFFICES ASSUME Inv, [Next]_vars PROVE [Contract!ContractNext]_(Contract!contract)
  OBVIOUS
<1> USE DEF Goto, Move, config, shared, threads, workers, procs, files
<1>1. ASSUME NEW w \in Workers, Enter(w) PROVE Contract!Begin
  <2>1. Live' = Live
    BY <1>1 DEF Enter, Live
  <2> QED
    BY <1>1, <2>1 DEF Enter, Contract!Begin
<1>2. ASSUME NEW w \in Workers, Launch(w) PROVE Contract!Spawn
  <2>1. InRun(w) /\ ~Owns(w, started) /\ run[w] = started /\ running /\ started \in Runs
    BY <1>2, MaxRunsAssumption
       DEF Launch, InRun, Owns, RunSteps, TerminateSteps, Inv, Current, RunInv, Exclusive,
           TypeInv, TypeOK, Numbered, Threads, MaybeRun, Runs, NoRun
  <2>2. Live = {}
    BY <2>1, OneChild
  <2>3. Live' = {started}
    BY <1>2, <2>1, <2>2 DEF Launch, Live, Inv, TypeInv, TypeOK
  <2> QED
    BY <1>2, <2>1, <2>2, <2>3 DEF Launch, Contract!Spawn
<1>3. ASSUME NEW w \in Workers, Leave(w) PROVE Contract!End
  <2>1. InRun(w) /\ ~Owns(w, started) /\ running
    BY <1>3 DEF Leave, InRun, Owns, RunSteps, TerminateSteps, Inv, RunInv, Exclusive
  <2>2. Live = {} /\ Live' = Live
    BY <1>3, <2>1, OneChild DEF Leave, Live
  <2> QED
    BY <1>3, <2>1, <2>2 DEF Leave, Contract!End
<1>4. ASSUME NEW k \in Killers, Cancel(k) PROVE Contract!Stop
  BY <1>4 DEF Cancel, Live, Contract!Stop
<1>5. ASSUME NEW w \in Workers,
             Reject(w) \/ Resolve(w) \/ Raise(w) \/ Mkdtemp(w) \/ ParserRaises(w)
             \/ RequestReport(w) \/ MakeDirs(w) \/ Register(w) \/ RegisterCancelled(w)
             \/ WaitExpires(w) \/ Interrupt(w) \/ Unregister(w)
             \/ JoinDrainers(w) \/ CheckReport(w) \/ Parse(w) \/ ParseFails(w)
             \/ WorkerCleanup(w)
      PROVE  UNCHANGED <<running, cancelled, started, Live>>
  BY <1>5 DEF Live, Reject, Resolve, Raise, Mkdtemp, ParserRaises, RequestReport, MakeDirs,
              Register, RegisterCancelled, WaitExpires, Interrupt, StruckWaiting,
              StruckTerminating, StruckRun, StruckCaller, StruckCleaning, StruckBetween,
              Unregister, JoinDrainers, CheckReport, Parse, ParseFails, WorkerCleanup,
              Claim, Fail, Terminating
<1>6. ASSUME NEW t \in Threads,
             RemoveDir(t) \/ KillerCleanup(t) \/ CancelTerminates(t)
             \/ GroupGone(t) \/ GroupDenied(t) \/ SigTerm(t) \/ GraceExpires(t)
      PROVE  UNCHANGED <<running, cancelled, started, Live>>
  BY <1>6 DEF Live, RemoveDir, KillerCleanup, Claim, CancelTerminates, Terminating,
              GroupGone, GroupDenied, SigTerm, GraceExpires
<1>7. ASSUME NEW t \in Threads,
             WaitReturns(t) \/ CancelNothing(t) \/ Poll(t) \/ GraceReturns(t)
             \/ SigKill(t) \/ KillDirect(t)
      PROVE  UNCHANGED <<running, cancelled, started>> /\ Live' \subseteq Live
  BY <1>7 DEF Live, WaitReturns, CancelNothing, Poll, GraceReturns, SigKill, KillDirect,
              Reaped, Killed, Inv, TypeInv, TypeOK
<1>8. ASSUME NEW r \in Runs, ChildExits(r) \/ KidsStart(r) \/ KidsExit(r)
      PROVE  UNCHANGED <<running, cancelled, started>> /\ Live' \subseteq Live
  BY <1>8 DEF Live, ChildExits, KidsStart, KidsExit, Inv, TypeInv, TypeOK
<1>9. CASE UNCHANGED vars
  BY <1>9, Stutter DEF vars, Live
<1> QED
  BY <1>1, <1>2, <1>3, <1>4, <1>5, <1>6, <1>7, <1>8, <1>9, Stutter, Death
     DEF Next, WorkerStep, KillerStep, Environment, Terminate, AtRest, Threads,
         Contract!ContractNext

\* The subprocess runner is a runner: one run at a time, and the child of a run
\* alive only inside that run, on every path out of it.
THEOREM RunnerImplementsContract ==
  ASSUME InterruptAt \cap OrphanWindows = {}, DirectKillDenied = FALSE
  PROVE  Spec => IsRunner
<1>1. Init => Current /\ NoOrphan /\ Contract!ContractInit
  BY DEF Init, Current, NoOrphan, InRun, RunSteps, TerminateSteps, Threads, Live,
         Contract!ContractInit
<1>2. TypeInv /\ RunInv /\ Current /\ [Next]_vars => Current'
  BY CurrentStep
<1>3. TypeInv /\ RunInv /\ NoOrphan /\ [Next]_vars => NoOrphan'
  BY OrphanStep
<1>4. Inv /\ [Next]_vars => [Contract!ContractNext]_(Contract!contract)
  BY ContractStep
<1>5. Spec => []Inv
  BY <1>1, <1>2, <1>3, TypeInit, TypeStep, RunInit, RunStep, PTL DEF Spec, Inv
<1> QED
  BY <1>1, <1>4, <1>5, PTL DEF Spec, IsRunner, Contract!ContractSpec
=============================================================================
