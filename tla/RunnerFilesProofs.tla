------------------------- MODULE RunnerFilesProofs --------------------------
(* Who owns the temporary directories of SubprocessRunner: they are claimed *)
(* once, not leaked before a kill, and removed as the policy says.          *)
EXTENDS SubprocessRunnerProofs

\* The steps of run() before _created_report_dir is assigned.
Early == {"resolve", "mkdtemp", "request"}

\* A directory that has an owner was made by a run that came that far.
Aged ==
  /\ created <= started /\ \A t \in Threads : claim[t] <= started
  /\ \A w \in Workers : pc[w] \in Early =>
       created < started /\ \A t \in Threads : claim[t] < started

ClaimInv == ClaimedOnce /\ Aged
Base == TypeInv /\ RunInv /\ Current

LEMMA BaseHolds == Spec => []Base
<1>1. Init => Current
  BY DEF Init, Current, InRun, RunSteps, TerminateSteps, Threads
<1>2. TypeInv /\ RunInv /\ Current /\ [Next]_vars => Current'
  BY CurrentStep
<1> QED
  BY <1>1, <1>2, TypeInit, TypeStep, RunInit, RunStep, PTL DEF Spec, Base

\* What a cleanup does, whoever calls it.
LEMMA ClaimKeeps ==
  ASSUME TypeInv, RunInv, ClaimInv, NEW t \in Threads, NEW success, NEW idle \in {"idle", "done"},
         pc[t] = "cleanup", Claim(t, success, idle)
  PROVE  ClaimInv'
<1> USE DEF Claim, Goto, ClaimInv, ClaimedOnce, Aged, Early, Threads, NoRun, TypeInv, TypeOK,
            MaybeRun, config, shared, threads, workers, procs, files
<1>1. started' = started /\ created' = NoRun /\ started \in Nat /\ created \in Nat
  BY MaxRunsAssumption
<1>2. \A w \in Workers : pc'[w] \in Early => pc[w] \in Early
  BY <1>1
<1>3. CASE UNCHANGED claim
  BY <1>1, <1>2, <1>3, MaxRunsAssumption
<1>4. CASE created # NoRun /\ claim' = [claim EXCEPT ![t] = created]
  BY <1>1, <1>2, <1>4, MaxRunsAssumption
<1> QED
  BY <1>3, <1>4

\* A step that claims nothing and lets no worker into the early steps.
LEMMA ClaimFrame ==
  ASSUME ClaimInv, UNCHANGED <<created, claim, started>>,
         \A w \in Workers : pc'[w] \in Early => pc[w] \in Early
  PROVE  ClaimInv'
BY DEF ClaimInv, ClaimedOnce, Aged

LEMMA ClaimStep == Base /\ ClaimInv /\ [Next]_vars => ClaimInv'
<1> SUFFICES ASSUME Base, ClaimInv, [Next]_vars PROVE ClaimInv'
  OBVIOUS
<1> USE MaxRunsAssumption, ConfigAssumption
    DEF Base, TypeInv, TypeOK, ClaimInv, ClaimedOnce, Aged, Early, Threads, MaybeRun, Runs,
        NoRun, Goto, Move, config, shared, threads, workers, procs, files
<1>1. ASSUME NEW w \in Workers, Enter(w) PROVE ClaimInv'
  <2>1. \A v \in Workers : ~InRun(v)
    BY <1>1 DEF Enter, RunInv, Exclusive
  <2>2. \A v \in Workers : pc[v] \notin Early
    BY <2>1 DEF InRun, RunSteps
  <2>3. started' = started + 1 /\ UNCHANGED <<created, claim>>
    BY <1>1 DEF Enter
  <2> QED
    BY <2>2, <2>3
<1>2. ASSUME NEW w \in Workers,
             Reject(w) \/ Resolve(w) \/ Raise(w) \/ Mkdtemp(w) \/ ParserRaises(w)
             \/ MakeDirs(w) \/ Launch(w)
      PROVE  ClaimInv'
  <2>1. UNCHANGED <<created, claim, started>>
    BY <1>2 DEF Reject, Resolve, Raise, Mkdtemp, ParserRaises, MakeDirs, Launch
  <2>2. \A v \in Workers : pc'[v] \in Early => pc[v] \in Early
    BY <1>2, SMTT(20) DEF Reject, Resolve, Raise, Mkdtemp, ParserRaises, MakeDirs, Launch, Fail
  <2> QED
    BY <2>1, <2>2, ClaimFrame
<1>3. ASSUME NEW w \in Workers,
             Register(w) \/ RegisterCancelled(w) \/ WaitReturns(w) \/ WaitExpires(w)
             \/ Unregister(w) \/ JoinDrainers(w) \/ CheckReport(w) \/ Leave(w)
             \/ Parse(w) \/ ParseFails(w) \/ StruckWaiting(w) \/ StruckTerminating(w)
             \/ StruckRun(w) \/ StruckCaller(w)
      PROVE  ClaimInv'
  <2>1. UNCHANGED <<created, claim, started>>
    BY <1>3 DEF Register, RegisterCancelled, WaitReturns, WaitExpires, Unregister,
                JoinDrainers, CheckReport, Leave, Parse, ParseFails, StruckWaiting,
                StruckTerminating, StruckRun, StruckCaller
  <2>2. \E to \in Steps \ Early : pc' = [pc EXCEPT ![w] = to]
    BY <1>3, Literals
       DEF Register, RegisterCancelled, WaitReturns, WaitExpires, Unregister,
           JoinDrainers, CheckReport, Leave, Parse, ParseFails, StruckWaiting,
           StruckTerminating, StruckRun, StruckCaller, Terminating, Fail
  <2> QED
    BY <2>1, <2>2, ClaimFrame
<1>4. ASSUME NEW w \in Workers, RequestReport(w) PROVE ClaimInv'
  <2>1. InRun(w) /\ run[w] = started /\ \A t \in Threads : claim[t] < started
    BY <1>4 DEF RequestReport, InRun, RunSteps, Current
  <2>2. \A v \in Workers : pc'[v] \notin Early
    BY <1>4, <2>1 DEF RequestReport, InRun, RunSteps, RunInv, Exclusive
  <2>3. created' \in {NoRun, started} /\ UNCHANGED <<started, claim>>
    BY <1>4, <2>1 DEF RequestReport
  <2> QED
    BY <2>1, <2>2, <2>3
<1>5. ASSUME NEW w \in Workers, WorkerCleanup(w) PROVE ClaimInv'
  <2> PICK success \in BOOLEAN : Claim(w, success, "idle")
    BY <1>5 DEF WorkerCleanup
  <2>1. pc[w] = "cleanup"
    BY <1>5 DEF WorkerCleanup
  <2> QED
    BY <2>1, ClaimKeeps
<1>6. ASSUME NEW k \in Killers, KillerCleanup(k) PROVE ClaimInv'
  BY <1>6, ClaimKeeps DEF KillerCleanup
<1>7. ASSUME NEW t \in Threads, RemoveDir(t) PROVE ClaimInv'
  BY <1>7 DEF RemoveDir
<1>8. ASSUME NEW k \in Killers, Cancel(k) \/ CancelNothing(k) \/ CancelTerminates(k)
      PROVE  ClaimInv'
  <2>1. UNCHANGED <<created, claim, started>> /\ \A w \in Workers : pc'[w] = pc[w]
    BY <1>8, ThreadsAssumption DEF Cancel, CancelNothing, CancelTerminates, Terminating
  <2> QED
    BY <2>1, ClaimFrame
<1>9. ASSUME NEW t \in Threads, Terminate(t) PROVE ClaimInv'
  <2>1. UNCHANGED <<created, claim, started>> /\ \A u \in Threads \ {t} : pc'[u] = pc[u]
    BY <1>9 DEF Terminate, Poll, GroupGone, GroupDenied, SigTerm, GraceReturns,
                GraceExpires, SigKill, KillDirect
  <2>2. pc'[t] \notin Early
    BY <1>9 DEF Terminate, Poll, GroupGone, GroupDenied, SigTerm, GraceReturns,
                GraceExpires, SigKill, KillDirect, Returns
  <2> QED
    BY <2>1, <2>2
<1>10. ASSUME NEW r \in Runs, ChildExits(r) \/ KidsStart(r) \/ KidsExit(r) PROVE ClaimInv'
  BY <1>10 DEF ChildExits, KidsStart, KidsExit
<1>11. CASE UNCHANGED vars
  BY <1>11 DEF vars
<1>12. ASSUME NEW w \in Workers, StruckCleaning(w) \/ StruckBetween(w) PROVE ClaimInv'
  <2>1. /\ UNCHANGED <<created, started>>
        /\ claim' = [claim EXCEPT ![w] = NoRun]
        /\ \E to \in {"idle", "cleanup"} : pc' = [pc EXCEPT ![w] = to]
    BY <1>12 DEF StruckCleaning, StruckBetween
  <2> QED
    BY <2>1
<1> QED
  BY <1>1, <1>2, <1>3, <1>4, <1>5, <1>6, <1>7, <1>8, <1>9, <1>10, <1>11, <1>12
     DEF Next, WorkerStep, KillerStep, Environment, Interrupt, AtRest

\* run()'s own bookkeeping is consistent for any number of threads.
THEOREM RunConsistent == Spec => []RunInv
BY TypeInit, TypeStep, RunInit, RunStep, PTL DEF Spec

\* A directory is being removed by one thread at most, and can no longer be
\* claimed: the double cleanup of a kill is harmless for any number of threads.
THEOREM OneClaim == Spec => []ClaimedOnce
<1>1. Init => ClaimInv
  BY MaxRunsAssumption DEF Init, ClaimInv, ClaimedOnce, Aged, Early, Threads, NoRun
<1>2. Base /\ ClaimInv /\ [Next]_vars => ClaimInv'
  BY ClaimStep
<1>3. ClaimInv => ClaimedOnce
  BY DEF ClaimInv
<1> QED
  BY <1>1, <1>2, <1>3, BaseHolds, PTL DEF Spec
----------------------------------------------------------------------------
(* From here on the instance has one worker, as an operator's runner does:  *)
(* a second one would assign _created_report_dir before the first has       *)
(* cleaned up.                                                              *)
Sole == \A v, w \in Workers : v = w

\* No on_kill() has come to its cleanup.
Calm == \A k \in Killers : pc[k] \notin {"remove", "done"}

\* The steps of run() over which its directory may be made anew.
Busy == {"makedirs", "launch", "register", "wait"} \cup TerminateSteps

\* _created_report_dir is the directory of the worker's run, from the request
\* to the cleanup.
Owned ==
  \A w \in Workers :
    /\ created \in {NoRun, run[w]}
    /\ pc[w] \in Early \cup {"idle", "remove"} => created = NoRun
    /\ claim[w] # NoRun => pc[w] = "remove"

Unleaked ==
  Calm => /\ NoTempLeak
          /\ \A w \in Workers : pc[w] \in Busy /\ home = "fallback" => created = run[w]

SoleInv == Owned /\ Unleaked

LEMMA SoleFrame ==
  ASSUME SoleInv, UNCHANGED <<created, claim, disk, policy, home, run>>,
         Calm' => Calm,
         \A w \in Workers :
           \/ pc'[w] = pc[w]
           \/ /\ pc[w] \notin {"request", "remove"}
              /\ pc'[w] \notin Early \cup {"idle", "remove"}
              /\ pc'[w] \in Busy => pc[w] \in Busy
           \/ pc[w] = "resolve" /\ pc'[w] = "mkdtemp"
  PROVE  SoleInv'
<1> USE DEF SoleInv, Early
<1>1. Owned'
  BY DEF Owned, Threads
<1>2. Unleaked'
  <2>1. \A w \in Workers : (pc[w] = "request" => pc'[w] = "request")
                            /\ (pc'[w] \in Busy => pc[w] \in Busy)
    BY DEF Busy, TerminateSteps
  <2>2. \A d : Tracked(d) => Tracked(d)'
    BY <2>1 DEF Tracked
  <2> QED
    BY <2>1, <2>2 DEF Unleaked, NoTempLeak
<1> QED
  BY <1>1, <1>2

LEMMA SoleStep ==
  ASSUME Sole, InterruptAt \cap LeakWindows = {}, Base, NoOrphan, SoleInv, [Next]_vars
  PROVE  SoleInv'
<1> USE DEF Goto, Move, config, shared, threads, workers, procs, files
<1>t. /\ pc \in [Threads -> Steps] /\ claim \in [Threads -> MaybeRun]
      /\ outcome \in [Workers -> Outcomes] /\ run \in [Workers -> MaybeRun]
      /\ disk \subseteq Runs /\ created \in MaybeRun /\ started \in MaybeRun
      /\ Workers \subseteq Threads /\ Killers \subseteq Threads
      /\ \A k \in Killers : k \notin Workers
  BY ThreadsAssumption DEF Base, TypeInv, TypeOK, Threads
<1>1. ASSUME NEW w \in Workers, Enter(w) PROVE SoleInv'
  <2>1. pc[w] = "idle" /\ pc' = [pc EXCEPT ![w] = "resolve"]
        /\ UNCHANGED <<created, claim, disk, policy, home>>
        /\ \A v \in Workers : v = w
    BY <1>1 DEF Enter, Sole
  <2>2. created = NoRun /\ claim[w] = NoRun
    BY <2>1 DEF SoleInv, Owned
  <2>3. Owned'
    BY <1>t, <2>1, <2>2 DEF SoleInv, Owned, Early, Threads
  <2>4. Calm' => Calm
    BY <1>t, <2>1 DEF Calm
  <2>5. \A d : Tracked(d) => Tracked(d)'
    BY <1>t, <2>1 DEF Tracked
  <2>6. Unleaked'
    BY <1>t, <2>1, <2>4, <2>5 DEF SoleInv, Unleaked, NoTempLeak, Busy, TerminateSteps
  <2> QED
    BY <2>3, <2>6 DEF SoleInv
<1>2. ASSUME NEW w \in Workers,
             Resolve(w) \/ Launch(w) \/ (MakeDirs(w) /\ disk' = disk)
             \/ Register(w) \/ RegisterCancelled(w) \/ WaitReturns(w) \/ WaitExpires(w)
             \/ StruckWaiting(w) \/ Raise(w) \/ Unregister(w) \/ JoinDrainers(w)
             \/ CheckReport(w) \/ Leave(w) \/ Parse(w) \/ ParseFails(w) \/ Reject(w)
             \/ StruckCaller(w) \/ (StruckRun(w) /\ pc[w] # "request")
      PROVE  SoleInv'
  <2>1. UNCHANGED <<created, claim, disk, policy, home, run>>
        /\ pc[w] \notin {"request", "remove"}
    BY <1>2
       DEF Resolve, Launch, MakeDirs, Register, RegisterCancelled, WaitReturns, WaitExpires,
           StruckWaiting, Raise, Unregister, JoinDrainers, CheckReport, Leave,
           Parse, ParseFails, Reject, StruckCaller, StruckRun, RunSteps
  <2>2. \E to \in Steps : /\ pc' = [pc EXCEPT ![w] = to]
                          /\ \/ /\ to \notin Early \cup {"idle", "remove"}
                                /\ to \in Busy => pc[w] \in Busy
                             \/ pc[w] = "resolve" /\ to = "mkdtemp"
    BY <1>2, Literals
       DEF Resolve, Launch, MakeDirs, Register, RegisterCancelled, WaitReturns, WaitExpires,
           StruckWaiting, Raise, Unregister, JoinDrainers, CheckReport, Leave, Parse,
           ParseFails, Reject, StruckCaller, StruckRun, Early, Busy, TerminateSteps, Fail,
           Terminating
  <2>3. (Calm' => Calm) /\ \A v \in Workers : v = w
    BY <1>t, <2>2 DEF Calm, Sole
  <2> QED
    BY <1>t, <2>1, <2>2, <2>3, SoleFrame
<1>3. ASSUME NEW w \in Workers, Interrupt(w) PROVE SoleInv'
  BY <1>2, <1>3 DEF Interrupt, LeakWindows, OrphanWindows, StruckTerminating,
                     StruckCleaning, StruckBetween
<1>4. ASSUME NEW w \in Workers, Mkdtemp(w) PROVE SoleInv'
  <2>1. pc[w] = "mkdtemp" /\ pc' = [pc EXCEPT ![w] = "request"] /\ disk' = disk \cup {run[w]}
        /\ UNCHANGED <<created, claim, policy, home, run>>
        /\ \A v \in Workers : v = w
    BY <1>4 DEF Mkdtemp, Sole
  <2>2. Owned'
    BY <1>t, <2>1 DEF SoleInv, Owned, Early, Threads
  <2>3. \A d : Tracked(d) => Tracked(d)'
    BY <1>t, <2>1 DEF Tracked
  <2>4. Tracked(run[w])'
    BY <1>t, <2>1 DEF Tracked
  <2>5. Calm' => Calm
    BY <1>t, <2>1 DEF Calm
  <2>6. Unleaked'
    BY <1>t, <2>1, <2>3, <2>4, <2>5 DEF SoleInv, Unleaked, NoTempLeak, Busy, TerminateSteps
  <2> QED
    BY <2>2, <2>6 DEF SoleInv
<1>5. ASSUME NEW w \in Workers, ParserRaises(w) PROVE SoleInv'
  <2>1. pc[w] = "request" /\ pc' = [pc EXCEPT ![w] = "leave"] /\ disk' = disk \ {run[w]}
        /\ UNCHANGED <<created, claim, policy, home, run>>
        /\ \A v \in Workers : v = w
    BY <1>5 DEF ParserRaises, Fail, Sole
  <2>2. claim[w] = NoRun
    BY <2>1 DEF SoleInv, Owned
  <2>3. Owned'
    BY <1>t, <2>1, <2>2 DEF SoleInv, Owned, Early, Threads
  <2>4. \A d \in disk' : Tracked(d) => Tracked(d)'
    BY <1>t, <2>1 DEF Tracked
  <2>5. Calm' => Calm
    BY <1>t, <2>1 DEF Calm
  <2>6. Unleaked'
    BY <1>t, <2>1, <2>4, <2>5 DEF SoleInv, Unleaked, NoTempLeak, Busy, TerminateSteps
  <2> QED
    BY <2>3, <2>6 DEF SoleInv
<1>6. ASSUME NEW w \in Workers, RequestReport(w) PROVE SoleInv'
  <2>1. pc[w] = "request" /\ pc' = [pc EXCEPT ![w] = "makedirs"]
        /\ UNCHANGED <<claim, policy, home, run>>
        /\ created' = (IF home = "fallback" THEN run[w] ELSE NoRun)
        /\ disk' = (IF home = "fallback" THEN disk ELSE disk \ {run[w]})
        /\ \A v \in Workers : v = w
    BY <1>6 DEF RequestReport, Sole
  <2>2. claim[w] = NoRun /\ created = NoRun
    BY <2>1 DEF SoleInv, Owned, Early
  <2>3. Owned'
    BY <1>t, <2>1, <2>2 DEF SoleInv, Owned, Early, Threads
  <2>4. \A d \in disk' : Tracked(d) => Tracked(d)'
    BY <1>t, <2>1, <2>2 DEF Tracked, NoRun, Runs
  <2>5. Calm' => Calm
    BY <1>t, <2>1 DEF Calm
  <2>6. disk' \subseteq disk
    BY <2>1
  <2>7. Unleaked'
    BY <1>t, <2>1, <2>4, <2>5, <2>6 DEF SoleInv, Unleaked, NoTempLeak, Busy, TerminateSteps
  <2> QED
    BY <2>3, <2>7 DEF SoleInv
<1>7. ASSUME NEW w \in Workers, MakeDirs(w), disk' # disk PROVE SoleInv'
  <2>1. pc[w] = "makedirs" /\ pc' = [pc EXCEPT ![w] = "launch"] /\ disk' = disk \cup {run[w]}
        /\ home = "fallback" /\ UNCHANGED <<created, claim, policy, home, run>>
        /\ \A v \in Workers : v = w
    BY <1>7 DEF MakeDirs, Sole
  <2>2. Owned'
    BY <1>t, <2>1 DEF SoleInv, Owned, Early, Threads
  <2>3. \A d : Tracked(d) => Tracked(d)'
    BY <1>t, <2>1 DEF Tracked
  <2>4. Calm' => Calm
    BY <1>t, <2>1 DEF Calm
  <2>5. Calm' => Tracked(run[w])'
    BY <1>t, <2>1, <2>4 DEF Tracked, SoleInv, Unleaked, Busy
  <2>6. Unleaked'
    BY <1>t, <2>1, <2>3, <2>4, <2>5 DEF SoleInv, Unleaked, NoTempLeak, Busy, TerminateSteps
  <2> QED
    BY <2>2, <2>6 DEF SoleInv
<1>8. ASSUME NEW w \in Workers, WorkerCleanup(w) PROVE SoleInv'
  <2> PICK success \in BOOLEAN : Claim(w, success, "idle")
    BY <1>8 DEF WorkerCleanup
  <2>1. pc[w] = "cleanup" /\ created' = NoRun /\ \A v \in Workers : v = w
        /\ UNCHANGED <<policy, home, run, disk>>
    BY <1>8 DEF WorkerCleanup, Claim, Sole
  <2>2. claim[w] = NoRun /\ created \in {NoRun, run[w]}
    BY <2>1 DEF SoleInv, Owned
  <2>3. CASE created # NoRun /\ Removes(success)
    <3>1. pc' = [pc EXCEPT ![w] = "remove"] /\ claim' = [claim EXCEPT ![w] = created]
      BY <2>3 DEF Claim
    <3>3. Owned'
      BY <1>t, <2>1, <2>2, <2>3, <3>1 DEF SoleInv, Owned, Early, Threads
    <3>4. \A d \in disk : Tracked(d) => Tracked(d)'
      BY <1>t, <2>1, <2>2, <2>3, <3>1 DEF Tracked, NoRun, Runs
    <3>5. Calm' => Calm
      BY <1>t, <3>1 DEF Calm
    <3>6. Unleaked'
      BY <1>t, <2>1, <3>1, <3>4, <3>5 DEF SoleInv, Unleaked, NoTempLeak, Busy, TerminateSteps
    <3> QED
      BY <3>3, <3>6 DEF SoleInv
  <2>4. CASE ~(created # NoRun /\ Removes(success))
    <3>1. pc' = [pc EXCEPT ![w] = "idle"] /\ claim' = claim
      BY <2>4 DEF Claim
    <3>2. policy = "always" => created = NoRun
      BY <2>4 DEF Removes
    <3>3. Owned'
      BY <1>t, <2>1, <2>2, <3>1 DEF SoleInv, Owned, Early, Threads
    <3>4. policy = "always" => \A d \in disk : Tracked(d) => Tracked(d)'
      BY <1>t, <2>1, <2>2, <3>1, <3>2 DEF Tracked, NoRun, Runs
    <3>5. Calm' => Calm
      BY <1>t, <3>1 DEF Calm
    <3>6. Unleaked'
      BY <1>t, <2>1, <3>1, <3>4, <3>5 DEF SoleInv, Unleaked, NoTempLeak, Busy, TerminateSteps
    <3> QED
      BY <3>3, <3>6 DEF SoleInv
  <2> QED
    BY <2>3, <2>4
<1>9. ASSUME NEW w \in Workers, RemoveDir(w) PROVE SoleInv'
  <2>1. pc[w] = "remove" /\ pc' = [pc EXCEPT ![w] = "idle"] /\ disk' = disk \ {claim[w]}
        /\ claim' = [claim EXCEPT ![w] = NoRun] /\ UNCHANGED <<created, policy, home, run>>
        /\ \A v \in Workers : v = w
    BY <1>t, <1>9 DEF RemoveDir, Sole
  <2>2. Owned'
    BY <1>t, <2>1 DEF SoleInv, Owned, Early, Threads
  <2>3. \A d \in disk' : Tracked(d) => Tracked(d)'
    BY <1>t, <2>1 DEF Tracked
  <2>4. Calm' => Calm
    BY <1>t, <2>1 DEF Calm
  <2>5. Unleaked'
    BY <1>t, <2>1, <2>3, <2>4 DEF SoleInv, Unleaked, NoTempLeak, Busy, TerminateSteps
  <2> QED
    BY <2>2, <2>5 DEF SoleInv
<1>10. ASSUME NEW k \in Killers, RemoveDir(k) \/ KillerCleanup(k) PROVE SoleInv'
  <2>1. ~Calm'
    BY <1>t, <1>10 DEF RemoveDir, KillerCleanup, Claim, Calm
  <2>2. \A w \in Workers : pc'[w] = pc[w] /\ claim'[w] = claim[w]
    BY <1>t, <1>10 DEF RemoveDir, KillerCleanup, Claim
  <2>3. created' \in {created, NoRun} /\ UNCHANGED run
    BY <1>10 DEF RemoveDir, KillerCleanup, Claim
  <2>4. Owned'
    BY <1>t, <2>2, <2>3 DEF SoleInv, Owned
  <2> QED
    BY <2>1, <2>4 DEF SoleInv, Unleaked
<1>11. ASSUME NEW k \in Killers, Cancel(k) \/ CancelNothing(k) \/ CancelTerminates(k)
       PROVE  SoleInv'
  <2>1. UNCHANGED <<created, claim, disk, policy, home, run>>
        /\ \A w \in Workers : pc'[w] = pc[w]
    BY <1>t, <1>11 DEF Cancel, CancelNothing, CancelTerminates, Terminating
  <2>2. \A u \in Killers : u # k => pc'[u] = pc[u]
    BY <1>t, <1>11 DEF Cancel, CancelNothing, CancelTerminates, Terminating
  <2>3. pc[k] \notin {"remove", "done"}
    BY <1>11 DEF Cancel, CancelNothing, CancelTerminates
  <2> QED
    BY <1>t, <2>1, <2>2, <2>3, SoleFrame DEF Calm
<1>12. ASSUME NEW t \in Threads, Terminate(t) PROVE SoleInv'
  <2>0. UNCHANGED <<created, claim, disk, policy, home, run>>
    BY <1>12 DEF Terminate, Poll, GroupGone, GroupDenied, SigTerm, GraceReturns,
                 GraceExpires, SigKill, KillDirect
  <2>1. \A u \in Threads \ {t} : pc'[u] = pc[u]
    BY <1>t, <1>12 DEF Terminate, Poll, GroupGone, GroupDenied, SigTerm, GraceReturns,
                 GraceExpires, SigKill, KillDirect
  <2>2. pc[t] \in TerminateSteps /\ pc'[t] \in TerminateSteps \cup Returns
    BY <1>t, <1>12
       DEF Terminate, Poll, GroupGone, GroupDenied, SigTerm, GraceReturns, GraceExpires,
           SigKill, KillDirect, TerminateSteps, Base, TypeInv, TypeOK
  <2>3. Calm' => Calm
    BY <1>t, <2>1, <2>2 DEF Calm, TerminateSteps
  <2> QED
    BY <1>t, <2>0, <2>1, <2>2, <2>3, SoleFrame DEF TerminateSteps, Returns, Early, Busy
<1>13. ASSUME NEW r \in Runs, ChildExits(r) \/ KidsStart(r) \/ KidsExit(r) PROVE SoleInv'
  <2>1. UNCHANGED <<created, claim, policy, home, run, pc>>
    BY <1>13 DEF ChildExits, KidsStart, KidsExit
  <2>2. CASE disk' = disk
    BY <2>1, <2>2, SoleFrame DEF Calm
  <2>3. CASE disk' # disk
    <3>1. child[r] = "running" /\ home = "fallback" /\ disk' = disk \cup {r}
      BY <1>13, <2>3 DEF ChildExits, KidsStart, KidsExit
    <3>2. PICK w \in Workers : run[w] = r /\ pc[w] \in Busy
      BY <3>1 DEF NoOrphan, Owns, Busy
    <3>3. Calm => created = r
      BY <3>1, <3>2 DEF SoleInv, Unleaked
    <3>4. \A d : Tracked(d) <=> Tracked(d)'
      BY <2>1 DEF Tracked
    <3>5. Calm' => Calm
      BY <2>1 DEF Calm
    <3>6. Unleaked'
      BY <2>1, <3>1, <3>3, <3>4, <3>5 DEF SoleInv, Unleaked, NoTempLeak, Tracked
    <3>7. Owned'
      BY <2>1 DEF SoleInv, Owned
    <3> QED
      BY <3>6, <3>7 DEF SoleInv
  <2> QED
    BY <2>2, <2>3
<1>14. CASE UNCHANGED vars
  <2>1. UNCHANGED <<created, claim, disk, policy, home, run, pc>>
    BY <1>14 DEF vars
  <2> QED
    BY <2>1, SoleFrame DEF Calm
<1>15. ASSUME NEW w \in Workers, WorkerStep(w) PROVE SoleInv'
  <2>1. w \in Threads
    BY <1>t
  <2>2. CASE MakeDirs(w)
    BY <2>2, <1>2, <1>7
  <2>3. CASE Terminate(w)
    BY <2>1, <2>3, <1>12
  <2>4. CASE \/ Resolve(w) \/ Launch(w) \/ Register(w) \/ RegisterCancelled(w)
             \/ WaitReturns(w) \/ WaitExpires(w) \/ Raise(w) \/ Unregister(w)
             \/ JoinDrainers(w) \/ CheckReport(w) \/ Leave(w) \/ Parse(w) \/ ParseFails(w)
    BY <2>4, <1>2
  <2>5. CASE Mkdtemp(w) \/ ParserRaises(w) \/ RequestReport(w) \/ WorkerCleanup(w)
             \/ RemoveDir(w)
    BY <2>5, <1>4, <1>5, <1>6, <1>8, <1>9
  <2> QED
    BY <1>15, <2>2, <2>3, <2>4, <2>5 DEF WorkerStep
<1>16. ASSUME NEW k \in Killers, KillerStep(k) PROVE SoleInv'
  <2>1. k \in Threads
    BY <1>t
  <2> QED
    BY <1>16, <2>1, <1>10, <1>11, <1>12 DEF KillerStep
<1>17. CASE Environment
  BY <1>17, <1>1, <1>2, <1>3, <1>13 DEF Environment
<1> QED
  BY <1>14, <1>15, <1>16, <1>17 DEF Next, AtRest

LEMMA SoleInit == Init => SoleInv
BY DEF Init, SoleInv, Owned, Unleaked, NoTempLeak, Calm, Threads, NoRun, Busy, TerminateSteps

\* Whatever step of run() fails or times out, and whatever an exception strikes
\* outside LeakWindows, every temp dir on disk is known to somebody who will
\* remove it, up to the cleanup of a kill.
THEOREM NoLeakUntilKilled ==
  ASSUME Sole, InterruptAt \cap LeakWindows = {}, DirectKillDenied = FALSE
  PROVE  Spec => []NoLeakBeforeKill
<1>1. Base /\ NoOrphan /\ SoleInv /\ [Next]_vars => SoleInv'
  BY SoleStep
<1>2. SoleInv => NoLeakBeforeKill
  BY DEF SoleInv, Unleaked, NoLeakBeforeKill, Calm
<1>3. InterruptAt \cap OrphanWindows = {}
  BY DEF LeakWindows
<1>4. Spec => []NoOrphan
  BY <1>3, NoOrphans
<1> QED
  BY <1>1, <1>2, <1>4, SoleInit, BaseHolds, PTL DEF Spec

----------------------------------------------------------------------------
\* The steps from the assignment of _created_report_dir to the parsed report.
Late == {"makedirs", "launch", "register", "wait", "unregister", "join", "report",
         "parse"} \cup TerminateSteps

\* A worker that has a report, or may yet get one, finds no other directory than
\* its run's in _created_report_dir -- one whose cleanup was struck may -- and a
\* claim under another policy than "always" is that of a caller whose run passed.
Entitled ==
  /\ \A w \in Workers :
       pc[w] \in Late \/ outcome[w] \in {"report"} \cup Parsed => created \in {NoRun, run[w]}
  /\ \A t \in Threads : claim[t] # NoRun => pc[t] = "remove"
  /\ policy # "always" => \A t \in Threads : claim[t] # NoRun =>
       /\ t \in Workers /\ policy = "on_success"
       /\ claim[t] = run[t] /\ outcome[t] = "passed"

\* A step that leaves the claims alone and brings no worker nearer to a report.
LEMMA EntitledFrame ==
  ASSUME Entitled, UNCHANGED <<created, claim, policy, run>>,
         \A t \in Threads : pc[t] = "remove" => pc'[t] = "remove",
         \A w \in Workers : claim[w] # NoRun => outcome'[w] = outcome[w],
         \A w \in Workers : pc'[w] \in Late \/ outcome'[w] \in {"report"} \cup Parsed
           => pc[w] \in Late \/ outcome[w] \in {"report"} \cup Parsed
  PROVE  Entitled'
BY DEF Entitled, Threads

LEMMA EntitledStep ==
  ASSUME Sole, Base, Entitled, [Next]_vars
  PROVE  Entitled'
<1> USE DEF Goto, Move, config, shared, threads, workers, procs, files
<1>t. /\ pc \in [Threads -> Steps] /\ claim \in [Threads -> MaybeRun]
      /\ outcome \in [Workers -> Outcomes] /\ run \in [Workers -> MaybeRun]
      /\ Workers \subseteq Threads /\ Killers \subseteq Threads
      /\ \A k \in Killers : k \notin Workers
  BY ThreadsAssumption DEF Base, TypeInv, TypeOK, Threads
<1>1. ASSUME NEW w \in Workers, Enter(w) PROVE Entitled'
  <2>1. /\ pc[w] = "idle" /\ pc' = [pc EXCEPT ![w] = "resolve"]
        /\ outcome' = [outcome EXCEPT ![w] = "none"]
        /\ UNCHANGED <<created, claim, policy>> /\ \A v \in Workers : v = w
    BY <1>1 DEF Enter, Sole
  <2>2. claim[w] = NoRun
    BY <1>t, <2>1 DEF Entitled
  <2> QED
    BY <1>t, <2>1, <2>2 DEF Entitled, Late, TerminateSteps, Parsed
<1>2. ASSUME NEW w \in Workers, RequestReport(w) PROVE Entitled'
  <2>1. /\ pc[w] = "request" /\ pc' = [pc EXCEPT ![w] = "makedirs"]
        /\ created' \in {NoRun, run[w]} /\ \A v \in Workers : v = w
        /\ UNCHANGED <<claim, policy, run, outcome>>
    BY <1>2 DEF RequestReport, Sole
  <2> QED
    BY <1>t, <2>1 DEF Entitled
<1>3. ASSUME NEW w \in Workers, WorkerCleanup(w) PROVE Entitled'
  <2> PICK success \in IF outcome[w] = "passed" THEN BOOLEAN ELSE {FALSE} :
             Claim(w, success, "idle")
    BY <1>3 DEF WorkerCleanup
  <2>1. /\ pc[w] = "cleanup" /\ created' = NoRun /\ \A v \in Workers : v = w
        /\ UNCHANGED <<policy, run, outcome>>
    BY <1>3 DEF WorkerCleanup, Claim, Sole
  <2>2. CASE created # NoRun /\ Removes(success)
    <3>1. pc' = [pc EXCEPT ![w] = "remove"] /\ claim' = [claim EXCEPT ![w] = created]
      BY <2>2 DEF Claim
    <3>2. policy # "always" =>
            policy = "on_success" /\ outcome[w] = "passed" /\ created = run[w]
      BY <2>2 DEF Removes, Entitled, Parsed
    <3> QED
      BY <1>t, <2>1, <3>1, <3>2 DEF Entitled
  <2>3. CASE ~(created # NoRun /\ Removes(success))
    <3>1. pc' = [pc EXCEPT ![w] = "idle"] /\ claim' = claim
      BY <2>3 DEF Claim
    <3> QED
      BY <1>t, <2>1, <3>1 DEF Entitled
  <2> QED
    BY <2>2, <2>3
<1>4. ASSUME NEW k \in Killers, KillerCleanup(k) PROVE Entitled'
  <2>1. pc[k] = "cleanup" /\ created' = NoRun /\ UNCHANGED <<policy, run, outcome>>
    BY <1>4 DEF KillerCleanup, Claim
  <2>2. CASE created # NoRun /\ Removes(FALSE)
    BY <1>t, <1>4, <2>1, <2>2 DEF KillerCleanup, Claim, Removes, Entitled
  <2>3. CASE ~(created # NoRun /\ Removes(FALSE))
    BY <1>t, <1>4, <2>1, <2>3 DEF KillerCleanup, Claim, Entitled
  <2> QED
    BY <2>2, <2>3
<1>5. ASSUME NEW t \in Threads, UNCHANGED <<created, policy, run>>,
             claim' = [claim EXCEPT ![t] = NoRun],
             \A u \in Threads \ {t} : pc'[u] = pc[u], pc'[t] \notin Late,
             \A w \in Workers : \/ outcome'[w] = outcome[w]
                                \/ w = t /\ outcome'[w] \notin {"report"} \cup Parsed
      PROVE  Entitled'
  BY <1>t, <1>5 DEF Entitled
<1>6. ASSUME NEW t \in Threads, RemoveDir(t) PROVE Entitled'
  <2>1. pc'[t] \in {"idle", "done"} /\ \A u \in Threads \ {t} : pc'[u] = pc[u]
    BY <1>t, <1>6 DEF RemoveDir
  <2> QED
    BY <1>5, <1>6, <2>1 DEF RemoveDir, Late, TerminateSteps
<1>7. ASSUME NEW w \in Workers, StruckCleaning(w) \/ StruckBetween(w) PROVE Entitled'
  <2>1. /\ pc'[w] \in {"idle", "cleanup"} /\ \A u \in Threads \ {w} : pc'[u] = pc[u]
        /\ claim' = [claim EXCEPT ![w] = NoRun] /\ UNCHANGED <<created, policy, run>>
        /\ outcome' \in {outcome, [outcome EXCEPT ![w] = "interrupted"]}
    BY <1>t, <1>7 DEF StruckCleaning, StruckBetween
  <2>2. \A v \in Workers : \/ outcome'[v] = outcome[v]
                           \/ v = w /\ outcome'[v] \notin {"report"} \cup Parsed
    BY <1>t, <2>1 DEF Parsed
  <2> QED
    BY <1>t, <1>5, <2>1, <2>2 DEF Late, TerminateSteps
<1>8. ASSUME NEW w \in Workers,
             Reject(w) \/ Resolve(w) \/ Raise(w) \/ Mkdtemp(w) \/ ParserRaises(w)
             \/ MakeDirs(w) \/ Launch(w) \/ Register(w) \/ RegisterCancelled(w)
             \/ WaitReturns(w) \/ WaitExpires(w) \/ Unregister(w) \/ JoinDrainers(w)
             \/ CheckReport(w) \/ Leave(w) \/ Parse(w) \/ ParseFails(w) \/ StruckWaiting(w)
             \/ StruckTerminating(w) \/ StruckRun(w) \/ StruckCaller(w)
      PROVE  Entitled'
  <2>1. UNCHANGED <<created, claim, policy, run>> /\ pc[w] # "remove"
    BY <1>8 DEF Reject, Resolve, Raise, Mkdtemp, ParserRaises, MakeDirs, Launch, Register,
                RegisterCancelled, WaitReturns, WaitExpires, Unregister, JoinDrainers,
                CheckReport, Leave, Parse, ParseFails, StruckWaiting, StruckTerminating,
                StruckRun, StruckCaller, TerminateSteps, RunSteps
  <2>2. \A t \in Threads \ {w} : pc'[t] = pc[t]
    BY <1>t, <1>8
       DEF Reject, Resolve, Raise, Mkdtemp, ParserRaises, MakeDirs, Launch, Register,
           RegisterCancelled, WaitReturns, WaitExpires, Unregister, JoinDrainers,
           CheckReport, Leave, Parse, ParseFails, StruckWaiting, StruckTerminating,
           StruckRun, StruckCaller, Fail, Terminating
  <2>3. \A v \in Workers \ {w} : outcome'[v] = outcome[v]
    BY <1>t, <1>8
       DEF Reject, Resolve, Raise, Mkdtemp, ParserRaises, MakeDirs, Launch, Register,
           RegisterCancelled, WaitReturns, WaitExpires, Unregister, JoinDrainers,
           CheckReport, Leave, Parse, ParseFails, StruckWaiting, StruckTerminating,
           StruckRun, StruckCaller, Fail
  <2>4. claim[w] = NoRun
    BY <1>t, <2>1 DEF Entitled
  <2>5. CASE Leave(w)
    <3>1. /\ outcome' = outcome
          /\ pc'[w] = "cleanup" \/ outcome[w] = "report"
      BY <1>t, <2>5 DEF Leave
    <3> QED
      BY <1>t, <2>1, <2>2, <2>3, <2>4, <3>1, EntitledFrame DEF Late, TerminateSteps
  <2>6. CASE Reject(w) \/ Resolve(w) \/ Raise(w) \/ Mkdtemp(w) \/ ParserRaises(w)
             \/ ParseFails(w) \/ StruckRun(w) \/ StruckCaller(w) \/ Unregister(w)
             \/ JoinDrainers(w) \/ StruckTerminating(w)
    <3>1. pc'[w] \in Late => pc[w] \in Late
      BY <1>t, <2>6
         DEF Reject, Resolve, Raise, Mkdtemp, ParserRaises, ParseFails, StruckRun,
             StruckCaller, Unregister, JoinDrainers, StruckTerminating, Fail, Late,
             TerminateSteps
    <3>2. outcome'[w] = outcome[w] \/ outcome'[w] \notin {"report"} \cup Parsed
      BY <1>t, <2>6
         DEF Reject, Resolve, Raise, Mkdtemp, ParserRaises, ParseFails, StruckRun,
             StruckCaller, Unregister, JoinDrainers, StruckTerminating, Fail, Parsed
    <3> QED
      BY <1>t, <2>1, <2>2, <2>3, <2>4, <3>1, <3>2, EntitledFrame
  <2>7. CASE MakeDirs(w) \/ Launch(w) \/ Register(w) \/ RegisterCancelled(w)
             \/ WaitReturns(w) \/ WaitExpires(w) \/ StruckWaiting(w) \/ CheckReport(w)
             \/ Parse(w)
    <3>1. pc[w] \in Late
      BY <2>7 DEF MakeDirs, Launch, Register, RegisterCancelled, WaitReturns, WaitExpires,
                  StruckWaiting, CheckReport, Parse, Late
    <3> QED
      BY <1>t, <2>1, <2>2, <2>3, <2>4, <3>1, EntitledFrame
  <2> QED
    BY <1>8, <2>5, <2>6, <2>7
<1>9. ASSUME NEW k \in Killers, Cancel(k) \/ CancelNothing(k) \/ CancelTerminates(k)
      PROVE  Entitled'
  <2>1. UNCHANGED <<created, claim, policy, run, outcome>> /\ pc[k] # "remove"
        /\ \A t \in Threads \ {k} : pc'[t] = pc[t]
    BY <1>t, <1>9 DEF Cancel, CancelNothing, CancelTerminates, Terminating
  <2> QED
    BY <1>t, <2>1, EntitledFrame
<1>10. ASSUME NEW t \in Threads, Terminate(t) PROVE Entitled'
  <2>1. UNCHANGED <<created, claim, policy, run, outcome>>
    BY <1>10 DEF Terminate, Poll, GroupGone, GroupDenied, SigTerm, GraceReturns,
                 GraceExpires, SigKill, KillDirect
  <2>2. pc[t] \in TerminateSteps /\ \A u \in Threads \ {t} : pc'[u] = pc[u]
    BY <1>t, <1>10 DEF Terminate, Poll, GroupGone, GroupDenied, SigTerm, GraceReturns,
                       GraceExpires, SigKill, KillDirect, TerminateSteps
  <2> QED
    BY <1>t, <2>1, <2>2, EntitledFrame DEF TerminateSteps, Late
<1>11. ASSUME UNCHANGED <<created, claim, policy, run, outcome, pc>> PROVE Entitled'
  BY <1>11, EntitledFrame
<1>12. ASSUME NEW r \in Runs, ChildExits(r) \/ KidsStart(r) \/ KidsExit(r) PROVE Entitled'
  BY <1>11, <1>12 DEF ChildExits, KidsStart, KidsExit
<1>13. CASE UNCHANGED vars
  BY <1>11, <1>13 DEF vars
<1> QED
  BY <1>t, <1>1, <1>2, <1>3, <1>4, <1>6, <1>7, <1>8, <1>9, <1>10, <1>12, <1>13
     DEF Next, WorkerStep, KillerStep, Environment, Interrupt, AtRest

\* A temp dir disappears only as the policy allows, kills or not, and whatever an
\* exception strikes.
THEOREM RemovedByPolicy ==
  ASSUME Sole
  PROVE  Spec => KeptByPolicy
<1> DEFINE Allowed(d) ==
      \/ policy = "always"
      \/ \E w \in Workers : run[w] = d /\
           \/ pc[w] = "request"
           \/ policy = "on_success" /\ outcome[w] = "passed"
<1>1. Base /\ Entitled /\ [Next]_vars => Entitled'
  BY EntitledStep
<1>2. ASSUME Base, Entitled, [Next]_vars PROVE \A d \in disk \ disk' : Allowed(d)
  <2> USE DEF Goto, Move, config, shared, threads, workers, procs, files
  <2>1. ASSUME NEW t \in Threads, RemoveDir(t) PROVE \A d \in disk \ disk' : Allowed(d)
    <3>1. disk' = disk \ {claim[t]} /\ disk \subseteq Runs
      BY <1>2, <2>1 DEF RemoveDir, Base, TypeInv, TypeOK
    <3>2. \A d \in disk \ disk' : d = claim[t] /\ d # NoRun
      BY <3>1 DEF Runs, NoRun
    <3>3. policy # "always" /\ claim[t] # NoRun =>
            \E w \in Workers : /\ run[w] = claim[t]
                               /\ policy = "on_success" /\ outcome[w] = "passed"
      BY <1>2 DEF Entitled
    <3> QED
      BY <3>2, <3>3
  <2>2. ASSUME NEW w \in Workers, ParserRaises(w) \/ RequestReport(w)
        PROVE  \A d \in disk \ disk' : Allowed(d)
    <3>1. pc[w] = "request" /\ \A d \in disk \ disk' : d = run[w]
      BY <2>2 DEF ParserRaises, RequestReport
    <3> QED
      BY <3>1
  <2>3. ASSUME NEW w \in Workers,
               Enter(w) \/ Reject(w) \/ Resolve(w) \/ Raise(w) \/ Mkdtemp(w) \/ MakeDirs(w)
               \/ Launch(w) \/ Register(w) \/ RegisterCancelled(w) \/ WaitReturns(w)
               \/ WaitExpires(w) \/ Interrupt(w) \/ Unregister(w) \/ JoinDrainers(w)
               \/ CheckReport(w) \/ Leave(w) \/ Parse(w) \/ ParseFails(w) \/ WorkerCleanup(w)
        PROVE  disk \subseteq disk'
    BY <2>3 DEF Enter, Reject, Resolve, Raise, Mkdtemp, MakeDirs, Launch, Register,
                RegisterCancelled, WaitReturns, WaitExpires, Interrupt, StruckWaiting,
                StruckTerminating, StruckRun, StruckCaller, StruckCleaning, StruckBetween,
                Unregister, JoinDrainers, CheckReport, Leave, Parse, ParseFails,
                WorkerCleanup, Claim
  <2>4. ASSUME NEW t \in Threads,
               Cancel(t) \/ CancelNothing(t) \/ CancelTerminates(t) \/ KillerCleanup(t)
               \/ Terminate(t)
        PROVE  disk' = disk
    BY <2>4 DEF Cancel, CancelNothing, CancelTerminates, KillerCleanup, Claim, Terminate, Poll,
                GroupGone, GroupDenied, SigTerm, GraceReturns, GraceExpires, SigKill, KillDirect
  <2>5. ASSUME NEW r \in Runs, ChildExits(r) \/ KidsStart(r) \/ KidsExit(r)
        PROVE  disk \subseteq disk'
    BY <2>5 DEF ChildExits, KidsStart, KidsExit
  <2>6. UNCHANGED vars => disk' = disk
    BY DEF vars
  <2> QED
    BY <1>2, <2>1, <2>2, <2>3, <2>4, <2>5, <2>6
       DEF Next, WorkerStep, KillerStep, Environment, AtRest, Threads
<1>3. Base /\ Entitled /\ [Next]_vars => [\A d \in disk \ disk' : Allowed(d)]_vars
  BY <1>2
<1>4. Init => Entitled
  BY DEF Init, Entitled, Late, TerminateSteps, Parsed, Threads, NoRun
<1> QED
  BY <1>1, <1>3, <1>4, BaseHolds, PTL DEF Spec, KeptByPolicy
=============================================================================
