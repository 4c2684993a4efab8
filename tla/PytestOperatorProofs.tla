------------------------ MODULE PytestOperatorProofs ------------------------
(***************************************************************************)
(* What PytestOperator promises for every suite, operator, number of       *)
(* retries and reruns.                                                     *)
(***************************************************************************)
EXTENDS PytestOperator, FiniteSetTheorems, TLAPS

\* A run of some tests imports their modules, and touches nothing else.
Reach(tests) == tests \cup HomesOf(tests)

LEMMA ReachLemma ==
  /\ Reach(Cases) = Ids
  /\ \A a, b : a \subseteq b => Reach(a) \subseteq Reach(b)
  /\ \A a \in SUBSET Cases : Reach(a) \subseteq Ids /\ Reach(a) \cap Cases = a
BY IdsAssumption DEF Reach, HomesOf, Ids

-----------------------------------------------------------------------------
(* pytest *)

LEMMA RanLemma ==
  ASSUME NEW t, NEW f, NEW e
  PROVE  /\ Ran(t, f, e).ran = t /\ Ran(t, f, e).bad = f
         /\ Ran(t, f, e).failed = f /\ Ran(t, f, e).exit = e
         /\ t \in SUBSET Cases /\ f \in SUBSET Ids /\ e \in {0, 1, 2, 3, 5}
              => Ran(t, f, e) \in Outcome
BY DEF Ran, Outcome

LEMMA HomesLemma ==
  ASSUME NEW t \in SUBSET Cases
  PROVE  HomesOf(t) \subseteq Modules /\ HomesOf(t) \subseteq Ids /\ t \subseteq Ids
BY IdsAssumption DEF HomesOf, Ids

\* Of an outcome: what it may be, and what it may touch.
Contained(o, t) ==
  o \in Outcome /\ o.ran \subseteq t /\ o.bad \subseteq Reach(t) /\ o.failed \subseteq o.bad

LEMMA ContainedLemma ==
  ASSUME NEW t \in SUBSET Cases, NEW r \in SUBSET t, NEW f \in SUBSET Reach(t),
         NEW e \in {0, 1, 2, 3, 5}
  PROVE  Contained(Ran(r, f, e), t)
BY RanLemma, ReachLemma DEF Contained

LEMMA UncollectedLemma ==
  ASSUME NEW t \in SUBSET Cases, NEW o \in Uncollected(t)
  PROVE  /\ Contained(o, t)
         /\ o.failed \cap Modules # {} \/ (o.failed = {} /\ o.exit # 0)
<1>1. PICK b \in (SUBSET HomesOf(t)) \ {{}} :
        o = Ran({}, b, 2) \/ o = [Ran({}, b, 2) EXCEPT !.failed = {}]
  BY DEF Uncollected
<1>2. b \subseteq Modules /\ b \subseteq Ids /\ b \subseteq Reach(t) /\ b # {}
  BY <1>1, HomesLemma DEF Reach
<1>3. CASE o = Ran({}, b, 2)
  BY <1>2, <1>3, RanLemma, ContainedLemma
<1>4. CASE o = [Ran({}, b, 2) EXCEPT !.failed = {}]
  <2>1. o = [ran |-> {}, bad |-> b, failed |-> {}, exit |-> 2]
    BY <1>4 DEF Ran
  <2> QED BY <2>1, <1>2 DEF Contained, Outcome
<1> QED BY <1>1, <1>3, <1>4

LEMMA CompletedLemma ==
  ASSUME NEW t \in SUBSET Cases, NEW o \in Completed(t)
  PROVE  Contained(o, t) /\ o.ran = t /\ o.bad = o.failed
<1>1. \/ \E f \in SUBSET t : o = Ran(t, f, IF f = {} THEN 0 ELSE 1)
      \/ o = Ran(t, {}, 1)
  BY DEF Completed
<1>2. PICK f \in SUBSET t, e \in {0, 1} : o = Ran(t, f, e)
  BY <1>1
<1>3. f \in SUBSET Reach(t)
  BY DEF Reach
<1> QED BY <1>2, <1>3, RanLemma, ContainedLemma

LEMMA ContinuedLemma ==
  ASSUME NEW t \in SUBSET Cases, NEW o \in Continued(t)
  PROVE  Contained(o, t) /\ o.failed \cap Modules # {}
<1>0. PICK b \in (SUBSET HomesOf(t)) \ {{}} :
        \E f \in SUBSET (t \ Within(b)) : o = Ran(t \ Within(b), b \cup f, 1)
  BY DEF Continued
<1>1. PICK f \in SUBSET (t \ Within(b)) : o = Ran(t \ Within(b), b \cup f, 1)
  BY <1>0
<1>2. b \subseteq Modules /\ b # {} /\ b \cup f \subseteq Reach(t)
  BY <1>1, HomesLemma DEF Reach
<1> QED BY <1>1, <1>2, RanLemma, ContainedLemma

LEMMA UnlistedLemma ==
  ASSUME NEW t \in SUBSET Cases, NEW o \in Unlisted(t)
  PROVE  Contained(o, t)
<1>1. PICK l \in Continued(t) : o = [l EXCEPT !.failed = l.failed \ Modules]
  BY DEF Unlisted
<1>2. Contained(l, t)
  BY ContinuedLemma
<1> QED BY <1>1, <1>2 DEF Contained, Outcome

LEMMA StoppedLemma ==
  ASSUME NEW t \in SUBSET Cases, NEW o \in Stopped(t) \cup Interrupted(t)
  PROVE  Contained(o, t)
<1>1. PICK r \in SUBSET t, f \in SUBSET t, e \in {1, 2, 3} : o = Ran(r, f, e)
  BY DEF Stopped, Interrupted
<1>2. f \in SUBSET Reach(t)
  BY DEF Reach
<1> QED BY <1>1, <1>2, ContainedLemma

\* Every outcome is one, and touches the tests it was given and their modules.
LEMMA OutcomesLemma ==
  ASSUME NEW t \in SUBSET Cases, NEW part \in BOOLEAN, part \/ t = Cases,
         NEW o \in Outcomes(t, part)
  PROVE  Contained(o, t)
<1>1. \/ o \in Completed(t) \/ o \in Uncollected(t) \/ o = Ran({}, {}, 5)
      \/ o \in Continued(t) \/ o \in Unlisted(t) \/ o \in Stopped(t) \cup Interrupted(t)
  BY DEF Outcomes, FullOutcomes, PartOutcomes, May
<1>2. CASE o = Ran({}, {}, 5)
  BY <1>2, ContainedLemma
<1> QED
  BY <1>1, <1>2, CompletedLemma, UncollectedLemma, ContinuedLemma, UnlistedLemma, StoppedLemma

\* Such a run ran everything, or lists a module, or lists nothing and is not green.
LEMMA WholeLemma ==
  ASSUME ByThemselves, NEW t \in SUBSET Cases, NEW part \in BOOLEAN, part \/ t = Cases,
         NEW o \in Outcomes(t, part)
  PROVE  \/ o.ran = t /\ o.bad = o.failed
         \/ o.failed \cap Modules # {}
         \/ o.failed = {} /\ o.exit # 0
<1>1. \/ o \in Completed(t) \/ o \in Uncollected(t) \/ o = Ran({}, {}, 5)
      \/ o \in Continued(t)
  BY DEF Outcomes, FullOutcomes, PartOutcomes, May, ByThemselves
<1>2. CASE o = Ran({}, {}, 5)
  BY <1>2, RanLemma
<1> QED BY <1>1, <1>2, CompletedLemma, UncollectedLemma, ContinuedLemma

LEMMA DryLemma ==
  ASSUME NEW o \in DryOutcomes
  PROVE  Contained(o, Cases)
<1>1. o = Ran({}, {}, 0) \/ o = Ran({}, {}, 5) \/ o \in Uncollected(Cases)
  BY DEF DryOutcomes
<1> QED BY <1>1, ContainedLemma, UncollectedLemma

\* A run that passes lists no failure.
LEMMA PassedLemma ==
  ASSUME NEW o \in Outcome, Passed(o)
  PROVE  o.failed = {} /\ o.exit = 0
<1>1. Cardinality(o.failed \cap Cases) = 0 /\ Cardinality(o.failed \cap Modules) = 0
  BY DEF Passed, Success, Tally
<1>2. o.exit = 0
  BY DEF Passed, Success, Tally
<1>3. o.failed \in SUBSET Ids
  BY DEF Outcome
<1>4. IsFiniteSet(o.failed \cap Cases) /\ IsFiniteSet(o.failed \cap Modules)
  BY <1>3, IdsAssumption, FS_Subset DEF Ids
<1>5. o.failed \cap Cases = {} /\ o.failed \cap Modules = {}
  BY <1>1, <1>4, FS_EmptySet
<1> QED BY <1>2, <1>3, <1>5 DEF Ids

\* What a run changes in the ghost.
LEMMA RememberLemma ==
  ASSUME latest \in [Ids -> {"never", "passed", "failed"}],
         NEW t \in SUBSET Cases, NEW o, Contained(o, t), Remember(o, t)
  PROVE  /\ latest' \in [Ids -> {"never", "passed", "failed"}]
         /\ Outstanding' \subseteq Outstanding \cup o.bad
         /\ o.ran = t /\ o.bad = o.failed
              => Outstanding' \subseteq o.failed \cup (Outstanding \ Reach(t))
<1> DEFINE good == o.ran \cup IF o.ran = {} THEN {} ELSE HomesOf(t)
<1>1. latest' = [i \in Ids |-> IF i \in o.bad THEN "failed"
                               ELSE IF i \in good THEN "passed" ELSE latest[i]]
  BY DEF Remember
<1>2. latest' \in [Ids -> {"never", "passed", "failed"}]
  BY <1>1
<1>3. \A i \in Outstanding' : i \in Ids /\ (i \in o.bad \/ (i \notin good /\ i \in Outstanding))
  BY <1>1 DEF Outstanding
<1>4. o.ran = t => Reach(t) \subseteq good
  BY DEF Reach, HomesOf
<1> QED BY <1>2, <1>3, <1>4

-----------------------------------------------------------------------------
(* Types *)

\* The counters have room for the step that counts them up.
Room ==
  /\ phase = "idle" => attempt <= MaxTries
  /\ phase \in {"read", "consume", "first"} => rounds = 0
  /\ phase = "rerun" => rounds < cfg.rerun
  /\ ~narrowed => targets = Cases

TypeInv == TypeOK /\ Room

LEMMA NoOutcomeTyped == NoOutcome \in Outcome
BY DEF NoOutcome, Outcome

LEMMA TypeInit == Init => TypeInv
<1> SUFFICES ASSUME Init PROVE TypeInv
  OBVIOUS
<1>1. cfg \in Setting /\ cfg.rerun \in Nat
  BY SettingsAssumption DEF Init, Setting
<1>2. attempt \in 0..(MaxTries + 1) /\ rounds \in 0..cfg.rerun
  BY <1>1, TriesAssumption DEF Init
<1>3. store \subseteq Ids /\ pending \subseteq Ids /\ stuck \subseteq Ids /\ recovered \subseteq Ids
  BY DEF Init
<1>4. narrowed \in BOOLEAN /\ unread \in BOOLEAN /\ targets \subseteq Cases
  BY DEF Init
<1>5. latest \in [Ids -> {"never", "passed", "failed"}]
  BY DEF Init
<1>6. phase \in Phases /\ status \in {"running", "success", "failed"}
  BY DEF Init, Phases
<1>7. first \in Outcome /\ result \in Outcome
  BY NoOutcomeTyped DEF Init
<1>8. Room
  BY TriesAssumption DEF Init, Room
<1> QED BY <1>1, <1>2, <1>3, <1>4, <1>5, <1>6, <1>7, <1>8 DEF TypeInv, TypeOK

\* The outcomes a step of pytest picks from are outcomes.
LEMMA FirstTyped ==
  ASSUME TypeInv, NEW o \in IF cfg.dry THEN DryOutcomes ELSE Outcomes(targets, narrowed)
  PROVE  o \in Outcome /\ (cfg.dry \/ Contained(o, targets))
<1>1. narrowed \in BOOLEAN /\ targets \in SUBSET Cases /\ (narrowed \/ targets = Cases)
  BY DEF TypeInv, TypeOK, Room
<1>2. CASE cfg.dry
  BY <1>2, DryLemma DEF Contained
<1>3. CASE ~cfg.dry
  BY <1>1, <1>3, OutcomesLemma DEF Contained
<1> QED BY <1>2, <1>3

LEMMA SelectorsLemma ==
  ASSUME NEW ids \in SUBSET Ids, Accepted(Selectors(ids))
  PROVE  Selectors(ids) \in SUBSET Cases
BY DEF Accepted, Selectors, Unreachable, Ids

LEMMA RememberTyped ==
  ASSUME TypeInv, NEW o, NEW t, Remember(o, t)
  PROVE  latest' \in [Ids -> {"never", "passed", "failed"}]
BY DEF TypeInv, TypeOK, Remember

LEMMA TypeNext == TypeInv /\ [Next]_vars => TypeInv'
<1> SUFFICES ASSUME TypeInv, [Next]_vars PROVE TypeInv'
  OBVIOUS
<1> USE TriesAssumption DEF TypeInv, TypeOK, Room, Phases, local, task
<1>1. CASE Start
  <2>1. NoOutcome \in Outcome
    BY NoOutcomeTyped
  <2>2. cfg.rerun \in Nat
    BY DEF Setting
  <2>3. Carries \in BOOLEAN
    BY DEF Carries
  <2>4. first' \in Outcome /\ result' \in Outcome
    BY <1>1, <2>1 DEF Start
  <2>5. narrowed' \in BOOLEAN /\ unread' \in BOOLEAN /\ targets' = Cases
    BY <1>1, <2>3 DEF Start
  <2>6. attempt' \in 0..(MaxTries + 1) /\ rounds' \in 0..cfg'.rerun /\ rounds' = 0
    BY <1>1, <2>2 DEF Start
  <2>7. phase' \in {"read", "first"}
    BY <1>1 DEF Start
  <2> QED BY <1>1, <2>4, <2>5, <2>6, <2>7 DEF Start
<1>2. CASE Crash
  BY <1>2 DEF Crash, Over
<1>3. CASE Read \/ ReadFails
  BY <1>3 DEF Read, ReadFails
<1>4. CASE Consume \/ ConsumeFails
  <2>1. Selectors(store) \ Modules \in SUBSET Cases
    BY DEF Selectors, Ids
  <2>2. Usable(store) \in BOOLEAN
    BY DEF Usable
  <2> QED BY <1>4, <2>1, <2>2 DEF Consume, ConsumeFails, Narrow
<1>5. CASE FirstRun
  <2>1. PICK o \in IF cfg.dry THEN DryOutcomes ELSE Outcomes(targets, narrowed) :
          /\ first' = o /\ result' = o /\ pending' = o.failed
          /\ phase' = IF ~cfg.dry /\ cfg.rerun > 0 /\ o.failed # {} THEN "rerun" ELSE "decide"
          /\ Remember(o, targets)
    BY <1>5 DEF FirstRun
  <2>2. o \in Outcome
    BY <2>1, FirstTyped
  <2>3. o.failed \in SUBSET Ids
    BY <2>2 DEF Outcome
  <2>4. latest' \in [Ids -> {"never", "passed", "failed"}]
    BY <2>1, RememberTyped
  <2> QED BY <1>5, <2>1, <2>2, <2>3, <2>4 DEF FirstRun
<1>6. CASE RunRaises
  BY <1>6 DEF RunRaises, Over
<1>7. CASE Rerun
  <2>1. PICK o \in Outcomes(Selectors(pending), TRUE) :
          result' = o /\ pending' = o.failed /\ Remember(o, Selectors(pending))
    BY <1>7 DEF Rerun
  <2>2. Selectors(pending) \in SUBSET Cases
    BY <1>7, SelectorsLemma DEF Rerun
  <2>3. o \in Outcome
    BY <2>1, <2>2, OutcomesLemma DEF Contained
  <2>4. o.failed \in SUBSET Ids /\ Missing(pending) \in SUBSET Ids
    BY <2>3 DEF Outcome, Missing
  <2>5. latest' \in [Ids -> {"never", "passed", "failed"}]
    BY <2>1, RememberTyped
  <2>6. cfg.rerun \in Nat
    BY DEF Setting
  <2> QED BY <1>7, <2>1, <2>3, <2>4, <2>5, <2>6 DEF Rerun
<1>8. CASE RerunEnds
  <2>1. Missing(pending) \in SUBSET Ids
    BY DEF Missing
  <2> QED BY <1>8, <2>1 DEF RerunEnds
<1>9. CASE Decide
  <2>1. first.failed \in SUBSET Ids
    BY DEF Outcome
  <2> QED BY <1>9, <2>1 DEF Decide
<1>10. CASE Write \/ WriteFails
  BY <1>10 DEF Write, WriteFails, StillFailing
<1>11. CASE Fail \/ CoverageFails
  BY <1>11 DEF Fail, CoverageFails, Over
<1>12. CASE Succeed
  BY <1>12 DEF Succeed
<1>13. CASE UNCHANGED vars
  BY <1>13 DEF vars
<1> QED
  BY <1>1, <1>2, <1>3, <1>4, <1>5, <1>6, <1>7, <1>8, <1>9, <1>10, <1>11, <1>12, <1>13
     DEF Next, Execute, Ended

\* The types, and that a rerun loop has a round left and a waiting attempt a try.
THEOREM Typing == Spec => []TypeInv
BY TypeInit, TypeNext, PTL DEF Spec

\* The types of the state, rounds and attempts within their bounds, for every
\* suite, operator and number of retries.
THEOREM TypeCorrect == Spec => []TypeOK
<1>1. TypeInv => TypeOK
  BY DEF TypeInv
<1> QED BY <1>1, Typing, PTL

-----------------------------------------------------------------------------
(* No false green *)

\* Steps after the run, and steps that know their targets.
Judging   == {"rerun", "decide", "forward", "settle"}
Executing == {"first"} \cup Judging

\* Only a carrying operator touches the Variable.
StoreOwned ==
  /\ store # {} \/ narrowed \/ phase \in {"read", "consume", "forward"} => Carries
  /\ phase = "consume" => store # {}

\* A stored set the next attempt can narrow to reaches all that has not passed.
StoreCovers == store # {} /\ Usable(store) => Outstanding \subseteq Reach(store)

\* While a Variable that could not be deleted is still there, the attempt runs
\* what the next one will make of it.
StoreKept ==
  phase \in Executing \ {"settle"} /\ store # {} =>
    targets = IF Usable(store) THEN store ELSE Cases

\* Nothing outside the targets of the attempt is outstanding.
TargetsCover == phase \notin {"idle", "end"} /\ ~cfg.dry => Outstanding \subseteq Reach(targets)

\* What counts as failing: all that is outstanding, or something no retry can
\* narrow to, or nothing, in a run that is not green.
Accounted ==
  \/ Outstanding \subseteq StillFailing
  \/ StillFailing \cap Modules # {}
  \/ pending = {} /\ ~Passed(result)

FailuresKnown ==
  /\ stuck \subseteq Unreachable /\ (stuck # {} => cfg.located)
  /\ phase \in Judging /\ ~cfg.dry =>
       Accounted /\ pending \subseteq Reach(targets) /\ pending \subseteq result.failed

GreenInv ==
  /\ StoreOwned /\ StoreCovers /\ StoreKept /\ TargetsCover /\ FailuresKnown
  /\ NoFalseGreen /\ (status = "success" => phase = "end")

\* What narrowing makes of a stored set.
LEMMA UsableLemma ==
  ASSUME TypeInv, Usable(store)
  PROVE  Selectors(store) \ Modules = store
BY DEF Usable, Selectors

\* The operator's arguments, and so what it makes of a set, never change.
LEMMA CfgLemma ==
  ASSUME UNCHANGED cfg
  PROVE  /\ Carries' = Carries /\ Tolerant' = Tolerant /\ Unreachable' = Unreachable
         /\ store' = store => Usable(store)' = Usable(store)
         /\ latest' = latest => Outstanding' = Outstanding
         /\ pending' = pending /\ stuck' = stuck => StillFailing' = StillFailing
BY DEF Carries, Tolerant, Unreachable, Usable, Missing, Outstanding, StillFailing

LEMMA GreenInit == Init => GreenInv
BY DEF Init, GreenInv, StoreOwned, StoreCovers, StoreKept, TargetsCover, FailuresKnown,
       NoFalseGreen, Executing, Judging

\* Steps that only end the attempt, or do nothing.
LEMMA QuietStep ==
  ASSUME GreenInv, UNCHANGED <<cfg, store, narrowed, targets, result, pending, stuck, latest>>,
         \/ phase' \in {"idle", "end"} /\ status' # "success"
         \/ UNCHANGED <<phase, status>>
  PROVE  GreenInv'
<1> USE CfgLemma DEF GreenInv
<1>1. StoreOwned' /\ StoreCovers'
  BY DEF StoreOwned, StoreCovers
<1>2. StoreKept' /\ TargetsCover'
  BY DEF StoreKept, TargetsCover, Executing, Judging
<1>3. Accounted' = Accounted
  BY DEF Accounted, Passed
<1>4. FailuresKnown'
  BY <1>3 DEF FailuresKnown, Judging
<1>5. NoFalseGreen' /\ (status' = "success" => phase' = "end")
  BY DEF NoFalseGreen, Reliable, Readable, ByThemselves
<1> QED BY <1>1, <1>2, <1>4, <1>5

\* Before the run: the attempt begins, and reads what the last one left.
LEMMA StartStep ==
  ASSUME TypeInv, GreenInv, Start
  PROVE  GreenInv'
<1> USE CfgLemma DEF Start, task, local
<1>1. StoreOwned' /\ StoreCovers'
  BY DEF GreenInv, StoreOwned, StoreCovers
<1>2. StoreKept'
  <2>1. phase' = "first" => store' = {}
    BY DEF GreenInv, StoreOwned
  <2>2. phase' \in {"read", "first"}
    OBVIOUS
  <2> QED BY <2>1, <2>2 DEF StoreKept, Executing, Judging
<1>3. TargetsCover'
  <2>1. targets' = Cases /\ Outstanding' \subseteq Ids
    BY DEF Outstanding
  <2> QED BY <2>1, ReachLemma DEF TargetsCover
<1>4. FailuresKnown'
  BY DEF FailuresKnown, Judging
<1>5. NoFalseGreen' /\ (status' = "success" => phase' = "end")
  BY DEF GreenInv, NoFalseGreen
<1> QED BY <1>1, <1>2, <1>3, <1>4, <1>5 DEF GreenInv

LEMMA ReadStep ==
  ASSUME Reliable, TypeInv, GreenInv, Read \/ ReadFails
  PROVE  GreenInv'
<1> USE CfgLemma DEF local
<1>1. Read
  BY DEF Reliable, Readable, ReadFails
<1>2. StoreOwned' /\ StoreCovers'
  BY <1>1 DEF GreenInv, StoreOwned, StoreCovers, Read
<1>3. StoreKept'
  BY <1>1 DEF StoreKept, Read, Executing, Judging
<1>4. TargetsCover'
  BY <1>1 DEF GreenInv, TargetsCover, Read
<1>5. FailuresKnown'
  BY <1>1 DEF GreenInv, FailuresKnown, Judging, Read
<1>6. NoFalseGreen' /\ (status' = "success" => phase' = "end")
  BY <1>1 DEF GreenInv, NoFalseGreen, Read
<1> QED BY <1>2, <1>3, <1>4, <1>5, <1>6 DEF GreenInv

\* The Variable is consumed, or its deletion failed and it is still there.
LEMMA ConsumeStep ==
  ASSUME TypeInv, GreenInv, Consume \/ ConsumeFails
  PROVE  GreenInv'
<1> USE CfgLemma DEF Consume, ConsumeFails
<1>1. /\ store # {} /\ Carries /\ phase = "consume" /\ phase' = "first"
      /\ store' \in {{}, store}
      /\ narrowed' = Usable(store)
      /\ targets' = IF Usable(store) THEN Selectors(store) \ Modules ELSE Cases
      /\ UNCHANGED <<cfg, status, stuck, latest>>
  BY DEF GreenInv, StoreOwned, Narrow
<1>2. targets' = IF Usable(store) THEN store ELSE Cases
  BY <1>1, UsableLemma
<1>3. StoreOwned' /\ StoreCovers'
  BY <1>1 DEF GreenInv, StoreOwned, StoreCovers
<1>4. StoreKept'
  BY <1>1, <1>2 DEF StoreKept
<1>5. Outstanding \subseteq Ids
  BY DEF Outstanding
<1>6. TargetsCover'
  BY <1>1, <1>2, <1>5, ReachLemma DEF GreenInv, StoreCovers, TargetsCover
<1>7. FailuresKnown'
  BY <1>1 DEF GreenInv, FailuresKnown, Judging
<1>8. NoFalseGreen' /\ (status' = "success" => phase' = "end")
  BY <1>1 DEF GreenInv, NoFalseGreen
<1> QED BY <1>3, <1>4, <1>6, <1>7, <1>8 DEF GreenInv

\* The invariant after a step of pytest over some of the attempt's targets: what
\* the step has to show is how it accounts for the failures.
LEMMA RunStep ==
  ASSUME TypeInv, GreenInv, phase \in {"first", "rerun"}, ~cfg.dry,
         NEW t \in SUBSET targets, NEW o, Contained(o, t), Remember(o, t),
         UNCHANGED <<cfg, store, narrowed, targets, status>>,
         phase' \in {"rerun", "decide"},
         result' = o, pending' = o.failed,
         stuck' \subseteq Unreachable, stuck' # {} => cfg.located,
         Accounted'
  PROVE  GreenInv'
<1> USE CfgLemma
<1>1. t \in SUBSET Cases /\ targets \in SUBSET Cases
  BY DEF TypeInv, TypeOK
<1>2. Outstanding' \subseteq Outstanding \cup o.bad
  BY <1>1, RememberLemma DEF TypeInv, TypeOK
<1>3. o.bad \subseteq Reach(targets) /\ o.failed \subseteq Reach(targets)
  BY ReachLemma DEF Contained
<1>4. Outstanding' \subseteq Reach(targets)
  BY <1>2, <1>3 DEF GreenInv, TargetsCover
<1>5. StoreOwned'
  BY DEF GreenInv, StoreOwned
<1>6. StoreKept'
  BY DEF GreenInv, StoreKept, Executing, Judging
<1>7. StoreCovers'
  <2> SUFFICES ASSUME store # {}, Usable(store) PROVE Outstanding' \subseteq Reach(store)
    BY DEF StoreCovers
  <2>1. targets = store
    BY DEF GreenInv, StoreKept, Executing, Judging
  <2> QED BY <1>4, <2>1
<1>8. TargetsCover'
  BY <1>4 DEF TargetsCover
<1>9. FailuresKnown'
  BY <1>3 DEF FailuresKnown
<1>10. NoFalseGreen' /\ (status' = "success" => phase' = "end")
  BY DEF GreenInv, NoFalseGreen
<1> QED BY <1>5, <1>6, <1>7, <1>8, <1>9, <1>10 DEF GreenInv

LEMMA FirstRunStep ==
  ASSUME Reliable, TypeInv, GreenInv, FirstRun
  PROVE  GreenInv'
<1>1. PICK o \in IF cfg.dry THEN DryOutcomes ELSE Outcomes(targets, narrowed) :
        /\ first' = o /\ result' = o /\ pending' = o.failed
        /\ phase' = IF ~cfg.dry /\ cfg.rerun > 0 /\ o.failed # {} THEN "rerun" ELSE "decide"
        /\ Remember(o, targets)
  BY DEF FirstRun
<1>2. /\ phase = "first" /\ phase' \in {"rerun", "decide"}
      /\ UNCHANGED <<cfg, store, narrowed, targets, stuck, status>>
  BY <1>1 DEF FirstRun, task
<1>3. CASE cfg.dry
  <2> USE CfgLemma
  <2>1. store = {} /\ ~narrowed
    BY <1>3 DEF GreenInv, StoreOwned, Carries
  <2>2. StoreOwned' /\ StoreCovers' /\ StoreKept'
    BY <1>2, <2>1 DEF StoreOwned, StoreCovers, StoreKept
  <2>3. TargetsCover' /\ FailuresKnown'
    BY <1>2, <1>3 DEF GreenInv, TargetsCover, FailuresKnown
  <2>4. NoFalseGreen' /\ (status' = "success" => phase' = "end")
    BY <1>2 DEF GreenInv, NoFalseGreen
  <2> QED BY <2>2, <2>3, <2>4 DEF GreenInv
<1>4. CASE ~cfg.dry
  <2>1. targets \in SUBSET Cases /\ narrowed \in BOOLEAN /\ (narrowed \/ targets = Cases)
    BY DEF TypeInv, TypeOK, Room
  <2>2. o \in Outcomes(targets, narrowed) /\ Contained(o, targets)
    BY <1>1, <1>4, FirstTyped
  <2>3. \/ o.ran = targets /\ o.bad = o.failed
        \/ o.failed \cap Modules # {}
        \/ o.failed = {} /\ o.exit # 0
    BY <2>1, <2>2, WholeLemma DEF Reliable
  <2>4. StillFailing' = o.failed \cup stuck'
    BY <1>1 DEF StillFailing
  <2>5. CASE o.ran = targets /\ o.bad = o.failed
    <3>1. Outstanding' \subseteq o.failed \cup (Outstanding \ Reach(targets))
      BY <1>1, <2>1, <2>2, <2>5, RememberLemma DEF TypeInv, TypeOK
    <3>2. Outstanding \subseteq Reach(targets)
      BY <1>2, <1>4 DEF GreenInv, TargetsCover
    <3> QED BY <3>1, <3>2, <2>4, <1>1, <1>2, <1>4, <2>1, <2>2, RunStep
            DEF Accounted, GreenInv, FailuresKnown
  <2>6. CASE o.failed \cap Modules # {}
    BY <2>6, <2>4, <1>1, <1>2, <1>4, <2>1, <2>2, RunStep
       DEF Accounted, GreenInv, FailuresKnown
  <2>7. CASE o.failed = {} /\ o.exit # 0
    <3>1. ~Passed(result)'
      BY <1>1, <2>7, <2>2, PassedLemma DEF Contained
    <3> QED BY <3>1, <2>7, <1>1, <1>2, <1>4, <2>1, <2>2, RunStep
            DEF Accounted, GreenInv, FailuresKnown
  <2> QED BY <2>3, <2>5, <2>6, <2>7
<1> QED BY <1>3, <1>4

\* A round re-runs what a selector reaches; the rest is stuck, not forgotten.
LEMMA RerunStep ==
  ASSUME Reliable, TypeInv, GreenInv, Rerun
  PROVE  GreenInv'
<1> DEFINE sel == Selectors(pending)
<1>1. PICK o \in Outcomes(sel, TRUE) :
        result' = o /\ pending' = o.failed /\ Remember(o, sel)
  BY DEF Rerun
<1>2. /\ phase = "rerun" /\ phase' \in {"rerun", "decide"} /\ sel # {}
      /\ stuck' = stuck \cup Missing(pending)
      /\ UNCHANGED <<cfg, store, narrowed, targets, status>>
  BY DEF Rerun, task
<1>3. CASE cfg.dry
  <2> USE CfgLemma
  <2>1. store = {} /\ ~narrowed
    BY <1>3 DEF GreenInv, StoreOwned, Carries
  <2>2. StoreOwned' /\ StoreCovers' /\ StoreKept'
    BY <1>2, <2>1 DEF StoreOwned, StoreCovers, StoreKept
  <2>3. TargetsCover'
    BY <1>2, <1>3 DEF TargetsCover
  <2>4. FailuresKnown'
    BY <1>2, <1>3 DEF GreenInv, FailuresKnown, Missing
  <2>5. NoFalseGreen' /\ (status' = "success" => phase' = "end")
    BY <1>2 DEF GreenInv, NoFalseGreen
  <2> QED BY <2>2, <2>3, <2>4, <2>5 DEF GreenInv
<1>4. CASE ~cfg.dry
  <2>1. /\ pending \in SUBSET Ids /\ targets \in SUBSET Cases
        /\ pending \subseteq Reach(targets) /\ Accounted
        /\ stuck \subseteq Unreachable /\ (stuck # {} => cfg.located)
    BY <1>2, <1>4 DEF TypeInv, TypeOK, GreenInv, FailuresKnown, Judging
  <2>2. sel \in SUBSET Cases
    BY <2>1, SelectorsLemma DEF Rerun
  <2>3. sel \in SUBSET targets
    BY <2>1, <2>2, ReachLemma DEF Selectors
  <2>4. Contained(o, sel)
    BY <1>1, <2>2, OutcomesLemma
  <2>5. \/ o.ran = sel /\ o.bad = o.failed
        \/ o.failed \cap Modules # {}
        \/ o.failed = {} /\ o.exit # 0
    BY <1>1, <2>2, WholeLemma DEF Reliable
  <2>6. stuck' \subseteq Unreachable /\ (stuck' # {} => cfg.located)
    BY <1>2, <2>1 DEF Missing
  <2>7. StillFailing' = o.failed \cup stuck' /\ StillFailing = pending \cup stuck
    BY <1>1 DEF StillFailing
  <2>8. Accounted'
    <3>1. CASE o.ran = sel /\ o.bad = o.failed
      <4>1. Outstanding' \subseteq o.failed \cup (Outstanding \ Reach(sel))
        BY <1>1, <2>2, <2>4, <3>1, RememberLemma DEF TypeInv, TypeOK
      <4>2. CASE Outstanding \subseteq StillFailing
        <5>1. Outstanding \ Reach(sel) \subseteq stuck'
          BY <1>2, <2>7, <4>2 DEF Reach, Selectors
        <5> QED BY <4>1, <5>1, <2>7 DEF Accounted
      <4>3. CASE StillFailing \cap Modules # {}
        <5>1. pending \cap Modules \subseteq Missing(pending)
          BY <2>2, IdsAssumption DEF Selectors
        <5>2. StillFailing' \cap Modules # {}
          BY <5>1, <4>3, <2>7, <1>2
        <5> QED BY <5>2 DEF Accounted
      <4>4. pending # {}
        BY <1>2 DEF Selectors
      <4> QED BY <4>2, <4>3, <4>4, <2>1 DEF Accounted
    <3>2. CASE o.failed \cap Modules # {}
      BY <2>7, <3>2 DEF Accounted
    <3>3. CASE o.failed = {} /\ o.exit # 0
      <4>1. ~Passed(result)'
        BY <1>1, <3>3, <2>4, PassedLemma DEF Contained
      <4> QED BY <1>1, <3>3, <4>1 DEF Accounted
    <3> QED BY <2>5, <3>1, <3>2, <3>3
  <2> QED BY <1>1, <1>2, <1>4, <2>3, <2>4, <2>6, <2>8, RunStep
<1> QED BY <1>3, <1>4

LEMMA RerunEndsStep ==
  ASSUME TypeInv, GreenInv, RerunEnds
  PROVE  GreenInv'
<1> USE CfgLemma
<1>1. /\ phase = "rerun" /\ phase' = "decide" /\ pending' = {}
      /\ stuck' = stuck \cup Missing(pending) /\ pending \subseteq Missing(pending)
      /\ UNCHANGED <<cfg, store, narrowed, targets, result, status, latest>>
  BY DEF RerunEnds, Selectors, task
<1>2. StoreOwned' /\ StoreCovers' /\ StoreKept'
  BY <1>1 DEF GreenInv, StoreOwned, StoreCovers, StoreKept, Executing, Judging
<1>3. TargetsCover'
  BY <1>1 DEF GreenInv, TargetsCover
<1>4. ~cfg.dry => Accounted'
  <2>1. StillFailing \subseteq StillFailing'
    BY <1>1 DEF StillFailing
  <2>2. Passed(result)' = Passed(result) /\ Outstanding' = Outstanding
    BY <1>1 DEF Passed
  <2>3. ~cfg.dry => Accounted
    BY <1>1 DEF GreenInv, FailuresKnown, Judging
  <2> QED BY <1>1, <2>1, <2>2, <2>3 DEF Accounted
<1>5. FailuresKnown'
  BY <1>1, <1>4 DEF GreenInv, FailuresKnown, Missing
<1>6. NoFalseGreen' /\ (status' = "success" => phase' = "end")
  BY <1>1 DEF GreenInv, NoFalseGreen
<1> QED BY <1>2, <1>3, <1>5, <1>6 DEF GreenInv

LEMMA DecideStep ==
  ASSUME TypeInv, GreenInv, Decide
  PROVE  GreenInv'
<1> USE CfgLemma
<1>1. /\ phase = "decide" /\ phase' \in {"forward", "settle"}
      /\ phase' = "forward" => Carries
      /\ UNCHANGED <<cfg, store, narrowed, targets, result, pending, stuck, status, latest>>
  BY DEF Decide, HandsForward, task
<1>2. StoreOwned' /\ StoreCovers' /\ StoreKept'
  BY <1>1 DEF GreenInv, StoreOwned, StoreCovers, StoreKept, Executing, Judging
<1>3. TargetsCover' /\ Accounted' = Accounted
  BY <1>1 DEF GreenInv, TargetsCover, Accounted, Passed
<1>4. FailuresKnown'
  BY <1>1, <1>3 DEF GreenInv, FailuresKnown, Judging
<1>5. NoFalseGreen' /\ (status' = "success" => phase' = "end")
  BY <1>1 DEF GreenInv, NoFalseGreen
<1> QED BY <1>2, <1>3, <1>4, <1>5 DEF GreenInv

\* What is written covers what is outstanding, if the next attempt can use it.
LEMMA WriteStep ==
  ASSUME TypeInv, GreenInv, Write \/ WriteFails
  PROVE  GreenInv'
<1> USE CfgLemma
<1>1. /\ phase = "forward" /\ phase' = "settle" /\ store' \in {StillFailing, store}
      /\ UNCHANGED <<cfg, narrowed, targets, result, pending, stuck, status, latest>>
  BY DEF Write, WriteFails, local, task
<1>2. Carries /\ ~cfg.dry
  BY <1>1 DEF GreenInv, StoreOwned, Carries
<1>3. StoreOwned' /\ StoreKept' /\ TargetsCover'
  BY <1>1, <1>2 DEF GreenInv, StoreOwned, StoreKept, TargetsCover, Executing, Judging
<1>4. Accounted' = Accounted /\ Accounted
  BY <1>1, <1>2 DEF GreenInv, Accounted, Passed, FailuresKnown, Judging
<1>5. FailuresKnown'
  BY <1>1, <1>4 DEF GreenInv, FailuresKnown, Judging
<1>6. StoreCovers'
  <2>1. CASE store' = store
    BY <1>1, <2>1 DEF GreenInv, StoreCovers
  <2>2. CASE store' = StillFailing
    <3> SUFFICES ASSUME StillFailing # {}, Usable(StillFailing)
                 PROVE  Outstanding \subseteq Reach(StillFailing)
      BY <1>1, <2>2 DEF StoreCovers, Usable, Missing, Unreachable, Outstanding
    <3>1. StillFailing \cap Modules = {} /\ Missing(StillFailing) = {}
      BY DEF Usable
    <3>2. stuck = {}
      BY <3>1 DEF GreenInv, FailuresKnown, Missing, StillFailing
    <3>3. Outstanding \subseteq StillFailing
      BY <1>4, <3>1, <3>2 DEF Accounted, StillFailing
    <3> QED BY <3>3 DEF Reach
  <2> QED BY <1>1, <2>1, <2>2
<1>7. NoFalseGreen' /\ (status' = "success" => phase' = "end")
  BY <1>1 DEF GreenInv, NoFalseGreen
<1> QED BY <1>3, <1>5, <1>6, <1>7 DEF GreenInv

\* A green verdict of an operator that tolerates nothing.
LEMMA SucceedStep ==
  ASSUME TypeInv, GreenInv, Succeed
  PROVE  GreenInv'
<1> USE CfgLemma
<1>1. /\ phase = "settle" /\ phase' = "end" /\ status' = "success" /\ ~TaskFails
      /\ UNCHANGED <<cfg, store, narrowed, targets, result, pending, stuck, latest>>
  BY DEF Succeed, local
<1>2. StoreOwned' /\ StoreCovers' /\ StoreKept' /\ TargetsCover'
  BY <1>1 DEF GreenInv, StoreOwned, StoreCovers, StoreKept, TargetsCover, Executing, Judging
<1>3. FailuresKnown'
  BY <1>1 DEF GreenInv, FailuresKnown, Judging
<1>4. NoFalseGreen'
  <2> SUFFICES ASSUME cfg.strict, ~Tolerant, ~cfg.dry PROVE Outstanding = {}
    BY <1>1 DEF NoFalseGreen
  <2>1. Passed(result) /\ stuck = {}
    BY <1>1 DEF TaskFails, RunOk
  <2>2. result.failed = {}
    BY <2>1, PassedLemma DEF TypeInv, TypeOK
  <2>3. pending \subseteq result.failed /\ Accounted
    BY <1>1 DEF GreenInv, FailuresKnown, Judging
  <2> QED BY <2>1, <2>2, <2>3 DEF Accounted, StillFailing
<1> QED BY <1>1, <1>2, <1>3, <1>4 DEF GreenInv

LEMMA GreenNext == Reliable /\ TypeInv /\ GreenInv /\ [Next]_vars => GreenInv'
<1> SUFFICES ASSUME Reliable, TypeInv, GreenInv, [Next]_vars PROVE GreenInv'
  OBVIOUS
<1>1. CASE Crash \/ RunRaises \/ Fail \/ CoverageFails
  <2>1. /\ phase \notin {"idle", "end"} /\ Over
        /\ UNCHANGED <<cfg, store, narrowed, targets, result, pending, stuck, latest>>
    BY <1>1 DEF Crash, RunRaises, Fail, CoverageFails, local
  <2>2. phase' \in {"idle", "end"} /\ status' # "success"
    BY <2>1 DEF Over, GreenInv
  <2> QED BY <2>1, <2>2, QuietStep
<1>2. CASE UNCHANGED vars
  BY <1>2, QuietStep DEF vars, local, task
<1> QED
  BY <1>1, <1>2, StartStep, ReadStep, ConsumeStep, FirstRunStep, RerunStep, RerunEndsStep,
     DecideStep, WriteStep, SucceedStep DEF Next, Execute, Ended

LEMMA CfgFixed == [Next]_vars => cfg' = cfg
BY DEF Next, Execute, Start, Crash, Ended, Read, ReadFails, Consume, ConsumeFails, FirstRun,
       RunRaises, Rerun, RerunEnds, Decide, Write, WriteFails, Fail, CoverageFails, Succeed, vars

LEMMA GreenAlways == Spec => [](Reliable => GreenInv)
<1>1. TypeInv /\ (Reliable => GreenInv) /\ [Next]_vars => (Reliable => GreenInv)'
  BY GreenNext, CfgFixed DEF Reliable, Readable, ByThemselves
<1>2. Init => (Reliable => GreenInv)
  BY GreenInit
<1> QED BY <1>1, <1>2, Typing, PTL DEF Spec

\* If pytest's runs end by themselves and the Variable can be read, a task that
\* tolerates nothing is green only when every test passed the last time it ran,
\* for every suite, number of retries and reruns, whichever writes and deletes
\* fail and wherever a worker dies.
THEOREM GreenIsGreen == Spec => []NoFalseGreen
<1>1. (Reliable => GreenInv) => NoFalseGreen
  BY DEF GreenInv, NoFalseGreen
<1> QED BY <1>1, GreenAlways, PTL

\* Under the same assumptions a narrowed attempt runs all that is outstanding.
THEOREM NothingForgotten == Spec => []NothingDropped
<1>1. (Reliable => GreenInv) => NothingDropped
  BY DEF GreenInv, NothingDropped, TargetsCover, StoreOwned, Carries, Reach
<1> QED BY <1>1, GreenAlways, PTL

-----------------------------------------------------------------------------
(* The life of the Variable *)

\* From one attempt's write to the next attempt's consume, and no longer.
StoreLife ==
  /\ store # {} \/ phase \in {"read", "consume", "forward"} => Carries
  /\ phase \in {"first", "rerun", "decide", "forward"} => store = {}
  /\ phase \in {"read", "consume"} /\ store # {} => unread
  /\ phase = "forward" \/ (phase = "settle" /\ store # {}) => TaskFails /\ ~IsFinalAttempt
  /\ NoOrphanVariable

\* The verdict does not change between deciding and settling.
LEMMA VerdictLemma ==
  ASSUME UNCHANGED <<cfg, first, result, stuck, attempt>>
  PROVE  Carries' = Carries /\ TaskFails' = TaskFails /\ IsFinalAttempt' = IsFinalAttempt
BY DEF Carries, TaskFails, Tolerant, RunOk, Passed, IsFinalAttempt

LEMMA CarriesLemma == ASSUME UNCHANGED cfg PROVE Carries' = Carries
BY DEF Carries

LEMMA StoreLifeNext == Consumable /\ TypeInv /\ StoreLife /\ [Next]_vars => StoreLife'
<1> SUFFICES ASSUME Consumable, TypeInv, StoreLife, [Next]_vars PROVE StoreLife'
  OBVIOUS
<1> USE CarriesLemma DEF StoreLife, NoOrphanVariable, local, task
<1>1. CASE Start
  BY <1>1 DEF Start
<1>2. CASE Read \/ ReadFails
  BY <1>2 DEF Read, ReadFails, Consumable
<1>3. CASE Consume \/ ConsumeFails
  BY <1>3 DEF Consume, ConsumeFails, Narrow, Consumable
<1>4. CASE FirstRun
  <2>1. phase = "first" /\ phase' \in {"rerun", "decide"} /\ UNCHANGED <<cfg, store>>
    BY <1>4 DEF FirstRun
  <2> QED BY <2>1
<1>5. CASE Rerun
  <2>1. phase = "rerun" /\ phase' \in {"rerun", "decide"} /\ UNCHANGED <<cfg, store>>
    BY <1>5 DEF Rerun
  <2> QED BY <2>1
<1>6. CASE RerunEnds
  BY <1>6 DEF RerunEnds
<1>7. CASE Decide
  <2>1. /\ phase = "decide" /\ UNCHANGED <<cfg, store, first, result, stuck, attempt>>
        /\ phase' = IF HandsForward THEN "forward" ELSE "settle"
    BY <1>7 DEF Decide
  <2> QED BY <2>1, VerdictLemma DEF HandsForward
<1>8. CASE Write \/ WriteFails
  <2>1. /\ phase = "forward" /\ phase' = "settle"
        /\ UNCHANGED <<cfg, first, result, stuck, attempt>>
    BY <1>8 DEF Write, WriteFails
  <2> QED BY <2>1, VerdictLemma
<1>9. CASE Crash \/ RunRaises \/ Fail \/ CoverageFails
  <2>1. phase \notin {"idle", "end"} /\ Over /\ UNCHANGED <<cfg, store, unread>>
    BY <1>9 DEF Crash, RunRaises, Fail, CoverageFails
  <2>2. phase' = "idle" \/ (phase' = "end" /\ attempt > MaxTries)
    BY <2>1 DEF Over
  <2>3. ASSUME phase' = "end", store # {} PROVE unread \/ ~cfg.counted
    <3>1. phase \in {"read", "consume"} \/ phase = "settle"
      BY <1>9, <2>3 DEF Crash, RunRaises, Fail, CoverageFails, TypeInv, TypeOK, Phases
    <3> QED BY <2>2, <2>3, <3>1 DEF IsFinalAttempt
  <2> QED BY <2>1, <2>2, <2>3
<1>10. CASE Succeed
  BY <1>10 DEF Succeed
<1>11. CASE UNCHANGED vars
  BY <1>11, VerdictLemma DEF vars
<1> QED
  BY <1>1, <1>2, <1>3, <1>4, <1>5, <1>6, <1>7, <1>8, <1>9, <1>10, <1>11
     DEF Next, Execute, Ended

LEMMA StoreLifeAlways == Spec => [](Consumable => StoreLife)
<1>1. Init => (Consumable => StoreLife)
  BY DEF Init, StoreLife, NoOrphanVariable
<1>2. TypeInv /\ (Consumable => StoreLife) /\ [Next]_vars => (Consumable => StoreLife)'
  BY StoreLifeNext, CfgFixed DEF Consumable
<1> QED BY <1>1, <1>2, Typing, PTL DEF Spec

\* With a Variable that can be read and deleted, no test ever runs before the
\* set that chose it is gone, wherever a worker dies.
THEOREM ConsumedBeforeRun == Spec => []ConsumedFirst
<1>1. (Consumable => StoreLife) => ConsumedFirst
  BY DEF StoreLife, ConsumedFirst
<1> QED BY <1>1, StoreLifeAlways, PTL

\* ... and the last attempt leaves none, unless it died before it could consume
\* the one it found or does not know that it is the last.
THEOREM NoneLeft == Spec => []NoOrphanVariable
<1>1. (Consumable => StoreLife) => NoOrphanVariable
  BY DEF StoreLife, NoOrphanVariable
<1> QED BY <1>1, StoreLifeAlways, PTL

-----------------------------------------------------------------------------
(* The contract of a task *)

\* A verdict ends the task, and an attempt that is under way has been counted.
Trying ==
  /\ status = "running" <=> phase # "end"
  /\ phase \notin {"idle", "end"} => attempt > 0

LEMMA TryingNext == TypeInv /\ Trying /\ [Next]_vars => Trying'
<1> SUFFICES ASSUME TypeInv, Trying, [Next]_vars PROVE Trying'
  OBVIOUS
<1> USE DEF Trying, task
<1>1. attempt \in Nat /\ MaxTries \in Nat
  BY TriesAssumption DEF TypeInv, TypeOK
<1>2. CASE Start
  BY <1>1, <1>2 DEF Start
<1>3. CASE Crash \/ RunRaises \/ Fail \/ CoverageFails
  BY <1>3 DEF Crash, RunRaises, Fail, CoverageFails, Over
<1>4. CASE Read \/ ReadFails \/ Consume \/ ConsumeFails
  BY <1>4 DEF Read, ReadFails, Consume, ConsumeFails
<1>5. CASE FirstRun
  <2>1. phase = "first" /\ phase' \in {"rerun", "decide"} /\ UNCHANGED <<attempt, status>>
    BY <1>5 DEF FirstRun
  <2> QED BY <2>1
<1>6. CASE Rerun
  <2>1. phase = "rerun" /\ phase' \in {"rerun", "decide"} /\ UNCHANGED <<attempt, status>>
    BY <1>6 DEF Rerun
  <2> QED BY <2>1
<1>7. CASE RerunEnds \/ Decide \/ Write \/ WriteFails \/ Succeed \/ Ended \/ UNCHANGED vars
  BY <1>7 DEF RerunEnds, Decide, Write, WriteFails, Succeed, Ended, vars
<1> QED
  BY <1>2, <1>3, <1>4, <1>5, <1>6, <1>7 DEF Next, Execute

LEMMA TryingAlways == Spec => []Trying
<1>1. Init => Trying
  BY DEF Init, Trying
<1> QED BY <1>1, TryingNext, Typing, PTL DEF Spec

LEMMA SameVerdict ==
  ASSUME UNCHANGED <<cfg, attempt, status>>, UNCHANGED latest
  PROVE  UNCHANGED Contract!retry
BY DEF Contract!retry, Outstanding, Tolerant, Reliable, Readable, ByThemselves

\* Every step is one of the contract's, or none.
LEMMA RetryStep ==
  ASSUME TypeInv, Trying, TypeInv', (Reliable => GreenInv)', [Next]_vars
  PROVE  [Contract!RetryNext]_(Contract!retry)
<1>0. UNCHANGED cfg => UNCHANGED <<~cfg.strict \/ Tolerant \/ cfg.dry \/ ~Reliable>>
  BY DEF Tolerant, Reliable, Readable, ByThemselves
<1>1. UNCHANGED latest => UNCHANGED Outstanding
  BY DEF Outstanding
<1>2. CASE Start
  <2>1. status = "running" /\ attempt <= MaxTries
    BY <1>2 DEF Start, TypeInv, Room, Trying
  <2> QED
    BY <1>0, <1>1, <1>2, <2>1 DEF Start, Contract!RetryNext, Contract!Try
<1>3. CASE FirstRun \/ Rerun
  <2>1. /\ phase \in {"first", "rerun"} /\ UNCHANGED <<cfg, attempt, status>>
    BY <1>3 DEF FirstRun, Rerun, task
  <2>2. status = "running" /\ attempt > 0
    BY <2>1 DEF Trying
  <2>3. Outstanding' \in SUBSET Ids
    BY DEF Outstanding
  <2> QED
    BY <1>0, <2>1, <2>2, <2>3 DEF Contract!RetryNext, Contract!Test
<1>4. CASE Succeed
  <2>1. /\ phase = "settle" /\ status' = "success" /\ UNCHANGED <<cfg, attempt, latest>>
    BY <1>4 DEF Succeed
  <2>2. status = "running" /\ attempt > 0
    BY <2>1 DEF Trying
  <2>3. Outstanding = {} \/ ~cfg.strict \/ Tolerant \/ cfg.dry \/ ~Reliable
    BY <1>0, <1>1, <2>1 DEF GreenInv, NoFalseGreen, Reliable, Readable, ByThemselves, Tolerant
  <2> QED
    BY <1>0, <1>1, <2>1, <2>2, <2>3 DEF Contract!RetryNext, Contract!Accept
<1>5. CASE Crash \/ RunRaises \/ Fail \/ CoverageFails
  <2>1. /\ phase \notin {"idle", "end"} /\ Over /\ UNCHANGED <<cfg, attempt, latest>>
    BY <1>5 DEF Crash, RunRaises, Fail, CoverageFails
  <2>2. CASE attempt > MaxTries
    <3>1. status = "running" /\ attempt = MaxTries + 1 /\ status' = "failed"
      BY <2>1, <2>2, TriesAssumption DEF Over, TypeInv, TypeOK, Trying
    <3> QED
      BY <1>0, <1>1, <2>1, <3>1 DEF Contract!RetryNext, Contract!GiveUp
  <2>3. CASE ~(attempt > MaxTries)
    BY <2>1, <2>3, SameVerdict DEF Over
  <2> QED
    BY <2>2, <2>3
<1>6. CASE Read \/ ReadFails \/ Consume \/ ConsumeFails \/ RerunEnds \/ Decide \/ Write
           \/ WriteFails \/ Ended \/ UNCHANGED vars
  <2>1. UNCHANGED <<cfg, attempt, status, latest>>
    BY <1>6 DEF Read, ReadFails, Consume, ConsumeFails, RerunEnds, Decide, Write, WriteFails,
                Ended, vars, task
  <2> QED
    BY <2>1, SameVerdict
<1> QED
  BY <1>2, <1>3, <1>4, <1>5, <1>6 DEF Next, Execute

\* If pytest's runs end by themselves, the operator keeps the contract of a task
\* for every suite, set of operators, number of retries and reruns.
THEOREM OperatorImplementsContract == Spec => IsRetrier
<1>1. Init => Contract!RetryInit
  BY DEF Init, Contract!RetryInit, Outstanding
<1>2. TypeInv /\ Trying /\ TypeInv' /\ (Reliable => GreenInv)' /\ [Next]_vars
        => [Contract!RetryNext]_(Contract!retry)
  BY RetryStep
<1> QED
  BY <1>1, <1>2, Typing, TryingAlways, GreenAlways, PTL DEF Spec, IsRetrier, Contract!RetrySpec

----------------------------------------------------------------------------
(***************************************************************************)
(* What PytestOperator reports and retries is exact while runs do all they *)
(* were given: for every suite, operator, number of retries and reruns.    *)
(***************************************************************************)

\* A run of chosen tests then ran them all, and a run of the suite did, or
\* could not import some modules, or found no test.
LEMMA PartLemma ==
  ASSUME Untroubled, NEW t \in SUBSET Cases, NEW o \in Outcomes(t, TRUE)
  PROVE  o \in Completed(t)
BY DEF Outcomes, PartOutcomes, May, Untroubled

LEMMA FullLemma ==
  ASSUME Untroubled, NEW t \in SUBSET Cases, NEW o \in Outcomes(t, FALSE)
  PROVE  o \in Completed(Cases) \/ o \in Uncollected(Cases) \/ o = Ran({}, {}, 5)
BY DEF Outcomes, FullOutcomes, May, Untroubled

LEMMA OnlyCases ==
  ASSUME NEW t \in SUBSET Cases, NEW o \in Completed(t)
  PROVE  o.failed \subseteq t /\ o.exit \in {0, 1}
<1>1. \/ \E f \in SUBSET t : o = Ran(t, f, IF f = {} THEN 0 ELSE 1)
      \/ o = Ran(t, {}, 1)
  BY DEF Completed
<1>2. PICK f \in SUBSET t, e \in {0, 1} : o = Ran(t, f, e)
  BY <1>1
<1> QED BY <1>2, RanLemma

LEMMA OnlyModules ==
  ASSUME NEW o \in Uncollected(Cases)
  PROVE  o.failed \subseteq Modules /\ o.exit = 2
<1>1. PICK b \in (SUBSET HomesOf(Cases)) \ {{}} :
        o = Ran({}, b, 2) \/ o = [Ran({}, b, 2) EXCEPT !.failed = {}]
  BY DEF Uncollected
<1>2. b \subseteq Modules
  BY <1>1, HomesLemma
<1> QED BY <1>1, <1>2, RanLemma DEF Ran

\* What a completed run of some tests makes of the ghost.
LEMMA CompletedRemembered ==
  ASSUME TypeInv, NEW t \in SUBSET Cases, NEW o \in Completed(t), Remember(o, t)
  PROVE  /\ \A i \in o.failed : latest'[i] = "failed"
         /\ \A i \in t \ o.failed : latest'[i] = "passed"
         /\ \A i \in Cases \ t : latest'[i] = latest[i]
         /\ \A i \in Ids \ o.failed : latest'[i] \in {"passed", latest[i]}
<1>1. o.ran = t /\ o.bad = o.failed /\ o.failed \subseteq t /\ t \subseteq Ids
  BY CompletedLemma, OnlyCases, HomesLemma
<1>2. HomesOf(t) \cap Cases = {}
  BY HomesLemma, IdsAssumption
<1> QED BY <1>1, <1>2 DEF Remember, Ids

\* A round of reruns, in which every selected test ran.
LEMMA RoundLemma ==
  ASSUME Untroubled, TypeInv, Rerun
  PROVE  \E o \in Completed(Selectors(pending)) :
           /\ Selectors(pending) \in SUBSET Cases
           /\ result' = o /\ pending' = o.failed /\ o.failed \subseteq Selectors(pending)
           /\ Remember(o, Selectors(pending))
<1>1. Selectors(pending) \in SUBSET Cases
  BY SelectorsLemma DEF Rerun, TypeInv, TypeOK
<1>2. PICK o \in Outcomes(Selectors(pending), TRUE) :
        result' = o /\ pending' = o.failed /\ Remember(o, Selectors(pending))
  BY DEF Rerun
<1>3. o \in Completed(Selectors(pending))
  BY <1>1, <1>2, PartLemma
<1> QED BY <1>1, <1>2, <1>3, OnlyCases

-----------------------------------------------------------------------------
(* Recovered means passed *)

Cleared ==
  /\ phase \in {"read", "consume", "first", "rerun", "decide"} => recovered = {}
  /\ phase \in {"rerun", "decide"} => \A i \in first.failed \ StillFailing : latest[i] = "passed"
  /\ RecoveredPassed

LEMMA ClearedNext == Untroubled /\ TypeInv /\ Cleared /\ [Next]_vars => Cleared'
<1> SUFFICES ASSUME Untroubled, TypeInv, Cleared, [Next]_vars PROVE Cleared'
  OBVIOUS
<1> USE DEF Cleared, RecoveredPassed, StillFailing, local, task
<1>1. CASE Start
  BY <1>1 DEF Start
<1>2. CASE Read \/ ReadFails \/ Consume \/ ConsumeFails
  BY <1>2 DEF Read, ReadFails, Consume, ConsumeFails
<1>3. CASE FirstRun
  <2>1. /\ phase = "first" /\ phase' \in {"rerun", "decide"} /\ UNCHANGED recovered
        /\ first'.failed = pending'
    BY <1>3 DEF FirstRun
  <2> QED BY <2>1
<1>4. CASE Rerun
  <2> DEFINE sel == Selectors(pending)
  <2>1. PICK o \in Completed(sel) :
          /\ sel \in SUBSET Cases /\ pending' = o.failed /\ Remember(o, sel)
    BY <1>4, RoundLemma
  <2>2. /\ phase = "rerun" /\ phase' \in {"rerun", "decide"}
        /\ UNCHANGED <<first, recovered>> /\ stuck' = stuck \cup Missing(pending)
    BY <1>4 DEF Rerun
  <2>3. ASSUME NEW i \in first.failed \ (pending' \cup stuck') PROVE latest'[i] = "passed"
    <3>1. i \in Ids
      BY DEF TypeInv, TypeOK, Outcome
    <3>2. i \in sel \/ latest[i] = "passed"
      BY <2>2, <2>3 DEF Selectors
    <3> QED BY <2>1, <2>3, <3>1, <3>2, CompletedRemembered
  <2> QED BY <2>2, <2>3
<1>5. CASE RerunEnds
  BY <1>5 DEF RerunEnds, Selectors
<1>6. CASE Decide
  BY <1>6 DEF Decide
<1>7. CASE Write \/ WriteFails \/ Succeed
  BY <1>7 DEF Write, WriteFails, Succeed
<1>8. CASE Crash \/ RunRaises \/ Fail \/ CoverageFails
  BY <1>8 DEF Crash, RunRaises, Fail, CoverageFails, Over
<1>9. CASE UNCHANGED vars
  BY <1>9 DEF vars
<1> QED
  BY <1>1, <1>2, <1>3, <1>4, <1>5, <1>6, <1>7, <1>8, <1>9 DEF Next, Execute, Ended

\* A failure that is reported as recovered passed in a rerun, in whichever round
\* it did and whatever the later rounds ran.
THEOREM RecoveredIsPassed == Spec => []RecoveredHonest
<1>1. Init => (Untroubled => Cleared)
  BY DEF Init, Cleared, RecoveredPassed
<1>2. TypeInv /\ (Untroubled => Cleared) /\ [Next]_vars => (Untroubled => Cleared)'
  BY ClearedNext, CfgFixed DEF Untroubled
<1>3. (Untroubled => Cleared) => RecoveredHonest
  BY DEF Cleared, RecoveredHonest
<1> QED BY <1>1, <1>2, <1>3, Typing, PTL DEF Spec

-----------------------------------------------------------------------------
(* A narrowed attempt runs what is outstanding, and nothing else *)

\* What is stored, counted as failing or chosen has indeed not passed.  A failed
\* module leaves the loop at once: the round of a test would import its module.
StillOpen ==
  /\ store \subseteq Outstanding
  /\ phase = "read" => ~narrowed
  /\ phase = "first" /\ narrowed => targets \subseteq Outstanding
  /\ phase \in {"read", "consume", "first"} => stuck = {}
  /\ phase \in Judging => StillFailing \subseteq Outstanding /\ stuck \subseteq Unreachable
  /\ phase = "rerun" => stuck \subseteq Cases /\ (pending \subseteq Cases \/ pending \subseteq Modules)

LEMMA StillOpenFirst ==
  ASSUME Untroubled, TypeInv, StillOpen, store = {}, FirstRun
  PROVE  StillOpen'
<1>1. PICK o \in IF cfg.dry THEN DryOutcomes ELSE Outcomes(targets, narrowed) :
        /\ pending' = o.failed /\ Remember(o, targets)
        /\ phase' = IF ~cfg.dry /\ cfg.rerun > 0 /\ o.failed # {} THEN "rerun" ELSE "decide"
  BY DEF FirstRun
<1>2. /\ phase = "first" /\ phase' \in {"rerun", "decide"} /\ stuck = {}
      /\ UNCHANGED <<cfg, store, stuck>>
  BY <1>1 DEF FirstRun, StillOpen
<1>3. o.failed \subseteq o.bad /\ o.failed \subseteq Ids
  <2>1. CASE cfg.dry
    BY <1>1, <2>1, DryLemma DEF Contained, Outcome
  <2>2. CASE ~cfg.dry
    BY <1>1, <2>2, FirstTyped DEF Contained, Outcome
  <2> QED BY <2>1, <2>2
<1>4. o.failed \subseteq Outstanding'
  BY <1>1, <1>3 DEF Remember, Outstanding
<1>5. ASSUME phase' = "rerun" PROVE o.failed \subseteq Cases \/ o.failed \subseteq Modules
  <2>1. o \in Outcomes(targets, narrowed) /\ narrowed \in BOOLEAN
        /\ targets \in SUBSET Cases /\ (narrowed \/ targets = Cases)
    BY <1>1, <1>5 DEF TypeInv, TypeOK, Room
  <2>2. CASE narrowed
    BY <2>1, <2>2, PartLemma, OnlyCases
  <2>3. CASE ~narrowed
    <3>1. o \in Completed(Cases) \/ o \in Uncollected(Cases) \/ o = Ran({}, {}, 5)
      BY <2>1, <2>3, FullLemma
    <3> QED BY <3>1, OnlyCases, OnlyModules, RanLemma
  <2> QED BY <2>1, <2>2, <2>3
<1> QED
  BY <1>1, <1>2, <1>4, <1>5 DEF StillOpen, StillFailing, Judging

LEMMA StillOpenRound ==
  ASSUME Untroubled, TypeInv, StillOpen, store = {}, Rerun
  PROVE  StillOpen'
<1> DEFINE sel == Selectors(pending)
<1>1. PICK o \in Completed(sel) :
        sel \in SUBSET Cases /\ pending' = o.failed /\ o.failed \subseteq sel /\ Remember(o, sel)
  BY RoundLemma
<1>2. /\ phase = "rerun" /\ phase' \in {"rerun", "decide"} /\ sel # {} /\ Accepted(sel)
      /\ stuck' = stuck \cup Missing(pending) /\ UNCHANGED <<cfg, store>>
  BY DEF Rerun
<1>3. pending \subseteq Cases
  <2>1. sel \subseteq pending
    BY DEF Selectors
  <2> QED BY <1>1, <1>2, <2>1, IdsAssumption DEF StillOpen
<1>4. stuck' \subseteq Cases /\ stuck' \subseteq Unreachable /\ Unreachable' = Unreachable
  BY <1>2, <1>3 DEF StillOpen, Missing, Judging, Unreachable
<1>5. stuck' \subseteq Outstanding
  BY <1>2 DEF StillOpen, Judging, StillFailing, Missing
<1>6. stuck' \cap sel = {}
  BY <1>2, <1>4 DEF Accepted
<1>7. \A i \in stuck' : latest'[i] = latest[i]
  BY <1>1, <1>4, <1>6, CompletedRemembered
<1>8. stuck' \subseteq Outstanding'
  BY <1>5, <1>7 DEF Outstanding
<1>9. o.failed \subseteq Outstanding'
  BY <1>1, CompletedRemembered DEF Outstanding, Ids
<1> QED
  BY <1>1, <1>2, <1>4, <1>8, <1>9 DEF StillOpen, StillFailing, Judging

LEMMA StillOpenNext ==
  Untroubled /\ TypeInv /\ StoreLife /\ StillOpen /\ [Next]_vars => StillOpen'
<1> SUFFICES ASSUME Untroubled, TypeInv, StoreLife, StillOpen, [Next]_vars PROVE StillOpen'
  OBVIOUS
<1>1. CASE FirstRun
  BY <1>1, StillOpenFirst DEF FirstRun, StoreLife
<1>2. CASE Rerun
  BY <1>2, StillOpenRound DEF Rerun, StoreLife
<1> USE CfgLemma DEF StillOpen, Judging, local, task
<1>3. CASE Start
  BY <1>3 DEF Start
<1>4. CASE Read \/ ReadFails
  BY <1>4 DEF Read, ReadFails
<1>5. CASE Consume \/ ConsumeFails
  <2>1. /\ phase' = "first" /\ phase = "consume" /\ store' \subseteq store
        /\ narrowed' = Usable(store)
        /\ targets' = IF Usable(store) THEN Selectors(store) \ Modules ELSE Cases
        /\ UNCHANGED <<cfg, stuck, latest>>
    BY <1>5 DEF Consume, ConsumeFails, Narrow
  <2> QED BY <2>1 DEF Selectors
<1>6. CASE RerunEnds
  <2>1. /\ phase = "rerun" /\ phase' = "decide" /\ pending' = {}
        /\ stuck' = stuck \cup Missing(pending) /\ UNCHANGED <<cfg, store, latest>>
    BY <1>6 DEF RerunEnds
  <2>2. StillFailing' \subseteq StillFailing /\ Missing(pending) \subseteq Unreachable
    BY <2>1 DEF StillFailing, Missing
  <2> QED BY <2>1, <2>2
<1>7. CASE Decide
  BY <1>7 DEF Decide
<1>8. CASE Write \/ WriteFails
  BY <1>8 DEF Write, WriteFails
<1>9. CASE Succeed
  BY <1>9 DEF Succeed
<1>10. CASE Crash \/ RunRaises \/ Fail \/ CoverageFails
  BY <1>10 DEF Crash, RunRaises, Fail, CoverageFails, Over
<1>11. CASE UNCHANGED vars
  BY <1>11 DEF vars
<1> QED
  BY <1>1, <1>2, <1>3, <1>4, <1>5, <1>6, <1>7, <1>8, <1>9, <1>10, <1>11
     DEF Next, Execute, Ended

\* With a Variable that can be read and deleted, and runs that do all they were
\* given, an attempt that narrows runs exactly the tests that have not passed.
THEOREM NarrowedToOutstanding == Spec => []NarrowedExact
<1> DEFINE Works == Consumable /\ Untroubled
<1>1. Init => (Works => StillOpen)
  BY DEF Init, StillOpen, Judging
<1>2. /\ TypeInv /\ (Consumable => StoreLife) /\ (Works => StillOpen) /\ [Next]_vars
        => (Works => StillOpen)'
  BY StillOpenNext, CfgFixed DEF Untroubled, Consumable
<1>3. TypeInv /\ NothingDropped /\ (Works => StillOpen) => NarrowedExact
  <2> SUFFICES ASSUME TypeInv, NothingDropped, StillOpen, phase = "first", narrowed,
                      Consumable, Untroubled
               PROVE  targets = Outstanding \cap Cases
    BY DEF NarrowedExact
  <2>1. Reliable
    BY DEF Reliable, Readable, ByThemselves, Consumable, Untroubled
  <2>2. targets \in SUBSET Cases
    BY DEF TypeInv, TypeOK
  <2>3. HomesOf(targets) \cap Cases = {}
    BY <2>2, HomesLemma, IdsAssumption
  <2> QED BY <2>1, <2>2, <2>3 DEF NothingDropped, StillOpen
<1> QED BY <1>1, <1>2, <1>3, Typing, StoreLifeAlways, NothingForgotten, PTL DEF Spec

-----------------------------------------------------------------------------
(* A tolerance is not widened by reruns and retries *)

\* What the threshold judges, the first run of the attempt, tells all that is
\* outstanding when the attempt ends, unless its exit code says otherwise.
FirstTells ==
  /\ phase \in Judging /\ ~cfg.dry /\ first.exit \in {0, 1} => Outstanding \subseteq first.failed
  /\ phase = "rerun" => pending \subseteq first.failed
  /\ ToleranceHonest

\* A first run within the cap has at most cap failures.
LEMMA WithinCap ==
  ASSUME TypeInv, NEW o \in Outcome, cfg.cap # NoCap, ~Breached(Tally(o), cfg.rate, cfg.cap)
  PROVE  o.exit \in {0, 1} /\ Cardinality(o.failed) <= cfg.cap
<1> DEFINE c == o.failed \cap Cases
           m == o.failed \cap Modules
<1>1. Enabled(cfg.rate, cfg.cap)
  BY DEF Enabled
<1>2. o.exit \in {0, 1} /\ ~(Cardinality(c) + Cardinality(m) > cfg.cap)
  BY <1>1 DEF Breached, OverCap, Failures, ExitUnexplained, Tally
<1>3. o.failed \in SUBSET Ids /\ o.failed = c \cup m /\ c \cap m = {}
  BY IdsAssumption DEF Outcome, Ids
<1>4. IsFiniteSet(c) /\ IsFiniteSet(m)
  BY <1>3, IdsAssumption, FS_Subset
<1>5. Cardinality(c) \in Nat /\ Cardinality(m) \in Nat
  BY <1>4, FS_CardinalityType
<1>6. Cardinality(o.failed) = Cardinality(c) + Cardinality(m) - Cardinality(c \cap m)
  BY <1>3, <1>4, FS_Union
<1>7. Cardinality(o.failed) = Cardinality(c) + Cardinality(m)
  <2>1. Cardinality(c \cap m) = 0
    BY <1>3, FS_EmptySet
  <2> HIDE DEF c, m
  <2> QED BY <1>5, <1>6, <2>1
<1>8. cfg.cap \in Nat
  BY DEF TypeInv, TypeOK, Setting
<1> QED BY <1>2, <1>5, <1>7, <1>8

LEMMA FirstTellsFirst ==
  ASSUME Untroubled, Reliable, TypeInv, GreenInv, FirstTells, FirstRun
  PROVE  FirstTells'
<1>1. PICK o \in IF cfg.dry THEN DryOutcomes ELSE Outcomes(targets, narrowed) :
        /\ first' = o /\ pending' = o.failed /\ Remember(o, targets)
        /\ phase' = IF ~cfg.dry /\ cfg.rerun > 0 /\ o.failed # {} THEN "rerun" ELSE "decide"
  BY DEF FirstRun
<1>2. phase = "first" /\ phase' \in {"rerun", "decide"} /\ UNCHANGED <<cfg, status>>
  BY <1>1 DEF FirstRun, task
<1>3. status' # "success"
  BY <1>2 DEF GreenInv
<1>4. ASSUME ~cfg.dry, o.exit \in {0, 1} PROVE Outstanding' \subseteq o.failed
  <2>1. o \in Outcomes(targets, narrowed) /\ narrowed \in BOOLEAN
        /\ targets \in SUBSET Cases /\ (narrowed \/ targets = Cases)
    BY <1>1, <1>4 DEF TypeInv, TypeOK, Room
  <2>2. o \in Completed(targets)
    <3>1. CASE narrowed
      BY <2>1, <3>1, PartLemma
    <3>2. CASE ~narrowed
      <4>1. o \in Completed(Cases) \/ o \in Uncollected(Cases) \/ o = Ran({}, {}, 5)
        BY <2>1, <3>2, FullLemma
      <4> QED BY <1>4, <2>1, <3>2, <4>1, OnlyModules, RanLemma
    <3> QED BY <2>1, <3>1, <3>2
  <2>3. Outstanding' \subseteq o.failed \cup (Outstanding \ Reach(targets))
    BY <1>1, <2>1, <2>2, CompletedLemma, RememberLemma DEF TypeInv, TypeOK
  <2>4. Outstanding \subseteq Reach(targets)
    BY <1>2, <1>4 DEF GreenInv, TargetsCover
  <2> QED BY <2>3, <2>4
<1> QED
  BY <1>1, <1>2, <1>3, <1>4 DEF FirstTells, ToleranceHonest

LEMMA FirstTellsRound ==
  ASSUME Untroubled, TypeInv, GreenInv, FirstTells, Rerun
  PROVE  FirstTells'
<1> DEFINE sel == Selectors(pending)
<1>1. PICK o \in Completed(sel) :
        sel \in SUBSET Cases /\ pending' = o.failed /\ o.failed \subseteq sel /\ Remember(o, sel)
  BY RoundLemma
<1>2. phase = "rerun" /\ phase' \in {"rerun", "decide"} /\ UNCHANGED <<cfg, first, status>>
  BY DEF Rerun, task
<1>3. status' # "success"
  BY <1>2 DEF GreenInv
<1>4. o.failed \subseteq first.failed
  BY <1>1, <1>2 DEF FirstTells, Selectors
<1>5. Outstanding' \subseteq Outstanding \cup o.failed
  BY <1>1, CompletedLemma, RememberLemma DEF TypeInv, TypeOK
<1> QED
  BY <1>1, <1>2, <1>3, <1>4, <1>5 DEF FirstTells, ToleranceHonest, Judging

LEMMA FirstTellsSucceed ==
  ASSUME TypeInv, FirstTells, Succeed
  PROVE  FirstTells'
<1>1. /\ phase = "settle" /\ phase' = "end" /\ ~TaskFails
      /\ UNCHANGED <<cfg, first, latest>>
  BY DEF Succeed, local
<1>2. ASSUME Tolerant, cfg.cap # NoCap PROVE Cardinality(Outstanding) <= cfg.cap
  <2>1. ~Breached(Tally(first), cfg.rate, cfg.cap) /\ ~cfg.dry /\ first \in Outcome
    BY <1>1, <1>2 DEF TaskFails, Tolerant, TypeInv, TypeOK
  <2>2. first.exit \in {0, 1} /\ Cardinality(first.failed) <= cfg.cap
    BY <1>2, <2>1, WithinCap
  <2>3. Outstanding \subseteq first.failed
    BY <1>1, <2>1, <2>2 DEF FirstTells, Judging
  <2>4. IsFiniteSet(first.failed)
    BY <2>1, IdsAssumption, FS_Subset DEF Outcome
  <2>5. /\ Cardinality(Outstanding) <= Cardinality(first.failed)
        /\ IsFiniteSet(Outstanding)
    BY <2>3, <2>4, FS_Subset
  <2>6. /\ Cardinality(Outstanding) \in Nat /\ Cardinality(first.failed) \in Nat
        /\ cfg.cap \in Nat
    BY <1>2, <2>4, <2>5, FS_CardinalityType DEF TypeInv, TypeOK, Setting
  <2> QED BY <2>2, <2>5, <2>6
<1>3. Tolerant' = Tolerant /\ Outstanding' = Outstanding
  BY <1>1, CfgLemma
<1>4. ToleranceHonest'
  BY <1>1, <1>2, <1>3 DEF ToleranceHonest
<1> QED BY <1>1, <1>4 DEF FirstTells, Judging

LEMMA FirstTellsNext ==
  Untroubled /\ Reliable /\ TypeInv /\ GreenInv /\ FirstTells /\ [Next]_vars => FirstTells'
<1> SUFFICES ASSUME Untroubled, Reliable, TypeInv, GreenInv, FirstTells, [Next]_vars
             PROVE  FirstTells'
  OBVIOUS
<1>1. CASE Start \/ Read \/ ReadFails \/ Consume \/ ConsumeFails
  <2>1. /\ phase # "end" /\ phase' \in {"read", "consume", "first"} /\ UNCHANGED status
    BY <1>1 DEF Start, Read, ReadFails, Consume, ConsumeFails, task
  <2> QED BY <2>1 DEF GreenInv, FirstTells, ToleranceHonest, Judging
<1>2. CASE RerunEnds \/ Decide \/ Write \/ WriteFails
  <2>1. /\ phase \in Judging /\ phase' \in Judging \ {"rerun"}
        /\ UNCHANGED <<cfg, first, latest, status>>
    BY <1>2 DEF RerunEnds, Decide, Write, WriteFails, Judging, task, local
  <2> QED BY <2>1, CfgLemma DEF GreenInv, FirstTells, ToleranceHonest, Judging
<1>3. CASE Crash \/ RunRaises \/ Fail \/ CoverageFails
  <2>1. phase # "end" /\ phase' \in {"idle", "end"} /\ status' \in {status, "failed"}
    BY <1>3 DEF Crash, RunRaises, Fail, CoverageFails, Over
  <2> QED BY <2>1 DEF GreenInv, FirstTells, ToleranceHonest, Judging
<1>4. CASE UNCHANGED vars
  <2>1. UNCHANGED <<cfg, phase, first, pending, latest, status>>
    BY <1>4 DEF vars, local, task
  <2> QED BY <2>1, CfgLemma DEF FirstTells, ToleranceHonest, Readable, Untroubled
<1> QED
  BY <1>1, <1>2, <1>3, <1>4, FirstTellsFirst, FirstTellsRound, FirstTellsSucceed
     DEF Next, Execute, Ended

\* A task that succeeds under max_failed has at most that many tests that did
\* not pass the last time they ran, however many rounds and attempts it took.
THEOREM ToleranceHolds == Spec => []ToleranceHonest
<1> DEFINE Smooth == Untroubled /\ Readable
<1>1. Init => (Smooth => FirstTells)
  BY DEF Init, FirstTells, ToleranceHonest, Judging
<1>2. /\ TypeInv /\ (Reliable => GreenInv) /\ (Smooth => FirstTells) /\ [Next]_vars
        => (Smooth => FirstTells)'
  BY FirstTellsNext, CfgFixed DEF Untroubled, Readable, Reliable, ByThemselves
<1>3. (Smooth => FirstTells) => ToleranceHonest
  BY DEF FirstTells, ToleranceHonest
<1> QED BY <1>1, <1>2, <1>3, Typing, GreenAlways, PTL DEF Spec
=============================================================================
