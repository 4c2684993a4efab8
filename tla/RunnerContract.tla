--------------------------- MODULE RunnerContract ---------------------------
(***************************************************************************)
(* What a runner promises the operator (runners/base.py and the class      *)
(* docstring of SubprocessPytestRunner), without saying how: one run at a  *)
(* time, a child only inside the run that started it, and a run that has   *)
(* been asked to stop stops.  SubprocessRunner implements it.              *)
(***************************************************************************)
EXTENDS Naturals

CONSTANT MaxRuns   \* bound on the number of runs

VARIABLES
  busy,      \* run() has been entered and not been left
  stop,      \* cancel() has been called since then
  runs,      \* number of runs accepted so far; the latest is run number `runs`
  live       \* the pytest children that are alive, by run

contract == <<busy, stop, runs, live>>

ContractInit == busy = FALSE /\ stop = FALSE /\ runs = 0 /\ live = {}

\* A stop asked for before a run is not held against it.
Begin ==
  /\ ~busy /\ runs < MaxRuns
  /\ busy' = TRUE /\ stop' = FALSE /\ runs' = runs + 1
  /\ UNCHANGED live

Spawn ==
  /\ busy /\ live = {}
  /\ live' = {runs}
  /\ UNCHANGED <<busy, stop, runs>>

\* It may be asked for at any time, and more than once.
Stop ==
  /\ stop' = TRUE
  /\ UNCHANGED <<busy, runs, live>>

Die ==
  /\ live # {}
  /\ live' = {}
  /\ UNCHANGED <<busy, stop, runs>>

End ==
  /\ busy /\ live = {}
  /\ busy' = FALSE
  /\ UNCHANGED <<stop, runs, live>>

ContractNext == Begin \/ Spawn \/ Stop \/ Die \/ End

ContractSpec == ContractInit /\ [][ContractNext]_contract

\* A run that is to stop loses its child, if it has one, and ends.
ContractFairSpec == ContractSpec /\ WF_contract(stop /\ busy /\ (Die \/ End))
=============================================================================
