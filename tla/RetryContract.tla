---------------------------- MODULE RetryContract ----------------------------
(***************************************************************************)
(* What a task promises the author of a DAG, without reruns, Variables or  *)
(* reports: Airflow tries it at most retries + 1 times, gives it up only   *)
(* after the last try, and it is green only when every test passed the     *)
(* last time it ran, unless the author asked for less.  PytestOperator     *)
(* implements it.                                                          *)
(***************************************************************************)
EXTENDS Naturals

CONSTANTS
  Ids,       \* what may be outstanding: tests, and modules that fail to import
  Retries    \* Airflow's retries=

VARIABLES
  tries,     \* attempts made so far
  verdict,   \* on the task: "running", "success" or "failed"
  open,      \* what has not passed the last time it ran
  lenient    \* the author tolerates failures, or nobody guards the promise

retry == <<tries, verdict, open, lenient>>

RetryInit == tries = 0 /\ verdict = "running" /\ open = Ids /\ lenient \in BOOLEAN

Try ==
  /\ verdict = "running" /\ tries <= Retries
  /\ tries' = tries + 1
  /\ UNCHANGED <<verdict, open, lenient>>

\* Tests of any kind run and come out in any way.
Test ==
  /\ verdict = "running" /\ tries > 0
  /\ open' \in SUBSET Ids
  /\ UNCHANGED <<tries, verdict, lenient>>

Accept ==
  /\ verdict = "running" /\ tries > 0
  /\ open = {} \/ lenient
  /\ verdict' = "success"
  /\ UNCHANGED <<tries, open, lenient>>

GiveUp ==
  /\ verdict = "running" /\ tries = Retries + 1
  /\ verdict' = "failed"
  /\ UNCHANGED <<tries, open, lenient>>

RetryNext == Try \/ Test \/ Accept \/ GiveUp
RetrySpec == RetryInit /\ [][RetryNext]_retry

\* A verdict is reached.
RetryFairness == WF_retry(Try \/ Accept \/ GiveUp)
=============================================================================
