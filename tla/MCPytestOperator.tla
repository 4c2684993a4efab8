-------------------------- MODULE MCPytestOperator --------------------------
(***************************************************************************)
(* The operators PytestOperator is checked with.                           *)
(***************************************************************************)
EXTENDS PytestOperator

CONSTANT MaxRerun     \* bound on rerun_failed

Layout == CHOOSE f \in [Cases -> Modules] : \A m \in Modules : \E c \in Cases : f[c] = m

\* A default operator, but for its failed_only, rerun_failed and where it runs.
Plain ==
  {[strategy |-> s, keyed |-> TRUE, counted |-> TRUE, located |-> l, lost |-> x, faulty |-> {}, mishaps |-> {},
    rerun |-> n, strict |-> TRUE, rate |-> NoRate, cap |-> NoCap,
    covGate |-> FALSE, dry |-> FALSE] :
     s \in {"all", "failed_only"}, l \in BOOLEAN, n \in 0..MaxRerun,
     x \in {{}} \cup {{CHOOSE c \in Cases : TRUE}}}

\* One argument or fact about the context changed.
Odd(s) ==
  {[s EXCEPT !.keyed = FALSE], [s EXCEPT !.counted = FALSE],
   [s EXCEPT !.strict = FALSE], [s EXCEPT !.covGate = TRUE], [s EXCEPT !.dry = TRUE]}

\* One tolerance set.
Tolerances(s) ==
  {[s EXCEPT !.cap = n] : n \in 0..2} \cup {[s EXCEPT !.rate = r] : r \in {<<1, 2>>, <<1, 1>>}}

\* A backend whose operations may all fail as listed.
Under(faults, settings) == {[s EXCEPT !.faulty = faults] : s \in settings}

\* Runs that may end as listed.
Amid(mishaps, settings) == {[s EXCEPT !.mishaps = mishaps] : s \in settings}

Varied == Plain \cup UNION {Odd(s) : s \in Plain}
Tolerating == UNION {Tolerances(s) : s \in Plain}
Everything ==
  Under({"write", "delete"}, Varied) \cup Under({"write"}, Tolerating)
    \cup Under({"read", "write", "delete"}, Plain)
    \cup Under({"delete"}, Amid({"collect", "continue"}, Plain))
    \cup Amid({"collect", "unlisted"}, Plain)

Collecting == Amid({"collect"}, Plain)
Stopping   == Amid({"stop"}, Plain)
=============================================================================
