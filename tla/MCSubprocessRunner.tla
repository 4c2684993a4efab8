------------------------- MODULE MCSubprocessRunner -------------------------
(* Instances of SubprocessRunner for TLC. *)
EXTENDS SubprocessRunner, TLC

\* Threads of a kind are interchangeable; used by safety runs only.
ThreadSymmetry == Permutations(Workers) \cup Permutations(Killers)
=============================================================================
