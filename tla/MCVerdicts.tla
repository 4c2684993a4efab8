----------------------------- MODULE MCVerdicts -----------------------------
(* The thresholds TLC checks the laws with. *)
EXTENDS Verdicts

SomeRates == {NoRate, <<0, 1>>, <<1, 2>>, <<2, 3>>, <<1, 1>>}
SomeCaps  == {NoCap, 0, 1}
=============================================================================
