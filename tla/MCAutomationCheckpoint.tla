----------------------- MODULE MCAutomationCheckpoint -----------------------
(***************************************************************************)
(* Instances of AutomationCheckpoint for TLC.                              *)
(***************************************************************************)
EXTENDS AutomationCheckpoint, TLC

CONSTANTS c1, c2, c3, i1, i2

TwoCalls == {c1, c2}
ThreeCalls == {c1, c2, c3}
OneIntent == {i1}
TwoIntents == {i1, i2}
CallSymmetry == Permutations({c1, c2, c3}) \cup Permutations({i1, i2})
=============================================================================
