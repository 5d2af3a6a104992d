--------------------------- MODULE MCScheduledRuns ---------------------------
(***************************************************************************)
(* ScheduledRuns with one definition that repeats every unit of time and   *)
(* keeps one run waiting behind the live one.                              *)
(***************************************************************************)
EXTENDS ScheduledRuns

CONSTANTS a1

AutoSet == {a1}
None == {}
=============================================================================
