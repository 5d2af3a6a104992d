--------------------------- MODULE MCOrchLedger ---------------------------
(***************************************************************************)
(* Small instances of OrchLedger for TLC: gated work of one project that   *)
(* declares no paths, for the runs about jobs, gates and restarts.         *)
(***************************************************************************)
EXTENDS OrchLedger

Gated(auto) ==
  {[paths |-> {}, gate |-> TRUE, project |-> "main", auto |-> auto]}

GatedTemplates == Gated(FALSE)
ScheduledTemplates == Gated(TRUE)
OneProject == {"main"}
OnePair == {<<"main", "main">>}
=============================================================================
