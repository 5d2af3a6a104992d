------------------------- MODULE MCServerLifecycle --------------------------
(***************************************************************************)
(* ServerLifecycle with three server processes and two commands: every     *)
(* verb, in pairs that race for one server or for its place.               *)
(***************************************************************************)
EXTENDS ServerLifecycle, TLC

CONSTANTS x, y

Pair(first, second) == x :> first @@ y :> second
Pairs == {Pair("attach", "session restart"), Pair("restart", "start"),
          Pair("session start", "delete"), Pair("attach", "stop"),
          Pair("restart", "session stop")}
=============================================================================
