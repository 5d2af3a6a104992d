------------------------ MODULE MCConfigPersistence ------------------------
(* A theme and an ordinary setting. *)
EXTENDS ConfigPersistence

CONSTANTS theme, size
=============================================================================
