---------------------------- MODULE MCPaneOutput ----------------------------
(***************************************************************************)
(* PaneOutput with two reads, one that is announced and one that may be    *)
(* coalesced behind it; a wait of each kind, and a stream that may be      *)
(* opened again after an overflow.                                         *)
(***************************************************************************)
EXTENDS PaneOutput

CONSTANTS t1, r1
=============================================================================
