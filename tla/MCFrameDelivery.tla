-------------------------- MODULE MCFrameDelivery ---------------------------
(***************************************************************************)
(* FrameDelivery with two clients and two rows: output during a pass that  *)
(* patches the same row or another one, a slow client beside a fast one.   *)
(***************************************************************************)
EXTENDS FrameDelivery

CONSTANTS a, b, row1, row2
=============================================================================
