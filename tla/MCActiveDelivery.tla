-------------------------- MODULE MCActiveDelivery --------------------------
(* One active definition that skips an occurrence while its agent is busy. *)
EXTENDS ActiveDelivery

CONSTANTS a1

OneAuto == {a1}
=============================================================================
