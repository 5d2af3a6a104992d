----------------------------- MODULE MCWorkers -----------------------------
(***************************************************************************)
(* What stands between task.start and a working agent, as two independent  *)
(* systems checked in one run: `part` says which of them runs, the other   *)
(* keeps its initial state.  No fair action of either is enabled there, so *)
(* both may ask for their fairness.                                        *)
(*                                                                         *)
(* The worktree slot on two trees, with a task for each and a run for the  *)
(* first; the launch handshake on two starts of one task.                  *)
(***************************************************************************)
EXTENDS WorkerHandshake, WorktreeSlot, TLC

CONSTANTS w1, w2, k1, k2
TwoTasks == [k \in {k1, k2} |-> IF k = k1 THEN w1 ELSE w2]
First == {w1}

ASSUME SlotsAssumed == SlotAssumption

VARIABLE part

WorkersInit ==
  /\ HandshakeInit /\ SlotInit
  /\ part \in {"slot", "handshake"}
  /\ part = "slot" => ~ task.auto

HandshakeStep == part = "handshake" /\ HandshakeNext /\ UNCHANGED <<part, slotVars>>
SlotStep == part = "slot" /\ SlotNext /\ UNCHANGED <<part, handshakeVars>>

WorkersNext == SlotStep \/ HandshakeStep

WorkersSpec ==
  /\ WorkersInit /\ [][WorkersNext]_<<part, handshakeVars, slotVars>>
  /\ HandshakeFairness /\ SlotFairness
=============================================================================
