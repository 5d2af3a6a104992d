----------------------------- MODULE MCStreams ------------------------------
(***************************************************************************)
(* The event bus of a server, and a remote session that follows an owner   *)
(* through the abstract stream the bus implements: two independent systems *)
(* in one run.  `part` says which of them runs, the other keeps its        *)
(* initial state.  The follower can take a step in its initial state, so   *)
(* its fairness is asked for while it runs.                                *)
(*                                                                         *)
(* A queue and a replay of one event are overtaken within two events; two  *)
(* events are one that a snapshot covers and one that arrives while it is  *)
(* on its way, or is lost to an overflow.                                  *)
(***************************************************************************)
EXTENDS EventBus, RemoteFollower

CONSTANTS a, b
MCClients == {a, b}
OnlyA == {a}
OnlyB == {b}

ASSUME WatchersBounded == FollowerAssumption

VARIABLE part

StreamsInit == Init /\ FollowerInit /\ part \in {"bus", "follower"}

BusStep == part = "bus" /\ Next /\ UNCHANGED <<part, followerVars>>
FollowerStep ==
    part = "follower" /\ FollowerNext /\ UNCHANGED <<part, vars>>

StreamsNext == BusStep \/ FollowerStep

Following == part = "follower"

StreamsSpec ==
    /\ StreamsInit /\ [][StreamsNext]_<<part, vars, followerVars>>
    /\ Fairness
    /\ WF_followerVars(Following /\ Thread)
    /\ WF_followerVars(Following /\ ReaderStep)
    /\ WF_followerVars(Following /\ ApplyMessage)
    /\ WF_followerVars(Following /\ StartOwner)

-----------------------------------------------------------------------------
\* In the end the shown topology is the owner's; a topology event after the
\* subscription is shown.
FollowerLive == (Following => EventuallyFollows) /\ EventShown
=============================================================================
