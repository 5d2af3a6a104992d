---------------------------- MODULE EventStream ----------------------------
(***************************************************************************)
(* What a client of the runtime's events is promised, without the bus:     *)
(* from the state it took a snapshot of, it learns of the events it wants  *)
(* one by one, in order and with none passed over, until it takes a new    *)
(* snapshot.  EventBus implements this module.                             *)
(***************************************************************************)
EXTENDS Integers

CONSTANTS
    Clients,        \* the subscribers
    Terminal,       \* the ones that want terminal events only
    MaxSequence     \* bound: how many events are published

VARIABLES
    sequence,       \* the last published event
    terminal,       \* the published events whose name starts with "terminal."
    large,          \* the published events that are too long to be kept
    cursor          \* by client: what it knows of, up to this event

vars == <<sequence, terminal, large, cursor>>

Wanted(c) == (IF c \in Terminal THEN terminal ELSE 1..sequence) \ large

Init ==
    /\ sequence = 0
    /\ terminal = {} /\ large = {}
    /\ cursor = [c \in Clients |-> 0]

Publish ==
    /\ sequence < MaxSequence
    /\ sequence' = sequence + 1
    /\ terminal' \in {terminal, terminal \cup {sequence + 1}}
    /\ large' \in {large, large \cup {sequence + 1}}
    /\ UNCHANGED cursor

\* c learns of event e, or that there was nothing for it up to e.
Learn(c) ==
    /\ \E e \in cursor[c]..sequence :
        /\ \A f \in Wanted(c) : f <= cursor[c] \/ f >= e
        /\ cursor' = [cursor EXCEPT ![c] = e]
    /\ UNCHANGED <<sequence, terminal, large>>

Snapshot(c) ==
    /\ cursor' = [cursor EXCEPT ![c] = sequence]
    /\ UNCHANGED <<sequence, terminal, large>>

Next == Publish \/ \E c \in Clients : Learn(c) \/ Snapshot(c)

Spec == Init /\ [][Next]_vars
============================================================================
