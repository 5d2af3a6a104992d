------------------------------ MODULE EventBus ------------------------------
(***************************************************************************)
(* The runtime's event bus (ipc/api.rs): the app loop publishes, socket    *)
(* threads subscribe, a forwarder per subscriber writes to its socket.     *)
(* Everything under the bus mutex is one step, except the two stores that  *)
(* end a slow subscriber, which its threads read without the mutex.        *)
(* A queue or replay is the set of sequence numbers in it: they enter in   *)
(* increasing order and leave from the least.                              *)
(***************************************************************************)
EXTENDS Integers, FiniteSets

CONSTANTS
    Clients,          \* one connection at a time each
    Filtered,         \* clients of terminal.backend.events.subscribe
    Waiters,          \* clients of events.wait, for a terminal event
    MaxSequence,      \* bound: events published
    QueueCapacity,    \* EVENT_QUEUE_CAPACITY
    ReplayCapacity,   \* EVENT_REPLAY_CAPACITY
    MaxSubscribers,   \* MAX_EVENT_SUBSCRIBERS
    Oversized         \* events that may be longer than EVENT_REPLAY_BYTES

ASSUME BusAssumption ==
    /\ Filtered \subseteq Clients /\ Waiters \subseteq Clients
    /\ Filtered \cap Waiters = {}
    /\ MaxSequence \in Nat /\ Oversized \subseteq Nat
    /\ QueueCapacity \in Nat \ {0} /\ ReplayCapacity \in Nat \ {0}
    /\ MaxSubscribers \in Nat \ {0}

VARIABLES
    sequence, terminal,  \* the last event; the ones named "terminal..."
    large,               \* the events no replay and no frame can hold
    replay, floor,       \* what is retained; the last event that is not
    members,             \* the registered subscribers
    full,                \* found full: the publisher still has the mutex
    queue,               \* by client: its channel
    active, overflow,    \* by client: the flags its threads share
    backlog, hand,       \* by client: replay to go through, event taken
    fence,               \* by client: the sequence when it subscribed
    link,                \* by client: its connection
    cursor,              \* by client: what it knows of, up to this event
    told                 \* by client: 0, or the sequence of a resync notice

retained == <<replay, floor>>
log == <<sequence, terminal, large>>
flags == <<active, overflow>>
thread == <<backlog, hand, fence>>
client == <<cursor, told>>
vars == <<log, retained, members, full, queue, flags, thread, link, client>>

\* Running connections, answers, and the ways a connection ends.
Live == {"open", "left"}
Links == Live \cup {"none", "matched", "unmatched", "stale", "cut", "over",
                    "gone"}

None == 0
Checks == -1    \* a waiter has drained its channel and looks at its flag

Wanted(c) == IF c \in Filtered \cup Waiters THEN terminal ELSE 1..sequence
After(c, s) == {e \in Wanted(c) : e > s}
IsLeast(e, S) == e \in S /\ \A f \in S : e <= f
Free == full = {}    \* nobody holds the bus mutex

TypeOK ==
    /\ sequence \in 0..MaxSequence
    /\ terminal \subseteq 1..sequence
    /\ large \subseteq 1..sequence
    /\ replay \subseteq 1..sequence
    /\ floor \in 0..sequence
    /\ members \subseteq Clients
    /\ full \subseteq members
    /\ queue \in [Clients -> SUBSET (1..sequence)]
    /\ active \in [Clients -> BOOLEAN]
    /\ overflow \in [Clients -> 0..sequence]
    /\ backlog \in [Clients -> SUBSET (1..sequence)]
    /\ hand \in [Clients -> Checks..sequence]
    /\ fence \in [Clients -> 0..sequence]
    /\ link \in [Clients -> Links]
    /\ cursor \in [Clients -> 0..sequence]
    /\ told \in [Clients -> 0..sequence]

Init ==
    /\ sequence = 0 /\ terminal = {} /\ large = {}
    /\ replay = {} /\ floor = 0
    /\ members = {} /\ full = {}
    /\ queue = [c \in Clients |-> {}]
    /\ active = [c \in Clients |-> FALSE]
    /\ overflow = [c \in Clients |-> 0]
    /\ backlog = [c \in Clients |-> {}]
    /\ hand = [c \in Clients |-> None]
    /\ fence = [c \in Clients |-> 0]
    /\ link = [c \in Clients |-> "none"]
    /\ cursor = [c \in Clients |-> 0]
    /\ told = [c \in Clients |-> 0]

-----------------------------------------------------------------------------
(* publish_event, on the app loop                                          *)

\* Keep e, and as many of the events before it as fit: 256, or fewer when
\* they are long.
Retain(e) ==
    \/ /\ Cardinality(replay) < ReplayCapacity
       /\ replay' = replay \cup {e}
       /\ UNCHANGED floor
    \/ \E gone \in replay :
        LET kept == {x \in replay : x > gone}
        IN  /\ Cardinality(kept) < ReplayCapacity
            /\ replay' = kept \cup {e}
            /\ floor' = gone

Publish(isTerminal, isLarge) ==
    LET e == sequence + 1
        offered == {c \in members : isTerminal \/ c \notin Filtered}
        closed == {c \in offered : link[c] \notin Live}
        slow == {c \in offered \ closed :
                    Cardinality(queue[c]) >= QueueCapacity}
    IN  /\ Free /\ sequence < MaxSequence
        /\ isLarge => e \in Oversized
        /\ sequence' = e
        /\ terminal' = IF isTerminal THEN terminal \cup {e} ELSE terminal
        /\ IF isLarge
           THEN large' = large \cup {e} /\ floor' = e /\ UNCHANGED replay
           ELSE Retain(e) /\ UNCHANGED large
        /\ queue' = [c \in Clients |->
                        IF c \in (offered \ closed) \ slow
                        THEN queue[c] \cup {e} ELSE queue[c]]
        /\ full' = slow
        /\ members' = members \ closed
        /\ UNCHANGED <<flags, thread, link, client>>

StoreOverflow(c) ==
    /\ c \in full /\ overflow[c] = 0
    /\ overflow' = [overflow EXCEPT ![c] = sequence]
    /\ UNCHANGED <<log, retained, members, full, queue, active, thread, link,
                   client>>

\* The subscriber is marked and kept.
DropLater(c) ==
    /\ c \in full /\ overflow[c] # 0
    /\ active' = [active EXCEPT ![c] = FALSE]
    /\ full' = full \ {c}
    /\ UNCHANGED <<log, retained, members, queue, overflow, thread, link,
                   client>>

\* The flag, then `retain` drops the subscriber and with it the sender.
Drop(c) ==
    /\ c \in full /\ overflow[c] # 0
    /\ active' = [active EXCEPT ![c] = FALSE]
    /\ members' = members \ {c}
    /\ full' = full \ {c}
    /\ UNCHANGED <<log, retained, queue, overflow, thread, link, client>>

-----------------------------------------------------------------------------
(* The client, and the socket thread that subscribes for it                *)

Waits(c) == c \in Waiters /\ link[c] \in Live
Forwards(c) == c \notin Waiters /\ link[c] \in Live
Idle(c) == link[c] \notin Live /\ c \notin members

\* The client reads the state itself, with the sequence it belongs to.
Snapshot(c) ==
    /\ Idle(c)
    /\ cursor' = [cursor EXCEPT ![c] = sequence]
    /\ told' = [told EXCEPT ![c] = 0]
    /\ UNCHANGED <<log, retained, members, full, queue, flags, thread, link>>

\* Off by one.
MustResyncLate(c) == cursor[c] + 1 < floor

MustResync(c) == cursor[c] < floor
Replayed(c) ==
    {e \in replay : e > cursor[c] /\ (c \in Filtered => e \in terminal)}
HasRoom == Cardinality(members) < MaxSubscribers

\* after_sequence is the client's cursor.
Subscribe(c) ==
    /\ Idle(c) /\ Free /\ HasRoom /\ told[c] = 0 /\ ~ MustResync(c)
    /\ members' = members \cup {c}
    /\ queue' = [queue EXCEPT ![c] = {}]
    /\ active' = [active EXCEPT ![c] = TRUE]
    /\ overflow' = [overflow EXCEPT ![c] = 0]
    /\ backlog' = [backlog EXCEPT ![c] = Replayed(c)]
    /\ hand' = [hand EXCEPT ![c] = None]
    /\ fence' = [fence EXCEPT ![c] = sequence]
    /\ link' = [link EXCEPT ![c] = "open"]
    /\ UNCHANGED <<log, retained, full, client>>

\* Subscribed and unsubscribed at once: the error resync_required.
RefuseStale(c) ==
    /\ Idle(c) /\ Free /\ HasRoom /\ told[c] = 0 /\ MustResync(c)
    /\ told' = [told EXCEPT ![c] = sequence]
    /\ link' = [link EXCEPT ![c] = "stale"]
    /\ UNCHANGED <<log, retained, members, full, queue, flags, thread,
                   cursor>>

\* The client closes its side of the connection...
Leave(c) ==
    /\ link[c] = "open"
    /\ link' = [link EXCEPT ![c] = "left"]
    /\ UNCHANGED <<log, retained, members, full, queue, flags, thread,
                   client>>

\* ...and the reader thread finds EOF, or that the forwarder has stopped.
Unsubscribe(c) ==
    /\ link[c] # "open" /\ c \in members /\ Free /\ ~ Waits(c)
    /\ members' = members \ {c}
    /\ active' = [active EXCEPT ![c] = FALSE]
    /\ UNCHANGED <<log, retained, full, queue, overflow, thread, link,
                   client>>

-----------------------------------------------------------------------------
(* The forwarder: the replay, then the channel                             *)

Take(c) ==
    LET first == IF backlog[c] # {} THEN backlog[c] ELSE queue[c]
    IN  /\ link[c] \in Live /\ hand[c] = None
        /\ \E e \in first :
            /\ IsLeast(e, first)
            /\ hand' = [hand EXCEPT ![c] = e]
            /\ backlog' = [backlog EXCEPT ![c] = @ \ {e}]
            /\ queue' = [queue EXCEPT ![c] = @ \ {e}]
        /\ UNCHANGED <<log, retained, members, full, flags, fence, link,
                       client>>

Write(c) ==
    /\ Forwards(c) /\ hand[c] > None /\ active[c] /\ hand[c] \notin large
    /\ cursor' = [cursor EXCEPT ![c] = hand[c]]
    /\ hand' = [hand EXCEPT ![c] = None]
    /\ UNCHANGED <<log, retained, members, full, queue, flags, backlog,
                   fence, link, told>>

\* The thread stops and its receiver is gone.
Stop(c, how) ==
    /\ link' = [link EXCEPT ![c] = IF @ = "left" THEN "gone" ELSE how]
    /\ queue' = [queue EXCEPT ![c] = {}]
    /\ backlog' = [backlog EXCEPT ![c] = {}]
    /\ hand' = [hand EXCEPT ![c] = None]

Cut(c) ==
    /\ Forwards(c) /\ hand[c] > None /\ active[c]
    /\ active' = [active EXCEPT ![c] = FALSE]
    /\ Stop(c, "cut")
    /\ UNCHANGED <<log, retained, members, full, overflow, fence, client>>

\* The write fails or times out.
WriteFails(c) == hand[c] \notin large /\ Cut(c)

\* The event exceeds MAX_FRAME_BYTES.
TooLong(c) == hand[c] \in large /\ Cut(c)

\* The subscription has ended: tell where events were dropped, if any were.
TellResync(c) ==
    /\ Forwards(c) /\ hand[c] > None /\ ~ active[c]
    /\ told' = [told EXCEPT ![c] = overflow[c]]
    /\ Stop(c, IF overflow[c] > 0 THEN "stale" ELSE "over")
    /\ UNCHANGED <<log, retained, members, full, flags, fence, cursor>>

\* The thread stops as soon as its subscriber is dropped.
RunShort(c) ==
    /\ Forwards(c) /\ hand[c] = None /\ backlog[c] = {} /\ c \notin members
    /\ Stop(c, "over")
    /\ UNCHANGED <<log, retained, members, full, flags, fence, client>>

\* The channel is empty and its sender dropped: the loop just ends.
RunDry(c) ==
    /\ Forwards(c) /\ hand[c] = None /\ backlog[c] = {} /\ queue[c] = {}
    /\ c \notin members
    /\ Stop(c, "over")
    /\ UNCHANGED <<log, retained, members, full, flags, fence, client>>

-----------------------------------------------------------------------------
(* events.wait: look through the replay, then poll the channel             *)

PassOver(c) ==
    /\ Waits(c) /\ hand[c] > None /\ hand[c] \notin terminal
    /\ hand' = [hand EXCEPT ![c] = None]
    /\ UNCHANGED <<log, retained, members, full, queue, flags, backlog,
                   fence, link, client>>

\* The reply comes after unsubscribe.
Answer(c, how) ==
    /\ Waits(c) /\ Free
    /\ members' = members \ {c}
    /\ active' = [active EXCEPT ![c] = FALSE]
    /\ Stop(c, how)
    /\ UNCHANGED <<log, retained, full, overflow, fence>>

WaitMatched(c) ==
    /\ hand[c] \in terminal
    /\ cursor' = [cursor EXCEPT ![c] = hand[c]]
    /\ Answer(c, "matched")
    /\ UNCHANGED told

WaitDrained(c) ==
    /\ Waits(c) /\ hand[c] = None /\ backlog[c] = {} /\ queue[c] = {}
    /\ hand' = [hand EXCEPT ![c] = Checks]
    /\ UNCHANGED <<log, retained, members, full, queue, flags, backlog,
                   fence, link, client>>

WaitLost(c) ==
    /\ hand[c] = Checks /\ ~ active[c]
    /\ told' = [told EXCEPT ![c] = IF overflow[c] > fence[c] THEN overflow[c]
                                   ELSE fence[c]]
    /\ Answer(c, "stale")
    /\ UNCHANGED cursor

\* The deadline has passed or the client is gone; the reply is the fence.
WaitUnmatched(c) ==
    /\ hand[c] = Checks /\ active[c]
    /\ cursor' = [cursor EXCEPT ![c] = fence[c]]
    /\ Answer(c, "unmatched")
    /\ UNCHANGED told

WaitOn(c) ==
    /\ Waits(c) /\ hand[c] = Checks /\ active[c]
    /\ hand' = [hand EXCEPT ![c] = None]
    /\ UNCHANGED <<log, retained, members, full, queue, flags, backlog,
                   fence, link, client>>

-----------------------------------------------------------------------------
Bus(c) == StoreOverflow(c) \/ Drop(c)
Threads(c) ==
    \/ Take(c) \/ Write(c) \/ TooLong(c) \/ TellResync(c) \/ RunDry(c)
    \/ Unsubscribe(c) \/ PassOver(c)
    \/ WaitMatched(c) \/ WaitDrained(c) \/ WaitLost(c)

Next ==
    \/ \E t, l \in BOOLEAN : Publish(t, l)
    \/ \E c \in Clients :
        \/ Bus(c) \/ Threads(c)
        \/ Snapshot(c) \/ Subscribe(c) \/ RefuseStale(c) \/ Leave(c)
        \/ WriteFails(c) \/ WaitUnmatched(c) \/ WaitOn(c)

Spec == Init /\ [][Next]_vars

\* The publisher releases its mutex, every thread runs on, and a wait's
\* deadline passes however often it has polled before.
Fairness ==
    \A c \in Clients :
        WF_vars(Bus(c)) /\ WF_vars(Threads(c)) /\ SF_vars(WaitUnmatched(c))

FairSpec == Spec /\ Fairness

-----------------------------------------------------------------------------
(* Properties                                                              *)

Pending(c) == backlog[c] \cup queue[c] \cup {hand[c]}

\* No event is lost between the replay and the live channel, nor between
\* the channel and the socket: what a registered client wants and does not
\* know of yet is on its way to it (publish_event, subscribe_from_capacity).
NothingLost ==
    \A c \in members \ full :
        link[c] \in Live => After(c, cursor[c]) \ large \subseteq Pending(c)

\* What a client makes of its replies, events and snapshots is the abstract
\* stream: it never steps over an event it wants.
Stream == INSTANCE EventStream WITH Terminal <- Filtered \cup Waiters
ImplementsStream == Stream!Spec

\* A stream that ends although nobody left and no write failed was too
\* slow, and every event before the one it had no room for was delivered.
EndIsExplained ==
    \A c \in Clients :
        link[c] = "over" =>
            /\ overflow[c] > 0
            /\ \A e \in Wanted(c) : e < overflow[c] => e <= cursor[c]

\* A notice of lost events is never for events the client knows of.
NoticeIsAhead == \A c \in Clients : told[c] > 0 => told[c] > cursor[c]

\* A client that stays connected catches up with everything it wants, or
\* its connection ends: no event stays behind in the bus.
Owed(c) == \E e \in Wanted(c) : e > cursor[c]
Delivered ==
    \A c \in Clients :
        (link[c] = "open" /\ Owed(c)) ~> (link[c] # "open" \/ ~ Owed(c))

\* A subscriber that is gone gives its place in the bus back, also when
\* nothing is published any more.
PlaceReturned ==
    \A c \in Clients :
        (c \in members /\ link[c] # "open") ~> (c \notin members)

\* What a client wants is on its way to it; a stream that ends by itself has
\* delivered what came before the loss; a notice is for something lost.
BusSafe == TypeOK /\ NothingLost /\ EndIsExplained /\ NoticeIsAhead

\* A client catches up or is disconnected, and its place is given back.
BusLive == Delivered /\ PlaceReturned
=============================================================================
