--------------------------- MODULE RemoteFollower ---------------------------
(***************************************************************************)
(* How a local session follows the topology of a remote owner              *)
(* (app/remote/events.rs and the watcher of app/remote.rs).  A watcher     *)
(* thread reads a snapshot, subscribes from the snapshot's sequence,       *)
(* drains the events and fetches a new snapshot when one of them changes   *)
(* the topology.  Its results reach the app loop as queued messages that   *)
(* carry the watcher's generation.  The owner's bus is the abstract        *)
(* EventStream; owners restart, connections fail, streams overflow.        *)
(***************************************************************************)
EXTENDS Integers, Sequences

CONSTANTS
    MaxEvents,      \* bound: events of one owner
    MaxRestarts,    \* bound: restarts of the owner
    MaxFailures,    \* bound: connections that fail, replays that are gone
    MaxRefreshes,   \* bound: explicit refreshes by the user
    MaxTroubles     \* bound: restarts, failures and refreshes together

\* What the constants stand for.
FollowerAssumption ==
    {MaxEvents, MaxRestarts, MaxFailures, MaxRefreshes, MaxTroubles} \subseteq Nat

VARIABLES
    owner,          \* the owner's server_generation
    up,             \* whether it is running
    lastEvent,      \* its last event
    topology,       \* its events that affect_snapshot
    watcher,        \* the current watcher's generation, 0 for none
    newest,         \* remote_watcher_generation
    retries,        \* retry_delay: a failure of this watcher is retried
    phase,          \* where the current watcher's thread is
    known,          \* the thread's owner and the sequence it has covered
    stream,         \* the generation of the owner it is subscribed to, or 0
    lastRead,       \* the last event its reader has taken
    pending,        \* PendingEvents
    inbox,          \* messages to the app loop
    shown,          \* the snapshot the app shows
    budget          \* bound: failures and refreshes left

ownerVars == <<owner, up, lastEvent, topology>>
appVars == <<watcher, newest, retries, shown>>
threadVars == <<phase, known, stream, lastRead, pending>>
followerVars == <<ownerVars, appVars, threadVars, inbox, budget>>

Reader == "reader"
OwnerStream == INSTANCE EventStream
               WITH Clients <- {Reader}, Terminal <- {Reader},
                    MaxSequence <- MaxEvents, sequence <- lastEvent,
                    cursor <- lastRead, terminal <- topology, large <- {}

Nobody == 0
Nothing == [owner |-> Nobody, sequence |-> 0, watcher |-> 0]
NoEvents == [sequence |-> 0, resync |-> FALSE, failed |-> FALSE]
WatcherPhases == {"none", "waits", "loads", "subscribes", "resyncs", "watches",
           "refreshes", "resubscribes"}
Connected == {"watches", "refreshes", "resubscribes"}

FollowerInit ==
    /\ owner = 1 /\ up = TRUE /\ lastEvent = 0 /\ topology = {}
    /\ watcher = 1 /\ newest = 1 /\ retries = FALSE
    /\ phase = "loads" /\ known = [owner |-> Nobody, sequence |-> 0]
    /\ stream = Nobody /\ lastRead = [r \in {Reader} |-> 0]
    /\ pending = NoEvents
    /\ inbox = <<>> /\ shown = Nothing
    /\ budget = [failures |-> MaxFailures, refreshes |-> MaxRefreshes]

Restarts == owner - (IF up THEN 1 ELSE 0)
MayTrouble ==
    Restarts + (MaxFailures - budget.failures)
             + (MaxRefreshes - budget.refreshes) < MaxTroubles

-----------------------------------------------------------------------------
(* The owner                                                               *)

PublishEvent ==
    /\ up
    /\ lastEvent < MaxEvents /\ lastEvent' = lastEvent + 1
    /\ topology' \in {topology, topology \cup {lastEvent + 1}}
    /\ UNCHANGED <<owner, up, appVars, threadVars, inbox, budget>>

StopOwner ==
    /\ up /\ MayTrouble /\ owner <= MaxRestarts
    /\ up' = FALSE
    /\ UNCHANGED <<owner, lastEvent, topology, appVars, threadVars, inbox,
                   budget>>

\* A new generation and a new event sequence.
StartOwner ==
    /\ ~ up
    /\ up' = TRUE /\ owner' = owner + 1
    /\ lastEvent' = 0 /\ topology' = {}
    /\ UNCHANGED <<appVars, threadVars, inbox, budget>>

-----------------------------------------------------------------------------
(* The app loop                                                            *)

\* start_remote_watcher: the old watcher's scope is cancelled.
StartWatcher(retry) ==
    /\ newest' = newest + 1 /\ watcher' = newest + 1
    /\ retries' = retry
    /\ phase' = IF retry THEN "waits" ELSE "loads"
    /\ stream' = Nobody /\ pending' = NoEvents
    /\ UNCHANGED <<known, lastRead>>

\* discover_remote_session, by the user.
Refresh ==
    /\ MayTrouble /\ budget.refreshes > 0
    /\ budget' = [budget EXCEPT !.refreshes = @ - 1]
    /\ StartWatcher(FALSE)
    /\ UNCHANGED <<ownerVars, shown, inbox>>

IsCurrent(m) == m.watcher = watcher

\* apply_remote_session_discovered with a snapshot.
Discovered(m) ==
    /\ m.ok
    /\ shown' = [owner |-> m.owner, sequence |-> m.sequence,
                 watcher |-> m.watcher]
    /\ retries' = TRUE
    /\ UNCHANGED <<watcher, newest, threadVars>>

\* A failed snapshot or a closed watcher: retry_remote_session.
WatcherFailed(m) ==
    /\ ~ m.ok
    /\ IF retries
       THEN StartWatcher(TRUE)
       ELSE /\ watcher' = 0 /\ phase' = "none" /\ stream' = Nobody
            /\ UNCHANGED <<newest, retries, known, lastRead, pending>>
    /\ UNCHANGED shown

ApplyMessage ==
    /\ inbox # <<>>
    /\ inbox' = Tail(inbox)
    /\ IF IsCurrent(Head(inbox))
       THEN Discovered(Head(inbox)) \/ WatcherFailed(Head(inbox))
       ELSE UNCHANGED <<appVars, threadVars>>
    /\ UNCHANGED <<ownerVars, budget>>

-----------------------------------------------------------------------------
(* The watcher's thread                                                    *)

Send(ok) ==
    inbox' = Append(inbox, [watcher |-> watcher, ok |-> ok, owner |-> owner,
                            sequence |-> lastEvent])

\* The thread ends with an error.
Close ==
    /\ Send(FALSE)
    /\ phase' = "none" /\ stream' = Nobody
    /\ UNCHANGED <<known, lastRead, pending, appVars, ownerVars>>

\* A connection fails, because nothing listens or for another reason.
Breaks ==
    /\ MayTrouble /\ budget.failures > 0
    /\ budget' = [budget EXCEPT !.failures = @ - 1]

Goes(next) == phase' = next /\ UNCHANGED <<appVars, ownerVars>>

\* The delay is over and the scope not cancelled.
Wait ==
    /\ phase = "waits" /\ Goes("loads")
    /\ UNCHANGED <<known, stream, lastRead, pending, inbox, budget>>

\* remote_snapshot: the first one names the owner of this watcher.
Load ==
    /\ phase = "loads" /\ up
    /\ Send(TRUE)
    /\ known' = [owner |-> owner, sequence |-> lastEvent]
    /\ Goes("subscribes")
    /\ UNCHANGED <<stream, lastRead, pending, budget>>

\* Without after_sequence.
FromNow == lastEvent

AfterSnapshot == known.sequence

\* events.subscribe; the request does not say which owner it is for.
SubscribeFrom ==
    /\ phase = "subscribes" /\ up /\ known.sequence <= lastEvent
    /\ stream' = owner
    /\ lastRead' = [r \in {Reader} |-> AfterSnapshot]
    /\ pending' = NoEvents
    /\ Goes("watches")
    /\ UNCHANGED <<known, inbox, budget>>

\* The cursor is out of the owner's replay window.
SubscribeLate ==
    /\ phase = "subscribes" /\ up /\ known.sequence < lastEvent
    /\ Breaks
    /\ Goes("resyncs")
    /\ UNCHANGED <<known, stream, lastRead, pending, inbox>>

\* The cursor is beyond the owner's sequence: an error like any other.
SubscribeInvalid ==
    /\ phase = "subscribes" /\ up /\ known.sequence > lastEvent
    /\ Close
    /\ UNCHANGED budget

SameOwner == known.owner = owner

\* refresh_snapshot: a snapshot of another owner ends the watcher.
TakeSnapshot ==
    /\ phase \in {"resyncs", "refreshes", "resubscribes"} /\ up
    /\ IF SameOwner
       THEN /\ Send(TRUE)
            /\ known' = [known EXCEPT !.sequence = lastEvent]
            /\ Goes(IF phase = "refreshes" THEN "watches" ELSE "subscribes")
            /\ stream' = IF phase = "refreshes" THEN stream ELSE Nobody
            /\ UNCHANGED <<lastRead, pending>>
       ELSE Close
    /\ UNCHANGED budget

ConnectFails ==
    /\ phase \in {"loads", "subscribes", "resyncs", "refreshes",
                  "resubscribes"}
    /\ Breaks
    /\ Close

\* Off by one.
NewsLater == pending.sequence > known.sequence + 1

News == pending.sequence > known.sequence

\* SessionEvents::next
TakeEvents(action) ==
    /\ phase = "watches" /\ ~ pending.failed
    /\ News \/ pending.resync
    /\ action = IF pending.resync THEN "resubscribes" ELSE "refreshes"
    /\ Goes(action)
    /\ UNCHANGED <<known, stream, lastRead, pending, inbox, budget>>

TakeError ==
    /\ phase = "watches" /\ pending.failed
    /\ Close
    /\ UNCHANGED budget

-----------------------------------------------------------------------------
(* Its reader: read_session_events                                         *)

Reads == phase \in Connected /\ stream # Nobody

Record(e, resync) ==
    pending' = [pending EXCEPT
                  !.sequence = IF e > @ THEN e ELSE @, !.resync = @ \/ resync]

ReadEvent ==
    /\ Reads /\ stream = owner /\ up
    /\ OwnerStream!Learn(Reader) /\ lastRead' # lastRead
    /\ IF lastRead'[Reader] \in topology
       THEN Record(lastRead'[Reader], FALSE)
       ELSE UNCHANGED pending
    /\ UNCHANGED <<owner, up, appVars, phase, known, stream, inbox, budget>>

\* The subscription overflowed; the reader returns.
ReadResync ==
    /\ Reads /\ stream = owner /\ up
    /\ Breaks
    /\ \E lost \in lastRead[Reader] + 1..lastEvent : Record(lost, TRUE)
    /\ stream' = Nobody
    /\ UNCHANGED <<ownerVars, appVars, phase, known, lastRead, inbox>>

ReadFails ==
    /\ Reads
    /\ \/ (stream # owner \/ ~ up) /\ UNCHANGED budget
       \/ Breaks
    /\ pending' = [pending EXCEPT !.failed = TRUE]
    /\ stream' = Nobody
    /\ UNCHANGED <<ownerVars, appVars, phase, known, lastRead, inbox>>

-----------------------------------------------------------------------------
Thread ==
    \/ Wait \/ Load \/ SubscribeFrom \/ SubscribeLate \/ SubscribeInvalid
    \/ TakeSnapshot \/ ConnectFails \/ TakeError
    \/ \E then \in {"refreshes", "resubscribes"} : TakeEvents(then)
ReaderStep == ReadEvent \/ ReadResync \/ ReadFails

FollowerNext ==
    \/ PublishEvent \/ StopOwner \/ StartOwner \/ Refresh \/ ApplyMessage
    \/ Thread \/ ReaderStep

FollowerSpec == FollowerInit /\ [][FollowerNext]_followerVars

\* Threads and the app loop run on; a stopped owner is started again.
FairFollowerSpec ==
    /\ FollowerSpec
    /\ WF_followerVars(Thread) /\ WF_followerVars(ReaderStep) /\ WF_followerVars(ApplyMessage)
    /\ WF_followerVars(StartOwner)

-----------------------------------------------------------------------------
(* Properties                                                              *)

FollowerTypeOK ==
    /\ owner \in 1..MaxRestarts + 1 /\ up \in BOOLEAN
    /\ lastEvent \in 0..MaxEvents /\ topology \subseteq 1..lastEvent
    /\ newest \in Nat /\ watcher \in {0, newest} /\ retries \in BOOLEAN
    /\ phase \in WatcherPhases
    /\ known \in [owner : 0..owner, sequence : 0..MaxEvents]
    /\ stream \in 0..owner /\ lastRead \in [{Reader} -> 0..MaxEvents]
    /\ pending \in [sequence : 0..MaxEvents, resync : BOOLEAN,
                    failed : BOOLEAN]
    /\ shown \in [owner : 0..owner, sequence : 0..MaxEvents,
                  watcher : 0..newest]

\* No reader outlives its subscription (watch_remote_session).
ReaderJoined == stream # Nobody => phase \in Connected

\* A failure of a replaced watcher that is still queued takes nothing away: a
\* watcher goes only when its own thread has ended or the user refreshes
\* (handle_event_inner compares the generations).
LiveWatcherKept ==
    [][phase = "none" \/ budget.refreshes # budget'.refreshes]_watcher

\* Whatever arrives while a snapshot is on its way is fetched after it: a
\* topology event the reader has taken is covered or still asks for one.
EventsAsk ==
    phase \in Connected /\ stream = owner =>
        \A e \in topology :
            e <= lastRead[Reader] /\ e > known.sequence => e <= pending.sequence

\* Another owner is shown only by another watcher, whose start closes every
\* display channel to the owner before (refresh_snapshot).
OwnerFence ==
    [][shown'.owner # shown.owner => shown'.watcher # shown.watcher]_shown

\* In the end the shown topology is the owner's, if the owner never restarts.
Follows ==
    shown.owner = owner /\ \A e \in topology : e <= shown.sequence
EventuallyFollows == <>[](watcher = 0 \/ ~ up \/ Follows \/ owner > 1)

\* As long as the watcher is kept, a topology event after its subscription
\* is shown, also when the subscription went to a restarted owner.
EventOwed ==
    up /\ stream = owner /\ \E e \in topology : e > known.sequence
EventShown == EventOwed ~> Follows \/ ~ up \/ watcher = 0

\* No reader outlives its subscription, no event is taken without a snapshot after
\* it; another owner needs another watcher, and a live watcher is kept.
FollowerSafe ==
    /\ [](FollowerTypeOK /\ ReaderJoined /\ EventsAsk)
    /\ LiveWatcherKept /\ OwnerFence
=============================================================================
