----------------------------- MODULE PaneOutput -----------------------------
(***************************************************************************)
(* How output of a pane's child reaches those who wait for it              *)
(* (terminal/pty.rs, app/dispatch/agent_workflow.rs, app/backend.rs, the   *)
(* terminal streams of ipc/api.rs).  A reader thread advances the engine   *)
(* and its content revision and announces output only while no earlier     *)
(* announcement is open (data_pending).  The server loop handles the       *)
(* announcements, re-arms the flag at the frame cadence, answers parked    *)
(* waits and publishes terminal.output_ready.  The steps of a handler are  *)
(* separate here, because the reader runs between them.                    *)
(***************************************************************************)
EXTENDS Integers, Sequences, FiniteSets

CONSTANTS
    TextWaits,      \* wait.output calls
    RevisionWaits,  \* terminal.backend.wait_change and wait_output calls
    MaxRevision,    \* bound: reads that change the engine
    MaxSends,       \* bound: writes to the pane
    MaxStreams,     \* bound: terminal streams opened
    MaxCalls,       \* bound: writes, streams and waits together
    QueueCapacity   \* OBSERVER_QUEUE_CAPACITY

ASSUME PaneAssumption ==
    /\ TextWaits \cap RevisionWaits = {}
    /\ {MaxRevision, MaxSends, MaxStreams, MaxCalls} \subseteq Nat
    /\ QueueCapacity \in Nat \ {0}

Waits == TextWaits \cup RevisionWaits

VARIABLES
    revision,       \* content_revision: the engine shows this much
    reader,         \* the reader thread: reads, announces, ended
    child,          \* the child process has not been reaped
    flag,           \* data_pending
    inbox,          \* AppEvents of this pane
    todo,           \* steps left of the handler the loop is in
    pane,           \* open, closed by the user, or exited
    exit,           \* pending_pty_exits
    need,           \* the first revision that satisfies each wait
    waits,          \* new, parked, or how it was answered
    published,      \* backend_published_revisions
    stream,         \* a terminal stream: off, starts, forwards, cut, ended
    queue,          \* its event queue
    shown,          \* the revision of its last frame
    sends,          \* bound: writes so far
    opened          \* bound: streams so far

readerVars == <<revision, reader, child>>
waitVars == <<need, waits>>
streamVars == <<stream, queue, shown, opened>>
paneVars == <<readerVars, flag, inbox, todo, pane, exit, waitVars, published,
              streamVars, sends>>

PaneInit ==
    /\ revision = 0 /\ reader = "reads" /\ child = TRUE
    /\ flag = FALSE /\ inbox = <<>> /\ todo = <<>>
    /\ pane = "open" /\ exit = {}
    /\ need = [w \in Waits |-> 0] /\ waits = [w \in Waits |-> "new"]
    /\ published = 0
    /\ stream = "off" /\ queue = <<>> /\ shown = 0
    /\ sends = 0 /\ opened = 0

Parked(S) == {w \in S : waits[w] = "parked"}

MayCall ==
    sends + opened + Cardinality({w \in Waits : waits[w] # "new"}) < MaxCalls

-----------------------------------------------------------------------------
(* The reader thread and the reaper                                        *)

\* advance_output; the revision moves under the engine's lock.
Produce ==
    /\ reader = "reads" /\ revision < MaxRevision
    /\ revision' = revision + 1 /\ reader' = "announces"
    /\ UNCHANGED <<child, flag, inbox, todo, pane, exit, waitVars, published,
                   streamVars, sends>>

\* if !data_pending.swap(true) { send(PtyData) }
Announce ==
    /\ reader = "announces" /\ reader' = "reads"
    /\ flag' = TRUE
    /\ inbox' = IF flag THEN inbox ELSE Append(inbox, "data")
    /\ UNCHANGED <<revision, child, todo, pane, exit, waitVars, published,
                   streamVars, sends>>

EndOfFile ==
    /\ reader = "reads" /\ reader' = "ended"
    /\ inbox' = Append(inbox, "closed")
    /\ UNCHANGED <<revision, child, flag, todo, pane, exit, waitVars,
                   published, streamVars, sends>>

Reap ==
    /\ child /\ child' = FALSE
    /\ inbox' = Append(inbox, "reaped")
    /\ UNCHANGED <<revision, reader, flag, todo, pane, exit, waitVars,
                   published, streamVars, sends>>

-----------------------------------------------------------------------------
(* The server loop: where its handlers start                               *)

Text == <<"text", "clear_text">>
Revisions == <<"revisions", "clear_revisions">>
OutputChanged == Revisions \o <<"publish">>

Free == todo = <<>>

Emit(event) ==
    IF stream \in {"starts", "forwards"}
    THEN IF Len(queue) < QueueCapacity
         THEN queue' = Append(queue, event) /\ UNCHANGED <<stream, shown, opened>>
         ELSE stream' = "cut" /\ queue' = <<>> /\ UNCHANGED <<shown, opened>>
    ELSE UNCHANGED streamVars

\* drop_leaf_runtime
Drop(reason) ==
    /\ pane' = reason /\ exit' = {}
    /\ waits' = [w \in Waits |-> IF waits[w] = "parked" THEN reason
                                 ELSE waits[w]]
    /\ Emit("gone")
    /\ UNCHANGED <<need, published, flag>>

HandleData ==
    /\ Free /\ inbox # <<>> /\ Head(inbox) = "data"
    /\ inbox' = Tail(inbox)
    /\ todo' = IF pane = "open" THEN Text \o OutputChanged ELSE <<>>
    /\ UNCHANGED <<readerVars, flag, pane, exit, waitVars, published,
                   streamVars, sends>>

\* note_pty_exit
HandleExit ==
    /\ Free /\ inbox # <<>> /\ Head(inbox) # "data"
    /\ inbox' = Tail(inbox)
    /\ IF pane = "open" /\ exit \cup {Head(inbox)} = {"closed", "reaped"}
       THEN Drop("exited")
       ELSE /\ exit' = IF pane = "open" THEN exit \cup {Head(inbox)} ELSE exit
            /\ UNCHANGED <<pane, waitVars, published, streamVars, flag>>
    /\ UNCHANGED <<readerVars, todo, sends>>

\* tick_pty_exits: PTY_EXIT_GRACE is over.
ExitDeadline ==
    /\ Free /\ pane = "open" /\ exit # {}
    /\ Drop("exited")
    /\ UNCHANGED <<readerVars, inbox, todo, sends>>

\* close_pane by the user; the PTY is torn down with it.
Close ==
    /\ Free /\ pane = "open"
    /\ Drop("closed")
    /\ UNCHANGED <<readerVars, inbox, todo, sends>>

\* tick_output_waits without the revision waits.
TickText ==
    /\ Free /\ Parked(Waits) # {}
    /\ todo' = Text
    /\ UNCHANGED <<readerVars, flag, inbox, pane, exit, waitVars, published,
                   streamVars, sends>>

\* tick_output_waits and tick_backend_revision_waits, every 100 ms.
Tick ==
    /\ Free /\ Parked(Waits) # {}
    /\ todo' = Text \o Revisions
    /\ UNCHANGED <<readerVars, flag, inbox, pane, exit, waitVars, published,
                   streamVars, sends>>

\* The flag is taken and nobody told.
RearmSilently ==
    /\ Free /\ flag /\ pane = "open"
    /\ flag' = FALSE
    /\ UNCHANGED <<readerVars, inbox, todo, pane, exit, waitVars, published,
                   streamVars, sends>>

\* rearm_pty_notify_by_visibility: a frame, or the fallback cadence.
Rearm ==
    /\ Free /\ flag /\ pane = "open"
    /\ flag' = FALSE /\ todo' = OutputChanged
    /\ UNCHANGED <<readerVars, inbox, pane, exit, waitVars, published,
                   streamVars, sends>>

\* Pane::send, try_send and try_submit_text.
Send ==
    /\ Free /\ pane = "open" /\ MayCall /\ sends < MaxSends
    /\ sends' = sends + 1 /\ flag' = FALSE
    /\ UNCHANGED <<readerVars, inbox, todo, pane, exit, waitVars, published,
                   streamVars>>

Register(w, n) ==
    /\ need' = [need EXCEPT ![w] = n]
    /\ waits' = [waits EXCEPT ![w] = IF n <= revision THEN "matched"
                                     ELSE "parked"]

\* register_output_wait
WaitText(w, n) ==
    /\ Free /\ pane = "open" /\ MayCall /\ waits[w] = "new"
    /\ Register(w, n)
    /\ UNCHANGED <<readerVars, flag, inbox, todo, pane, exit, published,
                   streamVars, sends>>

\* start_backend_wait
WaitRevision(w, n) ==
    /\ Free /\ pane = "open" /\ MayCall /\ waits[w] = "new"
    /\ Register(w, n)
    /\ todo' = IF n <= revision THEN <<>> ELSE <<"clear_revisions">>
    /\ UNCHANGED <<readerVars, flag, inbox, pane, exit, published,
                   streamVars, sends>>

\* The deadline of a wait, or its client is gone.
Expire(w) ==
    /\ Free /\ waits[w] = "parked"
    /\ waits' = [waits EXCEPT ![w] = "expired"]
    /\ UNCHANGED <<readerVars, flag, inbox, todo, pane, exit, need,
                   published, streamVars, sends>>

-----------------------------------------------------------------------------
(* The steps of its handlers                                               *)

Step(name) == todo # <<>> /\ Head(todo) = name /\ todo' = Tail(todo)

Answer(S) ==
    waits' = [w \in Waits |-> IF w \in Parked(S) /\ need[w] <= revision
                              THEN "matched" ELSE waits[w]]

\* check_output_waits and check_backend_revision_waits
Check ==
    /\ \/ Step("text") /\ Answer(TextWaits)
       \/ Step("revisions") /\ Answer(RevisionWaits)
    /\ UNCHANGED <<readerVars, flag, inbox, pane, exit, need, published,
                   streamVars, sends>>

\* rearm_pty_notify while a wait stays parked
Clear ==
    /\ \/ Step("clear_text") /\ flag' = (flag /\ Parked(TextWaits) = {})
       \/ /\ Step("clear_revisions")
          /\ flag' = (flag /\ Parked(RevisionWaits) = {})
    /\ UNCHANGED <<readerVars, inbox, pane, exit, waitVars, published,
                   streamVars, sends>>

\* backend_output_changed
Publish ==
    /\ Step("publish")
    /\ published' = revision
    /\ IF published # revision THEN Emit("ready") ELSE UNCHANGED streamVars
    /\ UNCHANGED <<readerVars, flag, inbox, pane, exit, waitVars, sends>>

-----------------------------------------------------------------------------
(* A terminal stream (handle_terminal_stream)                              *)

Subscribe ==
    /\ pane = "open" /\ stream \in {"off", "cut"} /\ MayCall
    /\ opened < MaxStreams /\ opened' = opened + 1
    /\ stream' = "starts" /\ queue' = <<>>
    /\ UNCHANGED <<readerVars, flag, inbox, todo, pane, exit, waitVars,
                   published, shown, sends>>

Forwarder(next) ==
    /\ stream' = next
    /\ UNCHANGED <<readerVars, flag, inbox, todo, pane, exit, waitVars,
                   published, opened, sends>>

FirstFrame ==
    /\ stream = "starts" /\ shown' = revision
    /\ Forwarder("forwards") /\ UNCHANGED queue

\* A frame shows the revision at its capture.
Forward ==
    /\ stream = "forwards" /\ queue # <<>>
    /\ queue' = Tail(queue)
    /\ IF Head(queue) = "gone"
       THEN Forwarder("ended") /\ UNCHANGED shown
       ELSE shown' = revision /\ Forwarder("forwards")

-----------------------------------------------------------------------------
ReaderStep == Produce \/ Announce \/ EndOfFile \/ Reap
Handle == HandleData \/ HandleExit
Steps == Check \/ Clear \/ Publish
StreamStep == FirstFrame \/ Forward
Calls ==
    \/ Send \/ Close \/ Subscribe
    \/ \E w \in TextWaits, n \in 1..MaxRevision : WaitText(w, n)
    \/ \E w \in RevisionWaits, n \in 1..MaxRevision : WaitRevision(w, n)
    \/ \E w \in Waits : Expire(w)

PaneNext ==
    \/ ReaderStep \/ Handle \/ ExitDeadline \/ Tick \/ Rearm
    \/ Calls \/ Steps \/ StreamStep

PaneSpec == PaneInit /\ [][PaneNext]_paneVars

\* The threads run on, and the loop's deadlines are due again and again; what
\* the loop is busy with in between may take the place of a re-arm or a tick.
PaneFairness ==
    /\ WF_paneVars(Announce) /\ WF_paneVars(Steps) /\ WF_paneVars(StreamStep)
    /\ WF_paneVars(Handle) /\ SF_paneVars(Tick) /\ SF_paneVars(Rearm)

FairSpec == PaneSpec /\ PaneFairness

-----------------------------------------------------------------------------
(* Properties                                                              *)

Statuses == {"new", "parked", "matched", "expired", "closed", "exited"}

PaneTypeOK ==
    /\ revision \in 0..MaxRevision /\ published \in 0..revision
    /\ shown \in 0..revision
    /\ reader \in {"reads", "announces", "ended"} /\ child \in BOOLEAN
    /\ flag \in BOOLEAN /\ inbox \in Seq({"data", "closed", "reaped"})
    /\ Len(todo) <= 5 /\ pane \in {"open", "closed", "exited"}
    /\ exit \in SUBSET {"closed", "reaped"}
    /\ need \in [Waits -> 0..MaxRevision] /\ waits \in [Waits -> Statuses]
    /\ stream \in {"off", "starts", "forwards", "cut", "ended"}
    /\ queue \in Seq({"ready", "gone"}) /\ Len(queue) <= QueueCapacity

\* Nobody has written to the pane or waited for its output: both clear the
\* flag of output that nobody has seen.
Undisturbed == sends = 0 /\ \A w \in Waits : waits[w] = "new"

\* Output that is not published yet has somebody who will come for it: the
\* reader, an announcement, the loop or the next re-arm (rearm_pty_notify_by_
\* visibility).
TailOwed ==
    Undisturbed /\ pane = "open" /\ published # revision =>
        \/ reader = "announces" \/ flag
        \/ \E i \in DOMAIN inbox : inbox[i] = "data"
        \/ \E i \in DOMAIN todo : todo[i] = "publish"

\* The final revision of a burst is shown by a terminal stream, also when it
\* arrived while the initial frame was written.
EventuallyStreamed ==
    <>[](\/ pane # "open" \/ stream # "forwards" \/ shown = revision
         \/ ~ Undisturbed)

\* A parked wait whose text or revision is there is answered, wherever in a
\* coalesced burst it arrived (check_output_waits).
WaitsAnswered ==
    \A w \in Waits :
        (waits[w] = "parked" /\ need[w] <= revision) ~> waits[w] # "parked"

\* Somebody comes for output that was coalesced.
PaneSafe == PaneTypeOK /\ TailOwed

\* A stream ends up at the last revision, and a wait that holds is answered.
PaneLive == EventuallyStreamed /\ WaitsAnswered
=============================================================================
