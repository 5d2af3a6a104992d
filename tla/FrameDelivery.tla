--------------------------- MODULE FrameDelivery ----------------------------
(***************************************************************************)
(* How frames reach the attached clients (ipc/server.rs, the damage of     *)
(* terminal/vt/alacritty.rs, the painting of ipc/client.rs).  The server   *)
(* loop sleeps until an event or a deadline, records why it must render,   *)
(* and renders all clients in one pass: full frames, or patches of the     *)
(* rows a terminal reports as damaged.  A client's writer takes one frame  *)
(* at a time; a client whose slot is taken falls behind and is repaired    *)
(* with a full frame.  Terminal output goes on during a pass.  Contents    *)
(* are version numbers of terminal rows and of the interface around them.  *)
(***************************************************************************)
EXTENDS Integers, FiniteSets

CONSTANTS
    Clients,        \* connections
    None,           \* no client, frame, buffer or pass
    Rows,           \* rows of the visible terminals
    MaxOutput,      \* bound: row changes by terminals
    MaxUi,          \* bound: changes of the interface
    MaxOps,         \* bound: attaches, detaches, resizes, hidden surfaces
    MaxChanges      \* bound: all of these together

Cells == Rows \cup {"chrome"}
Blank == [x \in Cells |-> -1]

\* What a client's buffer and screen hold, and what a frame carries of it.
Buffers == [Cells -> -1..MaxOutput + MaxUi]
Frames == UNION {[some -> -1..MaxOutput + MaxUi] : some \in SUBSET Cells}

\* ClientState, and what render_clients knows during a pass.
States == [buf : Buffers, base : Buffers \cup {None}, ready : BOOLEAN,
           full : BOOLEAN, behind : BOOLEAN, active : BOOLEAN,
           projected : BOOLEAN]
Passes == [todo : SUBSET Clients, generation : 0..MaxOutput,
           forced : BOOLEAN, patch : Frames \cup {None}]

ASSUME FrameAssumption ==
    /\ IsFiniteSet(Clients) /\ Rows # {} /\ "chrome" \notin Rows
    /\ None \notin Clients \cup Frames \cup States \cup Passes
    /\ {MaxOutput, MaxUi, MaxOps, MaxChanges} \subseteq Nat

VARIABLES
    content,        \* what the terminals and the interface show
    damage,         \* rows changed since damage was acknowledged
    generation,     \* output_generation
    announced,      \* output the loop has not handled
    awake,          \* the loop is past its wait
    request,        \* RenderRequest
    pass,           \* the render pass in progress, or None
    foreground,     \* the interactive client, or None
    client,         \* ClientState, or None
    slot,           \* the frame behind frame_pending, or None
    writing,        \* the frame its writer has taken, or None
    screen,         \* what the client has painted
    resized,        \* resizes on their way to the server
    ops             \* bound: client operations so far

contentVars == <<content, damage, generation, announced>>
loopVars == <<awake, request, pass, foreground>>
linkVars == <<slot, writing, screen, resized>>
vars == <<contentVars, loopVars, client, linkVars, ops>>

Init ==
    /\ content = [x \in Cells |-> 0] /\ damage = {} /\ generation = 0
    /\ announced = FALSE
    /\ awake = FALSE /\ request = {} /\ pass = None /\ foreground = None
    /\ client = [c \in Clients |-> None]
    /\ slot = [c \in Clients |-> None] /\ writing = [c \in Clients |-> None]
    /\ screen = [c \in Clients |-> Blank]
    /\ resized = [c \in Clients |-> FALSE]
    /\ ops = 0

Attached == {c \in Clients : client[c] # None}

\* render_clients visits these (surface_active).
Surfaces == {c \in Attached : client[c].active}

\* Clients of the whole session, which may have the foreground.
Whole == {c \in Attached : ~ client[c].projected}

MayChange == generation + content["chrome"] + ops < MaxChanges

-----------------------------------------------------------------------------
(* Terminals                                                               *)

\* A pane's reader; PaneOutput shows how the loop comes to know.
Output(r) ==
    /\ MayChange /\ generation < MaxOutput /\ generation' = generation + 1
    /\ content' = [content EXCEPT ![r] = @ + 1]
    /\ damage' = damage \cup {r}
    /\ announced' = TRUE
    /\ UNCHANGED <<loopVars, client, linkVars, ops>>

-----------------------------------------------------------------------------
(* Events of the server loop                                               *)

\* An event is applied outside a pass; most of them ask for a render.
Wake == pass = None /\ awake' = TRUE /\ UNCHANGED request
Event(cause) ==
    /\ pass = None
    /\ awake' = TRUE /\ request' = request \cup {cause}

HandleOutput ==
    /\ announced /\ announced' = FALSE
    /\ Event("pty")
    /\ UNCHANGED <<content, damage, generation, pass, foreground, client,
                   linkVars, ops>>

\* Anything that changes the interface, or forces a repair.
Ui ==
    /\ MayChange /\ content["chrome"] < MaxUi
    /\ content' = [content EXCEPT !["chrome"] = @ + 1]
    /\ \E cause \in {"ui", "forced"} : Event(cause)
    /\ UNCHANGED <<damage, generation, announced, pass, foreground, client,
                   linkVars, ops>>

Budget == MayChange /\ ops < MaxOps /\ ops' = ops + 1

\* ClientConnected; a projection starts hidden and is never foreground.
Attach(c) ==
    /\ Budget /\ client[c] = None
    /\ Event("client")
    /\ \E projected \in BOOLEAN :
        /\ client' = [client EXCEPT ![c] =
                    [buf |-> Blank, base |-> None, ready |-> FALSE,
                     full |-> TRUE, behind |-> FALSE, active |-> ~ projected,
                     projected |-> projected]]
        /\ foreground' = IF projected THEN foreground ELSE c
    /\ slot' = [slot EXCEPT ![c] = None]
    /\ writing' = [writing EXCEPT ![c] = None]
    /\ screen' = [screen EXCEPT ![c] = Blank]
    /\ resized' = [resized EXCEPT ![c] = FALSE]
    /\ UNCHANGED <<contentVars, pass>>

\* ClientDetach; latest_client takes the foreground.
Detach(c) ==
    /\ Budget /\ client[c] # None
    /\ \/ Event("client")
       \/ foreground # c /\ c \in Whole /\ Wake
    /\ client' = [client EXCEPT ![c] = None]
    /\ IF foreground = c
       THEN \/ foreground' \in Whole \ {c}
            \/ Whole = {c} /\ foreground' = None
       ELSE UNCHANGED foreground
    /\ UNCHANGED <<contentVars, pass, linkVars>>

\* The client's terminal changes its size: what it shows is void.
Resize(c) ==
    /\ Budget /\ client[c] # None
    /\ screen' = [screen EXCEPT ![c] = Blank]
    /\ resized' = [resized EXCEPT ![c] = TRUE]
    /\ UNCHANGED <<contentVars, loopVars, client, slot, writing>>

\* ClientInput::Resize; a hidden surface repairs itself when it is shown.
HandleResize(c) ==
    /\ resized[c] /\ client[c] # None
    /\ IF client[c].active
       THEN Event("client") /\ client' = [client EXCEPT ![c].full = TRUE]
       ELSE Wake /\ UNCHANGED client
    /\ resized' = [resized EXCEPT ![c] = FALSE]
    /\ UNCHANGED <<contentVars, pass, foreground, slot, writing, screen, ops>>

\* ClientInput::ProjectionInterest: hide or show the surface.
Interest(c) ==
    /\ Budget /\ client[c] # None /\ client[c].projected
    /\ Event("client")
    /\ client' = [client EXCEPT ![c].active = ~ @, ![c].full = TRUE,
                                ![c].ready = FALSE]
    /\ UNCHANGED <<contentVars, pass, foreground, linkVars>>

-----------------------------------------------------------------------------
(* One client of a render: render_client                                   *)

Apply(shown, frame) ==
    IF frame = None THEN shown
    ELSE [x \in Cells |-> IF x \in DOMAIN frame THEN frame[x] ELSE shown[x]]

\* Frame, or FrameDiff against the last one (diff_buffer).
FrameOf(full, base, buf) ==
    [x \in {y \in Cells : full \/ buf[y] # base[y]} |-> buf[x]]

\* try_send_frame
SendFrame(c, s, frame) ==
    IF slot[c] = None
    THEN /\ client' = [client EXCEPT ![c] = [s EXCEPT !.behind = FALSE,
                                                      !.full = FALSE]]
         /\ slot' = [slot EXCEPT ![c] = frame]
    ELSE /\ client' = [client EXCEPT ![c] = [s EXCEPT !.behind = TRUE,
                                                      !.ready = FALSE]]
         /\ UNCHANGED slot

MayPatch(s) == s.ready /\ ~ s.full /\ ~ s.behind /\ s.base # None

RenderClient(c, forced, patch) ==
    LET s == client[c]
        buf == IF patch # None /\ MayPatch(s) THEN Apply(s.buf, patch)
               ELSE content
        full == forced \/ s.full \/ s.behind \/ s.base = None
        next == [s EXCEPT !.buf = buf, !.base = buf,
                          !.ready = ~ s.projected]
    IN  IF ~ full /\ buf = s.base
        THEN client' = [client EXCEPT ![c] = next] /\ UNCHANGED slot
        ELSE SendFrame(c, next, FrameOf(full, s.base, buf))

\* Input of another client takes the foreground and renders it at once.
Promote(c) ==
    /\ Budget /\ c \in Whole /\ c # foreground
    /\ Event("ui")
    /\ foreground' = c
    /\ RenderClient(c, FALSE, None)
    /\ UNCHANGED <<contentVars, pass, writing, screen, resized>>

-----------------------------------------------------------------------------
(* The loop and its passes                                                 *)

FrameDue ==
    /\ pass = None /\ ~ awake /\ request # {} /\ Attached # {}
    /\ awake' = TRUE
    /\ UNCHANGED <<contentVars, request, pass, foreground, client, linkVars,
                   ops>>

\* A deadline or an event that changes nothing here.
OtherWake ==
    /\ pass = None /\ ~ awake
    /\ awake' = TRUE
    /\ UNCHANGED <<contentVars, request, pass, foreground, client, linkVars,
                   ops>>

\* Clients that are behind wait for the next change.
ReasonsSeen == request

\* any_behind counts as a reason to render.
Reasons ==
    IF \E c \in Surfaces : client[c].behind
    THEN request \cup {"resync"} ELSE request

\* Nothing to render, nobody to render for, or FRAME_INTERVAL is not over.
Sleep ==
    /\ pass = None /\ awake /\ awake' = FALSE
    /\ request' = Reasons
    /\ UNCHANGED <<contentVars, pass, foreground, client, linkVars, ops>>

\* render_clients: what was announced is consumed, then the damage captured.
StartPass ==
    /\ pass = None /\ awake /\ Reasons # {} /\ Attached # {}
    /\ LET candidate == /\ Reasons = {"pty"} /\ foreground # None
                        /\ MayPatch(client[foreground])
       IN  pass' = [todo |-> Surfaces, generation |-> generation,
                    forced |-> "forced" \in Reasons,
                    patch |-> IF candidate
                              THEN [r \in damage |-> content[r]] ELSE None]
    /\ announced' = FALSE
    /\ UNCHANGED <<content, damage, generation, awake, request, foreground,
                   client, linkVars, ops>>

RenderNext ==
    /\ pass # None
    /\ \E c \in pass.todo :
        /\ RenderClient(c, pass.forced, pass.patch)
        /\ pass' = [pass EXCEPT !.todo = @ \ {c}]
    /\ UNCHANGED <<contentVars, awake, request, foreground, writing, screen,
                   resized, ops>>

Finish ==
    /\ pass # None /\ pass.todo = {}
    /\ pass' = None /\ request' = {} /\ awake' = FALSE
    /\ UNCHANGED <<content, generation, announced, foreground, client,
                   linkVars, ops>>

\* Damage is forgotten whatever came since its capture.
EndPassAnyway == Finish /\ damage' = {}

\* acknowledge_damage, only for the captured generation.
EndPass ==
    /\ Finish
    /\ damage' = IF pass.generation = generation THEN {} ELSE damage

-----------------------------------------------------------------------------
(* A client's writer and its terminal                                      *)

\* Receiving a frame frees its slot, before the frame is written.
Take(c) ==
    /\ slot[c] # None /\ writing[c] = None
    /\ writing' = [writing EXCEPT ![c] = slot[c]]
    /\ slot' = [slot EXCEPT ![c] = None]
    /\ UNCHANGED <<contentVars, loopVars, client, screen, resized, ops>>

Paint(c) ==
    /\ writing[c] # None
    /\ screen' = [screen EXCEPT ![c] = Apply(@, writing[c])]
    /\ writing' = [writing EXCEPT ![c] = None]
    /\ UNCHANGED <<contentVars, loopVars, client, slot, resized, ops>>

-----------------------------------------------------------------------------
ClientOp(c) ==
    Attach(c) \/ Detach(c) \/ Resize(c) \/ Interest(c) \/ Promote(c)
Writer(c) == Take(c) \/ Paint(c)
Loop == HandleOutput \/ FrameDue \/ StartPass \/ RenderNext \/ EndPass

Next ==
    \/ \E r \in Rows : Output(r)
    \/ Ui \/ OtherWake \/ Sleep \/ Loop
    \/ \E c \in Clients : ClientOp(c) \/ HandleResize(c) \/ Writer(c)

Spec == Init /\ [][Next]_vars

\* The loop comes back to its work, a frame is due 16 ms after the last at
\* the latest, and every writer and terminal runs on.
Fairness ==
    /\ WF_vars(Sleep) /\ WF_vars(FrameDue) /\ SF_vars(HandleOutput)
    /\ SF_vars(StartPass) /\ WF_vars(RenderNext) /\ WF_vars(EndPass)
    /\ \A c \in Clients : WF_vars(Writer(c)) /\ SF_vars(HandleResize(c))

\* Something else wakes the loop again and again, as the detection of a
\* working agent does.
BusySpec == Spec /\ Fairness /\ SF_vars(OtherWake)

-----------------------------------------------------------------------------
(* Properties                                                              *)

TypeOK ==
    /\ content \in [Cells -> Nat] /\ damage \subseteq Rows
    /\ generation \in 0..MaxOutput /\ announced \in BOOLEAN
    /\ awake \in BOOLEAN
    /\ request \subseteq {"pty", "ui", "forced", "resync", "client"}
    /\ foreground \in Whole \cup {None}
    /\ (foreground = None) = (Whole = {})
    /\ client \in [Clients -> States \cup {None}]
    /\ \A c \in Attached : client[c].behind => ~ client[c].ready
    /\ slot \in [Clients -> Frames \cup {None}]
    /\ writing \in [Clients -> Frames \cup {None}]
    /\ screen \in [Clients -> Buffers] /\ resized \in [Clients -> BOOLEAN]
    /\ pass \in Passes \cup {None}

\* What a client has painted and what is on its way add up to the buffer the
\* next diff is computed from, unless the next frame is a full one.
BaselineHolds ==
    \A c \in Attached :
        LET s == client[c]
        IN  s.base # None /\ ~ s.full /\ ~ s.behind /\ ~ resized[c] =>
                Apply(Apply(screen[c], writing[c]), slot[c]) = s.base

\* All clients consume the same damage before it is acknowledged: a buffer
\* that may be patched differs from the contents in damaged rows only, or
\* where a full render is due.
RetainedFresh ==
    pass = None =>
        \A c \in Surfaces :
            MayPatch(client[c]) =>
                \A x \in Cells :
                    \/ client[c].buf[x] = content[x]
                    \/ x \in damage
                    \/ x = "chrome" /\ request \cap {"ui", "forced"} # {}

\* Nobody is left with a stale screen: when output ends, every visible
\* client shows it, also one that fell behind.
EventuallyCurrent ==
    <>[](\A c \in Surfaces : screen[c] = content)

\* Every diff and every patch starts from what the client has.
FrameSafe == TypeOK /\ BaselineHolds /\ RetainedFresh
=============================================================================
