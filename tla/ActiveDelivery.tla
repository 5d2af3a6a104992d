--------------------------- MODULE ActiveDelivery ---------------------------
(***************************************************************************)
(* Scheduled prompts for an agent that is already running                  *)
(* (app/automation.rs: deliver_active_agent_run and what leads to it).  A  *)
(* prompt is submitted only after its dispatch intent is on disk; while     *)
(* the intent is being saved, panes close, agents get busy and definitions  *)
(* change.                                                                 *)
(*                                                                         *)
(* One pane at a time hosts the conversation the definitions point at.  Its *)
(* terminal is a number: every spawn is a new lifetime.  A definition, and  *)
(* a run, points at a terminal; a durable one also knows the native         *)
(* identity of the conversation and follows it to another terminal.         *)
(* Checkpoints are those of AutomationCheckpoint, one snapshot at a time,   *)
(* reduced to a change that no snapshot holds and a snapshot in flight.     *)
(***************************************************************************)
EXTENDS Integers, Sequences, FiniteSets

CONSTANTS
  Autos,       \* active-agent definitions
  Identity,    \* the conversation can prove a native identity
  SkipsBusy,   \* definitions whose policy is to skip a busy agent
  MaxRuns,     \* bound: occurrences
  MaxTerms,    \* bound: terminal lifetimes
  MaxEdits,    \* bound: calls that change a definition
  MaxFaults,   \* bound: writes that fail
  MaxCrashes   \* bound: restarts

ASSUME DeliveryAssumption ==
  /\ Identity \in BOOLEAN
  /\ SkipsBusy \subseteq Autos
  /\ {MaxRuns, MaxTerms, MaxEdits, MaxFaults, MaxCrashes} \subseteq Nat
  /\ MaxTerms # 0

VARIABLES
  ledger,    \* AutomationState: definitions and runs
  disk,      \* automations.json
  dirty,     \* a change no snapshot holds
  saving,    \* the snapshot in flight, or NoSave
  waiter,    \* the run whose dispatch intent is being saved, or NoWaiter
  route,     \* active_target_states; "bound" is ready_active_targets
  pane,      \* the pane of the conversation
  submitted, \* per run, the server lifetimes its prompt was submitted in
  origin,    \* per run, the terminal its definition pointed at
  terms, edits, faults, crashes

store == <<disk, dirty, saving>>
ghosts == <<submitted, origin>>
bounds == <<edits, faults, crashes>>
vars == <<ledger, store, waiter, route, pane, terms, ghosts, bounds>>

-----------------------------------------------------------------------------
(* The ledger *)

Live == {"pending", "starting"}
Finished == {"delivered", "failed", "skipped", "cancelled"}

NoSave == [ledger |-> <<>>, result |-> "none"]
NoWaiter == [run |-> 0, wasEnabled |-> FALSE]

Ids(led) == DOMAIN led.runs
LiveRuns(led, as) == {r \in Ids(led) : led.runs[r].auto \in as /\ led.runs[r].status \in Live}

\* The ledger with these runs in a status.
WithRuns(led, rs, status) ==
  [led EXCEPT !.runs = [r \in Ids(led) |->
     IF r \in rs THEN [led.runs[r] EXCEPT !.status = status, !.note = ""] ELSE led.runs[r]]]

\* A run goes on waiting, for this reason.
Waits(led, r, note) == [led EXCEPT !.runs[r].status = "pending", !.runs[r].note = note]

\* set_enabled(id, false): what has not been delivered is cancelled.
Disabled(led, a) ==
  [WithRuns(led, LiveRuns(led, {a}), "cancelled") EXCEPT !.defs[a].enabled = FALSE]

\* finish_active_agent_run, disabling the definition of a lost target.
Finish(led, r, status) == WithRuns(led, {r}, status)
FailedForGood(led, r) == Disabled(Finish(led, r, "failed"), led.runs[r].auto)

\* expire_active_agent_targets: the target of these definitions is gone.
Expired(led, as) ==
  [WithRuns(led, LiveRuns(led, as), "failed") EXCEPT
     !.defs = [a \in Autos |-> [led.defs[a] EXCEPT !.enabled = led.defs[a].enabled /\ a \notin as]]]

ProcessBound(led) == {a \in Autos : ~led.defs[a].target.durable}

\* A definition and its waiting runs get a new target.  set_active_route changes
\* the runs that have an identity, replace_active_target all of them.
Retargeted(led, a, target, all) ==
  [led EXCEPT
     !.defs[a].target = target,
     !.runs = [r \in Ids(led) |->
        IF /\ led.runs[r].auto = a
           /\ led.runs[r].status = "pending"
           /\ all \/ led.runs[r].target.durable
        THEN [led.runs[r] EXCEPT !.target = target]
        ELSE led.runs[r]]]

-----------------------------------------------------------------------------
(* Saving *)

SavePending == dirty \/ saving # NoSave

Snapshot(led) == [ledger |-> led, result |-> "writing"]

\* A change when no snapshot is in flight: its save starts at once, unless the
\* job queue is full or a backoff is running.
Save(led) ==
  /\ ledger' = led
  /\ \/ saving' = Snapshot(led) /\ dirty' = FALSE
     \/ saving' = NoSave /\ dirty' = TRUE

\* persist_automation
Persist(led) ==
  /\ IF saving = NoSave THEN Save(led) ELSE ledger' = led /\ dirty' = TRUE /\ UNCHANGED saving
  /\ UNCHANGED disk

-----------------------------------------------------------------------------
(* Delivery *)

\* pane_matches_durable_identity
Proven(p) == p.term # 0 /\ p.proof # "none"

\* validate_active_agent_target
Valid(target, p) == p.agent /\ p.term # 0 /\ target.term = p.term /\ (target.durable => Proven(p))

\* What deliver_active_agent_run finds for a waiting run.
Verdict(run, p, rt) ==
  IF ~Valid(run.target, p) THEN IF run.target.durable THEN "unavailable" ELSE "gone"
  ELSE IF run.target.durable /\ rt[run.auto] # "bound" THEN "unready"
  ELSE IF p.busy THEN IF run.auto \in SkipsBusy THEN "skip" ELSE "busy"
  ELSE "dispatch"

Attempted(led, r, verdict) ==
  CASE verdict = "gone" -> FailedForGood(led, r)
    [] verdict = "skip" -> Finish(led, r, "skipped")
    [] verdict = "dispatch" -> WithRuns(led, {r}, "starting")
    [] OTHER -> Waits(led, r, verdict)

\* The runs an attempt changes: one that already waits for the same reason is
\* left alone.
Acting(led, p, rt) ==
  {r \in Ids(led) : led.runs[r].status = "pending" /\ led.runs[r].note # Verdict(led.runs[r], p, rt)}

\* start_pending_automation_runs, with nothing to save: the runs among rs are
\* tried in order until one changes the ledger.  That is persisted, so nothing
\* else is tried before the checkpoint.
StartFirst(led, rs, p, rt) ==
  LET acting == rs \cap Acting(led, p, rt)
  IN  IF acting = {}
      THEN ledger' = led /\ saving' = NoSave /\ dirty' = FALSE /\ waiter' = NoWaiter
      ELSE \E r \in acting :
        LET verdict == Verdict(led.runs[r], p, rt)
        IN  /\ \A q \in acting : r <= q
            /\ Save(Attempted(led, r, verdict))
            /\ waiter' = IF verdict = "dispatch"
                         THEN [run |-> r, wasEnabled |-> led.defs[led.runs[r].auto].enabled]
                         ELSE NoWaiter

\* wake_active_agent_automations: the runs aimed at this pane.  A restored pane
\* may have the number of the one an older terminal ran in.
Wake(p, rt) ==
  LET here == {r \in Ids(ledger) : ledger.runs[r].target.term = p.term}
  IN  IF SavePending THEN UNCHANGED <<ledger, store, waiter>>
      ELSE (\E rs \in {here, Ids(ledger)} : StartFirst(ledger, rs, p, rt)) /\ UNCHANGED disk

-----------------------------------------------------------------------------
(* Calls *)

Init ==
  /\ \E kinds \in [Autos -> {FALSE, Identity}] :
       /\ ledger = [defs |-> [a \in Autos |-> [enabled |-> TRUE,
                                               target |-> [term |-> 1, durable |-> kinds[a]]]],
                    runs |-> <<>>]
       /\ route = [a \in Autos |-> IF kinds[a] THEN "bound" ELSE "none"]
  /\ disk = ledger
  /\ dirty = FALSE
  /\ saving = NoSave
  /\ waiter = NoWaiter
  /\ pane = [term |-> 1, agent |-> TRUE, proof |-> IF Identity THEN "ready" ELSE "none", busy |-> FALSE]
  /\ submitted = [r \in 1..MaxRuns |-> <<>>]
  /\ origin = [r \in 1..MaxRuns |-> 0]
  /\ terms = 1
  /\ edits = 0 /\ faults = 0 /\ crashes = 0

\* automation.run, or an occurrence that is due: an automation has at most one
\* live run here.  Its launch waits for the checkpoint.
Request(a) ==
  LET n == Len(ledger.runs) + 1
      run == [auto |-> a, target |-> ledger.defs[a].target, status |-> "pending", note |-> ""]
  IN  /\ n <= MaxRuns
      /\ LiveRuns(ledger, {a}) = {}
      /\ Persist([ledger EXCEPT !.runs = Append(ledger.runs, run)])
      /\ origin' = [origin EXCEPT ![n] = run.target.term]
      /\ UNCHANGED <<waiter, route, pane, terms, submitted, bounds>>

Edit ==
  /\ edits < MaxEdits
  /\ edits' = edits + 1
  /\ UNCHANGED <<waiter, pane, terms, ghosts, faults, crashes>>

\* automation.disable
Disable(a) == Edit /\ Persist(Disabled(ledger, a)) /\ UNCHANGED route

\* automation.enable, which validates the target first
Enable(a) ==
  /\ Edit
  /\ Valid(ledger.defs[a].target, pane)
  /\ Persist([ledger EXCEPT !.defs[a].enabled = TRUE])
  /\ UNCHANGED route

\* How a durable definition stands with the pane (reconcile_durable_active_targets,
\* initialize_durable_active_target_state).
RouteState(p) ==
  CASE p.proof = "ready" -> "bound" [] p.proof = "session" -> "restoring" [] OTHER -> "needs_rebind"

\* automation.update: the definition is bound to the agent that runs now, durably
\* when the pane proves an identity.  Its runs keep their target.
Update(a) ==
  /\ Edit
  /\ pane.agent /\ pane.term # 0
  /\ \E on \in BOOLEAN :
       Persist([ledger EXCEPT !.defs[a] =
                  [enabled |-> on, target |-> [term |-> pane.term, durable |-> Proven(pane)]]])
  /\ route' = [route EXCEPT ![a] = IF Proven(pane) THEN RouteState(pane) ELSE "none"]

\* automation.rebind: the definition becomes durable, with its waiting runs.
Rebind(a) ==
  /\ Edit
  /\ pane.agent /\ Proven(pane)
  /\ Persist(Retargeted(ledger, a, [term |-> pane.term, durable |-> TRUE], TRUE))
  /\ route' = [route EXCEPT ![a] = RouteState(pane)]

-----------------------------------------------------------------------------
(* The pane *)

Durable(led) == Autos \ ProcessBound(led)

\* reconcile_durable_active_targets: definitions with an identity, and their
\* waiting runs, follow the conversation to the pane that proves it.
Followed(led, p) ==
  IF ~Proven(p) THEN led
  ELSE LET follows(x) == x.durable
           there == [term |-> p.term, durable |-> TRUE]
       IN  [led EXCEPT
              !.defs = [a \in Autos |-> IF follows(led.defs[a].target)
                                        THEN [led.defs[a] EXCEPT !.target = there] ELSE led.defs[a]],
              !.runs = [r \in Ids(led) |->
                 IF /\ follows(led.defs[led.runs[r].auto].target)
                    /\ follows(led.runs[r].target)
                    /\ led.runs[r].status = "pending"
                 THEN [led.runs[r] EXCEPT !.target = there] ELSE led.runs[r]]]

Routes(led, state, rt) == [a \in Autos |-> IF a \in Durable(led) THEN state ELSE rt[a]]

\* The pane is now p: routes and readiness follow; a change of either is
\* persisted, and without one the runs aimed here are tried.
Reconcile(p) ==
  LET rt == Routes(ledger, RouteState(p), route)
  IN  /\ pane' = p
      /\ route' = rt
      /\ IF Followed(ledger, p) # ledger \/ rt # route
         THEN Persist(Followed(ledger, p)) /\ UNCHANGED waiter
         ELSE IF p.proof = "ready" THEN Wake(p, rt)
         ELSE UNCHANGED <<ledger, store, waiter>>

PaneStep == UNCHANGED <<terms, ghosts, bounds>>

\* A report of an integration, or a process scan, shows the agent in the pane; a
\* session that was claimed before now has evidence that it runs.
AgentSeen ==
  /\ pane.term # 0
  /\ Reconcile([pane EXCEPT !.agent = TRUE, !.proof = IF Proven(pane) THEN "ready" ELSE @])
  /\ PaneStep

\* pane.session: the integration claims the conversation of the pane, which also
\* makes the route ready (confirm_durable_active_target).
SessionClaim ==
  /\ Identity /\ pane.term # 0 /\ ~Proven(pane)
  /\ LET p == [pane EXCEPT !.agent = TRUE, !.proof = "session"]
         rt == Routes(ledger, "restoring", route)
     IN  /\ pane' = p
         /\ route' = Routes(ledger, "bound", route)
         /\ IF Followed(ledger, p) # ledger \/ rt # route
            THEN Persist(Followed(ledger, p)) /\ UNCHANGED waiter
            ELSE IF route' # route THEN Wake(p, route') ELSE UNCHANGED <<ledger, store, waiter>>
  /\ PaneStep

\* The agent exits: two process scans did not see it.  Or only the claim of its
\* session is released.
AgentGone ==
  /\ pane.agent
  /\ \E stays \in {FALSE, Identity} :
       Reconcile([pane EXCEPT !.agent = stays, !.proof = "none"])
  /\ PaneStep

\* The process table could not be read, for the third time: nothing shows the
\* agent any more.  This is not persisted.
ScanFailed ==
  /\ pane.term # 0
  /\ route' = Routes(ledger, "needs_rebind", route)
  /\ UNCHANGED <<ledger, store, waiter, pane>>
  /\ PaneStep

\* publish_agent_state: the agent works, or is free again.
AgentState ==
  /\ pane.term # 0
  /\ pane' = [pane EXCEPT !.busy = ~pane.busy]
  /\ Wake(pane', route)
  /\ UNCHANGED route
  /\ PaneStep

Closed == [term |-> 0, agent |-> FALSE, proof |-> "none", busy |-> FALSE]

\* close_pane: process-bound definitions of this pane end with it.
PaneClose ==
  LET lost == {a \in ProcessBound(ledger) : ledger.defs[a].target.term = pane.term}
  IN  /\ pane.term # 0
      /\ pane' = Closed
      /\ route' = Routes(ledger, "needs_rebind", route)
      /\ IF lost = {} THEN UNCHANGED <<ledger, store>> ELSE Persist(Expired(ledger, lost))
      /\ UNCHANGED waiter
      /\ PaneStep

\* The conversation gets a pane again; nothing is known of it yet.
PaneOpen ==
  /\ pane.term = 0
  /\ terms < MaxTerms
  /\ terms' = terms + 1
  /\ pane' = [Closed EXCEPT !.term = terms + 1]
  /\ UNCHANGED <<ledger, store, waiter, route, ghosts, bounds>>

-----------------------------------------------------------------------------
(* Checkpoints *)

\* The backoff is over, or the job queue has room again.
SaveTick ==
  /\ dirty /\ saving = NoSave
  /\ saving' = Snapshot(ledger)
  /\ dirty' = FALSE
  /\ UNCHANGED <<ledger, disk, waiter, route, pane, terms, ghosts, bounds>>

\* The file is replaced atomically; a write that fails may have reached the disk.
Write ==
  /\ saving.result = "writing"
  /\ \/ /\ disk' = saving.ledger
        /\ saving' = [saving EXCEPT !.result = "ok"]
        /\ UNCHANGED faults
     \/ /\ faults < MaxFaults
        /\ faults' = faults + 1
        /\ disk' \in {disk, saving.ledger}
        /\ saving' = [saving EXCEPT !.result = "error"]
  /\ UNCHANGED <<ledger, dirty, waiter, route, pane, terms, ghosts, edits, crashes>>

Awaited == waiter.run # 0 /\ ledger.runs[waiter.run].status = "starting"
DisabledMeanwhile == waiter.wasEnabled /\ ~ledger.defs[ledger.runs[waiter.run].auto].enabled

\* the target is not looked at again.
OutcomesUnchecked == {[ledger |-> Finish(ledger, waiter.run, "delivered"), sent |-> TRUE]}

\* the prompt is submitted before the readiness is looked at.
OutcomesEager ==
  LET r == waiter.run
  IN  IF Verdict(ledger.runs[r], pane, route) \in {"dispatch", "gone", "unavailable"}
      THEN {[ledger |-> Finish(ledger, r, "delivered"), sent |-> TRUE]}
      ELSE {[ledger |-> Waits(ledger, r, "changed"), sent |-> TRUE]}

Outcomes ==
  LET r == waiter.run
      verdict == Verdict(ledger.runs[r], pane, route)
  IN  IF DisabledMeanwhile THEN {[ledger |-> Finish(ledger, r, "cancelled"), sent |-> FALSE]}
      ELSE IF ~Valid(ledger.runs[r].target, pane) THEN {[ledger |-> FailedForGood(ledger, r), sent |-> FALSE]}
      ELSE IF verdict # "dispatch" THEN {[ledger |-> Waits(ledger, r, "changed"), sent |-> FALSE]}
      ELSE {[ledger |-> Finish(ledger, r, "delivered"), sent |-> TRUE],
            [ledger |-> FailedForGood(ledger, r), sent |-> FALSE]}

SentIf(sent) ==
  submitted' = IF sent THEN [submitted EXCEPT ![waiter.run] = Append(@, crashes)] ELSE submitted

\* what waits is not tried once everything is saved.
CompleteOkSilent ==
  /\ saving.result = "ok"
  /\ waiter' = NoWaiter
  /\ IF Awaited
     THEN \E out \in Outcomes : Save(out.ledger) /\ SentIf(out.sent)
     ELSE saving' = NoSave /\ UNCHANGED <<ledger, dirty, submitted>>
  /\ UNCHANGED <<disk, route, pane, terms, origin, bounds>>

\* The checkpoint is on disk: the prompt that waited for it is submitted, what
\* changed meanwhile is saved, and when nothing is left to save, what waits is
\* tried.
CompleteOk ==
  /\ saving.result = "ok"
  /\ IF Awaited
     THEN \E out \in Outcomes : Save(out.ledger) /\ SentIf(out.sent) /\ waiter' = NoWaiter
     ELSE /\ SentIf(FALSE)
          /\ IF dirty THEN Save(ledger) /\ waiter' = NoWaiter
             ELSE StartFirst(ledger, Ids(ledger), pane, route)
  /\ UNCHANGED <<disk, route, pane, terms, origin, bounds>>

\* It could not be saved: no run launches on it.  Those that wait fail, so does
\* the one whose intent it was, and only the bookkeeping is tried again.
CompleteError ==
  LET waiting == {r \in Ids(ledger) : ledger.runs[r].status = "pending"}
      failed == WithRuns(ledger, waiting, "failed")
  IN  /\ saving.result = "error"
      /\ ledger' = IF Awaited
                   THEN Finish(failed, waiter.run, IF DisabledMeanwhile THEN "cancelled" ELSE "failed")
                   ELSE failed
      /\ waiter' = NoWaiter
      /\ saving' = NoSave
      /\ dirty' = TRUE
      /\ UNCHANGED <<disk, route, pane, terms, ghosts, bounds>>

-----------------------------------------------------------------------------
(* Restart *)

\* reconcile_automations on a process-bound definition: nothing of it survives.
ExpiredAtBoot(led) == Expired(led, ProcessBound(led))

\* ... and on a durable one: a run without an orchestration task goes back to the
\* launch queue.
Recovered(led) ==
  WithRuns(led, {r \in Ids(led) : led.runs[r].status = "starting"}, "pending")

\* The server stops, or crashes, and starts again from the disk.  An orderly stop
\* writes the ledger first.  The session file brings the pane back in a new
\* terminal, or not.
Restart ==
  /\ crashes < MaxCrashes
  /\ crashes' = crashes + 1
  /\ \E last \in {disk, ledger} \cup (IF saving = NoSave THEN {} ELSE {saving.ledger}) :
       LET expired == ExpiredAtBoot(last)
           recovered == Recovered(expired)
       IN  \E p \in {Closed} \cup
              (IF terms = MaxTerms THEN {}
               ELSE [term : {terms + 1}, agent : BOOLEAN, proof : {"none"} \cup (IF Identity THEN {"session"} ELSE {}),
                     busy : {FALSE}]) :
             LET led == Followed(recovered, p)
                 rt == [a \in Autos |-> IF a \in Durable(last) THEN RouteState(p) ELSE "none"]
                 first == IF ProcessBound(last) # {} THEN expired
                          ELSE IF recovered # last THEN recovered ELSE led
                 saves == ProcessBound(last) # {} \/ recovered # last \/ (Proven(p) /\ Durable(last) # {})
             IN  /\ Proven(p) => p.agent
                 /\ pane' = p
                 /\ terms' = IF p.term = 0 THEN terms ELSE terms + 1
                 /\ disk' = last
                 /\ route' = rt
                 /\ IF saves
                    THEN ledger' = led /\ saving' = Snapshot(first) /\ dirty' = (led # first) /\ waiter' = NoWaiter
                    ELSE StartFirst(led, Ids(led), p, rt)
  /\ UNCHANGED <<ghosts, edits, faults>>

Next ==
  \/ \E a \in Autos : Request(a) \/ Disable(a) \/ Enable(a) \/ Update(a) \/ Rebind(a)
  \/ AgentSeen \/ SessionClaim \/ AgentGone \/ ScanFailed \/ AgentState \/ PaneClose \/ PaneOpen
  \/ SaveTick \/ Write \/ CompleteOk \/ CompleteError
  \/ Restart

\* The filesystem worker runs the save it was given, the event loop applies its
\* completion and ticks.  Nobody has to open a pane or make an agent free.
Fairness == WF_vars(SaveTick) /\ WF_vars(Write) /\ WF_vars(CompleteOk) /\ WF_vars(CompleteError)

Spec == Init /\ [][Next]_vars /\ Fairness

-----------------------------------------------------------------------------
(* Properties *)

Targets == [term : 1..MaxTerms, durable : BOOLEAN]
Runs == [auto : Autos, target : Targets, status : Live \cup Finished,
         note : {"", "unavailable", "unready", "busy", "changed"}]

LedgerOK(led) ==
  /\ led.defs \in [Autos -> [enabled : BOOLEAN, target : Targets]]
  /\ led.runs \in Seq(Runs) /\ Len(led.runs) <= MaxRuns

\* Every variable keeps its type.
TypeOK ==
  /\ LedgerOK(ledger) /\ LedgerOK(disk)
  /\ dirty \in BOOLEAN
  /\ saving # NoSave => saving.result \in {"writing", "ok", "error"} /\ LedgerOK(saving.ledger)
  /\ waiter.run \in 0..MaxRuns /\ waiter.wasEnabled \in BOOLEAN
  /\ route \in [Autos -> {"none", "needs_rebind", "restoring", "bound"}]
  /\ pane \in [term : 0..MaxTerms, agent : BOOLEAN, proof : {"none", "session", "ready"}, busy : BOOLEAN]
  /\ \A r \in 1..MaxRuns : submitted[r] \in Seq(0..MaxCrashes)
  /\ terms \in 1..MaxTerms

Sends(r) == Len(submitted'[r]) > Len(submitted[r])

\* The prompt of an occurrence is submitted at most once in a server lifetime,
\* and that of a definition bound to its terminal once over all of them.
PromptOnce ==
  \A r \in 1..MaxRuns :
    /\ \A i, j \in DOMAIN submitted[r] : i # j => submitted[r][i] # submitted[r][j]
    /\ r \in Ids(ledger) /\ ~ledger.runs[r].target.durable => Len(submitted[r]) <= 1

\* When a prompt is submitted, the disk holds its dispatch intent.
IntentFirst ==
  [][\A r \in 1..MaxRuns : Sends(r) => r \in Ids(disk) /\ disk.runs[r].status = "starting"]_vars

\* A prompt reaches only a running, idle agent: without an identity the one in
\* the very terminal its definition pointed at, with one the conversation that
\* the pane proves, whatever happened to panes during the save.
RightAgent ==
  [][\A r \in 1..MaxRuns : Sends(r) =>
       /\ pane.agent /\ ~pane.busy
       /\ IF ledger.runs[r].target.durable THEN Proven(pane) ELSE pane.term = origin[r]]_vars

\* A run that ended, by a disable, a lost target or a failed checkpoint, is over
\* for this server lifetime: it neither revives nor submits its prompt.
OverIsOver ==
  [][\A r \in Ids(ledger) :
       ledger.runs[r].status \in Finished /\ crashes' = crashes =>
         ledger'.runs[r].status = ledger.runs[r].status /\ submitted'[r] = submitted[r]]_vars

Deliverable(r) ==
  /\ r \in Ids(ledger)
  /\ ledger.runs[r].status = "pending"
  /\ Verdict(ledger.runs[r], pane, route) = "dispatch"

\* No wake-up is lost: a run whose agent is ready and stays so leaves the queue,
\* although agents wake runs only when nothing waits to be saved.  A change of a
\* route is saved like any other and postpones every launch to another
\* checkpoint; routes that change for ever are left out.
NoLostWakeup ==
  []<><<route' # route>>_vars \/ \A r \in 1..MaxRuns : Deliverable(r) ~> ~Deliverable(r)

\* A saved intent is acted upon or given up.
IntentResolved ==
  \A r \in 1..MaxRuns :
    (r \in Ids(ledger) /\ ledger.runs[r].status = "starting") ~>
      ~(r \in Ids(ledger) /\ ledger.runs[r].status = "starting")

\* No prompt is submitted twice.
DeliverySafe == TypeOK /\ PromptOnce

\* A prompt goes out after its intent was saved, to the agent it was meant for, and
\* for a run that has not ended.
PromptsRight == IntentFirst /\ RightAgent /\ OverIsOver

\* A run whose agent stays ready is tried, and a saved intent is acted upon.
DeliveryLive == NoLostWakeup /\ IntentResolved
=============================================================================
