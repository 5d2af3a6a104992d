---------------------------- MODULE ScheduledRuns ----------------------------
(***************************************************************************)
(* Scheduled workers: occurrences become runs of the automation ledger, a  *)
(* run becomes a task of the orchestration ledger, a task a worker          *)
(* (automation/mod.rs, app/automation.rs).  The two ledgers are two files,  *)
(* written one after the other: orch.json at once and at best effort,       *)
(* automations.json by checkpoints, and a worker starts only when both hold *)
(* its occurrence.                                                          *)
(*                                                                         *)
(* A definition's schedule is an interval of one unit of the clock, or the  *)
(* single instant 1.  Of a task only the status, the owner and the binding  *)
(* to a place remain (OrchState has the rest); gates are left out, so a     *)
(* task completes at once.                                                  *)
(***************************************************************************)
EXTENDS Integers, Sequences, FiniteSets, SequencesExt

CONSTANTS
  Autos,       \* definitions that launch a new worker
  Once,        \* those with a single instant
  QueueOne,    \* those with overlap queue_one; the others skip
  RunLatest,   \* those with misfire run_latest; the others skip
  Grace,       \* misfire_grace_seconds
  Deletes,     \* tasks are deleted, and merged while they need attention
  MaxTime, MaxRuns, MaxTasks, MaxEdits,
  MaxFaults,   \* bound: saves of either file that fail
  MaxCrashes

ASSUME RunsAssumption ==
  /\ IsFiniteSet(Autos)
  /\ Once \subseteq Autos /\ QueueOne \subseteq Autos /\ RunLatest \subseteq Autos
  /\ Deletes \in BOOLEAN
  /\ {Grace, MaxTime, MaxRuns, MaxTasks, MaxEdits, MaxFaults, MaxCrashes} \subseteq Nat

VARIABLES
  now,        \* the clock of the server
  ledger,     \* AutomationState
  autoDisk,   \* automations.json
  dirty,      \* a change no snapshot holds
  saving,     \* the snapshot in flight, or NoSave
  orch,       \* OrchState: the tasks of the occurrences
  orchDisk,   \* orch.json
  launches,   \* the occurrences whose worker was launched, in order
  edits, crashes,
  faults,     \* failed checkpoints and task creations
  lost        \* failed best-effort saves of orch.json

store == <<autoDisk, dirty, saving>>
tasks == <<orch, orchDisk, lost>>
vars == <<now, ledger, store, tasks, launches, edits, faults, crashes>>

-----------------------------------------------------------------------------
(* The automation ledger *)

Active == {"starting", "running", "review"}
Live == {"pending"} \cup Active
Over == {"succeeded", "failed", "skipped", "cancelled"}

NoSave == [ledger |-> <<>>, result |-> "none"]

Ids(led) == DOMAIN led.runs
RunsOf(led, a, statuses) == {r \in Ids(led) : led.runs[r].auto = a /\ led.runs[r].status \in statuses}

\* What a run is for: a scheduled time, or the request (its number) of an operator.
Occurrence(run) == [auto |-> run.auto, at |-> run.at, request |-> run.request]

WithStatus(led, rs, status) ==
  [led EXCEPT !.runs = [r \in Ids(led) |-> IF r \in rs THEN [led.runs[r] EXCEPT !.status = status] ELSE led.runs[r]]]

NewRun(a, at, status, request, retry) ==
  [auto |-> a, at |-> at, status |-> status, task |-> 0, request |-> request, retry |-> retry]
PushRun(led, run) == [led EXCEPT !.runs = Append(led.runs, run)]

\* run_for_task_mut: none once the run was retried.
RunsForTask(led, t) ==
  {r \in Ids(led) : led.runs[r].task = t /\ \A q \in Ids(led) : led.runs[q].retry # r}

\* pending_runs: the oldest waiting run of each automation without a live worker.
PendingRuns(led) ==
  {r \in Ids(led) :
     /\ led.runs[r].status = "pending"
     /\ RunsOf(led, led.runs[r].auto, Active) = {}
     /\ \A q \in RunsOf(led, led.runs[r].auto, {"pending"}) : r <= q}

-----------------------------------------------------------------------------
(* Due occurrences *)

FirstAtOrAfter(a, time) ==
  IF a \in Once THEN (IF time <= 1 THEN 1 ELSE 0) ELSE IF time = 0 THEN 1 ELSE time

NextAfter(a, time) == IF a \in Once THEN 0 ELSE time + 1

\* The occurrence that stands for all missed ones.
OccurrenceAt(led, a, time) ==
  IF a \in RunLatest /\ a \notin Once THEN time ELSE led.defs[a].next

Duplicate(led, a, at) ==
  \E r \in Ids(led) : led.runs[r].auto = a /\ led.runs[r].at = at /\ led.runs[r].retry = 0

\* What becomes of a due occurrence: the status of its run, or none.
DueStatus(led, a, at, time) ==
  LET busy   == RunsOf(led, a, Active) # {}
      queued == RunsOf(led, a, {"pending"}) # {}
      late   == time - at > Grace
  IN  IF Duplicate(led, a, at) THEN "none"
      ELSE IF \/ (busy \/ queued) /\ a \notin QueueOne
              \/ late /\ a \notin RunLatest
              \/ queued
           THEN "skipped"
      ELSE "pending"

Due(led, time) == {a \in Autos : led.defs[a].enabled /\ led.defs[a].next \in 1..time}

\* The definitions whose occurrence leaves a run, in the order of the ledger.
Collected(led, time) ==
  SetToSeq({a \in Due(led, time) : DueStatus(led, a, OccurrenceAt(led, a, time), time) # "none"})

\* A due definition leaves one run at most, and its deadline is after now.
CollectDue(led, time) ==
  LET due == Collected(led, time)
      new == [i \in DOMAIN due |->
                LET at == OccurrenceAt(led, due[i], time)
                IN  NewRun(due[i], at, DueStatus(led, due[i], at, time), 0, 0)]
  IN  [led EXCEPT !.runs = led.runs \o new,
                  !.defs = [a \in Autos |->
                              IF a \in Due(led, time)
                              THEN [enabled |-> NextAfter(a, time) # 0, next |-> NextAfter(a, time)]
                              ELSE led.defs[a]]]

-----------------------------------------------------------------------------
(* Saving *)

SavePending == dirty \/ saving # NoSave

Snapshot(led) == [ledger |-> led, result |-> "writing"]

Save(led) ==
  /\ ledger' = led
  /\ \/ saving' = Snapshot(led) /\ dirty' = FALSE
     \/ saving' = NoSave /\ dirty' = TRUE

\* persist_automation: the save starts at once, unless one is in flight, the
\* job queue is full or a backoff is running.
Persist(led) ==
  /\ IF saving = NoSave THEN Save(led) ELSE ledger' = led /\ dirty' = TRUE /\ UNCHANGED saving
  /\ UNCHANGED autoDisk

\* OrchState.save is best effort.
SaveOrch(o) ==
  /\ orch' = o
  /\ \/ orchDisk' = o /\ lost' = lost
     \/ faults + lost < MaxFaults /\ lost' = lost + 1 /\ orchDisk' = orchDisk

-----------------------------------------------------------------------------
(* Launching *)

NewTask(led, r) == [run |-> r, of |-> Occurrence(led.runs[r]), status |-> "queued", owner |-> "none", bound |-> FALSE]

\* task_for_automation_run
TasksOf(o, r) == {t \in DOMAIN o : o[t].run = r /\ o[t].status # "deleted"}

\* What task_start_impl accepts.
CanStart(task) == task.owner = "none" /\ task.status \notin {"done", "merged"}

\* Linking is not launching: the run stays pending.
Linked(led, r, t) == [led EXCEPT !.runs[r].task = t, !.runs[r].status = "pending"]

Begun(o, t) == [o EXCEPT ![t].status = "running", ![t].owner = "worker", ![t].bound = TRUE]

Launched(led, r) == Append(launches, Occurrence(led.runs[r]))

\* No workspace, or a task the ledger refuses or cannot save, fails the run.
\* OrchState.try_save may fail after orch.json was replaced.
Materialize(led, o, disk, r) ==
  LET t == Len(o) + 1
      added == Append(o, NewTask(led, r))
  IN  \/ /\ t <= MaxTasks
         /\ orch' = added /\ orchDisk' = added
         /\ Save(Linked(led, r, t))
         /\ UNCHANGED faults
      \/ /\ Save(WithStatus(led, {r}, "failed"))
         /\ orch' = o /\ orchDisk' = disk
         /\ UNCHANGED faults
      \/ /\ t <= MaxTasks /\ faults + lost < MaxFaults
         /\ faults' = faults + 1
         /\ orch' = o /\ orchDisk' \in {disk, added}
         /\ Save(WithStatus(led, {r}, "failed"))

\* The worker starts, or the launch fails and its task with it.
Launch(led, o, r, t) ==
  \/ /\ CanStart(o[t])
     /\ SaveOrch(Begun(o, t))
     /\ Save(WithStatus(led, {r}, "running"))
     /\ launches' = Launched(led, r)
  \/ /\ SaveOrch([o EXCEPT ![t].status = "failed"])
     /\ Save(WithStatus(led, {r}, "failed"))
     /\ UNCHANGED launches

\* the worker starts as soon as its task exists.
StartRunAtOnce(led, o, disk, r) ==
  IF TasksOf(o, r) = {}
  THEN LET t == Len(o) + 1
           begun == Append(o, [NewTask(led, r) EXCEPT !.status = "running", !.owner = "worker", !.bound = TRUE])
       IN  /\ t <= MaxTasks
           /\ orch' = begun /\ orchDisk' = begun
           /\ Save(WithStatus(Linked(led, r, t), {r}, "running"))
           /\ launches' = Launched(led, r)
           /\ UNCHANGED <<lost, faults>>
  ELSE Launch(led, o, r, Min(TasksOf(o, r))) /\ UNCHANGED faults

\* start_automation_run, with nothing to save.  Creating and linking the task
\* persist, so the worker starts after the next checkpoint.
StartRun(led, o, disk, r) ==
  IF TasksOf(o, r) = {} THEN Materialize(led, o, disk, r) /\ UNCHANGED <<launches, lost>>
  ELSE LET t == Min(TasksOf(o, r))
       IN  IF led.runs[r].task = t THEN Launch(led, o, r, t) /\ UNCHANGED faults
           ELSE /\ Save(Linked(led, r, t))
                /\ orch' = o /\ orchDisk' = disk
                /\ UNCHANGED <<lost, launches, faults>>

\* start_pending_automation_runs: the first run it tries changes the ledger, and
\* that ends the round.
StartPending(led, o, disk) ==
  IF PendingRuns(led) # {} THEN StartRun(led, o, disk, Min(PendingRuns(led)))
  ELSE /\ ledger' = led /\ saving' = NoSave /\ dirty' = FALSE
       /\ orch' = o /\ orchDisk' = disk
       /\ UNCHANGED <<lost, launches, faults>>

-----------------------------------------------------------------------------
(* Definitions and runs *)

Init ==
  /\ now = 0
  /\ ledger = [defs |-> [a \in Autos |-> [enabled |-> TRUE, next |-> 1]], runs |-> <<>>]
  /\ autoDisk = ledger
  /\ dirty = FALSE
  /\ saving = NoSave
  /\ orch = <<>> /\ orchDisk = <<>>
  /\ launches = <<>>
  /\ edits = 0 /\ faults = 0 /\ lost = 0 /\ crashes = 0

\* Time passes, also while the server is busy or does not look.
Clock ==
  /\ now < MaxTime
  /\ now' = now + 1
  /\ UNCHANGED <<ledger, store, tasks, launches, edits, faults, crashes>>

\* tick_automations: nothing is collected while a change waits to be saved.
Collect ==
  /\ ~SavePending
  /\ Due(ledger, now) # {}
  /\ Len(ledger.runs) + Cardinality(Due(ledger, now)) <= MaxRuns
  /\ Persist(CollectDue(ledger, now))
  /\ UNCHANGED <<now, tasks, launches, edits, faults, crashes>>

Edit ==
  /\ edits < MaxEdits
  /\ edits' = edits + 1
  /\ UNCHANGED <<now, launches, faults, crashes>>

\* automation.run
Request(a) ==
  /\ Edit
  /\ Len(ledger.runs) < MaxRuns
  /\ RunsOf(ledger, a, Live) = {}
  /\ Persist(PushRun(ledger, NewRun(a, now, "pending", edits', 0)))
  /\ UNCHANGED tasks

\* automation.disable: what has not launched is cancelled.
Disable(a) ==
  /\ Edit
  /\ Persist([WithStatus(ledger, RunsOf(ledger, a, {"pending"}), "cancelled")
                EXCEPT !.defs[a] = [enabled |-> FALSE, next |-> 0]])
  /\ UNCHANGED tasks

Enable(a) ==
  LET next == FirstAtOrAfter(a, now)
  IN  /\ Edit
      /\ next # 0
      /\ Persist([ledger EXCEPT !.defs[a] = [enabled |-> TRUE, next |-> next]])
      /\ UNCHANGED tasks

-----------------------------------------------------------------------------
(* Tasks *)

\* What a run shows of its task.
Mirror(status) ==
  CASE status = "queued" -> "cancelled"
    [] status = "claimed" -> "starting"
    [] status = "running" -> "running"
    [] status \in {"review", "blocked"} -> "review"
    [] status \in {"done", "merged"} -> "succeeded"
    [] status = "failed" -> "failed"

Mirrored(led, o, t) == WithStatus(led, RunsForTask(led, t), Mirror(o[t].status))

\* sync_automation_task, after the task changed.
Sync(o, t) ==
  IF Mirrored(ledger, o, t) = ledger THEN UNCHANGED <<ledger, store>> ELSE Persist(Mirrored(ledger, o, t))

Present(t) == t \in DOMAIN orch /\ orch[t].status # "deleted"

\* A handler that changes a task, saves it and mirrors it.
Change(o, t) == SaveOrch(o) /\ Sync(o, t)

\* task.update, task.done
TaskUpdate(t, status) ==
  /\ Edit
  /\ Present(t) /\ orch[t].status # "merged"
  /\ Change([orch EXCEPT ![t].status = status], t)

\* sync_automation_pane_state: the agent needs attention, or works again.
PaneState(t) ==
  /\ Edit
  /\ Present(t) /\ orch[t].owner # "none"
  /\ \/ orch[t].status = "running" /\ Change([orch EXCEPT ![t].status = "blocked"], t)
     \/ orch[t].status = "blocked" /\ Change([orch EXCEPT ![t].status = "running"], t)

\* task.release
TaskRelease(t) ==
  /\ Edit
  /\ Present(t) /\ orch[t].status \in {"claimed", "running", "review", "blocked", "failed"}
  /\ Change([orch EXCEPT ![t].status = "queued", ![t].owner = "none"], t)

\* The worker's pane closes (orch_unbind_pane).
PaneClosed(t) ==
  /\ Edit
  /\ Present(t) /\ orch[t].owner # "none"
  /\ Change(IF orch[t].status \in {"claimed", "running", "review", "blocked"}
            THEN [orch EXCEPT ![t].status = "failed", ![t].owner = "none"]
            ELSE [orch EXCEPT ![t].owner = "none"], t)

\* task.claim, task.next, task.start by somebody else: nothing is mirrored.
TaskTaken(t) ==
  /\ Edit
  /\ Present(t) /\ orch[t].status = "queued" /\ orch[t].owner = "none"
  /\ \/ SaveOrch([orch EXCEPT ![t].status = "claimed", ![t].owner = "other"])
     \/ SaveOrch([Begun(orch, t) EXCEPT ![t].owner = "other"])
  /\ UNCHANGED <<ledger, store>>

\* task.delete of what is not being worked on, and the integration of a done or
\* blocked task: nothing is mirrored.
TaskDelete(t) ==
  /\ Deletes
  /\ Edit
  /\ Present(t) /\ orch[t].status \notin {"claimed", "running"}
  /\ SaveOrch([orch EXCEPT ![t].status = "deleted"])
  /\ UNCHANGED <<ledger, store>>

TaskMerge(t) ==
  /\ Edit
  /\ Present(t) /\ orch[t].bound
  /\ orch[t].status = "done" \/ (Deletes /\ orch[t].status = "blocked")
  /\ SaveOrch([orch EXCEPT ![t].status = "merged"])
  /\ UNCHANGED <<ledger, store>>

\* retry_task of a task that ended or needs attention: a new run, a run in
\* review is superseded.
TaskRetry(t) ==
  LET r == orch[t].run
      superseded == IF ledger.runs[r].status = "review" THEN WithStatus(ledger, {r}, "cancelled") ELSE ledger
  IN  /\ Edit
      /\ Present(t) /\ orch[t].status \in {"done", "failed", "review", "blocked"}
      /\ Len(ledger.runs) < MaxRuns
      /\ r \in Ids(ledger)
      /\ ledger.runs[r].status \notin {"pending", "starting", "running"}
      /\ ledger.defs[ledger.runs[r].auto].enabled
      /\ RunsOf(ledger, ledger.runs[r].auto, Live) \subseteq {r}
      /\ Persist(PushRun(superseded, NewRun(ledger.runs[r].auto, now, "pending", edits', r)))
      /\ UNCHANGED tasks

-----------------------------------------------------------------------------
(* Checkpoints *)

SaveTick ==
  /\ dirty /\ saving = NoSave
  /\ Save(ledger)
  /\ saving' # NoSave
  /\ UNCHANGED <<now, autoDisk, tasks, launches, edits, faults, crashes>>

\* The file is replaced atomically; a write that fails may have reached the disk.
Write ==
  /\ saving.result = "writing"
  /\ \/ /\ autoDisk' = saving.ledger
        /\ saving' = [saving EXCEPT !.result = "ok"]
        /\ UNCHANGED faults
     \/ /\ faults + lost < MaxFaults
        /\ faults' = faults + 1
        /\ autoDisk' \in {autoDisk, saving.ledger}
        /\ saving' = [saving EXCEPT !.result = "error"]
  /\ UNCHANGED <<now, ledger, dirty, tasks, launches, edits, crashes>>

\* a completed checkpoint starts nothing.
CompleteOkSilent ==
  /\ saving.result = "ok"
  /\ IF dirty THEN Save(ledger) ELSE saving' = NoSave /\ UNCHANGED <<ledger, dirty>>
  /\ UNCHANGED <<now, autoDisk, tasks, launches, edits, faults, crashes>>

CompleteOk ==
  /\ saving.result = "ok"
  /\ IF dirty THEN Save(ledger) /\ UNCHANGED <<tasks, launches, faults>> ELSE StartPending(ledger, orch, orchDisk)
  /\ UNCHANGED <<now, autoDisk, edits, crashes>>

\* Every run that waits fails; only the bookkeeping is tried again.
CompleteError ==
  LET waiting == {r \in Ids(ledger) : ledger.runs[r].status = "pending"}
  IN  /\ saving.result = "error"
      /\ ledger' = WithStatus(ledger, waiting, "failed")
      /\ saving' = NoSave
      /\ dirty' = TRUE
      /\ UNCHANGED <<now, autoDisk, tasks, launches, edits, faults, crashes>>

-----------------------------------------------------------------------------
(* Restart *)

\* orch_reconcile: a claim without a place goes back to the queue.
Requeued(o) == {t \in DOMAIN o : o[t].status \in {"claimed", "running"} /\ ~o[t].bound}

\* mark_automation_tasks_interrupted: no worker survives its server.
Interrupted(o) == {t \in DOMAIN o : o[t].status \in {"claimed", "running", "blocked", "review"}}

\* interrupted work is queued again.
RecoveredQueued(o) ==
  [t \in DOMAIN o |-> IF t \in Interrupted(o) THEN [o[t] EXCEPT !.status = "queued", !.owner = "none", !.bound = FALSE]
                     ELSE [o[t] EXCEPT !.owner = "none"]]

Recovered(o) ==
  [t \in DOMAIN o |->
     CASE t \in Requeued(o) -> [o[t] EXCEPT !.status = "queued", !.owner = "none"]
       [] t \in Interrupted(o) \ Requeued(o) -> [o[t] EXCEPT !.status = "failed", !.owner = "none"]
       [] OTHER -> [o[t] EXCEPT !.owner = "none"]]

\* The task a run names, or else the one that names it.
LinkedTasks(led, o, r) ==
  LET t == led.runs[r].task
  IN  IF t \in DOMAIN o /\ o[t].status # "deleted" THEN {t} ELSE TasksOf(o, r)

\* The worker of the task never began.
Untouched(task) == task.status = "queued" /\ task.owner = "none" /\ ~task.bound

\* A run whose task never began waits again, as does a live run without a task;
\* any other follows its task.
Reconciled(led, o, r) ==
  LET run == led.runs[r]
  IN  IF run.status \notin Live THEN run
      ELSE IF LinkedTasks(led, o, r) = {} THEN [run EXCEPT !.status = "pending"]
      ELSE LET t       == Min(LinkedTasks(led, o, r))
               bound   == [led EXCEPT !.runs[r].task = t]
               retried == RunsForTask(bound, t) = {}
           IN  [run EXCEPT !.task = t,
                           !.status = CASE Untouched(o[t]) -> "pending"
                                        [] ~Untouched(o[t]) /\ ~retried -> Mirror(o[t].status)
                                        [] OTHER -> "starting"]

\* sync_automation_task of the claims that went back to the queue.
Released(led, o) ==
  WithStatus(led, UNION {RunsForTask(led, t) : t \in Requeued(o)}, "cancelled")

\* Runs that reconciliation sends back to the queue are saved even if they were
\* there.
Requeues(led, o) ==
  \E r \in Ids(led) : /\ led.runs[r].status \in Live
                     /\ \E t \in LinkedTasks(led, o, r) : Untouched(o[t])

\* The server stops, or crashes, and starts again.  The save of orch.json is best
\* effort, that of the automation ledger a checkpoint.
Restart ==
  /\ crashes < MaxCrashes
  /\ crashes' = crashes + 1
  /\ \E last \in {autoDisk, ledger} \cup (IF saving = NoSave THEN {} ELSE {saving.ledger}) :
       LET o   == Recovered(orchDisk)
           mid == Released(last, orchDisk)
           led == [mid EXCEPT !.runs = [r \in Ids(mid) |-> Reconciled(mid, o, r)]]
       IN  /\ autoDisk' = last
           /\ IF led = last /\ Interrupted(orchDisk) = {} /\ ~Requeues(mid, o)
              THEN StartPending(led, o, o)
              ELSE /\ ledger' = led /\ dirty' = FALSE /\ saving' = Snapshot(led)
                   /\ orch' = o /\ orchDisk' = o
                   /\ UNCHANGED <<lost, launches, faults>>
  /\ UNCHANGED <<now, edits>>

Next ==
  \/ Clock \/ Collect
  \/ \E a \in Autos : Request(a) \/ Disable(a) \/ Enable(a)
  \/ \E t \in 1..MaxTasks :
       \/ \E status \in {"queued", "running", "review", "done", "failed"} : TaskUpdate(t, status)
       \/ PaneState(t) \/ TaskRelease(t) \/ PaneClosed(t) \/ TaskTaken(t)
       \/ TaskDelete(t) \/ TaskMerge(t) \/ TaskRetry(t)
  \/ SaveTick \/ Write \/ CompleteOk \/ CompleteError
  \/ Restart

\* The worker thread runs the saves it is given, the event loop applies them and
\* ticks.  No worker has to finish.
Fairness ==
  /\ WF_vars(SaveTick) /\ WF_vars(Write) /\ WF_vars(CompleteOk) /\ WF_vars(CompleteError)
  /\ WF_vars(Collect)

Spec == Init /\ [][Next]_vars /\ Fairness

-----------------------------------------------------------------------------
(* Properties *)

Occurrences == [auto : Autos, at : 0..MaxTime, request : 0..MaxEdits]

Runs == [auto : Autos, at : 0..MaxTime, status : Live \cup Over,
         task : 0..MaxTasks, request : 0..MaxEdits, retry : 0..MaxRuns]

LedgerOK(led) ==
  /\ led \in [defs : [Autos -> [enabled : BOOLEAN, next : 0..MaxTime + 1]], runs : Seq(Runs)]
  /\ Len(led.runs) <= MaxRuns

Tasks == [run : 1..MaxRuns, of : Occurrences, owner : {"none", "worker", "other"}, bound : BOOLEAN,
          status : {"queued", "claimed", "running", "review", "blocked", "done", "failed", "merged", "deleted"}]

OrchOK(o) == o \in Seq(Tasks) /\ Len(o) <= MaxTasks

SavingOK(s) ==
  \/ s = NoSave
  \/ /\ s = [ledger |-> s.ledger, result |-> s.result]
     /\ s.result \in {"writing", "ok", "error"} /\ LedgerOK(s.ledger)

\* Every variable keeps its type.
TypeOK ==
  /\ now \in 0..MaxTime
  /\ LedgerOK(ledger) /\ LedgerOK(autoDisk)
  /\ OrchOK(orch) /\ OrchOK(orchDisk)
  /\ dirty \in BOOLEAN /\ SavingOK(saving)
  /\ launches \in Seq(Occurrences)
  /\ edits \in 0..MaxEdits /\ {faults, lost, crashes} \subseteq Nat

Times(x) == Cardinality({i \in DOMAIN launches : launches[i] = x})

\* The operator deleted a task of the occurrence: orch.json, saved at once, no longer
\* knows the launch that automations.json may not hold yet.
Forgotten(x) == \E t \in DOMAIN orch : orch[t].of = x /\ orch[t].status = "deleted"

\* The worker of an occurrence, keyed by definition and scheduled time, is
\* launched at most once, over any number of restarts, if orch.json can be saved
\* and no task of the occurrence is deleted.
LaunchedOnce ==
  lost = 0 => \A i \in DOMAIN launches : Times(launches[i]) = 1 \/ Forgotten(launches[i])

\* When a worker is launched, both files know its occurrence: the run, linked to
\* the task, and the task with its provenance.
DurableBeforeLaunch ==
  [][launches' # launches =>
       LET x == launches'[Len(launches')]
       IN  \E r \in Ids(autoDisk) :
             /\ Occurrence(autoDisk.runs[r]) = x
             /\ autoDisk.runs[r].task \in DOMAIN orchDisk
             /\ orchDisk'[autoDisk.runs[r].task].of = x]_vars

\* The provenance a task carries is that of the run it names, in whatever ledger
\* that run is found, though run numbers are given again after a crash.
ProvenanceHolds ==
  \A o \in {orch, orchDisk}, led \in {ledger, autoDisk} :
    \A t \in DOMAIN o : o[t].run \in Ids(led) => Occurrence(led.runs[o[t].run]) = o[t].of

\* A run that counts as working has work: its task exists and somebody still has
\* to do something about it, unless it was deleted or merged.
LiveRunHasWork ==
  \A r \in Ids(ledger) : ledger.runs[r].status \in Active =>
    /\ ledger.runs[r].task \in DOMAIN orch
    /\ orch[ledger.runs[r].task].status \notin {"queued", "done", "failed"}

\* A worker is launched only while no other run of its definition works.
LaunchAlone ==
  [][launches' # launches =>
       RunsOf(ledger, launches'[Len(launches')].auto, Active) = {}]_vars

\* No occurrence waits for ever for nothing but its checkpoint: again and again
\* the queue is empty.
QueuedStarts == []<>(PendingRuns(ledger) = {})

\* The room a round of collection may need is part of the bound.
Overdue ==
  /\ Due(ledger, now) # {}
  /\ Len(ledger.runs) + Cardinality(Autos) <= MaxRuns

\* A deadline that has passed is dealt with.
DueCollected == []<>~Overdue

\* An occurrence is launched once, and runs and tasks of either file agree.
RunsSafe == TypeOK /\ LaunchedOnce /\ ProvenanceHolds /\ LiveRunHasWork

\* A worker is launched alone and known to both files.
LaunchesRight == DurableBeforeLaunch /\ LaunchAlone

\* What is due is collected, and what is queued starts.
RunsLive == QueuedStarts /\ DueCollected
=============================================================================
