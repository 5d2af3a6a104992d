----------------------------- MODULE OrchLedger -----------------------------
(***************************************************************************)
(* The server's orchestration handlers around the ledger of OrchState:     *)
(* the task and lease calls of the control API and the board, the panes    *)
(* that own tasks, the quality gates and the integration job that run off  *)
(* the App loop, the snapshot in orch.json and the restart that reads it.  *)
(*                                                                         *)
(* The App is the single writer: every handler is one step.  Concurrency   *)
(* is in what happens between two steps: a gate or a merge that is still   *)
(* running, a pane that closes, a worker that reports late, a crash.       *)
(***************************************************************************)
EXTENDS OrchState

CONSTANTS
  Templates,      \* what task.add may describe: [paths, gate, project, auto]
  UpdateTo,       \* statuses offered to task.update
  Modes,          \* worker modes offered to task.start
  Reports,        \* context reports: TRUE is above COMPACTION_THRESHOLD
  LeaseRequests,  \* path sets offered to lease.acquire
  MaxIds,         \* bound: task ids handed out
  MaxPanes,       \* bound: pane ids of one server lifetime
  MaxAttempts,    \* bound: attempts of a task
  MaxFaults,      \* bound: best-effort saves that fail
  MaxCrashes      \* bound: server restarts

ASSUME BoundsAssumption ==
  /\ Templates \subseteq [paths : SUBSET Paths, gate : BOOLEAN,
                          project : Projects \cup {NoProject}, auto : BOOLEAN]
  /\ UpdateTo \subseteq Status \ {"merging", "merged"}
  /\ Modes \subseteq {"worktree", "workspace"}
  /\ Reports \subseteq BOOLEAN
  /\ LeaseRequests \subseteq SUBSET Paths
  /\ {MaxIds, MaxPanes, MaxAttempts, MaxFaults, MaxCrashes} \subseteq Nat

VARIABLES
  orch,      \* App.orch: the ledger in memory
  disk,      \* orch.json
  panes,     \* App.panes: the live panes, each with its workspace's project
  lastPane,  \* PaneId counter of this server lifetime
  gates,     \* App.task_gates_inflight: the gate each task waits for
  job,       \* the integration job running off the loop, or NoJob
  boot,      \* 0 while serving, else the next task of the startup lease recovery
  faults,    \* best-effort saves that failed so far
  crashes    \* restarts so far

vars == <<orch, disk, panes, lastPane, gates, job, boot, faults, crashes>>

NoJob == [task |-> 0, previous |-> "done"]

Task_(id) == orch.tasks[id]

\* `worker` records the claimant a gate was launched for; the code keeps no
\* such field, properties compare it with the claimant when the gate ends.
Gate == [attempt : Nat, cancelled : BOOLEAN, worker : Nat]

NoGates == [t \in {} |-> [attempt |-> 1, cancelled |-> FALSE, worker |-> NoPane]]

Init ==
  /\ orch = EmptyLedger
  /\ disk = EmptyLedger
  /\ panes = [p \in {} |-> NoProject]
  /\ lastPane = 0
  /\ gates = NoGates
  /\ job = NoJob
  /\ boot = 0
  /\ faults = 0
  /\ crashes = 0

-----------------------------------------------------------------------------
(* Saving *)

\* save(): best effort.  A failed write leaves the previous snapshot.
Commit(o) ==
  /\ orch' = o
  /\ \/ disk' = o /\ faults' = faults
     \/ faults < MaxFaults /\ disk' = disk /\ faults' = faults + 1

\* Two saves of one handler: a crash, or a failure of the second, may leave the
\* ledger between them on disk.
CommitTwice(between, o) ==
  /\ orch' = o
  /\ \/ disk' = o /\ faults' = faults
     \/ faults < MaxFaults /\ disk' \in {disk, between} /\ faults' = faults + 1

\* try_save() of a candidate ledger: the live ledger is replaced only once
\* the candidate is on disk, so a failed write changes nothing.
CommitOrReject(o) == orch' = o /\ disk' = o /\ faults' = faults

\* A handler that returned its error after it had changed the live ledger.
LeaveUnsaved(o) == orch' = o /\ UNCHANGED <<disk, faults>>

InvalidateGate(id) ==
  gates' = IF id \in DOMAIN gates THEN [gates EXCEPT ![id].cancelled = TRUE] ELSE gates

Serving == boot = 0

-----------------------------------------------------------------------------
(* Panes *)

OpenPane(project) ==
  /\ Serving
  /\ lastPane < MaxPanes
  /\ lastPane' = lastPane + 1
  /\ panes' = [p \in DOMAIN panes \cup {lastPane + 1} |->
                 IF p = lastPane + 1 THEN project ELSE panes[p]]
  /\ UNCHANGED <<orch, disk, gates, job, boot, faults, crashes>>

\* A scheduled worker that lost its pane fails; it never returns to the queue.
Interruptible(t) == t.auto /\ t.status \in {"claimed", "running", "blocked", "review"}

Interrupt(o, lost) ==
  [o EXCEPT
     !.tasks = [t \in Ids(o) |->
        IF t \in lost
        THEN [o.tasks[t] EXCEPT !.assignee = NoPane, !.status = "failed"]
        ELSE o.tasks[t]],
     !.leases = {l \in @ : l.task \notin lost},
     !.mergePrevious = Restrict(@, DOMAIN @ \ lost)]

\* orch_unbind_pane: a worktree or workspace worker keeps its status and can
\* be reopened, a claim with neither goes back to the queue.
Unbind(o, pane) ==
  LET held == {t \in Ids(o) : o.tasks[t].assignee = pane}
      lost == {t \in held : Interruptible(o.tasks[t])}
      pure == {t \in held \ lost : /\ o.tasks[t].mode = "none"
                                   /\ o.tasks[t].place # "worktree"
                                   /\ o.tasks[t].status \in {"claimed", "running"}}
      freed == [t \in Ids(o) |->
                  CASE t \in pure        -> [o.tasks[t] EXCEPT !.assignee = NoPane,
                                                               !.status = "queued"]
                    [] t \in held \ pure -> [o.tasks[t] EXCEPT !.assignee = NoPane]
                    [] OTHER             -> o.tasks[t]]
  IN  Interrupt([o EXCEPT !.tasks = freed], lost)

ClosePane(pane) ==
  /\ Serving
  /\ panes' = Restrict(panes, DOMAIN panes \ {pane})
  /\ LET released == ReleasePaneLeases(orch, pane)
     IN  CommitTwice(released, Unbind(released, pane))
  /\ UNCHANGED <<lastPane, gates, job, boot, crashes>>

-----------------------------------------------------------------------------
(* Tasks: creating, claiming, starting *)

TaskAdd(template, deps) ==
  /\ Serving
  /\ orch.nextTask < MaxIds
  /\ CanAdd(orch, deps)
  /\ Commit(AddTask(orch, NewTask(template.paths, deps, template.gate,
                                  template.project, template.auto)))
  /\ UNCHANGED <<panes, lastPane, gates, job, boot, crashes>>

\* task.claim binds the task to the project of the claimant's workspace first:
\* a claim that is then rejected leaves that binding behind, unsaved.
TaskClaim(id, pane) ==
  /\ Serving
  /\ CanBindProject(orch, id, panes[pane])
  /\ LET bound == BindProject(orch, id, panes[pane])
     IN  IF CanClaim(bound, id)
         THEN Commit(Claim(bound, id, pane))
         ELSE LeaveUnsaved(bound)
  /\ UNCHANGED <<panes, lastPane, gates, job, boot, crashes>>

\* task.next hands out the earliest claimable task of the caller's project.
TaskNext(pane) ==
  /\ Serving
  /\ \E id \in Claimable(orch, panes[pane]) :
       /\ \A t \in Claimable(orch, panes[pane]) : id <= t
       /\ Commit(Claim(BindProject(orch, id, panes[pane]), id, pane))
  /\ UNCHANGED <<panes, lastPane, gates, job, boot, crashes>>

CanStart(o, id, mode) ==
  LET t == o.tasks[id]
  IN  /\ t.assignee = NoPane
      /\ t.status \notin {"done", "merging", "merged"}
      /\ Ready(o, id)
      /\ t.paths # {} => CanLease(o, id, t.paths)
      /\ t.mode \in {"none", mode}

Started(o, id, mode, pane) ==
  LET claimed == Claim(o, id, pane)
      leased  == IF o.tasks[id].paths = {} THEN claimed
                 ELSE BindTaskPaths(claimed, id, pane, o.tasks[id].paths)
  IN  BindPlace(SetStatus(leased, id, "running"), id, mode)

\* task.start resolves the project, prepares a pane, claims, leases and binds
\* it in one handler.  The pane is a new one, or the live pane of the place
\* the task's worker last had (any live pane, for a worktree that is reused).
TaskStart(id, mode, project) ==
  /\ Serving
  /\ CanBindProject(orch, id, project)
  /\ LET bound == BindProject(orch, id, project)
     IN  \/ /\ CanStart(bound, id, mode)
            /\ lastPane < MaxPanes
            /\ lastPane' = lastPane + 1
            /\ panes' = [p \in DOMAIN panes \cup {lastPane + 1} |->
                           IF p = lastPane + 1 THEN project ELSE panes[p]]
            /\ Commit(Started(bound, id, mode, lastPane + 1))
         \/ /\ CanStart(bound, id, mode)
            /\ mode = "worktree" \/ Task_(id).place = "workspace"
            /\ \E p \in DOMAIN panes :
                 /\ panes[p] = project
                 /\ Commit(Started(bound, id, mode, p))
            /\ UNCHANGED <<panes, lastPane>>
         \/ /\ ~CanStart(bound, id, mode)
            /\ LeaveUnsaved(bound)
            /\ UNCHANGED <<panes, lastPane>>
  /\ UNCHANGED <<gates, job, boot, crashes>>

-----------------------------------------------------------------------------
(* Tasks: reports of workers and operators *)

CanUpdate(id) == Task_(id).status \notin {"merging", "merged"}

UpdateGate(id, status) ==
  IF status = "running" THEN gates' = gates ELSE InvalidateGate(id)

TaskUpdate(id, status) ==
  /\ Serving
  /\ CanUpdate(id)
  /\ Commit(SetStatus(orch, id, status))
  /\ UpdateGate(id, status)
  /\ UNCHANGED <<panes, lastPane, job, boot, crashes>>

\* A note with a control character is rejected after the status was set: the
\* new status stays in memory, is not saved and announces no event.
TaskUpdateBadNote(id, status) ==
  /\ Serving
  /\ CanUpdate(id)
  /\ LeaveUnsaved(SetStatus(orch, id, status))
  /\ UpdateGate(id, status)
  /\ UNCHANGED <<panes, lastPane, job, boot, crashes>>

Heartbeat(id, saturated) ==
  /\ Serving
  /\ Commit([orch EXCEPT !.tasks[id].saturated = saturated])
  /\ UNCHANGED <<panes, lastPane, gates, job, boot, crashes>>

\* The detector reports that the agent of a scheduled worker waits for input,
\* or works again.
PaneState(id) ==
  /\ Serving
  /\ Task_(id).auto
  /\ Task_(id).assignee \in DOMAIN panes
  /\ \A t \in Ids(orch) : Task_(t).auto /\ Task_(t).assignee = Task_(id).assignee => id <= t
  /\ \/ /\ Task_(id).status = "running"
        /\ Commit(SetStatus(orch, id, "blocked"))
     \/ /\ Task_(id).status = "blocked"
        /\ Commit(SetStatus(orch, id, "running"))
  /\ UNCHANGED <<panes, lastPane, gates, job, boot, crashes>>

TaskRelease(id) ==
  /\ Serving
  /\ CanRelease(orch, id)
  /\ Commit(ReleaseTaskLeases(ReleaseTask(orch, id), id))
  /\ InvalidateGate(id)
  /\ UNCHANGED <<panes, lastPane, job, boot, crashes>>

\* a delete leaves the task's gate running.
TaskDeleteKeepsGate(id) ==
  /\ Serving
  /\ CanDelete(orch, id)
  /\ Commit(DeleteTask(orch, id))
  /\ UNCHANGED <<panes, lastPane, gates, job, boot, crashes>>

TaskDelete(id) ==
  /\ Serving
  /\ CanDelete(orch, id)
  /\ Commit(DeleteTask(orch, id))
  /\ InvalidateGate(id)
  /\ UNCHANGED <<panes, lastPane, job, boot, crashes>>

\* the retry replaces the live ledger whether or not it was saved.
TaskRetryUnsaved(id) ==
  /\ Serving
  /\ CanRetry(orch, id)
  /\ ~Task_(id).auto
  /\ Task_(id).attempt < MaxAttempts
  /\ Commit(RetryTask(orch, id))
  /\ InvalidateGate(id)
  /\ UNCHANGED <<panes, lastPane, job, boot, crashes>>

\* The retry of a manual task.
TaskRetry(id) ==
  /\ Serving
  /\ CanRetry(orch, id)
  /\ ~Task_(id).auto
  /\ Task_(id).attempt < MaxAttempts
  /\ CommitOrReject(RetryTask(orch, id))
  /\ InvalidateGate(id)
  /\ UNCHANGED <<panes, lastPane, job, boot, crashes>>

\* A scheduled task is retried as a new run, with a task of its own; the old
\* task keeps its record and loses only its gate.
RetryAsNewRun(id) ==
  /\ Serving
  /\ CanRetry(orch, id)
  /\ Task_(id).auto
  /\ InvalidateGate(id)
  /\ UNCHANGED <<orch, disk, panes, lastPane, job, boot, faults, crashes>>

-----------------------------------------------------------------------------
(* Completion and the quality gate *)

Finalize(o, id) == ReleaseTaskLeases(SetStatus(o, id, "done"), id)

CanComplete(id) ==
  /\ id \notin DOMAIN gates
  /\ Task_(id).status \notin {"merging", "merged"}
  /\ ~Task_(id).saturated

TaskDone(id) ==
  /\ Serving
  /\ CanComplete(id)
  /\ ~Task_(id).gate
  /\ Commit(Finalize(orch, id))
  /\ UNCHANGED <<panes, lastPane, gates, job, boot, crashes>>

LaunchGate(id) ==
  /\ Serving
  /\ CanComplete(id)
  /\ Task_(id).gate
  /\ Commit(SetStatus(orch, id, "running"))
  /\ gates' = [t \in DOMAIN gates \cup {id} |->
                 IF t = id THEN [attempt |-> Task_(id).attempt, cancelled |-> FALSE,
                                 worker |-> Task_(id).assignee]
                 ELSE gates[t]]
  /\ UNCHANGED <<panes, lastPane, job, boot, crashes>>

\* The result counts only for the attempt it was launched for, while that
\* attempt is still running or waiting for attention.
GateCurrent(id) ==
  /\ ~gates[id].cancelled
  /\ id \in Ids(orch)
  /\ Task_(id).attempt = gates[id].attempt
  /\ Task_(id).status \in {"running", "blocked"}

GateFinished(id, passed) ==
  /\ Serving
  /\ id \in DOMAIN gates
  /\ gates' = Restrict(gates, DOMAIN gates \ {id})
  /\ IF GateCurrent(id)
     THEN Commit(IF passed THEN Finalize(orch, id) ELSE SetStatus(orch, id, "review"))
     ELSE UNCHANGED <<orch, disk, faults>>
  /\ UNCHANGED <<panes, lastPane, job, boot, crashes>>

-----------------------------------------------------------------------------
(* Integration *)

TaskMerge(id) ==
  /\ Serving
  /\ Task_(id).mode # "workspace"
  /\ HasBranch(Task_(id))
  /\ CanBeginMerge(orch, id)
  /\ \/ /\ Commit(BeginMerge(orch, id))
        /\ job' = [task |-> id, previous |-> Task_(id).status]
     \/ /\ Commit(FinishMerge(BeginMerge(orch, id), id, Task_(id).status))
        /\ job' = NoJob    \* the job's thread did not start
  /\ UNCHANGED <<panes, lastPane, gates, boot, crashes>>

\* Git merged, found a conflict, or failed; a failure restores the status the
\* job was started from.  A completion that lost its reservation is ignored.
MergeFinished(outcome) ==
  /\ Serving
  /\ job # NoJob
  /\ job' = NoJob
  /\ IF CanFinishMerge(orch, job.task)
     THEN Commit(FinishMerge(orch, job.task,
            CASE outcome = "merged"   -> "merged"
              [] outcome = "conflict" -> "blocked"
              [] outcome = "error"    -> job.previous))
     ELSE UNCHANGED <<orch, disk, faults>>
  /\ UNCHANGED <<panes, lastPane, gates, boot, crashes>>

-----------------------------------------------------------------------------
(* Leases *)

LeaseAcquire(id, pane, paths) ==
  /\ Serving
  /\ CanBindProject(orch, id, panes[pane])
  /\ LET bound == BindProject(orch, id, panes[pane])
     IN  IF CanAcquire(bound, pane, id, paths)
         THEN Commit(Acquire(bound, pane, id, paths))
         ELSE LeaveUnsaved(bound)
  /\ UNCHANGED <<panes, lastPane, gates, job, boot, crashes>>

LeaseRelease(lease) ==
  /\ Serving
  /\ Commit([orch EXCEPT !.leases = {l \in @ : l.id # lease.id}])
  /\ UNCHANGED <<panes, lastPane, gates, job, boot, crashes>>

-----------------------------------------------------------------------------
(* Restart *)

\* orch_reconcile: saved assignees name panes of the previous lifetime.  A
\* worker is rebound to the pane its place was restored to (`home`), a claim
\* without a place loses its claimant and goes back to the queue.
Active(t) == t.status \in {"claimed", "running"}

\* a worker whose pane was not restored keeps the saved pane id.
ReboundStale(t, pane) ==
  LET durable  == t.mode = "workspace" \/ t.place = "worktree"
      restored == t.place = t.mode /\ pane # NoPane
  IN  IF t.assignee = NoPane /\ ~Active(t) THEN t
      ELSE IF durable THEN [t EXCEPT !.assignee = IF restored THEN pane ELSE @]
      ELSE [t EXCEPT !.assignee = NoPane, !.status = IF Active(t) THEN "queued" ELSE @]

\* a worker whose pane was not restored is queued again.
ReboundQueued(t, pane) ==
  IF t.assignee = NoPane /\ ~Active(t) THEN t
  ELSE IF t.place # "none" /\ t.place = t.mode /\ pane # NoPane
  THEN [t EXCEPT !.assignee = pane]
  ELSE [t EXCEPT !.assignee = NoPane, !.status = IF Active(t) THEN "queued" ELSE @]

Rebound(t, pane) ==
  LET durable  == t.mode = "workspace" \/ t.place = "worktree"
      restored == t.place = IF t.mode = "workspace" THEN "workspace" ELSE "worktree"
  IN  IF t.assignee = NoPane /\ ~Active(t) THEN t
      ELSE IF durable THEN [t EXCEPT !.assignee = IF restored THEN pane ELSE NoPane]
      ELSE [t EXCEPT !.assignee = NoPane, !.status = IF Active(t) THEN "queued" ELSE @]

Rebind(o, home) ==
  [o EXCEPT !.tasks = [id \in Ids(o) |-> Rebound(o.tasks[id], home[id])]]

\* The process stops at any point and starts again from orch.json: gates and
\* the integration job are gone, the session restores some panes under new ids.
Restart ==
  /\ crashes < MaxCrashes
  /\ crashes' = crashes + 1
  /\ gates' = NoGates
  /\ job' = NoJob
  /\ \E n \in 0..MaxPanes :
       /\ lastPane' = n
       /\ panes' \in [1..n -> Projects]
       /\ \E home \in [{t \in Ids(disk) : disk.tasks[t].place # "none"} -> 0..n] :
            LET rebound == Rebind(RecoverMerges(disk), home)
            IN  \E kept \in Reconciled(rebound) : orch' = [rebound EXCEPT !.leases = kept]
  /\ boot' = 1
  /\ UNCHANGED <<disk, faults>>

\* The startup loop over live workers: each gets back the leases of its
\* declared paths; a running worker that cannot is visibly blocked.
NeedsLeases(t) ==
  /\ t.mode # "none" \/ t.place = "worktree"
  /\ t.status \in {"running", "blocked", "review", "failed"}
  /\ t.assignee # NoPane
  /\ t.paths # {}

\* a worker that cannot get its leases back keeps running.
RecoverLeasesUnblocked ==
  /\ boot \in 1..orch.nextTask
  /\ boot' = boot + 1
  /\ orch' =
       IF /\ boot \in Ids(orch) /\ NeedsLeases(Task_(boot))
          /\ CanLease(orch, boot, Task_(boot).paths)
       THEN BindTaskPaths(orch, boot, Task_(boot).assignee, Task_(boot).paths)
       ELSE orch
  /\ UNCHANGED <<disk, panes, lastPane, gates, job, faults, crashes>>

RecoverLeases ==
  /\ boot \in 1..orch.nextTask
  /\ boot' = boot + 1
  /\ orch' =
       IF boot \notin Ids(orch) \/ ~NeedsLeases(Task_(boot)) THEN orch
       ELSE IF CanLease(orch, boot, Task_(boot).paths)
       THEN BindTaskPaths(orch, boot, Task_(boot).assignee, Task_(boot).paths)
       ELSE IF Task_(boot).status = "running" THEN SetStatus(orch, boot, "blocked")
       ELSE orch
  /\ UNCHANGED <<disk, panes, lastPane, gates, job, faults, crashes>>

SaveReconciled ==
  /\ boot = orch.nextTask + 1
  /\ boot' = boot + 1
  /\ Commit(orch)
  /\ UNCHANGED <<panes, lastPane, gates, job, crashes>>

\* reconcile_automations fails the scheduled workers of the last lifetime and
\* saves again; only then is the first request served.
FinishBoot ==
  /\ boot = orch.nextTask + 2
  /\ boot' = 0
  /\ Commit(Interrupt(orch, {t \in Ids(orch) : Interruptible(Task_(t))}))
  /\ UNCHANGED <<panes, lastPane, gates, job, crashes>>

-----------------------------------------------------------------------------

PaneStep ==
  \/ \E project \in Projects : OpenPane(project)
  \/ \E p \in DOMAIN panes : ClosePane(p)

TaskStep ==
  \/ \E template \in Templates, deps \in SUBSET Ids(orch) : TaskAdd(template, deps)
  \/ \E p \in DOMAIN panes : TaskNext(p)
  \/ \E id \in Ids(orch) :
       \/ \E p \in DOMAIN panes : TaskClaim(id, p)
       \/ \E mode \in Modes, project \in Projects : TaskStart(id, mode, project)
       \/ \E status \in UpdateTo : TaskUpdate(id, status) \/ TaskUpdateBadNote(id, status)
       \/ \E report \in Reports : Heartbeat(id, report)
       \/ PaneState(id)
       \/ TaskRelease(id)
       \/ TaskDelete(id)
       \/ TaskRetry(id)
       \/ RetryAsNewRun(id)
       \/ TaskDone(id)
       \/ LaunchGate(id)
       \/ TaskMerge(id)

LeaseStep ==
  \/ \E id \in Ids(orch), p \in DOMAIN panes, paths \in LeaseRequests :
       LeaseAcquire(id, p, paths)
  \/ \E lease \in orch.leases : LeaseRelease(lease)

JobStep ==
  \/ \E id \in DOMAIN gates, passed \in BOOLEAN : GateFinished(id, passed)
  \/ \E outcome \in {"merged", "conflict", "error"} : MergeFinished(outcome)

BootStep == RecoverLeases \/ SaveReconciled \/ FinishBoot

Next == PaneStep \/ TaskStep \/ LeaseStep \/ JobStep \/ BootStep \/ Restart

Spec == Init /\ [][Next]_vars

-----------------------------------------------------------------------------
(* Properties *)

\* Every variable has its type; ids in use were handed out.
TypeOK ==
  /\ LedgerType(orch) /\ LedgerType(disk)
  /\ \A p \in DOMAIN panes : p \in 1..lastPane /\ panes[p] \in Projects
  /\ lastPane \in Nat
  /\ \A t \in DOMAIN gates : gates[t] \in Gate
  /\ job \in [task : Nat, previous : {"done", "blocked"}]
  /\ boot \in Nat /\ faults \in Nat /\ crashes \in Nat

\* Two tasks that share a project never hold overlapping leases, in memory or
\* in the snapshot a restart reads, however claims, starts, late bindings of
\* projects, restarts and lease recovery interleave (mod.rs, acquire_lease,
\* bind_task_paths, reconcile_leases).
LeaseExclusive == Exclusive(orch, orch.leases) /\ Exclusive(disk, disk.leases)

\* At most one task is merging; it is the one whose rollback target is kept
\* and the one the running job will report on (begin_merge, start_task_merge).
MergeReservation ==
  LET merging == {t \in Ids(orch) : Task_(t).status = "merging"}
  IN  /\ DOMAIN orch.mergePrevious = merging
      /\ merging = IF job = NoJob THEN {} ELSE {job.task}
      /\ \A t \in merging : orch.mergePrevious[t] = job.previous

\* No task and no lease belongs to a pane that is gone: a worker that died,
\* or lived before a restart, blocks nobody (release_leaf_ownership,
\* orch_reconcile, reconcile_leases).
OwnersLive ==
  /\ \A t \in Ids(orch) : Task_(t).assignee \in DOMAIN panes \cup {NoPane}
  /\ \A l \in orch.leases : l.pane \in DOMAIN panes

\* A gate that was not cancelled runs for the attempt its task is on: a retry,
\* a release or a delete took every older gate with it (invalidate_task_gate).
GateFence ==
  \A id \in DOMAIN gates :
    ~gates[id].cancelled => id \in Ids(orch) /\ Task_(id).attempt = gates[id].attempt

\* An attempt number is never used twice, even when saves fail and the server
\* restarts from an older snapshot (board.rs, retry_task saves before it swaps).
AttemptsNeverRepeat ==
  [][\A t \in Ids(orch) \cap Ids(orch') :
        orch'.tasks[t].attempt >= orch.tasks[t].attempt]_vars

\* A task that started keeps building on the same attempt of every dependency
\* (mod.rs, validate_retry), across failed saves and restarts too.
DependentsPinAttempt ==
  [][\A t \in Ids(orch) \cap Ids(orch') :
        orch.tasks[t].started /\ orch'.tasks[t].started =>
          \A d \in orch'.tasks[t].deps \cap Ids(orch) \cap Ids(orch') :
            orch'.tasks[d].attempt = orch.tasks[d].attempt]_vars

\* As long as every save succeeded, an integrated task stays integrated, and
\* an integration ends merged, blocked, or where it was reserved from, also
\* when a crash interrupts it (finish_merge, recover_interrupted_merges).
IntegrationSettles ==
  [][faults' = 0 =>
       \A t \in Ids(orch) \cap Ids(orch') :
         /\ orch.tasks[t].status = "merged" => orch'.tasks[t].status = "merged"
         /\ orch.tasks[t].status = "merging" =>
              orch'.tasks[t].status \in
                {"merging", "merged", "blocked", orch.mergePrevious[t]}]_vars

\* After a restart no worker is silently unprotected: a running worker with a
\* live pane holds leases on all its declared paths, or is visibly blocked
\* (orch_reconcile), whatever was lost, released or requeued before the crash.
RestartProtects ==
  [][boot # 0 /\ boot' = 0 =>
       \A t \in Ids(orch') :
         /\ orch'.tasks[t].status = "running" /\ orch'.tasks[t].assignee # NoPane
         /\ orch'.tasks[t].mode # "none"
         => MissingPaths(orch', t, orch'.tasks[t].paths) = {}]_vars

\* A scheduled task that was launched, in memory and in the snapshot, goes back
\* to the queue only because an operator put it there: neither its pane closing
\* nor a restart makes it runnable a second time (orch_unbind_pane,
\* orch_reconcile, mark_automation_tasks_interrupted).
Launched(o, t) == t \in Ids(o) /\ o.tasks[t].place # "none" /\ o.tasks[t].status # "queued"

ScheduledNotRequeued ==
  [][panes' # panes \/ crashes' # crashes \/ boot # 0 =>
       \A t \in Ids(orch) \cap Ids(orch') :
         orch.tasks[t].auto /\ Launched(orch, t) /\ Launched(disk, t)
         => orch'.tasks[t].status # "queued"]_vars

\* The guide, on releasing or retrying a task while its gate is running: "a
\* late result cannot complete newer work".  A gate launched for one claimant
\* never completes the work of another that took the task over.
LateGateCompletesNothing ==
  [][\A id \in DOMAIN gates \cap Ids(orch) :
       /\ id \notin DOMAIN gates' /\ gates[id].worker # NoPane
       /\ Task_(id).status # "done" /\ orch'.tasks[id].status = "done"
       => orch.tasks[id].assignee \in {NoPane, gates[id].worker}]_vars
=============================================================================
