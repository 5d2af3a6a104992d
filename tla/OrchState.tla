------------------------------ MODULE OrchState ------------------------------
(***************************************************************************)
(* The orchestration ledger (src/src/orch/mod.rs, OrchState): the tasks,   *)
(* the path leases and the durable rollback targets of integrations, with  *)
(* one operator per method.  A ledger is a record, so a handler can build  *)
(* a candidate ledger before it replaces the live one, and a snapshot on   *)
(* disk is the same kind of value as the ledger in memory.                 *)
(*                                                                         *)
(* A method that can reject is a pair: CanX holds exactly when the method  *)
(* returns Ok, X is the ledger it leaves.                                  *)
(***************************************************************************)
EXTENDS Integers, FiniteSets, Functions

CONSTANTS
  Paths,          \* path patterns a task or a lease may name
  Overlap,        \* the pairs of patterns for which paths_overlap is true
  Projects,       \* project identities (workspace id, root)
  SameProject,    \* the pairs of projects for which same_project is true
  NoProject,      \* a task with no project (legacy, or added without one)
  MaxTasks,       \* MAX_TASKS
  MaxLeases       \* MAX_LEASES

\* paths_overlap and same_project compare symmetrically and accept equal
\* arguments; same_project is not transitive (equal id OR equal root).
ASSUME OverlapAssumption ==
  /\ Overlap \subseteq Paths \X Paths
  /\ \A p \in Paths : <<p, p>> \in Overlap
  /\ \A p, q \in Paths : <<p, q>> \in Overlap => <<q, p>> \in Overlap

ASSUME ProjectAssumption ==
  /\ NoProject \notin Projects
  /\ SameProject \subseteq Projects \X Projects
  /\ \A p \in Projects : <<p, p>> \in SameProject
  /\ \A p, q \in Projects : <<p, q>> \in SameProject => <<q, p>> \in SameProject

ASSUME LimitAssumption == MaxTasks \in Nat /\ MaxLeases \in Nat

-----------------------------------------------------------------------------
(* Records *)

Status == {"queued", "claimed", "running", "blocked", "review", "done",
           "merging", "merged", "failed"}

Mode == {"none", "worktree", "workspace"}

\* Pane ids are positive; 0 stands for no assignee.
NoPane == 0
Pane == Nat \ {NoPane}

\* `place` is where the current attempt runs: a worktree and its branch, a
\* workspace tab, or nothing yet.  `mode` outlives it: a retry keeps the mode.
Task == [status : Status, assignee : Nat, deps : SUBSET Nat,
         paths : SUBSET Paths, gate : BOOLEAN,
         project : Projects \cup {NoProject}, auto : BOOLEAN, mode : Mode,
         place : Mode, attempt : Nat, started : BOOLEAN, saturated : BOOLEAN]

Lease == [id : Nat, pane : Pane, task : Nat, paths : SUBSET Paths]

EmptyLedger ==
  [tasks |-> [t \in {} |-> 0], leases |-> {}, nextTask |-> 0,
   mergePrevious |-> [t \in {} |-> "done"]]

Ids(o) == DOMAIN o.tasks

\* Type of a ledger, in memory or on disk, field by field.
LedgerType(o) ==
  /\ DOMAIN o = {"tasks", "leases", "nextTask", "mergePrevious"}
  /\ o.nextTask \in Nat
  /\ Ids(o) \subseteq 1..o.nextTask
  /\ \A t \in Ids(o) : o.tasks[t] \in Task
  /\ IsFiniteSet(o.leases)
  /\ \A l \in o.leases : l \in Lease
  /\ \A t \in DOMAIN o.mergePrevious : o.mergePrevious[t] \in {"done", "blocked"}

HasBranch(t) == t.place = "worktree"

\* The tasks whose status keeps their leases (task_holds_leases).
HoldsLeases(status) == status \in {"claimed", "running", "blocked", "review", "failed"}

-----------------------------------------------------------------------------
(* Tasks *)

\* add_task: dependencies must exist already; ids are never reused.
CanAdd(o, deps) == Cardinality(Ids(o)) < MaxTasks /\ deps \subseteq Ids(o)

NewTask(paths, deps, gate, project, auto) ==
  [status |-> "queued", assignee |-> NoPane, deps |-> deps, paths |-> paths,
   gate |-> gate, project |-> project, auto |-> auto, mode |-> "none",
   place |-> "none", attempt |-> 1, started |-> FALSE, saturated |-> FALSE]

AddTask(o, task) ==
  [o EXCEPT !.nextTask = @ + 1,
            !.tasks = [t \in Ids(o) \cup {o.nextTask + 1} |->
                         IF t = o.nextTask + 1 THEN task ELSE o.tasks[t]]]

CanBindProject(o, id, project) ==
  \/ o.tasks[id].project = NoProject
  \/ <<o.tasks[id].project, project>> \in SameProject

BindProject(o, id, project) ==
  IF o.tasks[id].project = NoProject
  THEN [o EXCEPT !.tasks[id].project = project]
  ELSE o

\* A dependency is available once merged, or once done when it has no branch.
Available(t) == t.status = "merged" \/ (t.status = "done" /\ ~HasBranch(t))

Ready(o, id) == \A d \in o.tasks[id].deps : d \in Ids(o) /\ Available(o.tasks[d])

CanClaim(o, id) ==
  /\ o.tasks[id].status \notin {"done", "merging", "merged"}
  /\ Ready(o, id)
  /\ o.tasks[id].assignee = NoPane \/ o.tasks[id].status = "queued"

Claim(o, id, pane) ==
  [o EXCEPT !.tasks[id] = [@ EXCEPT !.assignee = pane, !.status = "claimed",
                                    !.started = TRUE]]

\* next_ready_in_project: queued, ready, owned by the project or by none.
Claimable(o, project) ==
  {t \in Ids(o) : /\ o.tasks[t].status = "queued"
                  /\ Ready(o, t)
                  /\ CanBindProject(o, t, project)}

Forget(o, id) == Restrict(o.mergePrevious, DOMAIN o.mergePrevious \ {id})

\* set_status accepts any status; only begin_merge keeps a rollback target.
SetStatus(o, id, status) ==
  [o EXCEPT !.tasks[id].status = status, !.mergePrevious = Forget(o, id)]

ReleaseTaskLeases(o, id) == [o EXCEPT !.leases = {l \in @ : l.task # id}]

\* A dependent that left the queue once pins the attempt it builds on.
LeftQueue(t) ==
  t.status # "queued" \/ t.started \/ t.assignee # NoPane \/ t.place # "none"

\* validate_retry forgets the dependents.
CanRetryAnyDependents(o, id) ==
  o.tasks[id].status \in {"done", "failed", "review", "blocked"}

CanRetry(o, id) ==
  /\ o.tasks[id].status \in {"done", "failed", "review", "blocked"}
  /\ \A c \in Ids(o) : id \in o.tasks[c].deps => ~LeftQueue(o.tasks[c])

RetryTask(o, id) ==
  LET fresh == [o.tasks[id] EXCEPT !.attempt = @ + 1, !.assignee = NoPane,
                                   !.status = "queued", !.place = "none",
                                   !.saturated = FALSE, !.started = FALSE]
  IN  ReleaseTaskLeases([o EXCEPT !.tasks[id] = fresh,
                                  !.mergePrevious = Forget(o, id)], id)

\* two integrations at once.
CanBeginMergeBeside(o, id) == o.tasks[id].status \in {"done", "blocked"}

CanBeginMerge(o, id) ==
  /\ \A t \in Ids(o) : o.tasks[t].status # "merging"
  /\ o.tasks[id].status \in {"done", "blocked"}

\* the rollback target is read after the status was set.
BeginMergeReadsLate(o, id) ==
  [o EXCEPT !.tasks[id].status = "merging",
            !.mergePrevious = [t \in DOMAIN @ \cup {id} |->
                                 IF t = id THEN "merging" ELSE @[t]]]

BeginMerge(o, id) ==
  [o EXCEPT !.tasks[id].status = "merging",
            !.mergePrevious = [t \in DOMAIN @ \cup {id} |->
                                 IF t = id THEN o.tasks[id].status ELSE @[t]]]

CanFinishMerge(o, id) == id \in Ids(o) /\ o.tasks[id].status = "merging"

FinishMerge(o, id, status) ==
  [o EXCEPT !.tasks[id].status = status, !.mergePrevious = Forget(o, id)]

\* bind_worktree and bind_workspace: where the started worker runs.
BindPlace(o, id, mode) == [o EXCEPT !.tasks[id] = [@ EXCEPT !.mode = mode, !.place = mode]]

CanDelete(o, id) == o.tasks[id].status \notin {"claimed", "running", "merging"}

DeleteTask(o, id) ==
  [ReleaseTaskLeases(o, id) EXCEPT
     !.tasks = [t \in Ids(o) \ {id} |-> [o.tasks[t] EXCEPT !.deps = @ \ {id}]],
     !.mergePrevious = Forget(o, id)]

CanRelease(o, id) == HoldsLeases(o.tasks[id].status)

\* release_task: the leases are released by the caller.
ReleaseTask(o, id) ==
  [o EXCEPT !.tasks[id] = [@ EXCEPT !.assignee = NoPane, !.status = "queued"]]

-----------------------------------------------------------------------------
(* Leases *)

\* Two tasks of unrelated projects never conflict; a task without a project
\* (or one that no longer exists) conflicts with every other.
ProjectOf(o, id) == IF id \in Ids(o) THEN o.tasks[id].project ELSE NoProject

ShareScope(o, a, b) ==
  \/ ProjectOf(o, a) = NoProject
  \/ ProjectOf(o, b) = NoProject
  \/ <<ProjectOf(o, a), ProjectOf(o, b)>> \in SameProject

PathsOverlap(a, b) == \E p \in a, q \in b : <<p, q>> \in Overlap

Conflicts(o, lease, id, paths) ==
  /\ lease.task # id
  /\ ShareScope(o, id, lease.task)
  /\ PathsOverlap(lease.paths, paths)

\* The declared paths of `id` that none of its leases names.
MissingPaths(o, id, paths) ==
  paths \ UNION {l.paths : l \in {m \in o.leases : m.task = id}}

\* equal patterns conflict, overlapping ones do not.
CanLeaseExactPaths(o, id, paths) ==
  /\ MissingPaths(o, id, paths) # {} => Cardinality(o.leases) < MaxLeases
  /\ \A l \in o.leases :
       ~(l.task # id /\ ShareScope(o, id, l.task) /\ l.paths \cap paths # {})

CanLease(o, id, paths) ==
  /\ MissingPaths(o, id, paths) # {} => Cardinality(o.leases) < MaxLeases
  /\ \A l \in o.leases : ~Conflicts(o, l, id, paths)

CanAcquire(o, pane, id, paths) ==
  /\ o.tasks[id].status \notin {"done", "merging", "merged"}
  /\ o.tasks[id].assignee \in {NoPane, pane}
  /\ Cardinality(o.leases) < MaxLeases
  /\ paths # {}
  /\ \A l \in o.leases : ~Conflicts(o, l, id, paths)

\* The code numbers leases for ever; only that live ids differ matters here.
FreeLeaseId(leases) ==
  CHOOSE n \in 1..Cardinality(leases) + 1 : \A l \in leases : l.id # n

Acquire(o, pane, id, paths) ==
  [o EXCEPT !.leases = @ \cup {[id |-> FreeLeaseId(@), pane |-> pane,
                                task |-> id, paths |-> paths]}]

\* The leases of `id`, now held by `pane`; every other lease as it was.
RebindLeases(leases, id, pane) ==
  {IF l.task = id THEN [l EXCEPT !.pane = pane] ELSE l : l \in leases}

BindTaskPaths(o, id, pane, paths) ==
  LET missing == MissingPaths(o, id, paths)
      bound   == [o EXCEPT !.leases = RebindLeases(@, id, pane)]
  IN  IF missing = {} THEN bound ELSE Acquire(bound, pane, id, missing)

ReleasePaneLeases(o, pane) == [o EXCEPT !.leases = {l \in @ : l.pane # pane}]

\* Leases of tasks that still hold them and still have a worker, rebound to it.
LiveLeases(o) ==
  {[l EXCEPT !.pane = o.tasks[l.task].assignee] :
     l \in {m \in o.leases : /\ m.task \in Ids(o)
                             /\ HoldsLeases(o.tasks[m.task].status)
                             /\ o.tasks[m.task].assignee # NoPane}}

Exclusive(o, leases) ==
  \A l, m \in leases : ~Conflicts(o, l, m.task, m.paths)

\* reconcile_leases keeps a lease unless one kept before it conflicts or the
\* cap is reached: any maximal exclusive choice stands for the saved order.
Reconciled(o) ==
  {k \in SUBSET LiveLeases(o) :
     /\ Exclusive(o, k)
     /\ Cardinality(k) <= MaxLeases
     /\ \A l \in LiveLeases(o) \ k :
          \/ Cardinality(k) = MaxLeases
          \/ \E m \in k : Conflicts(o, m, l.task, l.paths)}

-----------------------------------------------------------------------------
(* Loading *)

\* every interrupted integration goes back to done.
RecoverMergesToDone(o) ==
  [o EXCEPT
     !.tasks = [t \in Ids(o) |->
        IF o.tasks[t].status # "merging" THEN o.tasks[t]
        ELSE [o.tasks[t] EXCEPT !.status = "done"]],
     !.mergePrevious = [t \in {} |-> "done"]]

\* load_from: no Git job survives a restart, so an interrupted integration
\* goes back to the status it was reserved from.
RecoverMerges(o) ==
  [o EXCEPT
     !.tasks = [t \in Ids(o) |->
        IF o.tasks[t].status # "merging" THEN o.tasks[t]
        ELSE [o.tasks[t] EXCEPT !.status =
               IF t \in DOMAIN o.mergePrevious THEN o.mergePrevious[t] ELSE "done"]],
     !.mergePrevious = [t \in {} |-> "done"]]

=============================================================================
