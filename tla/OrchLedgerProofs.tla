-------------------------- MODULE OrchLedgerProofs --------------------------
(***************************************************************************)
(* Theorems about OrchLedger for every value of its constants: its type    *)
(* invariant, the exclusion of path leases, and what becomes of tasks,     *)
(* attempts and integrations.  They rest on lemmas about the operators of  *)
(* OrchState, which come first in each part: what the operators return and *)
(* preserve.                                                               *)
(*                                                                         *)
(* Two parts follow about the ledger's neighbours: WorktreeSlot, the slot  *)
(* in which a task's tree is made before it starts (SlotSafe, for any      *)
(* trees, requests and settings), and PathOverlap, the overlap of lease    *)
(* patterns (OverlapSound, for patterns of any length), with what both     *)
(* together say of the files that leases cover.                            *)
(***************************************************************************)
EXTENDS OrchLedger, WorktreeSlot, PathOverlap, FiniteSetTheorems, SequenceTheorems,
        WellFoundedInduction, TLAPS

-----------------------------------------------------------------------------
(* Finite sets *)

\* A lease that is granted gets an id no live lease has: among one more ids
\* than there are leases, one is free (acquire_lease numbers them for ever).
LEMMA FreeLeaseIdIsFree ==
  ASSUME NEW leases, IsFiniteSet(leases)
  PROVE  /\ FreeLeaseId(leases) \in Nat
         /\ \A l \in leases : l.id # FreeLeaseId(leases)
<1> DEFINE k == Cardinality(leases)
           f == [l \in leases |-> l.id]
           used == {f[l] : l \in leases}
<1>1. k \in Nat
  BY FS_CardinalityType
<1>2. IsFiniteSet(used) /\ Cardinality(used) <= k
  <2>1. f \in Surjection(leases, used)
    BY DEF Surjection
  <2> HIDE DEF f, used
  <2>. QED
    BY <2>1, FS_Surjection
<1>3. \E n \in 1..k + 1 : \A l \in leases : l.id # n
  <2>1. SUFFICES ASSUME \A n \in 1..k + 1 : \E l \in leases : l.id = n
                 PROVE  FALSE
    OBVIOUS
  <2>2. 1..k + 1 \subseteq used
    BY <2>1
  <2> HIDE DEF used
  <2>3. Cardinality(1..k + 1) <= Cardinality(used)
    BY <1>2, <2>2, FS_Subset
  <2>4. Cardinality(1..k + 1) = k + 1
    BY <1>1, FS_Interval
  <2>5. Cardinality(used) \in Nat
    BY <1>2, FS_CardinalityType
  <2>. QED
    BY <1>1, <1>2, <2>3, <2>4, <2>5
<1>. QED
  BY <1>1, <1>3 DEF FreeLeaseId

-----------------------------------------------------------------------------
(* The type of a ledger *)

\* A task stays one when a single field gets a value of the field's type.
LEMMA TaskField ==
  ASSUME NEW t \in Task
  PROVE  /\ \A s \in Status : [t EXCEPT !.status = s] \in Task
         /\ \A n \in Nat : [t EXCEPT !.assignee = n] \in Task
         /\ \A n \in Nat : [t EXCEPT !.attempt = n] \in Task
         /\ \A d \in SUBSET Nat : [t EXCEPT !.deps = d] \in Task
         /\ \A p \in Projects : [t EXCEPT !.project = p] \in Task
         /\ \A m \in Mode : [t EXCEPT !.mode = m] \in Task /\ [t EXCEPT !.place = m] \in Task
         /\ \A b \in BOOLEAN : [t EXCEPT !.started = b] \in Task
                               /\ [t EXCEPT !.saturated = b] \in Task
BY DEF Task

\* The empty ledger a first start loads has the type.
LEMMA EmptyLedgerType == LedgerType(EmptyLedger)
BY FS_EmptySet DEF LedgerType, EmptyLedger, Ids

\* Replacing one task's record, as most methods do, keeps the type.
LEMMA TaskReplacedType ==
  ASSUME NEW o, LedgerType(o), NEW id \in Ids(o), NEW t \in Task
  PROVE  LedgerType([o EXCEPT !.tasks[id] = t])
BY DEF LedgerType, Ids

\* Replacing the leases by finitely many leases keeps the type.
LEMMA LeasesReplacedType ==
  ASSUME NEW o, LedgerType(o), NEW leases \in SUBSET Lease, IsFiniteSet(leases)
  PROVE  LedgerType([o EXCEPT !.leases = leases])
BY DEF LedgerType, Ids

\* add_task appends a task under the next id.
LEMMA AddTaskType ==
  ASSUME NEW o, LedgerType(o), NEW t \in Task
  PROVE  LedgerType(AddTask(o, t))
BY DEF LedgerType, AddTask, Ids

LEMMA BindProjectType ==
  ASSUME NEW o, LedgerType(o), NEW id \in Ids(o), NEW project \in Projects
  PROVE  /\ LedgerType(BindProject(o, id, project))
         /\ Ids(BindProject(o, id, project)) = Ids(o)
BY DEF LedgerType, BindProject, Ids, Task

LEMMA ClaimType ==
  ASSUME NEW o, LedgerType(o), NEW id \in Ids(o), NEW pane \in Nat
  PROVE  LedgerType(Claim(o, id, pane)) /\ Ids(Claim(o, id, pane)) = Ids(o)
<1> DEFINE t == [o.tasks[id] EXCEPT !.assignee = pane, !.status = "claimed",
                                    !.started = TRUE]
<1>1. t \in Task
  BY TaskField DEF LedgerType, Status
<1>2. Claim(o, id, pane) = [o EXCEPT !.tasks[id] = t]
  BY DEF Claim
<1>. QED
  BY <1>1, <1>2, TaskReplacedType DEF LedgerType, Ids

LEMMA SetStatusType ==
  ASSUME NEW o, LedgerType(o), NEW id \in Ids(o), NEW status \in Status
  PROVE  LedgerType(SetStatus(o, id, status)) /\ Ids(SetStatus(o, id, status)) = Ids(o)
BY DEF LedgerType, SetStatus, Ids, Task, Forget, Restrict

LEMMA ReleaseTaskLeasesType ==
  ASSUME NEW o, LedgerType(o), NEW id
  PROVE  /\ LedgerType(ReleaseTaskLeases(o, id))
         /\ Ids(ReleaseTaskLeases(o, id)) = Ids(o)
BY FS_Subset DEF LedgerType, ReleaseTaskLeases, Ids

LEMMA ReleasePaneLeasesType ==
  ASSUME NEW o, LedgerType(o), NEW pane
  PROVE  /\ LedgerType(ReleasePaneLeases(o, pane))
         /\ Ids(ReleasePaneLeases(o, pane)) = Ids(o)
BY FS_Subset DEF LedgerType, ReleasePaneLeases, Ids

LEMMA RetryTaskType ==
  ASSUME NEW o, LedgerType(o), NEW id \in Ids(o)
  PROVE  LedgerType(RetryTask(o, id))
<1> DEFINE fresh == [o.tasks[id] EXCEPT !.attempt = @ + 1, !.assignee = NoPane,
                                        !.status = "queued", !.place = "none",
                                        !.saturated = FALSE, !.started = FALSE]
           p == [o EXCEPT !.tasks[id] = fresh, !.mergePrevious = Forget(o, id)]
<1>1. fresh \in Task
  <2> DEFINE t == o.tasks[id]
             t1 == [t EXCEPT !.attempt = t.attempt + 1]
             t2 == [t1 EXCEPT !.assignee = NoPane]
             t3 == [t2 EXCEPT !.status = "queued"]
             t4 == [t3 EXCEPT !.place = "none"]
             t5 == [t4 EXCEPT !.saturated = FALSE]
             t6 == [t5 EXCEPT !.started = FALSE]
  <2>1. t \in Task /\ t.attempt + 1 \in Nat
    BY DEF LedgerType, Task
  <2>2. t1 \in Task /\ t2 \in Task
    BY <2>1, TaskField DEF NoPane
  <2>3. t3 \in Task /\ t4 \in Task
    BY <2>2, TaskField DEF Status, Mode
  <2>4. t5 \in Task /\ t6 \in Task
    BY <2>3, TaskField
  <2>5. fresh = t6
    BY <2>1 DEF Task
  <2>. QED
    BY <2>4, <2>5
<1>2. LedgerType(p)
  <2> HIDE DEF fresh
  <2>. QED BY <1>1 DEF LedgerType, Ids, Forget, Restrict
<1>3. RetryTask(o, id) = ReleaseTaskLeases(p, id)
  BY DEF RetryTask
<1>. QED
  BY <1>2, <1>3, ReleaseTaskLeasesType

LEMMA BeginMergeType ==
  ASSUME NEW o, LedgerType(o), NEW id \in Ids(o), CanBeginMerge(o, id)
  PROVE  LedgerType(BeginMerge(o, id)) /\ Ids(BeginMerge(o, id)) = Ids(o)
BY DEF LedgerType, BeginMerge, CanBeginMerge, Ids, Task, Status

LEMMA FinishMergeType ==
  ASSUME NEW o, LedgerType(o), NEW id \in Ids(o), NEW status \in Status
  PROVE  LedgerType(FinishMerge(o, id, status))
BY DEF LedgerType, FinishMerge, Ids, Task, Forget, Restrict

LEMMA BindPlaceType ==
  ASSUME NEW o, LedgerType(o), NEW id \in Ids(o), NEW mode \in Mode
  PROVE  LedgerType(BindPlace(o, id, mode))
<1> DEFINE t == [o.tasks[id] EXCEPT !.mode = mode, !.place = mode]
<1>1. t \in Task
  BY TaskField DEF LedgerType
<1>2. BindPlace(o, id, mode) = [o EXCEPT !.tasks[id] = t]
  BY DEF BindPlace
<1>. QED
  BY <1>1, <1>2, TaskReplacedType

LEMMA DeleteTaskType ==
  ASSUME NEW o, LedgerType(o), NEW id \in Ids(o)
  PROVE  LedgerType(DeleteTask(o, id))
<1> DEFINE p == ReleaseTaskLeases(o, id)
<1>1. LedgerType(p) /\ Ids(p) = Ids(o)
  BY ReleaseTaskLeasesType
<1>2. \A t \in Ids(o) : [p.tasks[t] EXCEPT !.deps = @ \ {id}] \in Task
  <2> HIDE DEF p
  <2>. QED BY <1>1 DEF LedgerType, Task
<1>3. \A t \in DOMAIN Forget(o, id) : Forget(o, id)[t] \in {"done", "blocked"}
  BY DEF LedgerType, Forget, Restrict
<1>4. p.tasks = o.tasks /\ p.nextTask = o.nextTask
  BY DEF ReleaseTaskLeases, LedgerType
<1>5. DeleteTask(o, id) =
        [p EXCEPT !.tasks = [t \in Ids(o) \ {id} |-> [o.tasks[t] EXCEPT !.deps = @ \ {id}]],
                  !.mergePrevious = Forget(o, id)]
  BY DEF DeleteTask
<1> HIDE DEF p
<1>. QED
  BY <1>1, <1>2, <1>3, <1>4, <1>5 DEF LedgerType, Ids

LEMMA ReleaseTaskType ==
  ASSUME NEW o, LedgerType(o), NEW id \in Ids(o)
  PROVE  LedgerType(ReleaseTask(o, id))
<1> DEFINE t == [o.tasks[id] EXCEPT !.assignee = NoPane, !.status = "queued"]
<1>1. t \in Task
  BY TaskField DEF LedgerType, Status, NoPane
<1>2. ReleaseTask(o, id) = [o EXCEPT !.tasks[id] = t]
  BY DEF ReleaseTask
<1>. QED
  BY <1>1, <1>2, TaskReplacedType

LEMMA AcquireType ==
  ASSUME NEW o, LedgerType(o), NEW pane \in Pane, NEW id \in Nat, NEW paths \in SUBSET Paths
  PROVE  LedgerType(Acquire(o, pane, id, paths)) /\ Ids(Acquire(o, pane, id, paths)) = Ids(o)
<1> DEFINE n == FreeLeaseId(o.leases)
           lease == [id |-> n, pane |-> pane, task |-> id, paths |-> paths]
<1>1. n \in Nat
  BY FreeLeaseIdIsFree DEF LedgerType
<1>2. lease \in Lease
  BY <1>1 DEF Lease
<1>3. IsFiniteSet(o.leases \cup {lease})
  BY FS_AddElement DEF LedgerType
<1>4. Acquire(o, pane, id, paths) = [o EXCEPT !.leases = o.leases \cup {lease}]
  BY DEF Acquire
<1> HIDE DEF lease
<1>. QED
  BY <1>2, <1>3, <1>4 DEF LedgerType, Ids

\* Rebinding leases renames their panes and nothing else.
LEMMA RebindLeasesType ==
  ASSUME NEW leases \in SUBSET Lease, IsFiniteSet(leases), NEW id, NEW pane \in Pane
  PROVE  /\ RebindLeases(leases, id, pane) \in SUBSET Lease
         /\ IsFiniteSet(RebindLeases(leases, id, pane))
<1> DEFINE f == [l \in leases |-> IF l.task = id THEN [l EXCEPT !.pane = pane] ELSE l]
           bound == RebindLeases(leases, id, pane)
<1>1. bound \in SUBSET Lease
  BY DEF RebindLeases, Lease
<1>2. f \in Surjection(leases, bound)
  BY DEF Surjection, RebindLeases
<1> HIDE DEF f, bound
<1>. QED
  BY <1>1, <1>2, FS_Surjection DEF bound

LEMMA BindTaskPathsType ==
  ASSUME NEW o, LedgerType(o), NEW id \in Nat, NEW pane \in Pane, NEW paths \in SUBSET Paths
  PROVE  /\ LedgerType(BindTaskPaths(o, id, pane, paths))
         /\ Ids(BindTaskPaths(o, id, pane, paths)) = Ids(o)
<1> DEFINE missing == MissingPaths(o, id, paths)
           bound == [o EXCEPT !.leases = RebindLeases(o.leases, id, pane)]
<1>1. LedgerType(bound) /\ Ids(bound) = Ids(o)
  BY RebindLeasesType DEF LedgerType, Ids
<1>2. missing \in SUBSET Paths
  BY DEF MissingPaths
<1>3. BindTaskPaths(o, id, pane, paths) =
        IF missing = {} THEN bound ELSE Acquire(bound, pane, id, missing)
  BY DEF BindTaskPaths
<1> HIDE DEF missing, bound
<1>. QED
  BY <1>1, <1>2, <1>3, AcquireType

\* Whatever reconcile_leases keeps is a finite set of leases.
LEMMA ReconciledType ==
  ASSUME NEW o, LedgerType(o), NEW kept \in Reconciled(o)
  PROVE  LedgerType([o EXCEPT !.leases = kept])
<1> DEFINE old == {m \in o.leases : /\ m.task \in Ids(o)
                                    /\ HoldsLeases(o.tasks[m.task].status)
                                    /\ o.tasks[m.task].assignee # NoPane}
           f == [l \in old |-> [l EXCEPT !.pane = o.tasks[l.task].assignee]]
<1>1. IsFiniteSet(old)
  BY FS_Subset DEF LedgerType
<1>2. f \in Surjection(old, LiveLeases(o))
  BY DEF Surjection, LiveLeases
<1>3. IsFiniteSet(LiveLeases(o))
  <2> HIDE DEF f, old
  <2>. QED BY <1>1, <1>2, FS_Surjection
<1>4. LiveLeases(o) \in SUBSET Lease
  BY DEF LedgerType, LiveLeases, Lease, Task, Ids, Pane, NoPane
<1>5. kept \in SUBSET LiveLeases(o)
  BY DEF Reconciled
<1>. QED
  BY <1>3, <1>4, <1>5, FS_Subset, LeasesReplacedType

LEMMA RecoverMergesType ==
  ASSUME NEW o, LedgerType(o)
  PROVE  LedgerType(RecoverMerges(o)) /\ Ids(RecoverMerges(o)) = Ids(o)
<1> DEFINE back(t) == IF t \in DOMAIN o.mergePrevious THEN o.mergePrevious[t] ELSE "done"
           recovered(t) == IF o.tasks[t].status # "merging" THEN o.tasks[t]
                           ELSE [o.tasks[t] EXCEPT !.status = back(t)]
<1>1. \A t \in Ids(o) : recovered(t) \in Task
  <2>1. \A t \in Ids(o) : back(t) \in Status
    BY DEF LedgerType, Status
  <2> HIDE DEF back
  <2>. QED BY <2>1, TaskField DEF LedgerType
<1>2. RecoverMerges(o) = [o EXCEPT !.tasks = [t \in Ids(o) |-> recovered(t)],
                                   !.mergePrevious = [t \in {} |-> "done"]]
  BY DEF RecoverMerges
<1> HIDE DEF recovered
<1>. QED
  BY <1>1, <1>2 DEF LedgerType, Ids

-----------------------------------------------------------------------------
(* The exclusion of leases *)

\* A conflict of two leases is seen from both sides.
LEMMA ConflictSymmetric ==
  ASSUME NEW o, NEW l, NEW m
  PROVE  Conflicts(o, l, m.task, m.paths) <=> Conflicts(o, m, l.task, l.paths)
<1>1. \A a, b : ShareScope(o, a, b) <=> ShareScope(o, b, a)
  BY ProjectAssumption DEF ShareScope
<1>2. \A a, b : PathsOverlap(a, b) <=> PathsOverlap(b, a)
  BY OverlapAssumption DEF PathsOverlap
<1>. QED
  BY <1>1, <1>2 DEF Conflicts

\* Every lease of p is a lease of o (on whatever pane), and its task is in the
\* project it was in, unless it was in none.
Narrows(o, p) ==
  \A l \in p.leases :
    /\ \E k \in o.leases : k.task = l.task /\ k.paths = l.paths
    /\ \/ ProjectOf(p, l.task) = ProjectOf(o, l.task)
       \/ ProjectOf(o, l.task) = NoProject

LEMMA NarrowsExclusive ==
  ASSUME NEW o, NEW p, Exclusive(o, o.leases), Narrows(o, p)
  PROVE  Exclusive(p, p.leases)
<1>1. SUFFICES ASSUME NEW l \in p.leases, NEW m \in p.leases, Conflicts(p, l, m.task, m.paths)
               PROVE  FALSE
  BY DEF Exclusive
<1>2. PICK k \in o.leases, n \in o.leases : /\ k.task = l.task /\ k.paths = l.paths
                                            /\ n.task = m.task /\ n.paths = m.paths
  BY DEF Narrows
<1>3. ShareScope(o, m.task, l.task)
  BY <1>1 DEF Narrows, ShareScope, Conflicts
<1>4. Conflicts(o, k, n.task, n.paths)
  BY <1>1, <1>2, <1>3 DEF Conflicts
<1>. QED
  BY <1>4 DEF Exclusive

LEMMA NarrowsTransitive ==
  ASSUME NEW o, NEW p, NEW q, Narrows(o, p), Narrows(p, q)
  PROVE  Narrows(o, q)
<1>1. SUFFICES ASSUME NEW l \in q.leases
               PROVE  /\ \E k \in o.leases : k.task = l.task /\ k.paths = l.paths
                      /\ \/ ProjectOf(q, l.task) = ProjectOf(o, l.task)
                         \/ ProjectOf(o, l.task) = NoProject
  BY DEF Narrows
<1>2. PICK m \in p.leases : m.task = l.task /\ m.paths = l.paths
  BY DEF Narrows
<1>. QED
  BY <1>2 DEF Narrows

\* Granting paths that conflict with no lease keeps the leases exclusive.
LEMMA AcquireExclusive ==
  ASSUME NEW o, LedgerType(o), Exclusive(o, o.leases), NEW pane, NEW id, NEW paths,
         \A l \in o.leases : ~Conflicts(o, l, id, paths)
  PROVE  LET p == Acquire(o, pane, id, paths) IN Exclusive(p, p.leases)
<1> DEFINE lease == [id |-> FreeLeaseId(o.leases), pane |-> pane, task |-> id, paths |-> paths]
           p == Acquire(o, pane, id, paths)
<1>1. p.leases = o.leases \cup {lease} /\ p.tasks = o.tasks
  BY DEF Acquire, LedgerType
<1>2. \A l, t, s : Conflicts(p, l, t, s) <=> Conflicts(o, l, t, s)
  <2> HIDE DEF p
  <2>. QED BY <1>1 DEF Conflicts, ShareScope, ProjectOf, Ids
<1>3. lease.task = id /\ lease.paths = paths
  OBVIOUS
<1>4. ~Conflicts(o, lease, id, paths)
  BY <1>3 DEF Conflicts
<1> HIDE DEF p, lease
<1>5. \A l \in o.leases : ~Conflicts(o, lease, l.task, l.paths)
  BY <1>3, ConflictSymmetric
<1>6. \A l, m \in o.leases \cup {lease} : ~Conflicts(o, l, m.task, m.paths)
  BY <1>3, <1>4, <1>5 DEF Exclusive
<1>. QED
  BY <1>1, <1>2, <1>6 DEF Exclusive, p

LEMMA BindTaskPathsExclusive ==
  ASSUME NEW o, LedgerType(o), Exclusive(o, o.leases), NEW id \in Nat, NEW pane \in Pane,
         NEW paths, \A l \in o.leases : ~Conflicts(o, l, id, paths)
  PROVE  LET p == BindTaskPaths(o, id, pane, paths) IN Exclusive(p, p.leases)
<1> DEFINE missing == MissingPaths(o, id, paths)
           bound == [o EXCEPT !.leases = RebindLeases(o.leases, id, pane)]
<1>1. BindTaskPaths(o, id, pane, paths) =
        IF missing = {} THEN bound ELSE Acquire(bound, pane, id, missing)
  BY DEF BindTaskPaths
<1>2. LedgerType(bound)
  BY RebindLeasesType DEF LedgerType, Ids
<1>3. bound.tasks = o.tasks /\ bound.leases = RebindLeases(o.leases, id, pane)
  BY DEF LedgerType
<1> HIDE DEF bound
<1>4. \A l \in bound.leases : \E k \in o.leases : k.task = l.task /\ k.paths = l.paths
  BY <1>3 DEF RebindLeases, LedgerType, Lease
<1>5. Narrows(o, bound)
  BY <1>3, <1>4 DEF Narrows, ProjectOf, Ids
<1>6. Exclusive(bound, bound.leases)
  BY <1>5, NarrowsExclusive
<1>7. \A l \in bound.leases : ~Conflicts(bound, l, id, missing)
  <2>1. missing \subseteq paths
    BY DEF MissingPaths
  <2>. QED
    BY <1>3, <1>4, <2>1 DEF Conflicts, PathsOverlap, ShareScope, ProjectOf, Ids
<1>. QED
  BY <1>1, <1>2, <1>6, <1>7, AcquireExclusive

\* The methods that neither grant a lease nor move a task between projects.
LEMMA TaskMethodsNarrow ==
  ASSUME NEW o, LedgerType(o), NEW id \in Ids(o)
  PROVE  /\ \A project \in Projects : Narrows(o, BindProject(o, id, project))
         /\ \A pane \in Nat : Narrows(o, Claim(o, id, pane))
         /\ \A status \in Status : Narrows(o, SetStatus(o, id, status))
         /\ \A mode \in Mode : Narrows(o, BindPlace(o, id, mode))
         /\ Narrows(o, ReleaseTask(o, id))
         /\ Narrows(o, BeginMerge(o, id))
         /\ \A status \in Status : Narrows(o, FinishMerge(o, id, status))
<1> USE DEF Narrows, ProjectOf, LedgerType, Ids
<1>1. \A project \in Projects : Narrows(o, BindProject(o, id, project))
  BY DEF BindProject, Task
<1>2. \A pane \in Nat : Narrows(o, Claim(o, id, pane))
  BY DEF Claim, Task
<1>3. \A status \in Status : Narrows(o, SetStatus(o, id, status))
  BY DEF SetStatus, Task
<1>4. \A mode \in Mode : Narrows(o, BindPlace(o, id, mode))
  BY DEF BindPlace, Task
<1>5. Narrows(o, ReleaseTask(o, id))
  BY DEF ReleaseTask, Task
<1>6. Narrows(o, BeginMerge(o, id))
  BY DEF BeginMerge, Task
<1>7. \A status \in Status : Narrows(o, FinishMerge(o, id, status))
  BY DEF FinishMerge, Task
<1>. QED
  BY <1>1, <1>2, <1>3, <1>4, <1>5, <1>6, <1>7

LEMMA ReleaseLeasesNarrow ==
  ASSUME NEW o, LedgerType(o), NEW leases, leases \subseteq o.leases
  PROVE  Narrows(o, [o EXCEPT !.leases = leases])
BY DEF Narrows, ProjectOf, LedgerType, Ids

LEMMA AddTaskNarrows ==
  ASSUME NEW o, LedgerType(o), NEW t \in Task
  PROVE  Narrows(o, AddTask(o, t))
<1>1. o.nextTask + 1 \notin Ids(o)
  BY DEF LedgerType
<1>. QED
  BY <1>1 DEF Narrows, AddTask, ProjectOf, LedgerType, Ids

LEMMA RetryTaskNarrows ==
  ASSUME NEW o, LedgerType(o), NEW id \in Ids(o)
  PROVE  Narrows(o, RetryTask(o, id))
<1> DEFINE fresh == [o.tasks[id] EXCEPT !.attempt = @ + 1, !.assignee = NoPane,
                                        !.status = "queued", !.place = "none",
                                        !.saturated = FALSE, !.started = FALSE]
           p == [o EXCEPT !.tasks[id] = fresh, !.mergePrevious = Forget(o, id)]
<1>1. fresh.project = o.tasks[id].project
  BY DEF LedgerType, Task
<1>2. RetryTask(o, id) = [p EXCEPT !.leases = {l \in p.leases : l.task # id}]
  BY DEF RetryTask, ReleaseTaskLeases
<1> HIDE DEF fresh
<1>. QED
  BY <1>1, <1>2 DEF Narrows, ProjectOf, LedgerType, Ids

LEMMA DeleteTaskNarrows ==
  ASSUME NEW o, LedgerType(o), NEW id \in Ids(o)
  PROVE  Narrows(o, DeleteTask(o, id))
<1> DEFINE p == ReleaseTaskLeases(o, id)
           q == DeleteTask(o, id)
<1>1. /\ q.leases = {l \in o.leases : l.task # id}
      /\ q.tasks = [t \in Ids(o) \ {id} |-> [o.tasks[t] EXCEPT !.deps = @ \ {id}]]
  BY DEF DeleteTask, ReleaseTaskLeases, LedgerType
<1>2. \A t \in Ids(o) : [o.tasks[t] EXCEPT !.deps = @ \ {id}].project = o.tasks[t].project
  BY DEF LedgerType, Task
<1> HIDE DEF q
<1>3. \A t : t # id => ProjectOf(q, t) = ProjectOf(o, t)
  BY <1>1, <1>2 DEF ProjectOf, Ids
<1>. QED
  BY <1>1, <1>3 DEF Narrows, q

-----------------------------------------------------------------------------
(* Type correctness *)

\* The operators of the handlers keep the ledger's type.
LEMMA InterruptType ==
  ASSUME NEW o, LedgerType(o), NEW lost
  PROVE  LedgerType(Interrupt(o, lost)) /\ Ids(Interrupt(o, lost)) = Ids(o)
<1> DEFINE failed(t) == IF t \in lost
                        THEN [o.tasks[t] EXCEPT !.assignee = NoPane, !.status = "failed"]
                        ELSE o.tasks[t]
           kept == {l \in o.leases : l.task \notin lost}
           previous == Restrict(o.mergePrevious, DOMAIN o.mergePrevious \ lost)
<1>1. \A t \in Ids(o) : failed(t) \in Task
  BY TaskField DEF LedgerType, Status, NoPane
<1>2. IsFiniteSet(kept) /\ kept \subseteq o.leases
  BY FS_Subset DEF LedgerType
<1>3. \A t \in DOMAIN previous : previous[t] \in {"done", "blocked"}
  BY DEF LedgerType, Restrict
<1>4. Interrupt(o, lost) = [o EXCEPT !.tasks = [t \in Ids(o) |-> failed(t)],
                                     !.leases = kept, !.mergePrevious = previous]
  BY DEF Interrupt
<1> HIDE DEF failed, kept, previous
<1>. QED
  BY <1>1, <1>2, <1>3, <1>4 DEF LedgerType, Ids

LEMMA UnbindType ==
  ASSUME NEW o, LedgerType(o), NEW pane
  PROVE  LedgerType(Unbind(o, pane)) /\ Ids(Unbind(o, pane)) = Ids(o)
<1> DEFINE held == {t \in Ids(o) : o.tasks[t].assignee = pane}
           lost == {t \in held : Interruptible(o.tasks[t])}
           pure == {t \in held \ lost : /\ o.tasks[t].mode = "none"
                                        /\ o.tasks[t].place # "worktree"
                                        /\ o.tasks[t].status \in {"claimed", "running"}}
           freed(t) == CASE t \in pure        -> [o.tasks[t] EXCEPT !.assignee = NoPane,
                                                                    !.status = "queued"]
                         [] t \in held \ pure -> [o.tasks[t] EXCEPT !.assignee = NoPane]
                         [] OTHER             -> o.tasks[t]
           p == [o EXCEPT !.tasks = [t \in Ids(o) |-> freed(t)]]
<1>1. Unbind(o, pane) = Interrupt(p, lost)
  BY DEF Unbind
<1>2. \A t \in Ids(o) : freed(t) \in Task
  <2> HIDE DEF held, pure
  <2>. QED BY TaskField DEF LedgerType, Status, NoPane
<1>3. LedgerType(p) /\ Ids(p) = Ids(o)
  <2> HIDE DEF freed
  <2>. QED BY <1>2 DEF LedgerType, Ids
<1> HIDE DEF p, lost
<1>. QED
  BY <1>1, <1>3, InterruptType

LEMMA ReboundTask ==
  ASSUME NEW t \in Task, NEW pane, t.place # "none" => pane \in Nat
  PROVE  /\ Rebound(t, pane) \in Task
         /\ Rebound(t, pane).status \in {t.status, "queued"}
         /\ \/ Rebound(t, pane).assignee = NoPane
            \/ t.place # "none" /\ Rebound(t, pane).assignee = pane
         /\ Rebound(t, pane).project = t.project
<1> DEFINE status == IF Active(t) THEN "queued" ELSE t.status
           free   == [t EXCEPT !.assignee = NoPane]
           queued == [t EXCEPT !.assignee = NoPane, !.status = status]
<1>1. t.place # "none" => [t EXCEPT !.assignee = pane] \in Task
  BY TaskField
<1>2. free \in Task /\ queued \in Task
  <2>1. status \in Status
    BY DEF Status, Task
  <2> HIDE DEF status
  <2>. QED BY <2>1, TaskField DEF NoPane
<1>3. /\ t.place # "none" => [t EXCEPT !.assignee = pane].assignee = pane
      /\ free.assignee = NoPane /\ queued.assignee = NoPane
      /\ free.status = t.status /\ queued.status \in {t.status, "queued"}
      /\ [t EXCEPT !.assignee = pane].status = t.status
      /\ free.project = t.project /\ queued.project = t.project
      /\ [t EXCEPT !.assignee = pane].project = t.project
  BY DEF Task
<1>4. \/ Rebound(t, pane) = t /\ t.assignee = NoPane
      \/ Rebound(t, pane) = [t EXCEPT !.assignee = pane] /\ t.place # "none"
      \/ Rebound(t, pane) = free
      \/ Rebound(t, pane) = queued
  BY DEF Rebound
<1> HIDE DEF status, free, queued
<1>. QED
  BY <1>1, <1>2, <1>3, <1>4

LEMMA RebindType ==
  ASSUME NEW o, LedgerType(o), NEW home,
         \A t \in Ids(o) : o.tasks[t].place # "none" => home[t] \in Nat
  PROVE  LedgerType(Rebind(o, home)) /\ Ids(Rebind(o, home)) = Ids(o)
<1>1. \A id \in Ids(o) : Rebound(o.tasks[id], home[id]) \in Task
  BY ReboundTask DEF LedgerType
<1>. QED
  BY <1>1 DEF Rebind, LedgerType, Ids

LEMMA StartedType ==
  ASSUME NEW o, LedgerType(o), NEW id \in Ids(o), NEW mode \in Mode, NEW pane \in Pane
  PROVE  LedgerType(Started(o, id, mode, pane))
<1> DEFINE claimed == Claim(o, id, pane)
           leased  == IF o.tasks[id].paths = {} THEN claimed
                      ELSE BindTaskPaths(claimed, id, pane, o.tasks[id].paths)
<1>1. LedgerType(claimed) /\ Ids(claimed) = Ids(o)
  BY ClaimType DEF Pane
<1>2. LedgerType(leased) /\ Ids(leased) = Ids(o)
  <2>1. o.tasks[id].paths \in SUBSET Paths /\ id \in Nat
    BY DEF LedgerType, Task
  <2> HIDE DEF claimed
  <2>. QED BY <1>1, <2>1, BindTaskPathsType
<1>3. LedgerType(SetStatus(leased, id, "running")) /\ Ids(SetStatus(leased, id, "running")) = Ids(o)
  <2> HIDE DEF leased
  <2>. QED BY <1>2, SetStatusType DEF Status
<1>4. Started(o, id, mode, pane) = BindPlace(SetStatus(leased, id, "running"), id, mode)
  BY DEF Started
<1> HIDE DEF leased
<1>. QED
  BY <1>3, <1>4, BindPlaceType

LEMMA FinalizeType ==
  ASSUME NEW o, LedgerType(o), NEW id \in Ids(o)
  PROVE  LedgerType(Finalize(o, id)) /\ Ids(Finalize(o, id)) = Ids(o)
<1>1. "done" \in Status
  BY DEF Status
<1>. QED
  BY <1>1, SetStatusType, ReleaseTaskLeasesType DEF Finalize

\* Saving writes the new ledger or leaves the old snapshot.
LEMMA CommitType ==
  ASSUME TypeOK, NEW o, LedgerType(o), Commit(o)
  PROVE  LedgerType(orch') /\ LedgerType(disk') /\ faults' \in Nat
BY DEF TypeOK, Commit

\* A restart loads the snapshot, takes back every interrupted integration,
\* rebinds each worker to a restored pane or to none, and filters the leases.
LEMMA RestartLedger ==
  ASSUME TypeOK, Restart
  PROVE  \E o, kept :
           /\ LedgerType(o) /\ kept \in Reconciled(o)
           /\ orch' = [o EXCEPT !.leases = kept]
           /\ \A t \in Ids(o) : /\ o.tasks[t].status # "merging"
                                /\ o.tasks[t].assignee \in DOMAIN panes' \cup {NoPane}
           /\ DOMAIN o.mergePrevious = {}
<1> DEFINE loaded == RecoverMerges(disk)
<1>1. PICK n \in 0..MaxPanes :
        /\ panes' \in [1..n -> Projects]
        /\ \E home \in [{t \in Ids(disk) : disk.tasks[t].place # "none"} -> 0..n] :
             \E kept \in Reconciled(Rebind(RecoverMerges(disk), home)) :
               orch' = [Rebind(RecoverMerges(disk), home) EXCEPT !.leases = kept]
  BY DEF Restart
<1>2. PICK home \in [{t \in Ids(disk) : disk.tasks[t].place # "none"} -> 0..n] :
        \E kept \in Reconciled(Rebind(RecoverMerges(disk), home)) :
          orch' = [Rebind(RecoverMerges(disk), home) EXCEPT !.leases = kept]
  BY <1>1
<1>3. LedgerType(disk)
  BY DEF TypeOK
<1>4. LedgerType(loaded) /\ Ids(loaded) = Ids(disk)
  BY <1>3, RecoverMergesType
<1>5. /\ \A t \in Ids(disk) : /\ loaded.tasks[t].place = disk.tasks[t].place
                              /\ loaded.tasks[t].status # "merging"
      /\ DOMAIN loaded.mergePrevious = {}
  BY <1>3 DEF RecoverMerges, LedgerType, Ids, Task
<1> HIDE DEF loaded
<1>6. \A t \in Ids(loaded) : loaded.tasks[t].place # "none" => home[t] \in 0..n
  BY <1>4, <1>5
<1>7. LedgerType(Rebind(loaded, home)) /\ Ids(Rebind(loaded, home)) = Ids(loaded)
  BY <1>4, <1>6, RebindType, n \in Nat, BoundsAssumption
<1>8. /\ \A t \in Ids(loaded) :
           /\ Rebind(loaded, home).tasks[t].status # "merging"
           /\ Rebind(loaded, home).tasks[t].assignee \in (1..n) \cup {NoPane}
      /\ DOMAIN Rebind(loaded, home).mergePrevious = {}
  <2>1. ASSUME NEW t \in Ids(loaded)
        PROVE  /\ Rebind(loaded, home).tasks[t].status \in {loaded.tasks[t].status, "queued"}
               /\ \/ Rebind(loaded, home).tasks[t].assignee = NoPane
                  \/ /\ loaded.tasks[t].place # "none"
                     /\ Rebind(loaded, home).tasks[t].assignee = home[t]
    <3>1. /\ loaded.tasks[t] \in Task
          /\ loaded.tasks[t].place # "none" => home[t] \in Nat
      BY <1>4, <1>6 DEF LedgerType
    <3>2. Rebind(loaded, home).tasks[t] = Rebound(loaded.tasks[t], home[t])
      BY <1>4 DEF Rebind, LedgerType, Ids
    <3>. QED BY <3>1, <3>2, ReboundTask
  <2>2. Rebind(loaded, home).mergePrevious = loaded.mergePrevious
    BY <1>4 DEF Rebind, LedgerType
  <2>3. \A t \in Ids(loaded) : loaded.tasks[t].place # "none" => home[t] \in (1..n) \cup {NoPane}
    BY <1>6 DEF NoPane
  <2>. QED BY <1>4, <1>5, <2>1, <2>2, <2>3
<1>. QED
  BY <1>1, <1>2, <1>7, <1>8 DEF loaded

\* The step lemma: every handler, job completion, crash and boot step keeps
\* the type of every variable.
LEMMA TypeStep == TypeOK /\ [Next]_vars => TypeOK'
<1> SUFFICES ASSUME TypeOK, [Next]_vars PROVE TypeOK'
  OBVIOUS
<1> USE DEF TypeOK
<1>status. /\ \A s \in {"queued", "running", "blocked", "review", "done", "merged", "failed"} :
                s \in Status
           /\ UpdateTo \subseteq Status
  BY BoundsAssumption DEF Status
<1>pane. \A p \in DOMAIN panes : p \in Pane /\ p \in Nat /\ panes[p] \in Projects
  BY DEF Pane, NoPane
<1>id. \A id \in Ids(orch) : id \in Nat
  BY DEF LedgerType
<1>gate. ASSUME NEW id, InvalidateGate(id)
         PROVE  \A t \in DOMAIN gates' : gates'[t] \in Gate
  BY <1>gate DEF InvalidateGate, Gate
<1>1. ASSUME NEW project \in Projects, OpenPane(project) PROVE TypeOK'
  BY <1>1 DEF OpenPane
<1>2. ASSUME NEW p \in DOMAIN panes, ClosePane(p) PROVE TypeOK'
  <2>1. /\ LedgerType(ReleasePaneLeases(orch, p))
        /\ LedgerType(Unbind(ReleasePaneLeases(orch, p), p))
    BY ReleasePaneLeasesType, UnbindType
  <2>. QED BY <1>2, <2>1 DEF ClosePane, CommitTwice, Restrict
<1>3. ASSUME NEW template \in Templates, NEW deps \in SUBSET Ids(orch), TaskAdd(template, deps)
      PROVE  TypeOK'
  <2>1. NewTask(template.paths, deps, template.gate, template.project, template.auto) \in Task
    BY <1>id, BoundsAssumption DEF NewTask, Task, Status, Mode, NoPane
  <2>. QED BY <1>3, <2>1, AddTaskType, CommitType DEF TaskAdd
<1>4. ASSUME NEW p \in DOMAIN panes, TaskNext(p) PROVE TypeOK'
  <2>1. PICK id \in Ids(orch) : Commit(Claim(BindProject(orch, id, panes[p]), id, p))
    BY <1>4 DEF TaskNext, Claimable
  <2>2. LedgerType(Claim(BindProject(orch, id, panes[p]), id, p))
    BY <1>pane, BindProjectType, ClaimType
  <2>. QED BY <1>4, <2>1, <2>2, CommitType DEF TaskNext
<1>5. ASSUME NEW id \in Ids(orch), NEW p \in DOMAIN panes, TaskClaim(id, p) PROVE TypeOK'
  <2>1. LedgerType(BindProject(orch, id, panes[p]))
    BY <1>pane, BindProjectType
  <2>2. LedgerType(Claim(BindProject(orch, id, panes[p]), id, p))
    BY <1>pane, BindProjectType, ClaimType
  <2>. QED BY <1>5, <2>1, <2>2, CommitType DEF TaskClaim, LeaveUnsaved
<1>6. ASSUME NEW id \in Ids(orch), NEW mode \in Modes, NEW project \in Projects,
             TaskStart(id, mode, project)
      PROVE  TypeOK'
  <2> DEFINE bound == BindProject(orch, id, project)
  <2>1. LedgerType(bound) /\ Ids(bound) = Ids(orch)
    BY BindProjectType
  <2>2. mode \in Mode
    BY BoundsAssumption DEF Mode
  <2>3. \A p \in Pane : LedgerType(Started(bound, id, mode, p))
    <3> HIDE DEF bound
    <3>. QED BY <2>1, <2>2, StartedType
  <2>4. lastPane + 1 \in Pane
    BY DEF Pane, NoPane
  <2> HIDE DEF bound
  <2>5. CASE /\ lastPane' = lastPane + 1
             /\ panes' = [p \in DOMAIN panes \cup {lastPane + 1} |->
                            IF p = lastPane + 1 THEN project ELSE panes[p]]
             /\ Commit(Started(bound, id, mode, lastPane + 1))
             /\ UNCHANGED <<gates, job, boot, crashes>>
    BY <2>3, <2>4, <2>5, CommitType
  <2>6. CASE /\ \E p \in DOMAIN panes : Commit(Started(bound, id, mode, p))
             /\ UNCHANGED <<panes, lastPane, gates, job, boot, crashes>>
    BY <1>pane, <2>3, <2>6, CommitType
  <2>7. CASE LeaveUnsaved(bound) /\ UNCHANGED <<panes, lastPane, gates, job, boot, crashes>>
    BY <2>1, <2>7 DEF LeaveUnsaved
  <2>. QED BY <1>6, <2>5, <2>6, <2>7 DEF TaskStart, bound
<1>7. ASSUME NEW id \in Ids(orch), NEW status \in UpdateTo,
             TaskUpdate(id, status) \/ TaskUpdateBadNote(id, status)
      PROVE  TypeOK'
  <2>1. LedgerType(SetStatus(orch, id, status))
    BY <1>status, SetStatusType
  <2>2. \A t \in DOMAIN gates' : gates'[t] \in Gate
    BY <1>7, <1>gate DEF TaskUpdate, TaskUpdateBadNote, UpdateGate
  <2>. QED BY <1>7, <2>1, <2>2, CommitType DEF TaskUpdate, TaskUpdateBadNote, LeaveUnsaved
<1>8. ASSUME NEW id \in Ids(orch), NEW report \in Reports, Heartbeat(id, report) PROVE TypeOK'
  <2>1. LedgerType([orch EXCEPT !.tasks[id].saturated = report])
    BY BoundsAssumption DEF LedgerType, Ids, Task
  <2>. QED BY <1>8, <2>1, CommitType DEF Heartbeat
<1>9. ASSUME NEW id \in Ids(orch), PaneState(id) PROVE TypeOK'
  <2>1. LedgerType(SetStatus(orch, id, "blocked")) /\ LedgerType(SetStatus(orch, id, "running"))
    BY <1>status, SetStatusType
  <2>. QED BY <1>9, <2>1, CommitType DEF PaneState
<1>10. ASSUME NEW id \in Ids(orch), TaskRelease(id) PROVE TypeOK'
  <2>1. LedgerType(ReleaseTaskLeases(ReleaseTask(orch, id), id))
    BY ReleaseTaskType, ReleaseTaskLeasesType
  <2>. QED BY <1>10, <1>gate, <2>1, CommitType DEF TaskRelease
<1>11. ASSUME NEW id \in Ids(orch), TaskDelete(id) PROVE TypeOK'
  BY <1>11, <1>gate, DeleteTaskType, CommitType DEF TaskDelete
<1>12. ASSUME NEW id \in Ids(orch), TaskRetry(id) PROVE TypeOK'
  BY <1>12, <1>gate, RetryTaskType DEF TaskRetry, CommitOrReject
<1>13. ASSUME NEW id \in Ids(orch), RetryAsNewRun(id) PROVE TypeOK'
  BY <1>13, <1>gate DEF RetryAsNewRun
<1>14. ASSUME NEW id \in Ids(orch), TaskDone(id) PROVE TypeOK'
  BY <1>14, FinalizeType, CommitType DEF TaskDone
<1>15. ASSUME NEW id \in Ids(orch), LaunchGate(id) PROVE TypeOK'
  <2>1. LedgerType(SetStatus(orch, id, "running"))
    BY <1>status, SetStatusType
  <2>2. \A t \in DOMAIN gates' : gates'[t] \in Gate
    BY <1>15 DEF LaunchGate, Gate, Task_, LedgerType, Task, Ids
  <2>. QED BY <1>15, <2>1, <2>2, CommitType DEF LaunchGate
<1>16. ASSUME NEW id \in Ids(orch), TaskMerge(id) PROVE TypeOK'
  <2>1. CanBeginMerge(orch, id) /\ Task_(id).status \in {"done", "blocked"}
    BY <1>16 DEF TaskMerge, CanBeginMerge, Task_
  <2>2. LedgerType(BeginMerge(orch, id)) /\ Ids(BeginMerge(orch, id)) = Ids(orch)
    BY <2>1, BeginMergeType
  <2>3. LedgerType(FinishMerge(BeginMerge(orch, id), id, Task_(id).status))
    BY <1>status, <2>1, <2>2, FinishMergeType
  <2>. QED BY <1>16, <1>id, <2>1, <2>2, <2>3, CommitType DEF TaskMerge, NoJob
<1>17. ASSUME NEW lease \in orch.leases, LeaseRelease(lease) PROVE TypeOK'
  <2>1. LedgerType([orch EXCEPT !.leases = {l \in orch.leases : l.id # lease.id}])
    BY FS_Subset DEF LedgerType, Ids
  <2>. QED BY <1>17, <2>1, CommitType DEF LeaseRelease
<1>18. ASSUME NEW id \in Ids(orch), NEW p \in DOMAIN panes, NEW paths \in LeaseRequests,
              LeaseAcquire(id, p, paths)
       PROVE  TypeOK'
  <2> DEFINE bound == BindProject(orch, id, panes[p])
  <2>1. LedgerType(bound)
    BY <1>pane, BindProjectType
  <2>2. LedgerType(Acquire(bound, p, id, paths))
    <3> HIDE DEF bound
    <3>. QED BY <1>pane, <1>id, <2>1, AcquireType, BoundsAssumption
  <2>. QED BY <1>18, <2>1, <2>2, CommitType DEF LeaseAcquire, LeaveUnsaved
<1>19. ASSUME NEW id \in DOMAIN gates, NEW passed \in BOOLEAN, GateFinished(id, passed)
       PROVE  TypeOK'
  <2>1. \A t \in DOMAIN gates' : gates'[t] \in Gate
    BY <1>19 DEF GateFinished, Restrict
  <2>2. LedgerType(orch') /\ LedgerType(disk') /\ faults' \in Nat
    <3>1. CASE GateCurrent(id)
      <4>1. id \in Ids(orch)
        BY <3>1 DEF GateCurrent
      <4>2. LedgerType(Finalize(orch, id)) /\ LedgerType(SetStatus(orch, id, "review"))
        BY <4>1, <1>status, FinalizeType, SetStatusType
      <4>. QED BY <1>19, <3>1, <4>2, CommitType DEF GateFinished
    <3>2. CASE ~GateCurrent(id)
      BY <1>19, <3>2 DEF GateFinished
    <3>. QED BY <3>1, <3>2
  <2>. QED BY <1>19, <2>1, <2>2 DEF GateFinished
<1>20. ASSUME NEW outcome \in {"merged", "conflict", "error"}, MergeFinished(outcome)
       PROVE  TypeOK'
  <2> DEFINE status == CASE outcome = "merged"   -> "merged"
                         [] outcome = "conflict" -> "blocked"
                         [] outcome = "error"    -> job.previous
  <2>1. status \in Status
    BY <1>status
  <2>2. LedgerType(orch') /\ LedgerType(disk') /\ faults' \in Nat
    <3>1. CASE CanFinishMerge(orch, job.task)
      <4>1. LedgerType(FinishMerge(orch, job.task, status))
        <5> HIDE DEF status
        <5>. QED BY <3>1, <2>1, FinishMergeType DEF CanFinishMerge
      <4>. QED BY <1>20, <3>1, <4>1, CommitType DEF MergeFinished
    <3>2. CASE ~CanFinishMerge(orch, job.task)
      BY <1>20, <3>2 DEF MergeFinished
    <3>. QED BY <3>1, <3>2
  <2>. QED BY <1>20, <2>2 DEF MergeFinished, NoJob
<1>21. ASSUME RecoverLeases PROVE TypeOK'
  <2>1. LedgerType(orch')
    <3>1. CASE boot \in Ids(orch) /\ NeedsLeases(Task_(boot))
      <4>1. Task_(boot).assignee \in Pane /\ Task_(boot).paths \in SUBSET Paths
        BY <3>1 DEF NeedsLeases, Task_, LedgerType, Task, Pane, NoPane
      <4>2. LedgerType(BindTaskPaths(orch, boot, Task_(boot).assignee, Task_(boot).paths))
        BY <4>1, BindTaskPathsType
      <4>3. LedgerType(SetStatus(orch, boot, "blocked"))
        BY <3>1, <1>status, SetStatusType
      <4>. QED BY <1>21, <3>1, <4>2, <4>3 DEF RecoverLeases
    <3>2. CASE ~(boot \in Ids(orch) /\ NeedsLeases(Task_(boot)))
      BY <1>21, <3>2 DEF RecoverLeases
    <3>. QED BY <3>1, <3>2
  <2>. QED BY <1>21, <2>1 DEF RecoverLeases
<1>22. ASSUME FinishBoot PROVE TypeOK'
  BY <1>22, InterruptType, CommitType DEF FinishBoot
<1>boot. ASSUME SaveReconciled PROVE TypeOK'
  BY <1>boot, CommitType DEF SaveReconciled
<1>23. ASSUME Restart PROVE TypeOK'
  <2>1. LedgerType(orch')
    <3>1. PICK o, kept : /\ LedgerType(o) /\ kept \in Reconciled(o)
                         /\ orch' = [o EXCEPT !.leases = kept]
      BY <1>23, RestartLedger
    <3>. QED BY <3>1, ReconciledType
  <2>2. PICK n \in 0..MaxPanes : lastPane' = n /\ panes' \in [1..n -> Projects]
    BY <1>23 DEF Restart
  <2>3. n \in Nat
    BY BoundsAssumption
  <2>. QED BY <1>23, <2>1, <2>2, <2>3 DEF Restart, NoGates, NoJob
<1>24. CASE UNCHANGED vars
  BY <1>24 DEF vars
<1>. QED
  BY <1>1, <1>2, <1>3, <1>4, <1>5, <1>6, <1>7, <1>8, <1>9, <1>10, <1>11, <1>12, <1>13, <1>14,
     <1>15, <1>16, <1>17, <1>18, <1>19, <1>20, <1>21, <1>22, <1>boot, <1>23, <1>24
     DEF Next, PaneStep, TaskStep, LeaseStep, JobStep, BootStep

\* In every reachable state the ledger in memory, the snapshot on disk and the
\* volatile tables have their types: no handler writes a status, a pane or a
\* lease that the next one could not read.
THEOREM TypeCorrect == Spec => []TypeOK
<1>1. Init => TypeOK
  BY EmptyLedgerType DEF Init, TypeOK, NoGates, NoJob
<1>. QED
  BY <1>1, TypeStep, PTL DEF Spec

-----------------------------------------------------------------------------
(* Path leases *)

LEMMA InterruptNarrows ==
  ASSUME NEW o, LedgerType(o), NEW lost
  PROVE  Narrows(o, Interrupt(o, lost))
<1> DEFINE p == Interrupt(o, lost)
           failed(t) == IF t \in lost
                        THEN [o.tasks[t] EXCEPT !.assignee = NoPane, !.status = "failed"]
                        ELSE o.tasks[t]
<1>1. p.leases = {l \in o.leases : l.task \notin lost} /\ p.tasks = [t \in Ids(o) |-> failed(t)]
  BY DEF Interrupt, LedgerType
<1>2. \A t \in Ids(o) : failed(t).project = o.tasks[t].project
  BY DEF LedgerType, Task
<1> HIDE DEF p, failed
<1>3. \A t : ProjectOf(p, t) = ProjectOf(o, t)
  BY <1>1, <1>2 DEF ProjectOf, Ids
<1>. QED
  BY <1>1, <1>3 DEF Narrows, p

LEMMA UnbindNarrows ==
  ASSUME NEW o, LedgerType(o), NEW pane
  PROVE  Narrows(o, Unbind(o, pane))
<1> DEFINE held == {t \in Ids(o) : o.tasks[t].assignee = pane}
           lost == {t \in held : Interruptible(o.tasks[t])}
           pure == {t \in held \ lost : /\ o.tasks[t].mode = "none"
                                        /\ o.tasks[t].place # "worktree"
                                        /\ o.tasks[t].status \in {"claimed", "running"}}
           freed(t) == CASE t \in pure        -> [o.tasks[t] EXCEPT !.assignee = NoPane,
                                                                    !.status = "queued"]
                         [] t \in held \ pure -> [o.tasks[t] EXCEPT !.assignee = NoPane]
                         [] OTHER             -> o.tasks[t]
           p == [o EXCEPT !.tasks = [t \in Ids(o) |-> freed(t)]]
<1>1. Unbind(o, pane) = Interrupt(p, lost)
  BY DEF Unbind
<1>2. \A t \in Ids(o) : freed(t) \in Task /\ freed(t).project = o.tasks[t].project
  <2> HIDE DEF held, pure
  <2>1. \A t \in Ids(o) : freed(t) \in Task
    BY TaskField DEF LedgerType, Status, NoPane
  <2>2. \A t \in Ids(o) : freed(t).project = o.tasks[t].project
    BY DEF LedgerType, Task
  <2>. QED BY <2>1, <2>2
<1> HIDE DEF freed
<1>3. p.leases = o.leases /\ p.tasks = [t \in Ids(o) |-> freed(t)]
  BY DEF LedgerType
<1>4. LedgerType(p)
  BY <1>2 DEF LedgerType, Ids
<1> HIDE DEF p, lost
<1>5. Narrows(o, p)
  BY <1>2, <1>3 DEF Narrows, ProjectOf, Ids
<1>6. Narrows(p, Interrupt(p, lost))
  BY <1>4, InterruptNarrows
<1>. QED
  BY <1>1, <1>5, <1>6, NarrowsTransitive

\* Saving an exclusive ledger: in memory and on disk the leases exclude.
LEMMA CommitExclusive ==
  ASSUME LeaseExclusive, NEW o, Exclusive(o, o.leases), Commit(o)
  PROVE  LeaseExclusive'
BY DEF LeaseExclusive, Commit, Exclusive, Conflicts, ShareScope, ProjectOf, Ids

\* A worker starts only where its declared paths are free.
LEMMA StartedExclusive ==
  ASSUME NEW o, LedgerType(o), Exclusive(o, o.leases), NEW id \in Ids(o), NEW mode \in Mode,
         NEW pane \in Pane, CanStart(o, id, mode)
  PROVE  LET p == Started(o, id, mode, pane) IN Exclusive(p, p.leases)
<1> DEFINE paths   == o.tasks[id].paths
           claimed == Claim(o, id, pane)
           leased  == IF paths = {} THEN claimed ELSE BindTaskPaths(claimed, id, pane, paths)
           running == SetStatus(leased, id, "running")
<1>1. LedgerType(claimed) /\ Ids(claimed) = Ids(o) /\ Narrows(o, claimed)
  BY ClaimType, TaskMethodsNarrow DEF Pane
<1>2. Exclusive(claimed, claimed.leases)
  BY <1>1, NarrowsExclusive
<1>3. paths # {} => \A l \in claimed.leases : ~Conflicts(claimed, l, id, paths)
  <2>1. paths # {} => \A l \in o.leases : ~Conflicts(o, l, id, paths)
    BY DEF CanStart, CanLease
  <2>2. claimed.leases = o.leases
    BY DEF Claim, LedgerType
  <2>3. \A t : ProjectOf(claimed, t) = ProjectOf(o, t)
    BY DEF Claim, ProjectOf, LedgerType, Ids, Task
  <2> HIDE DEF claimed, paths
  <2>. QED BY <2>1, <2>2, <2>3 DEF Conflicts, ShareScope
<1>4. id \in Nat /\ paths \in SUBSET Paths
  BY DEF LedgerType, Task
<1> HIDE DEF claimed, paths
<1>5. LedgerType(leased) /\ Ids(leased) = Ids(o) /\ Exclusive(leased, leased.leases)
  <2>1. CASE paths = {}
    BY <1>1, <1>2, <2>1
  <2>2. CASE paths # {}
    BY <1>1, <1>2, <1>3, <1>4, <2>2, BindTaskPathsType, BindTaskPathsExclusive
  <2>. QED BY <2>1, <2>2
<1> HIDE DEF leased
<1>6. LedgerType(running) /\ Ids(running) = Ids(o) /\ Narrows(leased, running)
  <2>1. "running" \in Status
    BY DEF Status
  <2>. QED BY <1>5, <2>1, SetStatusType, TaskMethodsNarrow
<1>7. Started(o, id, mode, pane) = BindPlace(running, id, mode)
  BY DEF Started, leased, claimed, paths
<1> HIDE DEF running
<1>8. Narrows(running, BindPlace(running, id, mode))
  BY <1>6, TaskMethodsNarrow
<1>. QED
  BY <1>5, <1>6, <1>7, <1>8, NarrowsExclusive

\* A rejected call that left a project binding behind keeps the exclusion.
LEMMA UnsavedExclusive ==
  ASSUME LeaseExclusive, NEW o, Exclusive(o, o.leases), LeaveUnsaved(o)
  PROVE  LeaseExclusive'
BY DEF LeaseExclusive, LeaveUnsaved, Exclusive, Conflicts, ShareScope, ProjectOf, Ids

LEMMA ExclusiveStep == TypeOK /\ LeaseExclusive /\ [Next]_vars => LeaseExclusive'
<1> SUFFICES ASSUME TypeOK, LeaseExclusive, [Next]_vars PROVE LeaseExclusive'
  OBVIOUS
<1>type. LedgerType(orch) /\ LedgerType(disk)
  BY DEF TypeOK
<1>excl. Exclusive(orch, orch.leases) /\ Exclusive(disk, disk.leases)
  BY DEF LeaseExclusive
<1>status. /\ \A s \in {"running", "blocked", "review", "done", "merged"} : s \in Status
           /\ UpdateTo \subseteq Status
  BY BoundsAssumption DEF Status
<1>pane. \A p \in DOMAIN panes : p \in Pane /\ p \in Nat /\ panes[p] \in Projects
  BY DEF TypeOK, Pane, NoPane
<1>same. ASSUME UNCHANGED <<orch, disk>> PROVE LeaseExclusive'
  BY <1>same DEF LeaseExclusive, Exclusive, Conflicts, ShareScope, ProjectOf, Ids
<1>narrow. ASSUME NEW o, Narrows(orch, o), Commit(o) \/ LeaveUnsaved(o) PROVE LeaseExclusive'
  BY <1>narrow, <1>excl, NarrowsExclusive, CommitExclusive, UnsavedExclusive
<1>1. ASSUME NEW project \in Projects, OpenPane(project) PROVE LeaseExclusive'
  BY <1>1, <1>same DEF OpenPane
<1>2. ASSUME NEW p \in DOMAIN panes, ClosePane(p) PROVE LeaseExclusive'
  <2> DEFINE released == ReleasePaneLeases(orch, p)
  <2>1. LedgerType(released) /\ Narrows(orch, released)
    BY <1>type, ReleasePaneLeasesType, ReleaseLeasesNarrow DEF ReleasePaneLeases
  <2> DEFINE freed == Unbind(released, p)
  <2>2. CommitTwice(released, freed)
    BY <1>2 DEF ClosePane
  <2> HIDE DEF released
  <2>3. Narrows(orch, freed)
    BY <2>1, UnbindNarrows, NarrowsTransitive
  <2> HIDE DEF freed
  <2>4. Exclusive(released, released.leases) /\ Exclusive(freed, freed.leases)
    BY <1>excl, <2>1, <2>3, NarrowsExclusive
  <2>. QED BY <1>excl, <2>2, <2>4
           DEF CommitTwice, LeaseExclusive, Exclusive, Conflicts, ShareScope, ProjectOf, Ids
<1>3. ASSUME NEW template \in Templates, NEW deps \in SUBSET Ids(orch), TaskAdd(template, deps)
      PROVE  LeaseExclusive'
  <2>1. NewTask(template.paths, deps, template.gate, template.project, template.auto) \in Task
    BY <1>type, BoundsAssumption DEF LedgerType, NewTask, Task, Status, Mode, NoPane
  <2>. QED BY <1>3, <1>type, <1>narrow, <2>1, AddTaskNarrows DEF TaskAdd
<1>bind. ASSUME NEW id \in Ids(orch), NEW project \in Projects
         PROVE  /\ LedgerType(BindProject(orch, id, project))
                /\ Ids(BindProject(orch, id, project)) = Ids(orch)
                /\ Narrows(orch, BindProject(orch, id, project))
  BY <1>type, BindProjectType, TaskMethodsNarrow
<1>claim. ASSUME NEW id \in Ids(orch), NEW p \in DOMAIN panes
          PROVE  Narrows(orch, Claim(BindProject(orch, id, panes[p]), id, p))
  BY <1>pane, <1>bind, TaskMethodsNarrow, NarrowsTransitive
<1>4. ASSUME NEW p \in DOMAIN panes, TaskNext(p) PROVE LeaseExclusive'
  <2>1. PICK id \in Ids(orch) : Commit(Claim(BindProject(orch, id, panes[p]), id, p))
    BY <1>4 DEF TaskNext, Claimable
  <2>. QED BY <1>claim, <1>narrow, <2>1
<1>5. ASSUME NEW id \in Ids(orch), NEW p \in DOMAIN panes, TaskClaim(id, p) PROVE LeaseExclusive'
  BY <1>5, <1>pane, <1>bind, <1>claim, <1>narrow DEF TaskClaim
<1>6. ASSUME NEW id \in Ids(orch), NEW mode \in Modes, NEW project \in Projects,
             TaskStart(id, mode, project)
      PROVE  LeaseExclusive'
  <2> DEFINE bound == BindProject(orch, id, project)
  <2>1. LedgerType(bound) /\ Ids(bound) = Ids(orch) /\ Narrows(orch, bound)
    BY <1>bind
  <2>2. mode \in Mode
    BY BoundsAssumption DEF Mode
  <2> HIDE DEF bound
  <2>3. ASSUME NEW p \in Pane, CanStart(bound, id, mode), Commit(Started(bound, id, mode, p))
        PROVE  LeaseExclusive'
    BY <1>excl, <2>1, <2>2, <2>3, NarrowsExclusive, StartedExclusive, CommitExclusive
  <2>4. lastPane + 1 \in Pane
    BY DEF TypeOK, Pane, NoPane
  <2>. QED BY <1>6, <1>pane, <1>narrow, <2>1, <2>3, <2>4 DEF TaskStart, bound
<1>7. ASSUME NEW id \in Ids(orch), NEW status \in UpdateTo,
             TaskUpdate(id, status) \/ TaskUpdateBadNote(id, status)
      PROVE  LeaseExclusive'
  BY <1>7, <1>type, <1>status, <1>narrow, TaskMethodsNarrow DEF TaskUpdate, TaskUpdateBadNote
<1>8. ASSUME NEW id \in Ids(orch), NEW report \in Reports, Heartbeat(id, report)
      PROVE  LeaseExclusive'
  <2>1. Narrows(orch, [orch EXCEPT !.tasks[id].saturated = report])
    BY <1>type DEF Narrows, ProjectOf, LedgerType, Ids, Task
  <2>. QED BY <1>8, <1>narrow, <2>1 DEF Heartbeat
<1>9. ASSUME NEW id \in Ids(orch), PaneState(id) PROVE LeaseExclusive'
  BY <1>9, <1>type, <1>status, <1>narrow, TaskMethodsNarrow DEF PaneState
<1>free. ASSUME NEW o, LedgerType(o), Narrows(orch, o), NEW id
         PROVE  Narrows(orch, ReleaseTaskLeases(o, id))
  <2>1. Narrows(o, ReleaseTaskLeases(o, id))
    BY <1>free, ReleaseLeasesNarrow DEF ReleaseTaskLeases
  <2>. QED BY <1>free, <2>1, NarrowsTransitive
<1>10. ASSUME NEW id \in Ids(orch), TaskRelease(id) PROVE LeaseExclusive'
  <2>1. LedgerType(ReleaseTask(orch, id)) /\ Narrows(orch, ReleaseTask(orch, id))
    BY <1>type, ReleaseTaskType, TaskMethodsNarrow
  <2>. QED BY <1>10, <1>free, <1>narrow, <2>1 DEF TaskRelease
<1>11. ASSUME NEW id \in Ids(orch), TaskDelete(id) PROVE LeaseExclusive'
  BY <1>11, <1>type, <1>narrow, DeleteTaskNarrows DEF TaskDelete
<1>12. ASSUME NEW id \in Ids(orch), TaskRetry(id) PROVE LeaseExclusive'
  <2>1. Exclusive(RetryTask(orch, id), RetryTask(orch, id).leases)
    BY <1>type, <1>excl, RetryTaskNarrows, NarrowsExclusive
  <2>2. orch' = RetryTask(orch, id) /\ disk' = RetryTask(orch, id)
    BY <1>12 DEF TaskRetry, CommitOrReject
  <2>. QED BY <2>1, <2>2 DEF LeaseExclusive, Exclusive, Conflicts, ShareScope, ProjectOf, Ids
<1>13. ASSUME NEW id \in Ids(orch), RetryAsNewRun(id) PROVE LeaseExclusive'
  BY <1>13, <1>same DEF RetryAsNewRun
<1>finish. ASSUME NEW id \in Ids(orch) PROVE Narrows(orch, Finalize(orch, id))
  <2>1. LedgerType(SetStatus(orch, id, "done")) /\ Narrows(orch, SetStatus(orch, id, "done"))
    BY <1>type, <1>status, SetStatusType, TaskMethodsNarrow
  <2>. QED BY <1>free, <2>1 DEF Finalize
<1>14. ASSUME NEW id \in Ids(orch), TaskDone(id) PROVE LeaseExclusive'
  BY <1>14, <1>finish, <1>narrow DEF TaskDone
<1>15. ASSUME NEW id \in Ids(orch), LaunchGate(id) PROVE LeaseExclusive'
  BY <1>15, <1>type, <1>status, <1>narrow, TaskMethodsNarrow DEF LaunchGate
<1>16. ASSUME NEW id \in Ids(orch), TaskMerge(id) PROVE LeaseExclusive'
  <2>1. CanBeginMerge(orch, id) /\ Task_(id).status \in Status
    BY <1>16, <1>status DEF TaskMerge, CanBeginMerge, Task_
  <2>2. /\ LedgerType(BeginMerge(orch, id)) /\ Ids(BeginMerge(orch, id)) = Ids(orch)
        /\ Narrows(orch, BeginMerge(orch, id))
    BY <1>type, <2>1, BeginMergeType, TaskMethodsNarrow
  <2>3. Narrows(orch, FinishMerge(BeginMerge(orch, id), id, Task_(id).status))
    BY <2>1, <2>2, TaskMethodsNarrow, NarrowsTransitive
  <2>. QED BY <1>16, <1>narrow, <2>2, <2>3 DEF TaskMerge
<1>17. ASSUME NEW lease \in orch.leases, LeaseRelease(lease) PROVE LeaseExclusive'
  BY <1>17, <1>type, <1>narrow, ReleaseLeasesNarrow DEF LeaseRelease
<1>18. ASSUME NEW id \in Ids(orch), NEW p \in DOMAIN panes, NEW paths \in LeaseRequests,
              LeaseAcquire(id, p, paths)
       PROVE  LeaseExclusive'
  <2> DEFINE bound == BindProject(orch, id, panes[p])
             granted == Acquire(bound, p, id, paths)
  <2>1. LedgerType(bound) /\ Narrows(orch, bound)
    BY <1>pane, <1>bind
  <2>2. CASE CanAcquire(bound, p, id, paths) /\ Commit(granted)
    <3> HIDE DEF bound
    <3>1. Exclusive(bound, bound.leases)
      BY <1>excl, <2>1, NarrowsExclusive
    <3>2. Exclusive(granted, granted.leases)
      BY <2>1, <2>2, <3>1, AcquireExclusive DEF CanAcquire
    <3>. QED BY <2>2, <3>2, CommitExclusive
  <2>3. CASE LeaveUnsaved(bound)
    BY <2>1, <2>3, <1>narrow
  <2>. QED BY <1>18, <2>2, <2>3 DEF LeaseAcquire
<1>19. ASSUME NEW id \in DOMAIN gates, NEW passed \in BOOLEAN, GateFinished(id, passed)
       PROVE  LeaseExclusive'
  <2>1. CASE GateCurrent(id)
    <3>1. id \in Ids(orch)
      BY <2>1 DEF GateCurrent
    <3>2. Narrows(orch, Finalize(orch, id)) /\ Narrows(orch, SetStatus(orch, id, "review"))
      BY <3>1, <1>type, <1>status, <1>finish, TaskMethodsNarrow
    <3>. QED BY <1>19, <1>narrow, <2>1, <3>2 DEF GateFinished
  <2>2. CASE ~GateCurrent(id)
    BY <1>19, <1>same, <2>2 DEF GateFinished
  <2>. QED BY <2>1, <2>2
<1>20. ASSUME NEW outcome \in {"merged", "conflict", "error"}, MergeFinished(outcome)
       PROVE  LeaseExclusive'
  <2> DEFINE status == CASE outcome = "merged"   -> "merged"
                         [] outcome = "conflict" -> "blocked"
                         [] outcome = "error"    -> job.previous
  <2>1. status \in Status
    BY <1>status DEF TypeOK
  <2>2. CASE CanFinishMerge(orch, job.task)
    <3>1. Narrows(orch, FinishMerge(orch, job.task, status))
      <4> HIDE DEF status
      <4>. QED BY <1>type, <2>1, <2>2, TaskMethodsNarrow DEF CanFinishMerge
    <3>. QED BY <1>20, <1>narrow, <2>2, <3>1 DEF MergeFinished
  <2>3. CASE ~CanFinishMerge(orch, job.task)
    BY <1>20, <1>same, <2>3 DEF MergeFinished
  <2>. QED BY <2>2, <2>3
<1>21. ASSUME RecoverLeases PROVE LeaseExclusive'
  <2> DEFINE bound == BindTaskPaths(orch, boot, Task_(boot).assignee, Task_(boot).paths)
  <2>1. Exclusive(orch', orch'.leases)
    <3>1. CASE /\ boot \in Ids(orch) /\ NeedsLeases(Task_(boot))
               /\ CanLease(orch, boot, Task_(boot).paths)
      <4>1. Task_(boot).assignee \in Pane /\ boot \in Nat
        BY <1>type, <3>1 DEF NeedsLeases, Task_, LedgerType, Task, Pane, NoPane
      <4>2. Exclusive(bound, bound.leases)
        BY <1>type, <1>excl, <3>1, <4>1, BindTaskPathsExclusive DEF CanLease
      <4>3. orch' = bound
        BY <1>21, <3>1 DEF RecoverLeases
      <4>. QED BY <4>2, <4>3 DEF Exclusive, Conflicts, ShareScope, ProjectOf, Ids
    <3>2. CASE orch' = SetStatus(orch, boot, "blocked") /\ boot \in Ids(orch)
      <4>1. Narrows(orch, SetStatus(orch, boot, "blocked"))
        BY <1>type, <1>status, <3>2, TaskMethodsNarrow
      <4>2. LET o == SetStatus(orch, boot, "blocked") IN Exclusive(o, o.leases)
        BY <1>excl, <4>1, NarrowsExclusive
      <4>. QED BY <3>2, <4>2 DEF Exclusive, Conflicts, ShareScope, ProjectOf, Ids
    <3>3. CASE orch' = orch
      BY <1>excl, <3>3 DEF Exclusive, Conflicts, ShareScope, ProjectOf, Ids
    <3>. QED BY <1>21, <3>1, <3>2, <3>3 DEF RecoverLeases
  <2>2. disk' = disk
    BY <1>21 DEF RecoverLeases
  <2>. QED BY <1>excl, <2>1, <2>2 DEF LeaseExclusive, Exclusive, Conflicts, ShareScope, ProjectOf, Ids
<1>22. ASSUME FinishBoot PROVE LeaseExclusive'
  BY <1>22, <1>type, <1>narrow, InterruptNarrows DEF FinishBoot
<1>boot. ASSUME SaveReconciled PROVE LeaseExclusive'
  BY <1>boot, <1>excl, CommitExclusive DEF SaveReconciled
<1>23. ASSUME Restart PROVE LeaseExclusive'
  <2>1. PICK o, kept : /\ LedgerType(o) /\ kept \in Reconciled(o)
                       /\ orch' = [o EXCEPT !.leases = kept]
    BY <1>23, RestartLedger
  <2>2. Exclusive(o, kept)
    BY <2>1 DEF Reconciled
  <2>3. orch'.leases = kept /\ orch'.tasks = o.tasks
    BY <2>1 DEF LedgerType
  <2>4. disk' = disk
    BY <1>23 DEF Restart
  <2>. QED BY <1>excl, <2>2, <2>3, <2>4
           DEF LeaseExclusive, Exclusive, Conflicts, ShareScope, ProjectOf, Ids
<1>24. CASE UNCHANGED vars
  BY <1>24, <1>same DEF vars
<1>. QED
  BY <1>1, <1>2, <1>3, <1>4, <1>5, <1>6, <1>7, <1>8, <1>9, <1>10, <1>11, <1>12, <1>13, <1>14,
     <1>15, <1>16, <1>17, <1>18, <1>19, <1>20, <1>21, <1>22, <1>boot, <1>23, <1>24
     DEF Next, PaneStep, TaskStep, LeaseStep, JobStep, BootStep

\* Two workers of one project never hold overlapping path leases, for any
\* number of tasks, panes, paths, projects, crashes and failed saves.
THEOREM LeasesExclude == Spec => []LeaseExclusive
<1>1. Init => TypeOK /\ LeaseExclusive
  BY EmptyLedgerType DEF Init, TypeOK, NoGates, NoJob, LeaseExclusive, Exclusive, EmptyLedger
<1>2. TypeOK /\ LeaseExclusive /\ [Next]_vars => TypeOK' /\ LeaseExclusive'
  BY TypeStep, ExclusiveStep
<1>. QED
  BY <1>1, <1>2, PTL DEF Spec

-----------------------------------------------------------------------------
(* Who owns what, which attempt it is and what became of it: OwnersLive,    *)
(* GateFence, AttemptsNeverRepeat, DependentsPinAttempt,                    *)
(* ScheduledNotRequeued, RestartProtects, MergeReservation and              *)
(* IntegrationSettles.  Most handlers are orderly: they hand out no id,     *)
(* start no attempt and give nothing to a pane that is not live.  The rest, *)
(* TaskAdd, TaskRetry, TaskDelete and Restart, are looked at one by one.    *)

\* Claimants and holders of leases are among `live`.
Owned(o, live) ==
  /\ \A t \in Ids(o) : o.tasks[t].assignee \in live \cup {NoPane}
  /\ \A l \in o.leases : l.pane \in live

\* A task that has a place runs there in the mode it was started in.
WellPlaced(t) == t.place # "none" => t.mode = t.place
Placed(o) == \A t \in Ids(o) : WellPlaced(o.tasks[t])

\* p has the tasks of o on the attempts they were on.
Steady(o, p) ==
  /\ p.nextTask = o.nextTask /\ Ids(p) = Ids(o)
  /\ \A t \in Ids(o) : /\ p.tasks[t].attempt = o.tasks[t].attempt
                       /\ WellPlaced(o.tasks[t]) => WellPlaced(p.tasks[t])

Orderly(o, p, live) == Steady(o, p) /\ (Owned(o, live) => Owned(p, live))

-----------------------------------------------------------------------------
(* The orderly operators                                                   *)

LEMMA OrderlyTransitive ==
  ASSUME NEW o, NEW p, NEW q, NEW live, Orderly(o, p, live), Orderly(p, q, live)
  PROVE  Orderly(o, q, live)
BY DEF Orderly, Steady

LEMMA OwnedMonotone ==
  ASSUME NEW o, NEW old, NEW new, old \subseteq new, Owned(o, old)
  PROVE  Owned(o, new)
BY DEF Owned

\* Changes of tasks that concern neither attempt nor place.
LEMMA TasksOrderly ==
  ASSUME NEW o, NEW p, NEW live,
         p.nextTask = o.nextTask, Ids(p) = Ids(o), p.leases \subseteq o.leases,
         \A t \in Ids(o) :
           /\ p.tasks[t].attempt = o.tasks[t].attempt
           /\ p.tasks[t].place = o.tasks[t].place /\ p.tasks[t].mode = o.tasks[t].mode
           /\ p.tasks[t].assignee \in {o.tasks[t].assignee, NoPane} \cup live
  PROVE  Orderly(o, p, live)
BY DEF Orderly, Steady, Owned, WellPlaced

\* Changes of leases in favour of live panes.
LEMMA LeasesOrderly ==
  ASSUME NEW o, NEW p, NEW live, p.nextTask = o.nextTask, p.tasks = o.tasks,
         \A l \in p.leases : l \in o.leases \/ l.pane \in live
  PROVE  Orderly(o, p, live)
BY DEF Orderly, Steady, Owned, Ids

LEMMA SetStatusOrderly ==
  ASSUME NEW o, LedgerType(o), NEW id \in Ids(o), NEW status, NEW live
  PROVE  Orderly(o, SetStatus(o, id, status), live)
<1> DEFINE p == SetStatus(o, id, status)
<1>1. /\ p.nextTask = o.nextTask /\ Ids(p) = Ids(o) /\ p.leases = o.leases
      /\ \A t \in Ids(o) : /\ p.tasks[t].attempt = o.tasks[t].attempt
                           /\ p.tasks[t].place = o.tasks[t].place
                           /\ p.tasks[t].mode = o.tasks[t].mode
                           /\ p.tasks[t].assignee = o.tasks[t].assignee
  BY DEF SetStatus, LedgerType, Ids, Task
<1> HIDE DEF p
<1>2. Orderly(o, p, live)
  BY <1>1, TasksOrderly
<1>. QED BY <1>2 DEF p

LEMMA BindProjectOrderly ==
  ASSUME NEW o, LedgerType(o), NEW id \in Ids(o), NEW project, NEW live
  PROVE  Orderly(o, BindProject(o, id, project), live)
<1> DEFINE p == BindProject(o, id, project)
<1>1. /\ p.nextTask = o.nextTask /\ Ids(p) = Ids(o) /\ p.leases = o.leases
      /\ \A t \in Ids(o) : /\ p.tasks[t].attempt = o.tasks[t].attempt
                           /\ p.tasks[t].place = o.tasks[t].place
                           /\ p.tasks[t].mode = o.tasks[t].mode
                           /\ p.tasks[t].assignee = o.tasks[t].assignee
  BY DEF BindProject, LedgerType, Ids, Task
<1> HIDE DEF p
<1>2. Orderly(o, p, live)
  BY <1>1, TasksOrderly
<1>. QED BY <1>2 DEF p

LEMMA ClaimOrderly ==
  ASSUME NEW o, LedgerType(o), NEW id \in Ids(o), NEW live, NEW pane \in live
  PROVE  Orderly(o, Claim(o, id, pane), live)
<1> DEFINE p == Claim(o, id, pane)
<1>1. /\ p.nextTask = o.nextTask /\ Ids(p) = Ids(o) /\ p.leases = o.leases
      /\ \A t \in Ids(o) : /\ p.tasks[t].attempt = o.tasks[t].attempt
                           /\ p.tasks[t].place = o.tasks[t].place
                           /\ p.tasks[t].mode = o.tasks[t].mode
                           /\ p.tasks[t].assignee \in {o.tasks[t].assignee, pane}
  BY DEF Claim, LedgerType, Ids, Task
<1> HIDE DEF p
<1>2. Orderly(o, p, live)
  BY <1>1, TasksOrderly
<1>. QED BY <1>2 DEF p

LEMMA ReleaseTaskOrderly ==
  ASSUME NEW o, LedgerType(o), NEW id \in Ids(o), NEW live
  PROVE  Orderly(o, ReleaseTask(o, id), live)
<1> DEFINE p == ReleaseTask(o, id)
<1>1. /\ p.nextTask = o.nextTask /\ Ids(p) = Ids(o) /\ p.leases = o.leases
      /\ \A t \in Ids(o) : /\ p.tasks[t].attempt = o.tasks[t].attempt
                           /\ p.tasks[t].place = o.tasks[t].place
                           /\ p.tasks[t].mode = o.tasks[t].mode
                           /\ p.tasks[t].assignee \in {o.tasks[t].assignee, NoPane}
  BY DEF ReleaseTask, LedgerType, Ids, Task
<1> HIDE DEF p
<1>2. Orderly(o, p, live)
  BY <1>1, TasksOrderly
<1>. QED BY <1>2 DEF p

LEMMA MergeOrderly ==
  ASSUME NEW o, LedgerType(o), NEW id \in Ids(o), NEW status, NEW live
  PROVE  /\ Orderly(o, BeginMerge(o, id), live)
         /\ Orderly(o, FinishMerge(o, id, status), live)
<1>1. Orderly(o, BeginMerge(o, id), live)
  <2> DEFINE p == BeginMerge(o, id)
  <2>1. /\ p.nextTask = o.nextTask /\ Ids(p) = Ids(o) /\ p.leases = o.leases
        /\ \A t \in Ids(o) : /\ p.tasks[t].attempt = o.tasks[t].attempt
                             /\ p.tasks[t].place = o.tasks[t].place
                             /\ p.tasks[t].mode = o.tasks[t].mode
                             /\ p.tasks[t].assignee = o.tasks[t].assignee
    BY DEF BeginMerge, LedgerType, Ids, Task
  <2> HIDE DEF p
  <2>2. Orderly(o, p, live)
    BY <2>1, TasksOrderly
  <2>. QED BY <2>2 DEF p
<1>2. Orderly(o, FinishMerge(o, id, status), live)
  <2> DEFINE p == FinishMerge(o, id, status)
  <2>1. /\ p.nextTask = o.nextTask /\ Ids(p) = Ids(o) /\ p.leases = o.leases
        /\ \A t \in Ids(o) : /\ p.tasks[t].attempt = o.tasks[t].attempt
                             /\ p.tasks[t].place = o.tasks[t].place
                             /\ p.tasks[t].mode = o.tasks[t].mode
                             /\ p.tasks[t].assignee = o.tasks[t].assignee
    BY DEF FinishMerge, LedgerType, Ids, Task
  <2> HIDE DEF p
  <2>2. Orderly(o, p, live)
    BY <2>1, TasksOrderly
  <2>. QED BY <2>2 DEF p
<1>. QED BY <1>1, <1>2

LEMMA ReleaseLeasesOrderly ==
  ASSUME NEW o, LedgerType(o), NEW leases \in SUBSET o.leases, NEW live
  PROVE  Orderly(o, [o EXCEPT !.leases = leases], live)
<1> DEFINE p == [o EXCEPT !.leases = leases]
<1>1. p.nextTask = o.nextTask /\ p.tasks = o.tasks /\ p.leases = leases
  BY DEF LedgerType
<1> HIDE DEF p
<1>2. Orderly(o, p, live)
  BY <1>1, LeasesOrderly
<1>. QED BY <1>2 DEF p

LEMMA AcquireOrderly ==
  ASSUME NEW o, LedgerType(o), NEW live, NEW pane \in live, NEW id, NEW paths
  PROVE  Orderly(o, Acquire(o, pane, id, paths), live)
<1> DEFINE p == Acquire(o, pane, id, paths)
<1>1. /\ p.nextTask = o.nextTask /\ p.tasks = o.tasks
      /\ \A l \in p.leases : l \in o.leases \/ l.pane = pane
  BY DEF Acquire, LedgerType
<1> HIDE DEF p
<1>2. Orderly(o, p, live)
  BY <1>1, LeasesOrderly
<1>. QED BY <1>2 DEF p

LEMMA BindTaskPathsOrderly ==
  ASSUME NEW o, LedgerType(o), NEW live, NEW pane \in live, NEW id, NEW paths
  PROVE  Orderly(o, BindTaskPaths(o, id, pane, paths), live)
<1> DEFINE p == BindTaskPaths(o, id, pane, paths)
           rebound == RebindLeases(o.leases, id, pane)
           bound == [o EXCEPT !.leases = rebound]
           missing == MissingPaths(o, id, paths)
           new == [id |-> FreeLeaseId(rebound), pane |-> pane, task |-> id, paths |-> missing]
<1>1. \A l \in rebound : l \in o.leases \/ l.pane = pane
  BY DEF RebindLeases, LedgerType, Lease
<1>2. p = bound \/ p = [bound EXCEPT !.leases = @ \cup {new}]
  BY DEF BindTaskPaths, Acquire, LedgerType
<1>3. new.pane = pane
  OBVIOUS
<1> HIDE DEF new, rebound, p
<1>4. /\ p.nextTask = o.nextTask /\ p.tasks = o.tasks
      /\ p.leases \subseteq rebound \cup {new}
  BY <1>2 DEF LedgerType
<1>5. Orderly(o, p, live)
  BY <1>1, <1>3, <1>4, LeasesOrderly
<1>. QED BY <1>5 DEF p

LEMMA FinalizeOrderly ==
  ASSUME NEW o, LedgerType(o), NEW id \in Ids(o), NEW live
  PROVE  Orderly(o, Finalize(o, id), live)
<1> DEFINE p == SetStatus(o, id, "done")
<1>1. LedgerType(p) /\ Orderly(o, p, live)
  BY SetStatusType, SetStatusOrderly DEF Status
<1> HIDE DEF p
<1>2. Orderly(p, ReleaseTaskLeases(p, id), live)
  BY <1>1, ReleaseLeasesOrderly DEF ReleaseTaskLeases
<1>. QED BY <1>1, <1>2, OrderlyTransitive DEF Finalize, p

LEMMA StartedOrderly ==
  ASSUME NEW o, LedgerType(o), NEW id \in Ids(o), NEW mode \in Mode,
         NEW live, NEW pane \in live, pane \in Pane
  PROVE  Orderly(o, Started(o, id, mode, pane), live)
<1> DEFINE paths   == o.tasks[id].paths
           claimed == Claim(o, id, pane)
           bound   == BindTaskPaths(claimed, id, pane, paths)
           leased  == IF paths = {} THEN claimed ELSE bound
           running == SetStatus(leased, id, "running")
           placed  == BindPlace(running, id, mode)
<1>1. LedgerType(claimed) /\ Ids(claimed) = Ids(o) /\ Orderly(o, claimed, live)
  BY ClaimType, ClaimOrderly DEF Pane
<1>2. id \in Nat /\ paths \in SUBSET Paths
  BY DEF LedgerType, Task
<1>3. LedgerType(leased) /\ Ids(leased) = Ids(o)
  <2> HIDE DEF claimed, paths
  <2>. QED BY <1>1, <1>2, BindTaskPathsType
<1>4. Orderly(o, leased, live)
  <2> HIDE DEF claimed, paths
  <2>1. Orderly(claimed, bound, live)
    BY <1>1, BindTaskPathsOrderly
  <2> HIDE DEF bound
  <2>. QED BY <1>1, <2>1, OrderlyTransitive
<1> HIDE DEF leased
<1>5. /\ LedgerType(running) /\ Ids(running) = Ids(o) /\ Orderly(o, running, live)
  <2>1. "running" \in Status
    BY DEF Status
  <2>2. LedgerType(running) /\ Ids(running) = Ids(o) /\ Orderly(leased, running, live)
    BY <1>3, <2>1, SetStatusType, SetStatusOrderly
  <2> HIDE DEF running
  <2>. QED BY <1>4, <2>2, OrderlyTransitive
<1> HIDE DEF running
<1>6. Orderly(running, placed, live)
  <2>1. /\ placed.nextTask = running.nextTask /\ Ids(placed) = Ids(running)
        /\ placed.leases = running.leases
        /\ \A t \in Ids(running) :
             /\ placed.tasks[t].attempt = running.tasks[t].attempt
             /\ placed.tasks[t].assignee = running.tasks[t].assignee
             /\ \/ placed.tasks[t] = running.tasks[t]
                \/ placed.tasks[t].mode = placed.tasks[t].place
    BY <1>5 DEF BindPlace, LedgerType, Ids, Task
  <2> HIDE DEF placed
  <2>. QED BY <2>1 DEF Orderly, Steady, Owned, WellPlaced
<1>7. Started(o, id, mode, pane) = placed
  BY DEF Started, placed, running, leased, claimed, paths
<1> HIDE DEF placed
<1>. QED BY <1>5, <1>6, <1>7, OrderlyTransitive

LEMMA InterruptOrderly ==
  ASSUME NEW o, LedgerType(o), NEW lost, NEW live
  PROVE  Orderly(o, Interrupt(o, lost), live)
<1> DEFINE p == Interrupt(o, lost)
<1>1. /\ p.nextTask = o.nextTask /\ Ids(p) = Ids(o) /\ p.leases \subseteq o.leases
      /\ \A t \in Ids(o) : /\ p.tasks[t].attempt = o.tasks[t].attempt
                           /\ p.tasks[t].place = o.tasks[t].place
                           /\ p.tasks[t].mode = o.tasks[t].mode
                           /\ p.tasks[t].assignee \in {o.tasks[t].assignee, NoPane}
  BY DEF Interrupt, LedgerType, Ids, Task
<1> HIDE DEF p
<1>2. Orderly(o, p, live)
  BY <1>1, TasksOrderly
<1>. QED BY <1>2 DEF p

\* A closing pane keeps nothing: what nobody but it and `live` owned is owned
\* by `live` afterwards.
LEMMA UnbindOrderly ==
  ASSUME NEW o, LedgerType(o), NEW pane, \A l \in o.leases : l.pane # pane, NEW live
  PROVE  /\ Steady(o, Unbind(o, pane))
         /\ Owned(o, live) => Owned(Unbind(o, pane), live \ {pane})
<1> DEFINE held == {t \in Ids(o) : o.tasks[t].assignee = pane}
           lost == {t \in held : Interruptible(o.tasks[t])}
           pure == {t \in held \ lost : /\ o.tasks[t].mode = "none"
                                        /\ o.tasks[t].place # "worktree"
                                        /\ o.tasks[t].status \in {"claimed", "running"}}
           freed(t) == CASE t \in pure        -> [o.tasks[t] EXCEPT !.assignee = NoPane,
                                                                    !.status = "queued"]
                         [] t \in held \ pure -> [o.tasks[t] EXCEPT !.assignee = NoPane]
                         [] OTHER             -> o.tasks[t]
           p == [o EXCEPT !.tasks = [t \in Ids(o) |-> freed(t)]]
<1>1. Unbind(o, pane) = Interrupt(p, lost)
  BY DEF Unbind
<1>2. \A t \in Ids(o) :
        /\ freed(t) \in Task
        /\ freed(t).attempt = o.tasks[t].attempt
        /\ freed(t).place = o.tasks[t].place /\ freed(t).mode = o.tasks[t].mode
        /\ freed(t).assignee = IF t \in held THEN NoPane ELSE o.tasks[t].assignee
  <2> HIDE DEF held
  <2>0. pure \subseteq held
    OBVIOUS
  <2> HIDE DEF pure
  <2>1. \A t \in Ids(o) : freed(t) \in Task
    BY TaskField DEF LedgerType, Status, NoPane
  <2>2. \A t \in Ids(o) :
          /\ freed(t).attempt = o.tasks[t].attempt
          /\ freed(t).place = o.tasks[t].place /\ freed(t).mode = o.tasks[t].mode
          /\ freed(t).assignee = IF t \in held THEN NoPane ELSE o.tasks[t].assignee
    BY <2>0 DEF LedgerType, Task
  <2>. QED BY <2>1, <2>2
<1> HIDE DEF freed, pure, lost
<1>3. /\ Ids(p) = Ids(o) /\ p.leases = o.leases /\ p.nextTask = o.nextTask
      /\ p.tasks = [t \in Ids(o) |-> freed(t)]
  BY DEF LedgerType, Ids
<1>4. LedgerType(p)
  BY <1>2 DEF LedgerType, Ids
<1> HIDE DEF p
<1>5. Steady(o, p) /\ (Owned(o, live) => Owned(p, live \ {pane}))
  BY <1>2, <1>3 DEF Steady, WellPlaced, Owned
<1>6. Orderly(p, Interrupt(p, lost), live \ {pane})
  BY <1>4, InterruptOrderly
<1>. QED BY <1>1, <1>5, <1>6 DEF Orderly, Steady

-----------------------------------------------------------------------------
(* The orderly steps                                                       *)

\* A gate that is not cancelled was running before, or is launched now for the
\* attempt its task is on.
GatesKept ==
  \A id \in DOMAIN gates' :
    ~gates'[id].cancelled =>
      \/ /\ id \in DOMAIN gates /\ ~gates[id].cancelled
         /\ gates'[id].attempt = gates[id].attempt
      \/ id \in Ids(orch) /\ gates'[id].attempt = Task_(id).attempt

\* What an orderly step leaves, in memory and on disk.
OrderlyStep ==
  /\ Steady(orch, orch')
  /\ disk' = disk \/ Steady(orch, disk')
  /\ Owned(orch, DOMAIN panes) => Owned(orch', DOMAIN panes')
  /\ GatesKept

Exceptional ==
  \/ Restart
  \/ \E template \in Templates, deps \in SUBSET Ids(orch) : TaskAdd(template, deps)
  \/ \E id \in Ids(orch) : TaskDelete(id) \/ TaskRetry(id)

LEMMA SteadyReflexive == ASSUME NEW o PROVE Steady(o, o)
BY DEF Steady

LEMMA CommitOrderly ==
  ASSUME NEW o, Orderly(orch, o, DOMAIN panes'), Commit(o) \/ LeaveUnsaved(o),
         DOMAIN panes \subseteq DOMAIN panes', GatesKept
  PROVE  OrderlyStep
BY OwnedMonotone DEF OrderlyStep, Orderly, Commit, LeaveUnsaved

LEMMA GatesUnchanged == ASSUME gates' = gates PROVE GatesKept
BY DEF GatesKept

LEMMA GatesInvalidated == ASSUME NEW id, InvalidateGate(id) PROVE GatesKept
BY DEF GatesKept, InvalidateGate

LEMMA NextOrderly == TypeOK /\ [Next]_vars => OrderlyStep \/ Exceptional
<1> SUFFICES ASSUME TypeOK, [Next]_vars, ~Exceptional PROVE OrderlyStep
  OBVIOUS
<1> DEFINE live == DOMAIN panes'
<1>type. LedgerType(orch) /\ LedgerType(disk)
  BY DEF TypeOK
<1>pane. \A p \in DOMAIN panes : p \in Pane /\ panes[p] \in Projects
  BY DEF TypeOK, Pane, NoPane
<1>same. ASSUME orch' = orch, disk' \in {disk, orch}, DOMAIN panes \subseteq live, GatesKept
         PROVE  OrderlyStep
  BY <1>same, SteadyReflexive, OwnedMonotone DEF OrderlyStep
<1>1. ASSUME NEW project \in Projects, OpenPane(project) PROVE OrderlyStep
  BY <1>1, <1>same, GatesUnchanged DEF OpenPane
<1>2. ASSUME NEW p \in DOMAIN panes, ClosePane(p) PROVE OrderlyStep
  <2> DEFINE released == ReleasePaneLeases(orch, p)
  <2>1. /\ orch' = Unbind(released, p) /\ disk' \in {disk, released, Unbind(released, p)}
        /\ live = DOMAIN panes \ {p} /\ gates' = gates
    BY <1>2 DEF ClosePane, CommitTwice, Restrict
  <2>2. LedgerType(released) /\ Orderly(orch, released, DOMAIN panes)
    BY <1>type, ReleasePaneLeasesType, ReleaseLeasesOrderly DEF ReleasePaneLeases
  <2>3. \A l \in released.leases : l.pane # p
    BY <1>type DEF ReleasePaneLeases, LedgerType
  <2> HIDE DEF released
  <2>4. /\ Steady(released, Unbind(released, p))
        /\ Owned(released, DOMAIN panes) => Owned(Unbind(released, p), DOMAIN panes \ {p})
    BY <2>2, <2>3, UnbindOrderly
  <2>5. Steady(orch, released) /\ Steady(orch, Unbind(released, p))
    BY <2>2, <2>4 DEF Orderly, Steady
  <2>. QED BY <2>1, <2>2, <2>4, <2>5, GatesUnchanged DEF OrderlyStep, Orderly
<1>bind. ASSUME NEW id \in Ids(orch), NEW project \in Projects
         PROVE  LET bound == BindProject(orch, id, project)
                IN  LedgerType(bound) /\ Ids(bound) = Ids(orch) /\ Orderly(orch, bound, live)
  BY <1>type, BindProjectType, BindProjectOrderly
<1>claim. ASSUME NEW id \in Ids(orch), NEW p \in DOMAIN panes, panes' = panes
          PROVE  Orderly(orch, Claim(BindProject(orch, id, panes[p]), id, p), live)
  BY <1>claim, <1>pane, <1>bind, ClaimOrderly, OrderlyTransitive
<1>set. ASSUME NEW id \in Ids(orch), NEW status PROVE Orderly(orch, SetStatus(orch, id, status), live)
  BY <1>type, SetStatusOrderly
<1>3. ASSUME NEW p \in DOMAIN panes, TaskNext(p) PROVE OrderlyStep
  <2>1. PICK id \in Ids(orch) : Commit(Claim(BindProject(orch, id, panes[p]), id, p))
    BY <1>3 DEF TaskNext, Claimable
  <2>. QED BY <1>3, <1>claim, <2>1, CommitOrderly, GatesUnchanged DEF TaskNext
<1>4. ASSUME NEW id \in Ids(orch), NEW p \in DOMAIN panes, TaskClaim(id, p) PROVE OrderlyStep
  BY <1>4, <1>pane, <1>bind, <1>claim, CommitOrderly, GatesUnchanged DEF TaskClaim
<1>5. ASSUME NEW id \in Ids(orch), NEW mode \in Modes, NEW project \in Projects,
             TaskStart(id, mode, project)
      PROVE  OrderlyStep
  <2> DEFINE bound == BindProject(orch, id, project)
  <2>1. LedgerType(bound) /\ Ids(bound) = Ids(orch) /\ Orderly(orch, bound, live)
    BY <1>bind
  <2>2. mode \in Mode
    BY BoundsAssumption DEF Mode
  <2>3. DOMAIN panes \subseteq live /\ gates' = gates
    BY <1>5 DEF TaskStart
  <2> HIDE DEF bound
  <2>4. ASSUME NEW p \in Pane, p \in live, Commit(Started(bound, id, mode, p))
        PROVE  OrderlyStep
    <3>1. Orderly(bound, Started(bound, id, mode, p), live)
      BY <2>1, <2>2, <2>4, StartedOrderly
    <3>. QED BY <2>1, <2>3, <2>4, <3>1, OrderlyTransitive, CommitOrderly, GatesUnchanged
  <2>5. CASE LeaveUnsaved(bound)
    BY <2>1, <2>3, <2>5, CommitOrderly, GatesUnchanged
  <2>6. lastPane + 1 \in Pane
    BY DEF TypeOK, Pane, NoPane
  <2>. QED BY <1>5, <1>pane, <2>3, <2>4, <2>5, <2>6 DEF TaskStart, bound
<1>6. ASSUME NEW id \in Ids(orch), NEW status \in UpdateTo,
             TaskUpdate(id, status) \/ TaskUpdateBadNote(id, status)
      PROVE  OrderlyStep
  BY <1>6, <1>set, CommitOrderly, GatesUnchanged, GatesInvalidated
     DEF TaskUpdate, TaskUpdateBadNote, UpdateGate
<1>7. ASSUME NEW id \in Ids(orch), NEW report \in Reports, Heartbeat(id, report)
      PROVE  OrderlyStep
  <2> DEFINE o == [orch EXCEPT !.tasks[id].saturated = report]
  <2>1. /\ o.nextTask = orch.nextTask /\ Ids(o) = Ids(orch) /\ o.leases = orch.leases
        /\ \A t \in Ids(orch) : /\ o.tasks[t].attempt = orch.tasks[t].attempt
                                /\ o.tasks[t].place = orch.tasks[t].place
                                /\ o.tasks[t].mode = orch.tasks[t].mode
                                /\ o.tasks[t].assignee = orch.tasks[t].assignee
    BY <1>type DEF LedgerType, Ids, Task
  <2>2. Orderly(orch, o, live)
    <3> HIDE DEF o
    <3>. QED BY <2>1, TasksOrderly
  <2>. QED BY <1>7, <2>2, CommitOrderly, GatesUnchanged DEF Heartbeat
<1>8. ASSUME NEW id \in Ids(orch), PaneState(id) PROVE OrderlyStep
  BY <1>8, <1>set, CommitOrderly, GatesUnchanged DEF PaneState
<1>9. ASSUME NEW id \in Ids(orch), TaskRelease(id) PROVE OrderlyStep
  <2> DEFINE o == ReleaseTask(orch, id)
  <2>1. LedgerType(o) /\ Orderly(orch, o, live)
    BY <1>9, <1>type, ReleaseTaskType, ReleaseTaskOrderly DEF TaskRelease
  <2> HIDE DEF o
  <2>2. Orderly(orch, ReleaseTaskLeases(o, id), live)
    BY <2>1, ReleaseLeasesOrderly, OrderlyTransitive DEF ReleaseTaskLeases
  <2>. QED BY <1>9, <2>2, CommitOrderly, GatesInvalidated DEF TaskRelease, o
<1>10. ASSUME NEW id \in Ids(orch), RetryAsNewRun(id) PROVE OrderlyStep
  BY <1>10, <1>same, GatesInvalidated DEF RetryAsNewRun
<1>11. ASSUME NEW id \in Ids(orch), TaskDone(id) PROVE OrderlyStep
  BY <1>11, <1>type, FinalizeOrderly, CommitOrderly, GatesUnchanged DEF TaskDone
<1>12. ASSUME NEW id \in Ids(orch), LaunchGate(id) PROVE OrderlyStep
  <2>1. GatesKept
    BY <1>12 DEF LaunchGate, GatesKept
  <2>. QED BY <1>12, <1>set, <2>1, CommitOrderly DEF LaunchGate
<1>13. ASSUME NEW id \in Ids(orch), TaskMerge(id) PROVE OrderlyStep
  <2> DEFINE begun == BeginMerge(orch, id)
             back == FinishMerge(begun, id, Task_(id).status)
  <2>1. CanBeginMerge(orch, id)
    BY <1>13 DEF TaskMerge
  <2>2. LedgerType(begun) /\ Ids(begun) = Ids(orch) /\ Orderly(orch, begun, live)
    BY <1>type, <2>1, BeginMergeType, MergeOrderly DEF CanBeginMerge
  <2>3. Orderly(orch, back, live)
    <3> HIDE DEF begun
    <3>. QED BY <2>2, MergeOrderly, OrderlyTransitive
  <2>4. Commit(begun) \/ Commit(back)
    BY <1>13 DEF TaskMerge
  <2> HIDE DEF begun, back
  <2>. QED BY <1>13, <2>2, <2>3, <2>4, CommitOrderly, GatesUnchanged DEF TaskMerge
<1>14. ASSUME NEW lease \in orch.leases, LeaseRelease(lease) PROVE OrderlyStep
  BY <1>14, <1>type, ReleaseLeasesOrderly, CommitOrderly, GatesUnchanged DEF LeaseRelease
<1>15. ASSUME NEW id \in Ids(orch), NEW p \in DOMAIN panes, NEW paths \in LeaseRequests,
              LeaseAcquire(id, p, paths)
       PROVE  OrderlyStep
  <2> DEFINE bound == BindProject(orch, id, panes[p])
  <2>1. LedgerType(bound) /\ Orderly(orch, bound, live)
    BY <1>pane, <1>bind
  <2>2. panes' = panes /\ gates' = gates
    BY <1>15 DEF LeaseAcquire
  <2> HIDE DEF bound
  <2>3. Orderly(orch, Acquire(bound, p, id, paths), live)
    BY <2>1, <2>2, AcquireOrderly, OrderlyTransitive
  <2>. QED BY <1>15, <2>1, <2>2, <2>3, CommitOrderly, GatesUnchanged DEF LeaseAcquire, bound
<1>16. ASSUME NEW id \in DOMAIN gates, NEW passed \in BOOLEAN, GateFinished(id, passed)
       PROVE  OrderlyStep
  <2>1. GatesKept
    BY <1>16 DEF GateFinished, GatesKept, Restrict
  <2>2. CASE GateCurrent(id)
    <3>1. id \in Ids(orch)
      BY <2>2 DEF GateCurrent
    <3>. QED BY <1>16, <1>type, <1>set, <2>1, <2>2, <3>1, FinalizeOrderly, CommitOrderly
             DEF GateFinished
  <2>3. CASE ~GateCurrent(id)
    BY <1>16, <1>same, <2>1, <2>3 DEF GateFinished
  <2>. QED BY <2>2, <2>3
<1>17. ASSUME NEW outcome \in {"merged", "conflict", "error"}, MergeFinished(outcome)
       PROVE  OrderlyStep
  <2> DEFINE status == CASE outcome = "merged"   -> "merged"
                         [] outcome = "conflict" -> "blocked"
                         [] outcome = "error"    -> job.previous
  <2>1. CASE CanFinishMerge(orch, job.task)
    <3>1. Commit(FinishMerge(orch, job.task, status))
      BY <1>17, <2>1 DEF MergeFinished
    <3> HIDE DEF status
    <3>2. Orderly(orch, FinishMerge(orch, job.task, status), live)
      BY <1>type, <2>1, MergeOrderly DEF CanFinishMerge
    <3>. QED BY <1>17, <3>1, <3>2, CommitOrderly, GatesUnchanged DEF MergeFinished
  <2>2. CASE ~CanFinishMerge(orch, job.task)
    BY <1>17, <1>same, <2>2, GatesUnchanged DEF MergeFinished
  <2>. QED BY <2>1, <2>2
<1>18. ASSUME RecoverLeases PROVE OrderlyStep
  <2>1. disk' = disk /\ panes' = panes /\ gates' = gates
    BY <1>18 DEF RecoverLeases
  <2>2. ASSUME NEW o, orch' = o, Orderly(orch, o, DOMAIN panes) PROVE OrderlyStep
    BY <2>1, <2>2, GatesUnchanged DEF OrderlyStep, Orderly
  <2>3. CASE /\ boot \in Ids(orch) /\ NeedsLeases(Task_(boot))
             /\ orch' = BindTaskPaths(orch, boot, Task_(boot).assignee, Task_(boot).paths)
    <3> DEFINE pane == Task_(boot).assignee
    <3>1. Steady(orch, orch') /\ (Owned(orch, DOMAIN panes) => Owned(orch', DOMAIN panes))
      <4>1. ASSUME NEW all, pane \in all PROVE Orderly(orch, orch', all)
        BY <1>type, <2>3, <4>1, BindTaskPathsOrderly
      <4>2. Owned(orch, DOMAIN panes) => pane \in DOMAIN panes
        BY <2>3 DEF Owned, NeedsLeases, Task_
      <4>3. Steady(orch, orch')
        BY <4>1 DEF Orderly
      <4>. QED BY <4>1, <4>2, <4>3 DEF Orderly
    <3>. QED BY <2>1, <3>1, GatesUnchanged DEF OrderlyStep
  <2>4. CASE boot \in Ids(orch) /\ orch' = SetStatus(orch, boot, "blocked")
    BY <1>type, <2>2, <2>4, SetStatusOrderly
  <2>5. CASE orch' = orch
    BY <1>same, <2>1, <2>5, GatesUnchanged
  <2>. QED BY <1>18, <2>3, <2>4, <2>5 DEF RecoverLeases
<1>19. ASSUME SaveReconciled PROVE OrderlyStep
  BY <1>19, <1>same, GatesUnchanged DEF SaveReconciled, Commit
<1>20. ASSUME FinishBoot PROVE OrderlyStep
  BY <1>20, <1>type, InterruptOrderly, CommitOrderly, GatesUnchanged DEF FinishBoot
<1>21. CASE UNCHANGED vars
  BY <1>21, <1>same, GatesUnchanged DEF vars
<1>. QED
  BY <1>1, <1>2, <1>3, <1>4, <1>5, <1>6, <1>7, <1>8, <1>9, <1>10, <1>11, <1>12, <1>13, <1>14,
     <1>15, <1>16, <1>17, <1>18, <1>19, <1>20, <1>21
     DEF Next, PaneStep, TaskStep, LeaseStep, JobStep, BootStep, Exceptional

-----------------------------------------------------------------------------
(* The exceptional steps                                                   *)

LEMMA AddTaskFields ==
  ASSUME NEW o, LedgerType(o), NEW task, task.assignee = NoPane, task.place = "none"
  PROVE  LET p == AddTask(o, task)
         IN  /\ p.nextTask = o.nextTask + 1 /\ p.nextTask \notin Ids(o)
             /\ Ids(p) = Ids(o) \cup {p.nextTask}
             /\ \A t \in Ids(o) : p.tasks[t] = o.tasks[t]
             /\ p.tasks[p.nextTask] = task
             /\ p.leases = o.leases
             /\ Placed(o) => Placed(p)
             /\ \A live : Owned(o, live) => Owned(p, live)
<1> DEFINE p == AddTask(o, task)
<1>1. /\ p.nextTask = o.nextTask + 1 /\ p.nextTask \notin Ids(o)
      /\ p.tasks = [t \in Ids(o) \cup {o.nextTask + 1} |->
                      IF t = o.nextTask + 1 THEN task ELSE o.tasks[t]]
      /\ p.leases = o.leases
  BY DEF AddTask, LedgerType, Ids
<1> HIDE DEF p
<1>2. Ids(p) = Ids(o) \cup {p.nextTask}
  BY <1>1 DEF Ids
<1>3. /\ \A t \in Ids(o) : p.tasks[t] = o.tasks[t]
      /\ p.tasks[p.nextTask] = task
  BY <1>1
<1>4. Placed(o) => Placed(p)
  BY <1>2, <1>3 DEF Placed, WellPlaced
<1>5. \A live : Owned(o, live) => Owned(p, live)
  BY <1>1, <1>2, <1>3 DEF Owned
<1>. QED BY <1>1, <1>2, <1>3, <1>4, <1>5 DEF p

LEMMA DeleteTaskFields ==
  ASSUME NEW o, LedgerType(o), NEW id \in Ids(o)
  PROVE  LET p == DeleteTask(o, id)
         IN  /\ p.nextTask = o.nextTask /\ Ids(p) = Ids(o) \ {id}
             /\ \A t \in Ids(p) : /\ p.tasks[t].attempt = o.tasks[t].attempt
                                  /\ p.tasks[t].status = o.tasks[t].status
             /\ Placed(o) => Placed(p)
             /\ \A live : Owned(o, live) => Owned(p, live)
<1> DEFINE p == DeleteTask(o, id)
<1>1. /\ p.nextTask = o.nextTask
      /\ p.tasks = [t \in Ids(o) \ {id} |-> [o.tasks[t] EXCEPT !.deps = @ \ {id}]]
      /\ p.leases \subseteq o.leases
  BY DEF DeleteTask, ReleaseTaskLeases, LedgerType, Ids
<1> HIDE DEF p
<1>2. Ids(p) = Ids(o) \ {id}
  BY <1>1 DEF Ids
<1>3. \A t \in Ids(p) : /\ p.tasks[t].attempt = o.tasks[t].attempt
                        /\ p.tasks[t].status = o.tasks[t].status
                        /\ p.tasks[t].assignee = o.tasks[t].assignee
                        /\ p.tasks[t].place = o.tasks[t].place
                        /\ p.tasks[t].mode = o.tasks[t].mode
  BY <1>1, <1>2 DEF LedgerType, Task
<1>4. Placed(o) => Placed(p)
  BY <1>2, <1>3 DEF Placed, WellPlaced
<1>5. \A live : Owned(o, live) => Owned(p, live)
  BY <1>1, <1>2, <1>3 DEF Owned
<1>. QED BY <1>1, <1>2, <1>3, <1>4, <1>5 DEF p

LEMMA RetryTaskFields ==
  ASSUME NEW o, LedgerType(o), NEW id \in Ids(o)
  PROVE  LET p == RetryTask(o, id)
         IN  /\ p.nextTask = o.nextTask /\ Ids(p) = Ids(o)
             /\ \A t \in Ids(o) \ {id} : p.tasks[t] = o.tasks[t]
             /\ p.tasks[id].attempt = o.tasks[id].attempt + 1
             /\ ~p.tasks[id].started
             /\ Placed(o) => Placed(p)
             /\ \A live : Owned(o, live) => Owned(p, live)
<1> DEFINE p == RetryTask(o, id)
           fresh == [o.tasks[id] EXCEPT !.attempt = @ + 1, !.assignee = NoPane,
                                        !.status = "queued", !.place = "none",
                                        !.saturated = FALSE, !.started = FALSE]
<1>1. /\ fresh.attempt = o.tasks[id].attempt + 1 /\ fresh.started = FALSE
      /\ fresh.place = "none" /\ fresh.assignee = NoPane
  BY DEF LedgerType, Task
<1> HIDE DEF fresh
<1>2. /\ p.nextTask = o.nextTask /\ Ids(p) = Ids(o) /\ p.leases \subseteq o.leases
      /\ \A t \in Ids(o) : p.tasks[t] = IF t = id THEN fresh ELSE o.tasks[t]
  BY DEF RetryTask, ReleaseTaskLeases, LedgerType, Ids, fresh
<1> HIDE DEF p
<1>3. Placed(o) => Placed(p)
  BY <1>1, <1>2 DEF Placed, WellPlaced
<1>4. \A live : Owned(o, live) => Owned(p, live)
  BY <1>1, <1>2 DEF Owned
<1>. QED BY <1>1, <1>2, <1>3, <1>4 DEF p

\* A status as load_from leaves it.
LoadedStatus(o, t) ==
  IF o.tasks[t].status # "merging" THEN o.tasks[t].status
  ELSE IF t \in DOMAIN o.mergePrevious THEN o.mergePrevious[t] ELSE "done"

LEMMA ReboundFields ==
  ASSUME NEW t \in Task, NEW pane
  PROVE  /\ Rebound(t, pane).attempt = t.attempt
         /\ Rebound(t, pane).place = t.place /\ Rebound(t, pane).mode = t.mode
         /\ \/ Rebound(t, pane).status = t.status
            \/ /\ t.mode # "workspace" /\ t.place # "worktree" /\ Active(t)
               /\ Rebound(t, pane).status = "queued"
<1> DEFINE r == Rebound(t, pane)
<1>1. \/ r = [t EXCEPT !.assignee = pane] \/ r = [t EXCEPT !.assignee = NoPane] \/ r = t
      \/ /\ t.mode # "workspace" /\ t.place # "worktree"
         /\ r = [t EXCEPT !.assignee = NoPane, !.status = IF Active(t) THEN "queued" ELSE @]
  BY DEF Rebound
<1> HIDE DEF r
<1>2. r.attempt = t.attempt /\ r.place = t.place /\ r.mode = t.mode
  BY <1>1 DEF Task
<1>3. \/ r.status = t.status
      \/ t.mode # "workspace" /\ t.place # "worktree" /\ Active(t) /\ r.status = "queued"
  BY <1>1 DEF Task
<1>. QED BY <1>2, <1>3 DEF r

\* What a restart makes of the tasks on disk.
LEMMA RestartTasks ==
  ASSUME TypeOK, Restart
  PROVE  /\ orch'.nextTask = disk.nextTask /\ Ids(orch') = Ids(disk)
         /\ \A t \in Ids(disk) :
              /\ orch'.tasks[t].attempt = disk.tasks[t].attempt
              /\ orch'.tasks[t].place = disk.tasks[t].place
              /\ orch'.tasks[t].mode = disk.tasks[t].mode
              /\ \/ orch'.tasks[t].status = LoadedStatus(disk, t)
                 \/ /\ disk.tasks[t].mode # "workspace" /\ disk.tasks[t].place # "worktree"
                    /\ LoadedStatus(disk, t) \in {"claimed", "running"}
                    /\ orch'.tasks[t].status = "queued"
<1> DEFINE loaded == RecoverMerges(disk)
<1>1. PICK n \in 0..MaxPanes :
        /\ panes' \in [1..n -> Projects]
        /\ \E home \in [{t \in Ids(disk) : disk.tasks[t].place # "none"} -> 0..n] :
             \E kept \in Reconciled(Rebind(RecoverMerges(disk), home)) :
               orch' = [Rebind(RecoverMerges(disk), home) EXCEPT !.leases = kept]
  BY DEF Restart
<1>2. PICK home, kept : orch' = [Rebind(loaded, home) EXCEPT !.leases = kept]
  BY <1>1
<1>3. LedgerType(disk)
  BY DEF TypeOK
<1>4. LedgerType(loaded) /\ Ids(loaded) = Ids(disk) /\ loaded.nextTask = disk.nextTask
  BY <1>3, RecoverMergesType DEF RecoverMerges, LedgerType
<1>5. \A t \in Ids(disk) : /\ loaded.tasks[t].attempt = disk.tasks[t].attempt
                           /\ loaded.tasks[t].place = disk.tasks[t].place
                           /\ loaded.tasks[t].mode = disk.tasks[t].mode
                           /\ loaded.tasks[t].status = LoadedStatus(disk, t)
  BY <1>3 DEF RecoverMerges, LoadedStatus, LedgerType, Ids, Task
<1> HIDE DEF loaded
<1>6. /\ orch'.nextTask = loaded.nextTask /\ Ids(orch') = Ids(loaded)
      /\ \A t \in Ids(loaded) : orch'.tasks[t] = Rebound(loaded.tasks[t], home[t])
  BY <1>2, <1>4 DEF Rebind, LedgerType, Ids
<1>7. ASSUME NEW t \in Ids(disk)
      PROVE  /\ orch'.tasks[t].attempt = disk.tasks[t].attempt
             /\ orch'.tasks[t].place = disk.tasks[t].place
             /\ orch'.tasks[t].mode = disk.tasks[t].mode
             /\ \/ orch'.tasks[t].status = LoadedStatus(disk, t)
                \/ /\ disk.tasks[t].mode # "workspace" /\ disk.tasks[t].place # "worktree"
                   /\ LoadedStatus(disk, t) \in {"claimed", "running"}
                   /\ orch'.tasks[t].status = "queued"
  <2>1. loaded.tasks[t] \in Task
    BY <1>4 DEF LedgerType
  <2>. QED BY <1>4, <1>5, <1>6, <2>1, ReboundFields DEF Active
<1>. QED BY <1>4, <1>6, <1>7

\* After a restart nobody owns anything but the restored panes.
LEMMA RestartOwned ==
  ASSUME TypeOK, Restart
  PROVE  Owned(orch', DOMAIN panes')
<1>1. PICK o, kept : /\ LedgerType(o) /\ kept \in Reconciled(o)
                     /\ orch' = [o EXCEPT !.leases = kept]
                     /\ \A t \in Ids(o) : o.tasks[t].assignee \in DOMAIN panes' \cup {NoPane}
  BY RestartLedger
<1>2. orch'.tasks = o.tasks /\ orch'.leases = kept
  BY <1>1 DEF LedgerType
<1>3. kept \subseteq LiveLeases(o)
  BY <1>1 DEF Reconciled
<1>4. \A l \in LiveLeases(o) : l.pane \in DOMAIN panes'
  BY <1>1 DEF LiveLeases, LedgerType, Lease
<1>. QED BY <1>1, <1>2, <1>3, <1>4 DEF Owned, Ids

\* The task that TaskAdd adds belongs to nobody yet.
LEMMA NewTaskFields ==
  ASSUME NEW paths, NEW deps, NEW gate, NEW project, NEW auto
  PROVE  /\ NewTask(paths, deps, gate, project, auto).assignee = NoPane
         /\ NewTask(paths, deps, gate, project, auto).place = "none"
BY DEF NewTask

LEMMA TaskAddEffect ==
  ASSUME TypeOK, NEW template \in Templates, NEW deps, TaskAdd(template, deps)
  PROVE  \E task : /\ task.assignee = NoPane /\ task.place = "none"
                   /\ orch' = AddTask(orch, task) /\ disk' \in {disk, orch'}
                   /\ UNCHANGED <<panes, gates, boot, crashes>>
<1> DEFINE task == NewTask(template.paths, deps, template.gate, template.project, template.auto)
<1>1. orch' = AddTask(orch, task) /\ disk' \in {disk, orch'} /\ UNCHANGED <<panes, gates, boot, crashes>>
  BY DEF TaskAdd, Commit
<1>. QED BY <1>1, NewTaskFields

LEMMA TaskDeleteEffect ==
  ASSUME NEW id, TaskDelete(id)
  PROVE  /\ orch' = DeleteTask(orch, id) /\ disk' \in {disk, orch'}
         /\ InvalidateGate(id) /\ UNCHANGED <<panes, boot, crashes>>
BY DEF TaskDelete, Commit

LEMMA TaskRetryEffect ==
  ASSUME NEW id, TaskRetry(id)
  PROVE  /\ CanRetry(orch, id)
         /\ orch' = RetryTask(orch, id) /\ disk' = orch'
         /\ InvalidateGate(id) /\ UNCHANGED <<panes, boot, crashes>>
BY DEF TaskRetry, CommitOrReject

-----------------------------------------------------------------------------
(* Owners                                                                  *)

LEMMA OwnersAreOwned == OwnersLive <=> Owned(orch, DOMAIN panes)
BY DEF OwnersLive, Owned, Task_

LEMMA OwnersStep == TypeOK /\ OwnersLive /\ [Next]_vars => OwnersLive'
<1> SUFFICES ASSUME TypeOK, Owned(orch, DOMAIN panes), [Next]_vars
             PROVE  Owned(orch', DOMAIN panes')
  BY OwnersAreOwned DEF OwnersLive, Owned, Task_
<1>type. LedgerType(orch)
  BY DEF TypeOK
<1>1. CASE OrderlyStep
  BY <1>1 DEF OrderlyStep
<1>2. CASE Restart
  BY <1>2, RestartOwned
<1>3. ASSUME NEW template \in Templates, NEW deps, TaskAdd(template, deps)
      PROVE  Owned(orch', DOMAIN panes')
  BY <1>3, <1>type, TaskAddEffect, AddTaskFields
<1>4. ASSUME NEW id \in Ids(orch), TaskDelete(id) PROVE Owned(orch', DOMAIN panes')
  BY <1>4, <1>type, TaskDeleteEffect, DeleteTaskFields
<1>5. ASSUME NEW id \in Ids(orch), TaskRetry(id) PROVE Owned(orch', DOMAIN panes')
  BY <1>5, <1>type, TaskRetryEffect, RetryTaskFields
<1>. QED BY <1>1, <1>2, <1>3, <1>4, <1>5, NextOrderly DEF Exceptional

\* No task and no lease belongs to a pane that is gone: a worker that died or
\* lived before a restart blocks nobody.
THEOREM OwnersAreLive == Spec => []OwnersLive
<1>1. Init => TypeOK /\ OwnersLive
  BY EmptyLedgerType
     DEF Init, TypeOK, NoGates, NoJob, OwnersLive, EmptyLedger, Ids
<1>. QED BY <1>1, TypeStep, OwnersStep, PTL DEF Spec

-----------------------------------------------------------------------------
(* Gates                                                                   *)

LEMMA GateStep == TypeOK /\ GateFence /\ [Next]_vars => GateFence'
<1> SUFFICES ASSUME TypeOK, GateFence, [Next]_vars, NEW id \in DOMAIN gates',
                    ~gates'[id].cancelled
             PROVE  id \in Ids(orch') /\ orch'.tasks[id].attempt = gates'[id].attempt
  BY DEF GateFence, Task_
<1>type. LedgerType(orch)
  BY DEF TypeOK
<1>1. CASE OrderlyStep
  <2>1. id \in Ids(orch) /\ orch.tasks[id].attempt = gates'[id].attempt
    BY <1>1 DEF OrderlyStep, GatesKept, GateFence, Task_
  <2>. QED BY <1>1, <2>1 DEF OrderlyStep, Steady
<1>2. CASE Restart
  BY <1>2 DEF Restart, NoGates
<1>3. ASSUME NEW template \in Templates, NEW deps, TaskAdd(template, deps)
      PROVE  id \in Ids(orch') /\ orch'.tasks[id].attempt = gates'[id].attempt
  <2>1. id \in Ids(orch) /\ orch.tasks[id].attempt = gates'[id].attempt
    BY <1>3, TaskAddEffect DEF GateFence, Task_
  <2>. QED BY <1>3, <1>type, <2>1, TaskAddEffect, AddTaskFields
<1>invalid. ASSUME NEW x, InvalidateGate(x)
            PROVE  id # x /\ id \in Ids(orch) /\ orch.tasks[id].attempt = gates'[id].attempt
  BY <1>invalid DEF InvalidateGate, GateFence, Task_
<1>4. ASSUME NEW x \in Ids(orch), TaskDelete(x)
      PROVE  id \in Ids(orch') /\ orch'.tasks[id].attempt = gates'[id].attempt
  BY <1>4, <1>type, <1>invalid, TaskDeleteEffect, DeleteTaskFields
<1>5. ASSUME NEW x \in Ids(orch), TaskRetry(x)
      PROVE  id \in Ids(orch') /\ orch'.tasks[id].attempt = gates'[id].attempt
  BY <1>5, <1>type, <1>invalid, TaskRetryEffect, RetryTaskFields
<1>. QED BY <1>1, <1>2, <1>3, <1>4, <1>5, NextOrderly DEF Exceptional

\* A gate that was not cancelled runs for the attempt its task is on, whatever
\* was retried, deleted and added since it was launched.
THEOREM GatesFenced == Spec => []GateFence
<1>1. Init => TypeOK /\ GateFence
  BY EmptyLedgerType DEF Init, TypeOK, NoGates, NoJob, GateFence
<1>. QED BY <1>1, TypeStep, GateStep, PTL DEF Spec

-----------------------------------------------------------------------------
(* Attempts                                                                *)

\* The snapshot may miss tasks, but not attempts.
Agree(o, d) ==
  /\ d.nextTask <= o.nextTask
  /\ \A t \in Ids(o) \cap Ids(d) : d.tasks[t].attempt = o.tasks[t].attempt

\* Attempts move on in this step only by a retry that leaves nobody behind.
AttemptsMove ==
  \A t \in Ids(orch) \cap Ids(orch') :
    \/ orch'.tasks[t].attempt = orch.tasks[t].attempt
    \/ /\ orch'.tasks[t].attempt = orch.tasks[t].attempt + 1
       /\ CanRetry(orch, t)
       /\ \A c \in Ids(orch) \ {t} : orch'.tasks[c] = orch.tasks[c]
       /\ ~orch'.tasks[t].started

LEMMA AttemptStep ==
  TypeOK /\ Agree(orch, disk) /\ [Next]_vars => Agree(orch', disk') /\ AttemptsMove
<1> SUFFICES ASSUME TypeOK, Agree(orch, disk), [Next]_vars
             PROVE  Agree(orch', disk') /\ AttemptsMove
  OBVIOUS
<1>type. /\ LedgerType(orch) /\ LedgerType(disk)
         /\ Ids(disk) \subseteq 1..disk.nextTask
         /\ orch.nextTask \in Nat /\ disk.nextTask \in Nat
  BY DEF TypeOK, LedgerType
<1>1. CASE OrderlyStep
  <2>1. Steady(orch, orch')
    BY <1>1 DEF OrderlyStep
  <2>2. AttemptsMove
    BY <2>1 DEF Steady, AttemptsMove
  <2>3. CASE disk' = disk
    BY <2>1, <2>2, <2>3 DEF Steady, Agree
  <2>4. CASE Steady(orch, disk')
    BY <1>type, <2>1, <2>2, <2>4 DEF Steady, Agree
  <2>. QED BY <1>1, <2>2, <2>3, <2>4 DEF OrderlyStep
<1>2. CASE Restart
  <2>1. disk' = disk
    BY <1>2 DEF Restart
  <2>2. /\ orch'.nextTask = disk.nextTask /\ Ids(orch') = Ids(disk)
        /\ \A t \in Ids(disk) : orch'.tasks[t].attempt = disk.tasks[t].attempt
    BY <1>2, RestartTasks
  <2>3. AttemptsMove
    BY <2>2 DEF Agree, AttemptsMove
  <2>. QED BY <1>type, <2>1, <2>2, <2>3 DEF Agree
<1>3. ASSUME NEW template \in Templates, NEW deps, TaskAdd(template, deps)
      PROVE  Agree(orch', disk') /\ AttemptsMove
  <2>1. /\ disk' \in {disk, orch'}
        /\ orch'.nextTask = orch.nextTask + 1 /\ Ids(orch') = Ids(orch) \cup {orch.nextTask + 1}
        /\ \A t \in Ids(orch) : orch'.tasks[t] = orch.tasks[t]
    BY <1>3, <1>type, TaskAddEffect, AddTaskFields
  <2>2. AttemptsMove
    BY <2>1 DEF AttemptsMove
  <2>3. orch.nextTask + 1 \notin Ids(disk)
    BY <1>type DEF Agree
  <2>. QED BY <1>type, <2>1, <2>2, <2>3 DEF Agree
<1>4. ASSUME NEW id \in Ids(orch), TaskDelete(id) PROVE Agree(orch', disk') /\ AttemptsMove
  <2>1. /\ disk' \in {disk, orch'}
        /\ orch'.nextTask = orch.nextTask /\ Ids(orch') = Ids(orch) \ {id}
        /\ \A t \in Ids(orch') : orch'.tasks[t].attempt = orch.tasks[t].attempt
    BY <1>4, <1>type, TaskDeleteEffect, DeleteTaskFields
  <2>. QED BY <1>type, <2>1 DEF Agree, AttemptsMove
<1>5. ASSUME NEW id \in Ids(orch), TaskRetry(id) PROVE Agree(orch', disk') /\ AttemptsMove
  <2>1. /\ CanRetry(orch, id) /\ disk' = orch' /\ orch' = RetryTask(orch, id)
    BY <1>5, TaskRetryEffect
  <2>2. /\ orch'.nextTask = orch.nextTask /\ Ids(orch') = Ids(orch)
        /\ \A t \in Ids(orch) \ {id} : orch'.tasks[t] = orch.tasks[t]
        /\ orch'.tasks[id].attempt = orch.tasks[id].attempt + 1
        /\ ~orch'.tasks[id].started
    BY <1>type, <2>1, RetryTaskFields
  <2>3. AttemptsMove
    BY <2>1, <2>2 DEF AttemptsMove
  <2>. QED BY <1>type, <2>1, <2>2, <2>3 DEF Agree
<1>. QED BY <1>1, <1>2, <1>3, <1>4, <1>5, NextOrderly DEF Exceptional

LEMMA AttemptsAgree == Spec => [](TypeOK /\ Agree(orch, disk))
<1>1. Init => TypeOK /\ Agree(orch, disk)
  BY EmptyLedgerType DEF Init, TypeOK, NoGates, NoJob, Agree, EmptyLedger, Ids
<1>2. TypeOK /\ Agree(orch, disk) /\ [Next]_vars => TypeOK' /\ Agree(orch, disk)'
  BY TypeStep, AttemptStep
<1>. QED BY <1>1, <1>2, PTL DEF Spec

\* An attempt number is never used twice, even when saves fail and the server
\* restarts from an older snapshot.
THEOREM AttemptsOnlyGrow == Spec => AttemptsNeverRepeat
<1>1. TypeOK /\ Agree(orch, disk) /\ [Next]_vars
        => [\A t \in Ids(orch) \cap Ids(orch') :
              orch'.tasks[t].attempt >= orch.tasks[t].attempt]_vars
  <2> SUFFICES ASSUME TypeOK, AttemptsMove, NEW t \in Ids(orch) \cap Ids(orch')
               PROVE  orch'.tasks[t].attempt >= orch.tasks[t].attempt
    BY AttemptStep
  <2>1. orch.tasks[t].attempt \in Nat
    BY DEF TypeOK, LedgerType, Task
  <2>. QED BY <2>1 DEF AttemptsMove
<1>. QED BY <1>1, AttemptsAgree, PTL DEF Spec, AttemptsNeverRepeat

\* A task that started keeps building on the same attempt of each dependency.
THEOREM DependentsStayPinned == Spec => DependentsPinAttempt
<1>1. TypeOK /\ Agree(orch, disk) /\ [Next]_vars
        => [\A t \in Ids(orch) \cap Ids(orch') :
              orch.tasks[t].started /\ orch'.tasks[t].started =>
                \A d \in orch'.tasks[t].deps \cap Ids(orch) \cap Ids(orch') :
                  orch'.tasks[d].attempt = orch.tasks[d].attempt]_vars
  <2> SUFFICES ASSUME AttemptsMove, NEW t \in Ids(orch) \cap Ids(orch'),
                      orch.tasks[t].started, orch'.tasks[t].started,
                      NEW d \in orch'.tasks[t].deps \cap Ids(orch) \cap Ids(orch'),
                      orch'.tasks[d].attempt # orch.tasks[d].attempt
               PROVE  FALSE
    BY AttemptStep
  <2>1. CanRetry(orch, d) /\ t # d /\ orch'.tasks[t] = orch.tasks[t]
    BY DEF AttemptsMove
  <2>. QED BY <2>1 DEF CanRetry, LeftQueue
<1>. QED BY <1>1, AttemptsAgree, PTL DEF Spec, DependentsPinAttempt

-----------------------------------------------------------------------------
(* Scheduled tasks                                                         *)

LEMMA PlacedStep ==
  TypeOK /\ Placed(orch) /\ Placed(disk) /\ [Next]_vars => Placed(orch') /\ Placed(disk')
<1> SUFFICES ASSUME TypeOK, Placed(orch), Placed(disk), [Next]_vars
             PROVE  Placed(orch') /\ Placed(disk')
  OBVIOUS
<1>type. LedgerType(orch)
  BY DEF TypeOK
<1>1. CASE OrderlyStep
  BY <1>1 DEF OrderlyStep, Steady, Placed
<1>2. CASE Restart
  <2>1. /\ Ids(orch') = Ids(disk)
        /\ \A t \in Ids(disk) : /\ orch'.tasks[t].place = disk.tasks[t].place
                               /\ orch'.tasks[t].mode = disk.tasks[t].mode
    BY <1>2, RestartTasks
  <2>2. disk' = disk
    BY <1>2 DEF Restart
  <2>. QED BY <2>1, <2>2 DEF Placed, WellPlaced
<1>3. ASSUME NEW template \in Templates, NEW deps, TaskAdd(template, deps)
      PROVE  Placed(orch') /\ Placed(disk')
  BY <1>3, <1>type, TaskAddEffect, AddTaskFields
<1>4. ASSUME NEW id \in Ids(orch), TaskDelete(id) PROVE Placed(orch') /\ Placed(disk')
  BY <1>4, <1>type, TaskDeleteEffect, DeleteTaskFields
<1>5. ASSUME NEW id \in Ids(orch), TaskRetry(id) PROVE Placed(orch') /\ Placed(disk')
  BY <1>5, <1>type, TaskRetryEffect, RetryTaskFields
<1>. QED BY <1>1, <1>2, <1>3, <1>4, <1>5, NextOrderly DEF Exceptional

\* Losing workers does not queue a task that is not queued yet.
LEMMA InterruptStatus ==
  ASSUME NEW o, LedgerType(o), NEW lost, NEW t \in Ids(o), o.tasks[t].status # "queued"
  PROVE  Interrupt(o, lost).tasks[t].status # "queued"
BY DEF Interrupt, LedgerType, Ids, Task

LEMMA UnbindStatus ==
  ASSUME NEW o, LedgerType(o), NEW pane, NEW t \in Ids(o),
         o.tasks[t].mode # "none", o.tasks[t].status # "queued"
  PROVE  Unbind(o, pane).tasks[t].status # "queued"
<1> DEFINE held == {u \in Ids(o) : o.tasks[u].assignee = pane}
           lost == {u \in held : Interruptible(o.tasks[u])}
           pure == {u \in held \ lost : /\ o.tasks[u].mode = "none"
                                        /\ o.tasks[u].place # "worktree"
                                        /\ o.tasks[u].status \in {"claimed", "running"}}
           freed(u) == CASE u \in pure        -> [o.tasks[u] EXCEPT !.assignee = NoPane,
                                                                    !.status = "queued"]
                         [] u \in held \ pure -> [o.tasks[u] EXCEPT !.assignee = NoPane]
                         [] OTHER             -> o.tasks[u]
           p == [o EXCEPT !.tasks = [u \in Ids(o) |-> freed(u)]]
<1>1. Unbind(o, pane) = Interrupt(p, lost)
  BY DEF Unbind
<1>2. \A u \in Ids(o) : freed(u) \in Task
  <2> HIDE DEF held, pure
  <2>. QED BY TaskField DEF LedgerType, Status, NoPane
<1>3. t \notin pure
  OBVIOUS
<1>4. freed(t).status = o.tasks[t].status
  <2> HIDE DEF held, pure
  <2>. QED BY <1>3 DEF LedgerType, Task
<1> HIDE DEF freed, pure, lost
<1>5. LedgerType(p) /\ Ids(p) = Ids(o) /\ p.tasks[t] = freed(t)
  BY <1>2 DEF LedgerType, Ids
<1> HIDE DEF p
<1>. QED BY <1>1, <1>4, <1>5, InterruptStatus

LEMMA StartedStatus ==
  ASSUME NEW o, LedgerType(o), NEW id \in Ids(o), NEW mode \in Mode, NEW pane \in Pane,
         NEW t \in Ids(o), o.tasks[t].status # "queued"
  PROVE  Started(o, id, mode, pane).tasks[t].status # "queued"
<1> DEFINE paths   == o.tasks[id].paths
           claimed == Claim(o, id, pane)
           bound   == BindTaskPaths(claimed, id, pane, paths)
           leased  == IF paths = {} THEN claimed ELSE bound
           running == SetStatus(leased, id, "running")
           placed  == BindPlace(running, id, mode)
<1>1. /\ LedgerType(claimed) /\ Ids(claimed) = Ids(o)
      /\ claimed.tasks[t].status # "queued"
  <2>1. LedgerType(claimed) /\ Ids(claimed) = Ids(o)
    BY ClaimType DEF Pane
  <2>2. claimed.tasks[t].status # "queued"
    BY DEF Claim, LedgerType, Ids, Task
  <2>. QED BY <2>1, <2>2
<1>2. id \in Nat /\ paths \in SUBSET Paths
  BY DEF LedgerType, Task
<1>3. LedgerType(leased) /\ Ids(leased) = Ids(o) /\ leased.tasks = claimed.tasks
  <2> HIDE DEF claimed, paths
  <2>1. bound.tasks = claimed.tasks
    BY <1>1 DEF BindTaskPaths, Acquire, LedgerType
  <2>2. LedgerType(bound) /\ Ids(bound) = Ids(o)
    BY <1>1, <1>2, BindTaskPathsType
  <2> HIDE DEF bound
  <2>. QED BY <1>1, <2>1, <2>2
<1> HIDE DEF claimed, leased
<1>4. LedgerType(running) /\ Ids(running) = Ids(o) /\ running.tasks[t].status # "queued"
  <2>1. LedgerType(running) /\ Ids(running) = Ids(leased)
    BY <1>3, SetStatusType DEF Status
  <2>2. running.tasks[t].status # "queued"
    BY <1>1, <1>3 DEF SetStatus, LedgerType, Ids, Task
  <2>. QED BY <1>3, <2>1, <2>2
<1> HIDE DEF running
<1>5. placed.tasks[t].status # "queued"
  BY <1>4 DEF BindPlace, LedgerType, Ids, Task
<1>. QED BY <1>5 DEF Started, placed, running, leased, claimed, paths

\* A step that opens or closes a pane, restarts the server or belongs to its
\* startup.
PaneOrBoot == panes' # panes \/ crashes' # crashes \/ boot # 0

LEMMA ScheduledStep ==
  ASSUME TypeOK, Placed(orch), Placed(disk), [Next]_vars, PaneOrBoot,
         NEW t \in Ids(orch) \cap Ids(orch'), Launched(orch, t), Launched(disk, t)
  PROVE  orch'.tasks[t].status # "queued"
<1>type. LedgerType(orch) /\ LedgerType(disk)
  BY DEF TypeOK
<1>launched. /\ orch.tasks[t].status # "queued"
             /\ orch.tasks[t].mode # "none" /\ orch.tasks[t].mode = orch.tasks[t].place
             /\ disk.tasks[t].status # "queued"
             /\ disk.tasks[t].mode # "none" /\ disk.tasks[t].mode = disk.tasks[t].place
             /\ t \in Ids(disk)
  BY DEF Launched, Placed, WellPlaced
<1>1. ASSUME NEW project \in Projects, OpenPane(project)
      PROVE  orch'.tasks[t].status # "queued"
  BY <1>1, <1>launched DEF OpenPane
<1>2. ASSUME NEW p \in DOMAIN panes, ClosePane(p) PROVE orch'.tasks[t].status # "queued"
  <2> DEFINE released == ReleasePaneLeases(orch, p)
  <2>1. orch' = Unbind(released, p)
    BY <1>2 DEF ClosePane, CommitTwice
  <2>2. LedgerType(released) /\ Ids(released) = Ids(orch) /\ released.tasks = orch.tasks
    <3>1. released.tasks = orch.tasks
      BY <1>type DEF ReleasePaneLeases, LedgerType
    <3>. QED BY <1>type, <3>1, ReleasePaneLeasesType
  <2> HIDE DEF released
  <2>. QED BY <1>launched, <2>1, <2>2, UnbindStatus
<1>3. ASSUME NEW id \in Ids(orch), NEW mode \in Modes, NEW project \in Projects,
             TaskStart(id, mode, project)
      PROVE  orch'.tasks[t].status # "queued"
  <2> DEFINE bound == BindProject(orch, id, project)
  <2>1. /\ LedgerType(bound) /\ Ids(bound) = Ids(orch)
        /\ bound.tasks[t].status = orch.tasks[t].status
    <3>1. bound.tasks[t].status = orch.tasks[t].status
      BY <1>type DEF BindProject, LedgerType, Ids, Task
    <3>. QED BY <1>type, <3>1, BindProjectType
  <2>2. mode \in Mode
    BY BoundsAssumption DEF Mode
  <2>3. lastPane + 1 \in Pane /\ \A p \in DOMAIN panes : p \in Pane
    BY DEF TypeOK, Pane, NoPane
  <2>4. orch' = bound \/ \E p \in Pane : orch' = Started(bound, id, mode, p)
    <3> HIDE DEF bound
    <3>. QED BY <1>3, <2>3 DEF TaskStart, Commit, LeaveUnsaved, bound
  <2> HIDE DEF bound
  <2>. QED BY <1>launched, <2>1, <2>2, <2>4, StartedStatus
<1>4. CASE RecoverLeases
  <2>1. CASE \E pane : orch' = BindTaskPaths(orch, boot, pane, Task_(boot).paths)
    <3>1. orch'.tasks = orch.tasks
      <4>1. PICK pane : orch' = BindTaskPaths(orch, boot, pane, Task_(boot).paths)
        BY <2>1
      <4>. QED BY <1>type, <4>1 DEF BindTaskPaths, Acquire, LedgerType
    <3>. QED BY <1>launched, <3>1
  <2>2. CASE orch' = SetStatus(orch, boot, "blocked") /\ boot \in Ids(orch)
    BY <1>type, <1>launched, <2>2 DEF SetStatus, LedgerType, Ids, Task
  <2>3. CASE orch' = orch
    BY <1>launched, <2>3
  <2>. QED BY <1>4, <2>1, <2>2, <2>3 DEF RecoverLeases
<1>5. CASE SaveReconciled
  BY <1>5, <1>launched DEF SaveReconciled, Commit
<1>6. CASE FinishBoot
  <2>1. PICK lost : orch' = Interrupt(orch, lost)
    BY <1>6 DEF FinishBoot, Commit
  <2>. QED BY <1>type, <1>launched, <2>1, InterruptStatus
<1>7. CASE Restart
  <2>1. LoadedStatus(disk, t) # "queued" /\ disk.tasks[t].place \in Mode
    BY <1>type, <1>launched DEF LoadedStatus, LedgerType, Task
  <2>. QED BY <1>7, <1>launched, <2>1, RestartTasks DEF Mode
<1>8. CASE UNCHANGED vars
  BY <1>8, <1>launched DEF vars
<1>9. ASSUME NEW id \in Ids(orch)
      PROVE  /\ ~\E p \in DOMAIN panes : TaskClaim(id, p)
             /\ ~\E status \in UpdateTo : TaskUpdate(id, status) \/ TaskUpdateBadNote(id, status)
             /\ ~\E report \in Reports : Heartbeat(id, report)
             /\ ~PaneState(id) /\ ~TaskRelease(id) /\ ~TaskDelete(id) /\ ~TaskRetry(id)
             /\ ~RetryAsNewRun(id) /\ ~TaskDone(id) /\ ~LaunchGate(id) /\ ~TaskMerge(id)
  BY DEF PaneOrBoot, Serving, TaskClaim, TaskUpdate, TaskUpdateBadNote, Heartbeat, PaneState,
         TaskRelease, TaskDelete, TaskRetry, RetryAsNewRun, TaskDone, LaunchGate, TaskMerge
<1>10. /\ ~\E template \in Templates, deps \in SUBSET Ids(orch) : TaskAdd(template, deps)
       /\ ~\E p \in DOMAIN panes : TaskNext(p)
       /\ ~LeaseStep /\ ~JobStep
  BY DEF PaneOrBoot, Serving, TaskAdd, TaskNext, LeaseStep, LeaseAcquire, LeaseRelease, JobStep,
         GateFinished, MergeFinished
<1>. QED
  BY <1>1, <1>2, <1>3, <1>4, <1>5, <1>6, <1>7, <1>8, <1>9, <1>10
     DEF Next, PaneStep, TaskStep, BootStep

\* A scheduled task that was launched, in memory and on disk, is made runnable
\* again neither by its pane closing nor by a restart.
THEOREM ScheduledStaysOut == Spec => ScheduledNotRequeued
<1>1. Init => TypeOK /\ Placed(orch) /\ Placed(disk)
  BY EmptyLedgerType DEF Init, TypeOK, NoGates, NoJob, Placed, EmptyLedger, Ids
<1>2. TypeOK /\ Placed(orch) /\ Placed(disk) /\ [Next]_vars
        => TypeOK' /\ Placed(orch)' /\ Placed(disk)'
  BY TypeStep, PlacedStep
<1>3. TypeOK /\ Placed(orch) /\ Placed(disk) /\ [Next]_vars
        => [panes' # panes \/ crashes' # crashes \/ boot # 0 =>
              \A t \in Ids(orch) \cap Ids(orch') :
                orch.tasks[t].auto /\ Launched(orch, t) /\ Launched(disk, t)
                => orch'.tasks[t].status # "queued"]_vars
  BY ScheduledStep DEF PaneOrBoot
<1>. QED BY <1>1, <1>2, <1>3, PTL DEF Spec, ScheduledNotRequeued

-----------------------------------------------------------------------------
(* Leases after a restart                                                  *)

\* A running worker with a pane holds leases on all its declared paths.
Protected(o, t) ==
  o.tasks[t].status = "running" /\ o.tasks[t].assignee # NoPane /\ o.tasks[t].mode # "none"
  => MissingPaths(o, t, o.tasks[t].paths) = {}

\* The startup loop has protected the tasks it has passed.
RecoveryInv == boot # 0 => \A t \in Ids(orch) : t < boot => Protected(orch, t)

\* What is missing of one task is unaffected by the leases of another.
LEMMA MissingDependsOnOwn ==
  ASSUME NEW o, NEW p, NEW t, NEW paths,
         \A l \in o.leases : l.task = t => \E m \in p.leases : m.task = t /\ m.paths = l.paths,
         MissingPaths(o, t, paths) = {}
  PROVE  MissingPaths(p, t, paths) = {}
BY DEF MissingPaths

\* Binding declared paths leaves nothing missing, and takes nothing away.
LEMMA BindTaskPathsProtects ==
  ASSUME NEW o, LedgerType(o), NEW id \in Nat, NEW pane, NEW paths
  PROVE  LET p == BindTaskPaths(o, id, pane, paths)
         IN  /\ p.tasks = o.tasks
             /\ MissingPaths(p, id, paths) = {}
             /\ \A t : MissingPaths(o, t, o.tasks[t].paths) = {}
                         => MissingPaths(p, t, o.tasks[t].paths) = {}
<1> DEFINE p == BindTaskPaths(o, id, pane, paths)
           rebound == RebindLeases(o.leases, id, pane)
           bound == [o EXCEPT !.leases = rebound]
           missing == MissingPaths(o, id, paths)
           new == [id |-> FreeLeaseId(rebound), pane |-> pane, task |-> id, paths |-> missing]
<1>0. bound.leases = rebound
  BY DEF LedgerType
<1>1. /\ missing = {} => p = bound
      /\ missing # {} => p = [bound EXCEPT !.leases = rebound \cup {new}]
  BY <1>0 DEF BindTaskPaths, Acquire
<1>2. \A l \in o.leases : \E m \in rebound : m.task = l.task /\ m.paths = l.paths
  <2> SUFFICES ASSUME NEW l \in o.leases PROVE \E m \in rebound : m.task = l.task /\ m.paths = l.paths
    OBVIOUS
  <2> DEFINE m == IF l.task = id THEN [l EXCEPT !.pane = pane] ELSE l
  <2>1. m \in rebound
    BY DEF RebindLeases
  <2>2. m.task = l.task /\ m.paths = l.paths
    BY DEF LedgerType, Lease
  <2>. QED BY <2>1, <2>2
<1>3. new.task = id /\ new.paths = missing
  OBVIOUS
<1> HIDE DEF new, rebound, p
<1>4. /\ p.tasks = o.tasks /\ rebound \subseteq p.leases
      /\ missing # {} => new \in p.leases
  <2> HIDE DEF missing
  <2>1. CASE p = bound /\ missing = {}
    BY <2>1 DEF LedgerType
  <2>2. CASE p = [bound EXCEPT !.leases = rebound \cup {new}]
    BY <2>2 DEF LedgerType
  <2>. QED BY <1>1, <2>1, <2>2
<1>5. ASSUME NEW t, NEW some, MissingPaths(o, t, some) = {}
      PROVE  MissingPaths(p, t, some) = {}
  <2>1. \A l \in o.leases : l.task = t => \E m \in p.leases : m.task = t /\ m.paths = l.paths
    BY <1>2, <1>4
  <2>. QED BY <1>5, <2>1, MissingDependsOnOwn
<1>6. MissingPaths(p, id, paths) = {}
  <2>1. CASE missing = {}
    BY <1>5, <2>1
  <2>2. CASE missing # {}
    <3> SUFFICES ASSUME NEW x \in paths
                 PROVE  \E l \in p.leases : l.task = id /\ x \in l.paths
      BY DEF MissingPaths
    <3>1. CASE x \in missing
      BY <1>3, <1>4, <2>2, <3>1
    <3>2. CASE x \notin missing
      <4>1. PICK l \in o.leases : l.task = id /\ x \in l.paths
        BY <3>2 DEF MissingPaths
      <4>. QED BY <1>2, <1>4, <4>1
    <3>. QED BY <3>1, <3>2
  <2>. QED BY <2>1, <2>2
<1>. QED BY <1>4, <1>5, <1>6 DEF p

LEMMA InterruptProtects ==
  ASSUME NEW o, LedgerType(o), NEW lost, NEW t \in Ids(o), Protected(o, t)
  PROVE  Protected(Interrupt(o, lost), t)
<1> DEFINE p == Interrupt(o, lost)
<1>1. /\ p.leases = {l \in o.leases : l.task \notin lost}
      /\ p.tasks[t] = IF t \in lost
                      THEN [o.tasks[t] EXCEPT !.assignee = NoPane, !.status = "failed"]
                      ELSE o.tasks[t]
  BY DEF Interrupt, LedgerType, Ids
<1> HIDE DEF p
<1>2. CASE t \in lost
  <2>1. p.tasks[t].status = "failed"
    BY <1>1, <1>2 DEF LedgerType, Task
  <2>. QED BY <2>1 DEF Protected, p
<1>3. CASE t \notin lost
  <2>1. p.tasks[t] = o.tasks[t]
    BY <1>1, <1>3
  <2>2. \A l \in o.leases : l.task = t => l \in p.leases
    BY <1>1, <1>3
  <2>3. Protected(p, t)
    BY <2>1, <2>2, MissingDependsOnOwn DEF Protected
  <2>. QED BY <2>3 DEF p
<1>. QED BY <1>2, <1>3

\* While the server starts, only the startup loop runs.
LEMMA StartupSteps ==
  ASSUME [Next]_vars, boot # 0
  PROVE  \/ UNCHANGED vars
         \/ RecoverLeases \/ SaveReconciled \/ FinishBoot \/ Restart
<1>1. \A project \in Projects : ~OpenPane(project)
  BY DEF OpenPane, Serving
<1>2. \A p \in DOMAIN panes : ~ClosePane(p) /\ ~TaskNext(p)
  BY DEF ClosePane, TaskNext, Serving
<1>3. \A id \in Ids(orch) :
        /\ ~\E p \in DOMAIN panes : TaskClaim(id, p)
        /\ ~\E mode \in Modes, project \in Projects : TaskStart(id, mode, project)
        /\ ~\E status \in UpdateTo : TaskUpdate(id, status) \/ TaskUpdateBadNote(id, status)
        /\ ~\E report \in Reports : Heartbeat(id, report)
        /\ ~PaneState(id) /\ ~TaskRelease(id) /\ ~TaskDelete(id) /\ ~TaskRetry(id)
        /\ ~RetryAsNewRun(id) /\ ~TaskDone(id) /\ ~LaunchGate(id) /\ ~TaskMerge(id)
  BY DEF Serving, TaskClaim, TaskStart, TaskUpdate, TaskUpdateBadNote, Heartbeat, PaneState,
         TaskRelease, TaskDelete, TaskRetry, RetryAsNewRun, TaskDone, LaunchGate, TaskMerge
<1>4. /\ ~\E template \in Templates, deps \in SUBSET Ids(orch) : TaskAdd(template, deps)
      /\ ~LeaseStep /\ ~JobStep
  BY DEF Serving, TaskAdd, LeaseStep, LeaseAcquire, LeaseRelease, JobStep, GateFinished,
         MergeFinished
<1>. QED BY <1>1, <1>2, <1>3, <1>4 DEF Next, PaneStep, TaskStep, BootStep

LEMMA RecoveryStep == TypeOK /\ RecoveryInv /\ [Next]_vars => RecoveryInv'
<1> SUFFICES ASSUME TypeOK, RecoveryInv, [Next]_vars, boot' # 0,
                    NEW t \in Ids(orch'), t < boot'
             PROVE  Protected(orch', t)
  BY DEF RecoveryInv
<1>type. LedgerType(orch) /\ LedgerType(orch') /\ boot \in Nat /\ t \in Nat /\ t # 0
  BY TypeStep DEF TypeOK, LedgerType
<1>1. CASE Restart
  BY <1>1, <1>type DEF Restart
<1>2. CASE boot = 0 /\ ~Restart
  <2>1. boot' = boot
    <3>1. /\ \A project \in Projects : OpenPane(project) => boot' = boot
          /\ \A p \in DOMAIN panes : ClosePane(p) \/ TaskNext(p) => boot' = boot
      BY DEF OpenPane, ClosePane, TaskNext
    <3>2. ASSUME NEW id \in Ids(orch)
          PROVE  /\ \A p \in DOMAIN panes : TaskClaim(id, p) => boot' = boot
                 /\ \A mode \in Modes, project \in Projects :
                      TaskStart(id, mode, project) => boot' = boot
                 /\ \A status \in UpdateTo :
                      TaskUpdate(id, status) \/ TaskUpdateBadNote(id, status) => boot' = boot
                 /\ \A report \in Reports : Heartbeat(id, report) => boot' = boot
                 /\ PaneState(id) \/ TaskRelease(id) \/ TaskDelete(id) \/ TaskRetry(id)
                      => boot' = boot
                 /\ RetryAsNewRun(id) \/ TaskDone(id) \/ LaunchGate(id) \/ TaskMerge(id)
                      => boot' = boot
      BY DEF TaskClaim, TaskStart, TaskUpdate, TaskUpdateBadNote, Heartbeat, PaneState,
             TaskRelease, TaskDelete, TaskRetry, RetryAsNewRun, TaskDone, LaunchGate, TaskMerge
    <3>3. /\ \A template \in Templates, deps \in SUBSET Ids(orch) :
               TaskAdd(template, deps) => boot' = boot
          /\ LeaseStep \/ JobStep \/ UNCHANGED vars => boot' = boot
      BY DEF TaskAdd, LeaseStep, LeaseAcquire, LeaseRelease, JobStep, GateFinished,
             MergeFinished, vars
    <3>4. ~RecoverLeases /\ ~SaveReconciled /\ ~FinishBoot
      BY <1>2, <1>type DEF RecoverLeases, SaveReconciled, FinishBoot, LedgerType
    <3>. QED BY <1>2, <3>1, <3>2, <3>3, <3>4 DEF Next, PaneStep, TaskStep, BootStep
  <2>. QED BY <1>2, <2>1
<1>3. CASE UNCHANGED vars
  BY <1>3 DEF vars, RecoveryInv, Protected, Ids, MissingPaths
<1>4. CASE SaveReconciled /\ boot # 0
  <2>1. orch' = orch /\ \A u \in Ids(orch) : u < boot
    BY <1>4, <1>type DEF SaveReconciled, Commit, LedgerType
  <2>. QED BY <1>4, <2>1 DEF RecoveryInv
<1>5. CASE RecoverLeases
  <2>1. boot' = boot + 1 /\ boot \in Nat \ {0}
    BY <1>5, <1>type DEF RecoverLeases, LedgerType
  <2>old. ASSUME t # boot, t \in Ids(orch) PROVE Protected(orch, t)
    BY <2>old, <2>1, <1>type DEF RecoveryInv
  <2>2. CASE boot \notin Ids(orch) \/ ~NeedsLeases(Task_(boot))
    <3>1. orch' = orch
      BY <1>5, <2>2 DEF RecoverLeases
    <3>2. CASE t = boot
      <4>1. Task_(t) = orch.tasks[t] /\ orch.tasks[t] \in Task /\ ~NeedsLeases(orch.tasks[t])
        BY <1>type, <2>2, <3>1, <3>2 DEF Task_, LedgerType
      <4>2. orch.tasks[t].paths = {} => MissingPaths(orch, t, orch.tasks[t].paths) = {}
        BY DEF MissingPaths
      <4>. QED BY <3>1, <4>1, <4>2 DEF NeedsLeases, Protected
    <3>. QED BY <2>old, <3>1, <3>2
  <2>3. CASE /\ boot \in Ids(orch)
             /\ orch' = BindTaskPaths(orch, boot, Task_(boot).assignee, Task_(boot).paths)
    <3>1. /\ orch'.tasks = orch.tasks
          /\ MissingPaths(orch', boot, Task_(boot).paths) = {}
          /\ MissingPaths(orch, t, orch.tasks[t].paths) = {}
               => MissingPaths(orch', t, orch.tasks[t].paths) = {}
      BY <1>type, <2>1, <2>3, BindTaskPathsProtects
    <3>2. t = boot \/ Protected(orch, t)
      BY <2>old, <3>1 DEF Ids
    <3>. QED BY <3>1, <3>2 DEF Protected, Task_
  <2>4. CASE boot \in Ids(orch) /\ orch' = SetStatus(orch, boot, "blocked")
    <3>1. /\ Ids(orch') = Ids(orch) /\ orch'.leases = orch.leases
          /\ t # boot => orch'.tasks[t] = orch.tasks[t]
          /\ orch'.tasks[boot].status = "blocked"
      BY <1>type, <2>4 DEF SetStatus, LedgerType, Ids, Task
    <3>2. t # boot => Protected(orch, t)
      BY <2>old, <3>1
    <3>. QED BY <3>1, <3>2 DEF Protected, MissingPaths
  <2>5. CASE /\ boot \in Ids(orch) /\ orch' = orch /\ Task_(boot).status # "running"
    <3>1. t # boot => Protected(orch, t)
      BY <2>old, <2>5
    <3>. QED BY <2>5, <3>1 DEF Protected, Task_
  <2>. QED BY <1>5, <2>2, <2>3, <2>4, <2>5 DEF RecoverLeases
<1>6. CASE FinishBoot
  BY <1>6 DEF FinishBoot
<1>. QED BY <1>1, <1>2, <1>3, <1>4, <1>5, <1>6, StartupSteps

\* After a restart no worker is silently unprotected: a running worker with a
\* pane holds leases on all its declared paths, or is visibly blocked.
THEOREM RestartsProtect == Spec => RestartProtects
<1>1. Init => TypeOK /\ RecoveryInv
  BY EmptyLedgerType DEF Init, TypeOK, NoGates, NoJob, RecoveryInv
<1>2. TypeOK /\ RecoveryInv /\ [Next]_vars
        => [boot # 0 /\ boot' = 0 =>
              \A t \in Ids(orch') :
                /\ orch'.tasks[t].status = "running" /\ orch'.tasks[t].assignee # NoPane
                /\ orch'.tasks[t].mode # "none"
                => MissingPaths(orch', t, orch'.tasks[t].paths) = {}]_vars
  <2> SUFFICES ASSUME TypeOK, RecoveryInv, [Next]_vars, boot # 0, boot' = 0, NEW t \in Ids(orch')
               PROVE  Protected(orch', t)
    BY DEF Protected
  <2>1. FinishBoot
    <3>1. ~UNCHANGED vars
      BY DEF vars
    <3>2. ~RecoverLeases /\ ~SaveReconciled /\ ~Restart
      BY DEF RecoverLeases, SaveReconciled, Restart, TypeOK
    <3>. QED BY <3>1, <3>2, StartupSteps
  <2>2. PICK lost : orch' = Interrupt(orch, lost)
    BY <2>1 DEF FinishBoot, Commit
  <2>3. LedgerType(orch)
    BY DEF TypeOK
  <2>4. Ids(orch') = Ids(orch)
    BY <2>2, <2>3, InterruptType
  <2>5. t < boot
    BY <2>1, <2>3, <2>4 DEF FinishBoot, LedgerType
  <2>. QED BY <2>2, <2>3, <2>4, <2>5, InterruptProtects DEF RecoveryInv
<1>. QED BY <1>1, <1>2, TypeStep, RecoveryStep, PTL DEF Spec, RestartProtects

-----------------------------------------------------------------------------
(* Integration: at most one is reserved, with its way back, and the running *)
(* job is its own (MergeReservation).  From it, and from what the snapshot  *)
(* on disk knows of integrations, IntegrationSettles follows: no crash      *)
(* undoes or loses one.                                                     *)

Merging(o) == {t \in Ids(o) : o.tasks[t].status = "merging"}

\* The reservation as a relation between a ledger and the running job.
Reserved(o, j) ==
  /\ DOMAIN o.mergePrevious = Merging(o)
  /\ Merging(o) = IF j = NoJob THEN {} ELSE {j.task}
  /\ \A t \in Merging(o) : o.mergePrevious[t] = j.previous

\* p leaves the reservation of o alone.
Keeps(o, p) ==
  /\ Merging(p) = Merging(o)
  /\ DOMAIN o.mergePrevious = Merging(o) =>
       /\ DOMAIN p.mergePrevious = Merging(o)
       /\ \A t \in Merging(o) : p.mergePrevious[t] = o.mergePrevious[t]

LEMMA KeepsReserved ==
  ASSUME NEW o, NEW p, NEW j, Reserved(o, j), Keeps(o, p)
  PROVE  Reserved(p, j)
BY DEF Reserved, Keeps

LEMMA KeepsTransitive ==
  ASSUME NEW o, NEW p, NEW q, Keeps(o, p), Keeps(p, q)
  PROVE  Keeps(o, q)
BY DEF Keeps

LEMMA LeasesKeep ==
  ASSUME NEW o, LedgerType(o), NEW leases
  PROVE  Keeps(o, [o EXCEPT !.leases = leases])
BY DEF Keeps, Merging, LedgerType, Ids

\* A method that changes tasks which are not merging, to what is not merging.
LEMMA TasksKeep ==
  ASSUME NEW o, NEW p, p.mergePrevious = o.mergePrevious, Ids(p) = Ids(o),
         \A t \in Ids(o) : p.tasks[t].status = "merging" <=> o.tasks[t].status = "merging"
  PROVE  Keeps(o, p)
BY DEF Keeps, Merging

LEMMA SetStatusKeeps ==
  ASSUME NEW o, LedgerType(o), NEW id \in Ids(o), o.tasks[id].status # "merging",
         NEW status \in Status \ {"merging"}
  PROVE  Keeps(o, SetStatus(o, id, status))
<1> DEFINE p == SetStatus(o, id, status)
<1>1. /\ Ids(p) = Ids(o)
      /\ \A t \in Ids(o) : p.tasks[t].status = IF t = id THEN status ELSE o.tasks[t].status
      /\ p.mergePrevious = [t \in DOMAIN o.mergePrevious \ {id} |-> o.mergePrevious[t]]
  BY DEF SetStatus, LedgerType, Ids, Task, Forget, Restrict
<1> HIDE DEF p
<1>2. Keeps(o, p)
  BY <1>1 DEF Keeps, Merging
<1>. QED BY <1>2 DEF p

LEMMA BindProjectKeeps ==
  ASSUME NEW o, LedgerType(o), NEW id \in Ids(o), NEW project
  PROVE  /\ Keeps(o, BindProject(o, id, project))
         /\ \A t \in Ids(o) : BindProject(o, id, project).tasks[t].status = o.tasks[t].status
<1> DEFINE p == BindProject(o, id, project)
<1>1. /\ p.mergePrevious = o.mergePrevious /\ Ids(p) = Ids(o)
      /\ \A t \in Ids(o) : p.tasks[t].status = o.tasks[t].status
  BY DEF BindProject, LedgerType, Ids, Task
<1>. QED BY <1>1, TasksKeep

LEMMA ClaimKeeps ==
  ASSUME NEW o, LedgerType(o), NEW id \in Ids(o), o.tasks[id].status # "merging", NEW pane
  PROVE  Keeps(o, Claim(o, id, pane)) /\ Claim(o, id, pane).tasks[id].status # "merging"
<1> DEFINE p == Claim(o, id, pane)
<1>1. /\ p.mergePrevious = o.mergePrevious /\ Ids(p) = Ids(o)
      /\ \A t \in Ids(o) : p.tasks[t].status = IF t = id THEN "claimed" ELSE o.tasks[t].status
  BY DEF Claim, LedgerType, Ids, Task
<1>. QED BY <1>1, TasksKeep

LEMMA StartedKeeps ==
  ASSUME NEW o, LedgerType(o), NEW id \in Ids(o), NEW mode \in Mode, NEW pane \in Pane,
         o.tasks[id].status # "merging"
  PROVE  Keeps(o, Started(o, id, mode, pane))
<1> DEFINE paths   == o.tasks[id].paths
           claimed == Claim(o, id, pane)
           bound   == BindTaskPaths(claimed, id, pane, paths)
           leased  == IF paths = {} THEN claimed ELSE bound
           running == SetStatus(leased, id, "running")
           placed  == BindPlace(running, id, mode)
<1>1. /\ LedgerType(claimed) /\ Ids(claimed) = Ids(o) /\ Keeps(o, claimed)
      /\ claimed.tasks[id].status # "merging"
  BY ClaimType, ClaimKeeps DEF Pane
<1>2. id \in Nat /\ paths \in SUBSET Paths
  BY DEF LedgerType, Task
<1>3. LedgerType(leased) /\ Ids(leased) = Ids(o)
  <2> HIDE DEF claimed, paths
  <2>. QED BY <1>1, <1>2, BindTaskPathsType
<1>4. leased.tasks = claimed.tasks /\ leased.mergePrevious = claimed.mergePrevious
  <2> HIDE DEF claimed, paths
  <2>1. bound.tasks = claimed.tasks /\ bound.mergePrevious = claimed.mergePrevious
    BY <1>1 DEF BindTaskPaths, Acquire, LedgerType
  <2>. QED BY <2>1
<1> HIDE DEF leased, claimed
<1>5. Keeps(claimed, leased) /\ leased.tasks[id].status # "merging"
  BY <1>1, <1>3, <1>4, TasksKeep
<1>6. /\ LedgerType(running) /\ Ids(running) = Ids(o) /\ Keeps(leased, running)
  <2>1. "running" \in Status \ {"merging"}
    BY DEF Status
  <2>. QED BY <1>3, <1>5, <2>1, SetStatusType, SetStatusKeeps
<1> HIDE DEF running
<1>7. Keeps(running, placed)
  <2>1. /\ placed.mergePrevious = running.mergePrevious /\ Ids(placed) = Ids(running)
        /\ \A t \in Ids(running) : placed.tasks[t].status = running.tasks[t].status
    BY <1>6 DEF BindPlace, LedgerType, Ids, Task
  <2>. QED BY <2>1, TasksKeep
<1>8. Started(o, id, mode, pane) = placed
  BY DEF Started, placed, running, leased, claimed, paths
<1>. QED BY <1>1, <1>5, <1>6, <1>7, <1>8, KeepsTransitive

LEMMA InterruptKeeps ==
  ASSUME NEW o, LedgerType(o), NEW lost, lost \cap Merging(o) = {}
  PROVE  Keeps(o, Interrupt(o, lost))
<1> DEFINE p == Interrupt(o, lost)
<1>1. /\ Ids(p) = Ids(o)
      /\ \A t \in Ids(o) : p.tasks[t].status = IF t \in lost THEN "failed" ELSE o.tasks[t].status
      /\ p.mergePrevious = [t \in DOMAIN o.mergePrevious \ lost |-> o.mergePrevious[t]]
  BY DEF Interrupt, LedgerType, Ids, Task, Restrict
<1> HIDE DEF p
<1>2. Keeps(o, p)
  BY <1>1 DEF Keeps, Merging
<1>. QED BY <1>2 DEF p

LEMMA UnbindKeeps ==
  ASSUME NEW o, LedgerType(o), NEW pane
  PROVE  Keeps(o, Unbind(o, pane))
<1> DEFINE held == {t \in Ids(o) : o.tasks[t].assignee = pane}
           lost == {t \in held : Interruptible(o.tasks[t])}
           pure == {t \in held \ lost : /\ o.tasks[t].mode = "none"
                                        /\ o.tasks[t].place # "worktree"
                                        /\ o.tasks[t].status \in {"claimed", "running"}}
           freed(t) == CASE t \in pure        -> [o.tasks[t] EXCEPT !.assignee = NoPane,
                                                                    !.status = "queued"]
                         [] t \in held \ pure -> [o.tasks[t] EXCEPT !.assignee = NoPane]
                         [] OTHER             -> o.tasks[t]
           p == [o EXCEPT !.tasks = [t \in Ids(o) |-> freed(t)]]
<1>1. Unbind(o, pane) = Interrupt(p, lost)
  BY DEF Unbind
<1>2. \A t \in Ids(o) : /\ freed(t) \in Task
                        /\ freed(t).status = IF t \in pure THEN "queued" ELSE o.tasks[t].status
  <2> HIDE DEF held, pure
  <2>1. \A t \in Ids(o) : freed(t) \in Task
    BY TaskField DEF LedgerType, Status, NoPane
  <2>2. \A t \in Ids(o) : freed(t).status = IF t \in pure THEN "queued" ELSE o.tasks[t].status
    BY DEF LedgerType, Task
  <2>. QED BY <2>1, <2>2
<1>3. \A t \in pure \cup lost : o.tasks[t].status # "merging"
  BY DEF Interruptible
<1> HIDE DEF freed, pure, lost
<1>4. /\ p.mergePrevious = o.mergePrevious /\ Ids(p) = Ids(o)
      /\ p.tasks = [t \in Ids(o) |-> freed(t)]
  BY DEF LedgerType, Ids
<1>5. LedgerType(p)
  BY <1>2 DEF LedgerType, Ids
<1> HIDE DEF p
<1>6. Keeps(o, p)
  BY <1>2, <1>3, <1>4, TasksKeep
<1>7. lost \cap Merging(p) = {}
  BY <1>3, <1>6 DEF Keeps, Merging
<1>. QED BY <1>1, <1>5, <1>6, <1>7, InterruptKeeps, KeepsTransitive

LEMMA AddTaskKeeps ==
  ASSUME NEW o, LedgerType(o), NEW t \in Task, t.status # "merging"
  PROVE  Keeps(o, AddTask(o, t))
<1> DEFINE p == AddTask(o, t)
<1>1. /\ p.mergePrevious = o.mergePrevious
      /\ Ids(p) = Ids(o) \cup {o.nextTask + 1}
      /\ p.tasks = [u \in Ids(o) \cup {o.nextTask + 1} |->
                      IF u = o.nextTask + 1 THEN t ELSE o.tasks[u]]
  BY DEF AddTask, LedgerType, Ids
<1> HIDE DEF p
<1>2. Keeps(o, p)
  BY <1>1 DEF Keeps, Merging, LedgerType
<1>. QED BY <1>2 DEF p

LEMMA DeleteTaskKeeps ==
  ASSUME NEW o, LedgerType(o), NEW id \in Ids(o), CanDelete(o, id)
  PROVE  Keeps(o, DeleteTask(o, id))
<1> DEFINE p == DeleteTask(o, id)
<1>1. /\ Ids(p) = Ids(o) \ {id}
      /\ p.tasks = [t \in Ids(o) \ {id} |-> [o.tasks[t] EXCEPT !.deps = @ \ {id}]]
      /\ p.mergePrevious = [t \in DOMAIN o.mergePrevious \ {id} |-> o.mergePrevious[t]]
  BY DEF DeleteTask, ReleaseTaskLeases, LedgerType, Ids, Forget, Restrict
<1>2. \A t \in Ids(o) \ {id} : p.tasks[t].status = o.tasks[t].status
  BY <1>1 DEF LedgerType, Task
<1>3. o.tasks[id].status # "merging"
  BY DEF CanDelete
<1> HIDE DEF p
<1>4. Keeps(o, p)
  BY <1>1, <1>2, <1>3 DEF Keeps, Merging
<1>. QED BY <1>4 DEF p

LEMMA RetryTaskKeeps ==
  ASSUME NEW o, LedgerType(o), NEW id \in Ids(o), CanRetry(o, id)
  PROVE  Keeps(o, RetryTask(o, id))
<1> DEFINE p == RetryTask(o, id)
           fresh == [o.tasks[id] EXCEPT !.attempt = @ + 1, !.assignee = NoPane,
                                        !.status = "queued", !.place = "none",
                                        !.saturated = FALSE, !.started = FALSE]
<1>1. fresh.status = "queued"
  BY DEF LedgerType, Task
<1> HIDE DEF fresh
<1>2. /\ Ids(p) = Ids(o)
      /\ \A t \in Ids(o) : p.tasks[t] = IF t = id THEN fresh ELSE o.tasks[t]
      /\ p.mergePrevious = [t \in DOMAIN o.mergePrevious \ {id} |-> o.mergePrevious[t]]
  BY DEF RetryTask, ReleaseTaskLeases, LedgerType, Ids, Forget, Restrict, fresh
<1>3. o.tasks[id].status # "merging"
  BY DEF CanRetry
<1> HIDE DEF p
<1>4. Keeps(o, p)
  BY <1>1, <1>2, <1>3 DEF Keeps, Merging
<1>. QED BY <1>4 DEF p

LEMMA ReleaseTaskKeeps ==
  ASSUME NEW o, LedgerType(o), NEW id \in Ids(o), CanRelease(o, id)
  PROVE  Keeps(o, ReleaseTask(o, id))
<1> DEFINE p == ReleaseTask(o, id)
<1>1. /\ p.mergePrevious = o.mergePrevious /\ Ids(p) = Ids(o)
      /\ \A t \in Ids(o) : p.tasks[t].status = IF t = id THEN "queued" ELSE o.tasks[t].status
  BY DEF ReleaseTask, LedgerType, Ids, Task
<1>2. o.tasks[id].status # "merging"
  BY DEF CanRelease, HoldsLeases
<1>. QED BY <1>1, <1>2, TasksKeep

-----------------------------------------------------------------------------
(* The steps of Spec *)

LEMMA FinalizeKeeps ==
  ASSUME NEW o, LedgerType(o), NEW id \in Ids(o), o.tasks[id].status # "merging"
  PROVE  Keeps(o, Finalize(o, id))
<1> DEFINE p == SetStatus(o, id, "done")
<1>1. "done" \in Status \ {"merging"}
  BY DEF Status
<1>2. LedgerType(p) /\ Keeps(o, p)
  BY <1>1, SetStatusType, SetStatusKeeps
<1> HIDE DEF p
<1>3. Keeps(p, ReleaseTaskLeases(p, id))
  BY <1>2, LeasesKeep DEF ReleaseTaskLeases
<1>. QED BY <1>2, <1>3, KeepsTransitive DEF Finalize, p

\* Reserving the free slot for `id`, and giving it back.
LEMMA BeginMergeReserves ==
  ASSUME NEW o, LedgerType(o), Reserved(o, NoJob), NEW id \in Ids(o), CanBeginMerge(o, id)
  PROVE  /\ o.tasks[id].status \in {"done", "blocked"}
         /\ Reserved(BeginMerge(o, id), [task |-> id, previous |-> o.tasks[id].status])
<1> DEFINE p == BeginMerge(o, id)
           previous == o.tasks[id].status
<1>1. /\ Ids(p) = Ids(o)
      /\ \A t \in Ids(o) : p.tasks[t].status = IF t = id THEN "merging" ELSE o.tasks[t].status
      /\ p.mergePrevious = [t \in DOMAIN o.mergePrevious \cup {id} |->
                               IF t = id THEN previous ELSE o.mergePrevious[t]]
  BY DEF BeginMerge, LedgerType, Ids, Task
<1>2. Merging(o) = {} /\ DOMAIN o.mergePrevious = {}
  BY DEF Reserved
<1>3. id # 0
  BY DEF LedgerType
<1>4. previous \in {"done", "blocked"}
  BY DEF CanBeginMerge
<1> HIDE DEF p
<1>5. Merging(p) = {id} /\ DOMAIN p.mergePrevious = {id} /\ p.mergePrevious[id] = previous
  BY <1>1, <1>2 DEF Merging
<1>. QED BY <1>3, <1>4, <1>5 DEF Reserved, NoJob, p

LEMMA FinishMergeFrees ==
  ASSUME NEW o, LedgerType(o), NEW j, j # NoJob, Reserved(o, j),
         NEW status \in Status \ {"merging"}
  PROVE  Reserved(FinishMerge(o, j.task, status), NoJob)
<1> DEFINE p == FinishMerge(o, j.task, status)
<1>1. Merging(o) = {j.task} /\ DOMAIN o.mergePrevious = {j.task}
  BY DEF Reserved
<1>2. j.task \in Ids(o)
  BY <1>1 DEF Merging
<1>3. /\ Ids(p) = Ids(o)
      /\ \A t \in Ids(o) : p.tasks[t].status = IF t = j.task THEN status ELSE o.tasks[t].status
      /\ p.mergePrevious = [t \in DOMAIN o.mergePrevious \ {j.task} |-> o.mergePrevious[t]]
  BY <1>2 DEF FinishMerge, LedgerType, Ids, Task, Forget, Restrict
<1> HIDE DEF p
<1>4. Merging(p) = {} /\ DOMAIN p.mergePrevious = {}
  BY <1>1, <1>3 DEF Merging
<1>. QED BY <1>4 DEF Reserved, p

\* MergeReservation is Reserved of the live ledger and the running job.
LEMMA ReservationIsReserved == MergeReservation <=> Reserved(orch, job)
BY DEF MergeReservation, Reserved, Merging, Task_

LEMMA ReservationStep == TypeOK /\ Reserved(orch, job) /\ [Next]_vars => Reserved(orch', job')
<1> SUFFICES ASSUME TypeOK, Reserved(orch, job), [Next]_vars PROVE Reserved(orch', job')
  OBVIOUS
<1>type. LedgerType(orch) /\ LedgerType(disk)
  BY DEF TypeOK
<1>status. /\ \A s \in {"running", "blocked", "review", "done", "merged"} : s \in Status \ {"merging"}
           /\ UpdateTo \subseteq Status \ {"merging"}
  BY BoundsAssumption DEF Status
<1>pane. \A p \in DOMAIN panes : p \in Pane /\ p \in Nat /\ panes[p] \in Projects
  BY DEF TypeOK, Pane, NoPane
<1>same. ASSUME UNCHANGED <<orch, job>> PROVE Reserved(orch', job')
  BY <1>same
<1>keep. ASSUME NEW o, Keeps(orch, o), Commit(o) \/ LeaveUnsaved(o), job' = job
         PROVE  Reserved(orch', job')
  BY <1>keep, KeepsReserved DEF Commit, LeaveUnsaved
<1>set. ASSUME NEW id \in Ids(orch), Task_(id).status # "merging",
               NEW status \in Status \ {"merging"}
        PROVE  Keeps(orch, SetStatus(orch, id, status))
  BY <1>set, <1>type, SetStatusKeeps DEF Task_
<1>1. ASSUME NEW project \in Projects, OpenPane(project) PROVE Reserved(orch', job')
  BY <1>1, <1>same DEF OpenPane
<1>2. ASSUME NEW p \in DOMAIN panes, ClosePane(p) PROVE Reserved(orch', job')
  <2> DEFINE released == ReleasePaneLeases(orch, p)
  <2>1. orch' = Unbind(released, p) /\ job' = job
    BY <1>2 DEF ClosePane, CommitTwice
  <2>2. LedgerType(released) /\ Keeps(orch, released)
    BY <1>type, ReleasePaneLeasesType, LeasesKeep DEF ReleasePaneLeases
  <2> HIDE DEF released
  <2>3. Keeps(orch, Unbind(released, p))
    BY <2>2, UnbindKeeps, KeepsTransitive
  <2>. QED BY <2>1, <2>3, KeepsReserved
<1>3. ASSUME NEW template \in Templates, NEW deps \in SUBSET Ids(orch), TaskAdd(template, deps)
      PROVE  Reserved(orch', job')
  <2> DEFINE t == NewTask(template.paths, deps, template.gate, template.project, template.auto)
  <2>1. t \in Task /\ t.status # "merging"
    BY <1>type, BoundsAssumption DEF LedgerType, NewTask, Task, Status, Mode, NoPane
  <2>2. Keeps(orch, AddTask(orch, t))
    BY <1>type, <2>1, AddTaskKeeps
  <2>. QED BY <1>3, <1>keep, <2>2 DEF TaskAdd
<1>bind. ASSUME NEW id \in Ids(orch), NEW project \in Projects
         PROVE  LET bound == BindProject(orch, id, project)
                IN  /\ LedgerType(bound) /\ Ids(bound) = Ids(orch) /\ Keeps(orch, bound)
                    /\ bound.tasks[id].status = Task_(id).status
  BY <1>type, BindProjectType, BindProjectKeeps DEF Task_
<1>claim. ASSUME NEW id \in Ids(orch), NEW p \in DOMAIN panes, Task_(id).status # "merging"
          PROVE  Keeps(orch, Claim(BindProject(orch, id, panes[p]), id, p))
  BY <1>claim, <1>pane, <1>bind, ClaimKeeps, KeepsTransitive
<1>4. ASSUME NEW p \in DOMAIN panes, TaskNext(p) PROVE Reserved(orch', job')
  <2>1. PICK id \in Ids(orch) : /\ Task_(id).status = "queued"
                                /\ Commit(Claim(BindProject(orch, id, panes[p]), id, p))
    BY <1>4 DEF TaskNext, Claimable, Task_
  <2>. QED BY <1>4, <1>claim, <1>keep, <2>1 DEF TaskNext
<1>5. ASSUME NEW id \in Ids(orch), NEW p \in DOMAIN panes, TaskClaim(id, p)
      PROVE  Reserved(orch', job')
  <2> DEFINE bound == BindProject(orch, id, panes[p])
  <2>1. CASE CanClaim(bound, id) /\ Commit(Claim(bound, id, p))
    <3>1. Task_(id).status # "merging"
      BY <1>pane, <1>bind, <2>1 DEF CanClaim
    <3>. QED BY <1>5, <1>claim, <1>keep, <2>1, <3>1 DEF TaskClaim
  <2>2. CASE LeaveUnsaved(bound)
    BY <1>5, <1>pane, <1>bind, <1>keep, <2>2 DEF TaskClaim
  <2>. QED BY <1>5, <2>1, <2>2 DEF TaskClaim
<1>6. ASSUME NEW id \in Ids(orch), NEW mode \in Modes, NEW project \in Projects,
             TaskStart(id, mode, project)
      PROVE  Reserved(orch', job')
  <2> DEFINE bound == BindProject(orch, id, project)
  <2>1. LedgerType(bound) /\ Ids(bound) = Ids(orch) /\ Keeps(orch, bound)
    BY <1>bind
  <2>2. mode \in Mode
    BY BoundsAssumption DEF Mode
  <2>3. job' = job
    BY <1>6 DEF TaskStart
  <2> HIDE DEF bound
  <2>4. ASSUME NEW p \in Pane, CanStart(bound, id, mode), Commit(Started(bound, id, mode, p))
        PROVE  Reserved(orch', job')
    <3>1. Keeps(bound, Started(bound, id, mode, p))
      BY <2>1, <2>2, <2>4, StartedKeeps DEF CanStart
    <3>. QED BY <1>keep, <2>1, <2>3, <2>4, <3>1, KeepsTransitive
  <2>5. lastPane + 1 \in Pane
    BY DEF TypeOK, Pane, NoPane
  <2>. QED BY <1>6, <1>pane, <1>keep, <2>1, <2>3, <2>4, <2>5 DEF TaskStart, bound
<1>7. ASSUME NEW id \in Ids(orch), NEW status \in UpdateTo,
             TaskUpdate(id, status) \/ TaskUpdateBadNote(id, status)
      PROVE  Reserved(orch', job')
  BY <1>7, <1>status, <1>set, <1>keep DEF TaskUpdate, TaskUpdateBadNote, CanUpdate
<1>8. ASSUME NEW id \in Ids(orch), NEW report \in Reports, Heartbeat(id, report)
      PROVE  Reserved(orch', job')
  <2> DEFINE o == [orch EXCEPT !.tasks[id].saturated = report]
  <2>1. /\ o.mergePrevious = orch.mergePrevious /\ Ids(o) = Ids(orch)
        /\ \A t \in Ids(orch) : o.tasks[t].status = orch.tasks[t].status
    BY <1>type DEF LedgerType, Ids, Task
  <2>2. Keeps(orch, o)
    <3> HIDE DEF o
    <3>. QED BY <2>1, TasksKeep
  <2>. QED BY <1>8, <1>keep, <2>2 DEF Heartbeat
<1>9. ASSUME NEW id \in Ids(orch), PaneState(id) PROVE Reserved(orch', job')
  BY <1>9, <1>status, <1>set, <1>keep DEF PaneState
<1>free. ASSUME NEW o, LedgerType(o), Keeps(orch, o), NEW id
         PROVE  Keeps(orch, ReleaseTaskLeases(o, id))
  BY <1>free, LeasesKeep, KeepsTransitive DEF ReleaseTaskLeases
<1>10. ASSUME NEW id \in Ids(orch), TaskRelease(id) PROVE Reserved(orch', job')
  <2>1. LedgerType(ReleaseTask(orch, id)) /\ Keeps(orch, ReleaseTask(orch, id))
    BY <1>10, <1>type, ReleaseTaskType, ReleaseTaskKeeps DEF TaskRelease
  <2>. QED BY <1>10, <1>free, <1>keep, <2>1 DEF TaskRelease
<1>11. ASSUME NEW id \in Ids(orch), TaskDelete(id) PROVE Reserved(orch', job')
  BY <1>11, <1>type, <1>keep, DeleteTaskKeeps DEF TaskDelete
<1>12. ASSUME NEW id \in Ids(orch), TaskRetry(id) PROVE Reserved(orch', job')
  BY <1>12, <1>type, RetryTaskKeeps, KeepsReserved DEF TaskRetry, CommitOrReject
<1>13. ASSUME NEW id \in Ids(orch), RetryAsNewRun(id) PROVE Reserved(orch', job')
  BY <1>13, <1>same DEF RetryAsNewRun
<1>14. ASSUME NEW id \in Ids(orch), TaskDone(id) PROVE Reserved(orch', job')
  BY <1>14, <1>type, <1>keep, FinalizeKeeps DEF TaskDone, CanComplete, Task_
<1>15. ASSUME NEW id \in Ids(orch), LaunchGate(id) PROVE Reserved(orch', job')
  BY <1>15, <1>status, <1>set, <1>keep DEF LaunchGate, CanComplete
<1>16. ASSUME NEW id \in Ids(orch), TaskMerge(id) PROVE Reserved(orch', job')
  <2> DEFINE previous == Task_(id).status
             begun == BeginMerge(orch, id)
             j == [task |-> id, previous |-> previous]
  <2>1. CanBeginMerge(orch, id)
    BY <1>16 DEF TaskMerge
  <2>2. Merging(orch) = {}
    BY <2>1 DEF CanBeginMerge, Merging
  <2>3. Reserved(orch, NoJob)
    BY <2>2 DEF Reserved
  <2>4. previous \in {"done", "blocked"} /\ Reserved(begun, j)
    BY <1>type, <2>1, <2>3, BeginMergeReserves DEF Task_
  <2>5. LedgerType(begun)
    BY <1>type, <2>1, BeginMergeType
  <2>6. CASE orch' = begun /\ job' = j
    BY <2>4, <2>6
  <2>7. CASE orch' = FinishMerge(begun, id, previous) /\ job' = NoJob
    <3>1. previous \in Status \ {"merging"} /\ j # NoJob /\ j.task = id
      BY <1>type, <1>status, <2>4 DEF NoJob, LedgerType
    <3> HIDE DEF begun, j, previous
    <3>2. Reserved(FinishMerge(begun, id, previous), NoJob)
      BY <2>4, <2>5, <3>1, FinishMergeFrees
    <3>. QED BY <2>7, <3>2
  <2>. QED BY <1>16, <2>6, <2>7 DEF TaskMerge, Commit
<1>17. ASSUME NEW lease \in orch.leases, LeaseRelease(lease) PROVE Reserved(orch', job')
  BY <1>17, <1>type, <1>keep, LeasesKeep DEF LeaseRelease
<1>18. ASSUME NEW id \in Ids(orch), NEW p \in DOMAIN panes, NEW paths \in LeaseRequests,
              LeaseAcquire(id, p, paths)
       PROVE  Reserved(orch', job')
  <2> DEFINE bound == BindProject(orch, id, panes[p])
  <2>1. LedgerType(bound) /\ Keeps(orch, bound)
    BY <1>pane, <1>bind
  <2> HIDE DEF bound
  <2>2. Keeps(orch, Acquire(bound, p, id, paths))
    BY <2>1, LeasesKeep, KeepsTransitive DEF Acquire
  <2>. QED BY <1>18, <1>keep, <2>1, <2>2 DEF LeaseAcquire, bound
<1>19. ASSUME NEW id \in DOMAIN gates, NEW passed \in BOOLEAN, GateFinished(id, passed)
       PROVE  Reserved(orch', job')
  <2>1. CASE GateCurrent(id)
    <3>1. id \in Ids(orch) /\ Task_(id).status # "merging"
      BY <2>1 DEF GateCurrent
    <3>2. Keeps(orch, Finalize(orch, id)) /\ Keeps(orch, SetStatus(orch, id, "review"))
      BY <3>1, <1>type, <1>status, <1>set, FinalizeKeeps DEF Task_
    <3>. QED BY <1>19, <1>keep, <2>1, <3>2 DEF GateFinished
  <2>2. CASE ~GateCurrent(id)
    BY <1>19, <1>same, <2>2 DEF GateFinished
  <2>. QED BY <2>1, <2>2
<1>20. ASSUME NEW outcome \in {"merged", "conflict", "error"}, MergeFinished(outcome)
       PROVE  Reserved(orch', job')
  <2> DEFINE status == CASE outcome = "merged"   -> "merged"
                         [] outcome = "conflict" -> "blocked"
                         [] outcome = "error"    -> job.previous
  <2>1. status \in Status \ {"merging"}
    BY <1>status DEF TypeOK
  <2>2. job # NoJob /\ job' = NoJob
    BY <1>20 DEF MergeFinished
  <2>3. CanFinishMerge(orch, job.task)
    BY <2>2 DEF Reserved, Merging, CanFinishMerge
  <2>4. orch' = FinishMerge(orch, job.task, status)
    BY <1>20, <2>3 DEF MergeFinished, Commit
  <2> HIDE DEF status
  <2>. QED BY <1>type, <2>1, <2>2, <2>4, FinishMergeFrees
<1>21. ASSUME RecoverLeases PROVE Reserved(orch', job')
  <2> DEFINE bound == BindTaskPaths(orch, boot, Task_(boot).assignee, Task_(boot).paths)
  <2>1. job' = job
    BY <1>21 DEF RecoverLeases
  <2>2. CASE orch' = bound
    <3>1. bound.tasks = orch.tasks /\ bound.mergePrevious = orch.mergePrevious
      BY <1>type DEF BindTaskPaths, Acquire, LedgerType
    <3>2. Keeps(orch, bound)
      BY <3>1 DEF Keeps, Merging, Ids
    <3>. QED BY <2>1, <2>2, <3>2, KeepsReserved
  <2>3. CASE boot \in Ids(orch) /\ Task_(boot).status = "running" /\ orch' = SetStatus(orch, boot, "blocked")
    BY <1>status, <1>set, <2>1, <2>3, KeepsReserved
  <2>4. CASE orch' = orch
    BY <2>1, <2>4
  <2>. QED BY <1>21, <2>2, <2>3, <2>4 DEF RecoverLeases
<1>boot. ASSUME SaveReconciled PROVE Reserved(orch', job')
  BY <1>boot DEF SaveReconciled, Commit
<1>22. ASSUME FinishBoot PROVE Reserved(orch', job')
  <2> DEFINE lost == {t \in Ids(orch) : Interruptible(Task_(t))}
  <2>1. lost \cap Merging(orch) = {}
    BY DEF Interruptible, Merging, Task_
  <2>2. orch' = Interrupt(orch, lost) /\ job' = job
    BY <1>22 DEF FinishBoot, Commit
  <2> HIDE DEF lost
  <2>. QED BY <1>type, <2>1, <2>2, InterruptKeeps, KeepsReserved
<1>23. ASSUME Restart PROVE Reserved(orch', job')
  <2>1. PICK o, kept : /\ LedgerType(o) /\ kept \in Reconciled(o)
                       /\ orch' = [o EXCEPT !.leases = kept]
                       /\ \A t \in Ids(o) : o.tasks[t].status # "merging"
                       /\ DOMAIN o.mergePrevious = {}
    BY <1>23, RestartLedger
  <2>2. /\ orch'.tasks = o.tasks /\ orch'.mergePrevious = o.mergePrevious
    BY <2>1 DEF LedgerType
  <2>3. Merging(orch') = {}
    BY <2>1, <2>2 DEF Merging, Ids
  <2>4. job' = NoJob
    BY <1>23 DEF Restart
  <2>. QED BY <2>1, <2>2, <2>3, <2>4 DEF Reserved
<1>24. CASE UNCHANGED vars
  BY <1>24, <1>same DEF vars
<1>. QED
  BY <1>1, <1>2, <1>3, <1>4, <1>5, <1>6, <1>7, <1>8, <1>9, <1>10, <1>11, <1>12, <1>13, <1>14,
     <1>15, <1>16, <1>17, <1>18, <1>19, <1>20, <1>21, <1>22, <1>boot, <1>23, <1>24
     DEF Next, PaneStep, TaskStep, LeaseStep, JobStep, BootStep

\* At most one task is merging in every reachable state; it has a rollback
\* target, and it is the task the running job was started for: a second
\* integration cannot take the slot, and a crash always finds the way back.
THEOREM IntegrationReserved == Spec => []MergeReservation
<1>1. Init => TypeOK /\ Reserved(orch, job)
  BY EmptyLedgerType
     DEF Init, TypeOK, NoGates, NoJob, Reserved, Merging, EmptyLedger, Ids
<1>2. TypeOK /\ Reserved(orch, job) /\ [Next]_vars => TypeOK' /\ Reserved(orch, job)'
  BY TypeStep, ReservationStep
<1>3. Reserved(orch, job) => MergeReservation
  BY ReservationIsReserved
<1>. QED
  BY <1>1, <1>2, <1>3, PTL DEF Spec

-----------------------------------------------------------------------------
(* Integrations end where they should                                      *)

Settled(o, t) == o.tasks[t].status \in {"merging", "merged"}

\* p has every task of o, and leaves the integrated and integrating ones so.
Stays(o, p) ==
  /\ Ids(o) \subseteq Ids(p)
  /\ \A t \in Ids(o) : Settled(o, t) => p.tasks[t].status = o.tasks[t].status

LEMMA StaysTransitive ==
  ASSUME NEW o, NEW p, NEW q, Stays(o, p), Stays(p, q)
  PROVE  Stays(o, q)
BY DEF Stays, Settled

\* A method that changes the status of `id` alone, which is not integrated.
LEMMA OneStays ==
  ASSUME NEW o, LedgerType(o), NEW id \in Ids(o), ~Settled(o, id), NEW status, NEW pane
  PROVE  /\ Stays(o, SetStatus(o, id, status))
         /\ Stays(o, Claim(o, id, pane))
         /\ Stays(o, ReleaseTask(o, id))
         /\ Stays(o, RetryTask(o, id))
         /\ Stays(o, BeginMerge(o, id))
<1>1. Stays(o, SetStatus(o, id, status))
  BY DEF Stays, Settled, SetStatus, LedgerType, Ids, Task
<1>2. Stays(o, Claim(o, id, pane))
  BY DEF Stays, Settled, Claim, LedgerType, Ids, Task
<1>3. Stays(o, ReleaseTask(o, id))
  BY DEF Stays, Settled, ReleaseTask, LedgerType, Ids, Task
<1>4. Stays(o, RetryTask(o, id))
  <2>1. \A t \in Ids(o) \ {id} : RetryTask(o, id).tasks[t] = o.tasks[t]
    BY RetryTaskFields
  <2>2. Ids(RetryTask(o, id)) = Ids(o)
    BY RetryTaskFields
  <2>. QED BY <2>1, <2>2 DEF Stays
<1>5. Stays(o, BeginMerge(o, id))
  BY DEF Stays, Settled, BeginMerge, LedgerType, Ids, Task
<1>. QED BY <1>1, <1>2, <1>3, <1>4, <1>5

\* A method that changes no status.
LEMMA NoneStays ==
  ASSUME NEW o, LedgerType(o), NEW id \in Ids(o), NEW project, NEW mode, NEW report
  PROVE  /\ Stays(o, BindProject(o, id, project))
         /\ Stays(o, BindPlace(o, id, mode))
         /\ Stays(o, [o EXCEPT !.tasks[id].saturated = report])
<1>1. Stays(o, BindProject(o, id, project))
  BY DEF Stays, Settled, BindProject, LedgerType, Ids, Task
<1>2. Stays(o, BindPlace(o, id, mode))
  BY DEF Stays, Settled, BindPlace, LedgerType, Ids, Task
<1>3. Stays(o, [o EXCEPT !.tasks[id].saturated = report])
  BY DEF Stays, Settled, LedgerType, Ids, Task
<1>. QED BY <1>1, <1>2, <1>3

LEMMA LeasesStay ==
  ASSUME NEW o, LedgerType(o), NEW leases
  PROVE  Stays(o, [o EXCEPT !.leases = leases])
BY DEF Stays, Settled, LedgerType, Ids

LEMMA BindTaskPathsStays ==
  ASSUME NEW o, LedgerType(o), NEW id, NEW pane, NEW paths
  PROVE  Stays(o, BindTaskPaths(o, id, pane, paths))
<1>1. BindTaskPaths(o, id, pane, paths).tasks = o.tasks
  BY DEF BindTaskPaths, Acquire, LedgerType
<1>. QED BY <1>1 DEF Stays, Ids

LEMMA InterruptStays ==
  ASSUME NEW o, LedgerType(o), NEW lost, \A t \in lost \cap Ids(o) : ~Settled(o, t)
  PROVE  Stays(o, Interrupt(o, lost))
BY DEF Interrupt, LedgerType, Ids, Task, Stays, Settled

LEMMA UnbindStays ==
  ASSUME NEW o, LedgerType(o), NEW pane
  PROVE  Stays(o, Unbind(o, pane))
<1> DEFINE held == {t \in Ids(o) : o.tasks[t].assignee = pane}
           lost == {t \in held : Interruptible(o.tasks[t])}
           pure == {t \in held \ lost : /\ o.tasks[t].mode = "none"
                                        /\ o.tasks[t].place # "worktree"
                                        /\ o.tasks[t].status \in {"claimed", "running"}}
           freed(t) == CASE t \in pure        -> [o.tasks[t] EXCEPT !.assignee = NoPane,
                                                                    !.status = "queued"]
                         [] t \in held \ pure -> [o.tasks[t] EXCEPT !.assignee = NoPane]
                         [] OTHER             -> o.tasks[t]
           p == [o EXCEPT !.tasks = [t \in Ids(o) |-> freed(t)]]
<1>1. Unbind(o, pane) = Interrupt(p, lost)
  BY DEF Unbind
<1>2. \A t \in Ids(o) : /\ freed(t) \in Task
                        /\ freed(t).status = IF t \in pure THEN "queued" ELSE o.tasks[t].status
  <2> HIDE DEF held, pure
  <2>1. \A t \in Ids(o) : freed(t) \in Task
    BY TaskField DEF LedgerType, Status, NoPane
  <2>2. \A t \in Ids(o) : freed(t).status = IF t \in pure THEN "queued" ELSE o.tasks[t].status
    BY DEF LedgerType, Task
  <2>. QED BY <2>1, <2>2
<1>3. /\ \A t \in pure : ~Settled(o, t)
      /\ \A t \in lost : ~Settled(o, t) /\ t \notin pure
  BY DEF Interruptible, Settled
<1> HIDE DEF freed, pure, lost
<1>4. Ids(p) = Ids(o) /\ p.tasks = [t \in Ids(o) |-> freed(t)]
  BY DEF LedgerType, Ids
<1>5. LedgerType(p)
  BY <1>2 DEF LedgerType, Ids
<1> HIDE DEF p
<1>6. Stays(o, p)
  BY <1>2, <1>3, <1>4 DEF Stays
<1>7. \A t \in lost \cap Ids(p) : ~Settled(p, t)
  BY <1>2, <1>3, <1>4 DEF Settled
<1>. QED BY <1>1, <1>5, <1>6, <1>7, InterruptStays, StaysTransitive

LEMMA StartedStays ==
  ASSUME NEW o, LedgerType(o), NEW id \in Ids(o), NEW mode \in Mode, NEW pane \in Pane,
         ~Settled(o, id)
  PROVE  Stays(o, Started(o, id, mode, pane))
<1> DEFINE paths   == o.tasks[id].paths
           claimed == Claim(o, id, pane)
           bound   == BindTaskPaths(claimed, id, pane, paths)
           leased  == IF paths = {} THEN claimed ELSE bound
           running == SetStatus(leased, id, "running")
           placed  == BindPlace(running, id, mode)
<1>1. LedgerType(claimed) /\ Ids(claimed) = Ids(o) /\ Stays(o, claimed)
  BY ClaimType, OneStays DEF Pane
<1>2. claimed.tasks[id].status = "claimed"
  BY DEF Claim, LedgerType, Ids, Task
<1>3. id \in Nat /\ paths \in SUBSET Paths
  BY DEF LedgerType, Task
<1>4. LedgerType(leased) /\ Ids(leased) = Ids(o) /\ leased.tasks = claimed.tasks
  <2> HIDE DEF claimed, paths
  <2>1. bound.tasks = claimed.tasks
    BY <1>1 DEF BindTaskPaths, Acquire, LedgerType
  <2>2. LedgerType(bound) /\ Ids(bound) = Ids(o)
    BY <1>1, <1>3, BindTaskPathsType
  <2> HIDE DEF bound
  <2>. QED BY <1>1, <2>1, <2>2
<1> HIDE DEF claimed, leased
<1>5. Stays(o, leased) /\ ~Settled(leased, id)
  BY <1>1, <1>2, <1>4 DEF Stays, Settled, Ids
<1>6. LedgerType(running) /\ Ids(running) = Ids(o) /\ Stays(leased, running)
  BY <1>4, <1>5, SetStatusType, OneStays DEF Status
<1> HIDE DEF running
<1>7. Stays(running, placed)
  BY <1>6, NoneStays
<1>8. Started(o, id, mode, pane) = placed
  BY DEF Started, placed, running, leased, claimed, paths
<1>. QED BY <1>5, <1>6, <1>7, <1>8, StaysTransitive

\* Only a restart and the completion of the job touch what is integrated.
LEMMA StepStays ==
  TypeOK /\ [Next]_vars =>
    \/ Stays(orch, orch')
    \/ \E id \in Ids(orch) : TaskDelete(id)
    \/ \E outcome \in {"merged", "conflict", "error"} : MergeFinished(outcome)
    \/ Restart
<1> SUFFICES ASSUME TypeOK, [Next]_vars, ~Restart,
                    \A id \in Ids(orch) : ~TaskDelete(id),
                    \A outcome \in {"merged", "conflict", "error"} : ~MergeFinished(outcome)
             PROVE  Stays(orch, orch')
  OBVIOUS
<1>type. LedgerType(orch)
  BY DEF TypeOK
<1>pane. \A p \in DOMAIN panes : p \in Pane /\ p \in Nat /\ panes[p] \in Projects
  BY DEF TypeOK, Pane, NoPane
<1>same. ASSUME orch' = orch PROVE Stays(orch, orch')
  BY <1>same DEF Stays
<1>bind. ASSUME NEW id \in Ids(orch), NEW project \in Projects
         PROVE  LET bound == BindProject(orch, id, project)
                IN  /\ LedgerType(bound) /\ Ids(bound) = Ids(orch) /\ Stays(orch, bound)
                    /\ bound.tasks[id].status = Task_(id).status
  BY <1>type, BindProjectType, BindProjectKeeps, NoneStays DEF Task_
<1>claim. ASSUME NEW id \in Ids(orch), NEW p \in DOMAIN panes, ~Settled(orch, id)
          PROVE  Stays(orch, Claim(BindProject(orch, id, panes[p]), id, p))
  BY <1>claim, <1>pane, <1>bind, OneStays, StaysTransitive DEF Settled, Task_
<1>1. ASSUME NEW project \in Projects, OpenPane(project) PROVE Stays(orch, orch')
  BY <1>1, <1>same DEF OpenPane
<1>2. ASSUME NEW p \in DOMAIN panes, ClosePane(p) PROVE Stays(orch, orch')
  <2> DEFINE released == ReleasePaneLeases(orch, p)
  <2>1. orch' = Unbind(released, p)
    BY <1>2 DEF ClosePane, CommitTwice
  <2>2. LedgerType(released) /\ Stays(orch, released)
    BY <1>type, ReleasePaneLeasesType, LeasesStay DEF ReleasePaneLeases
  <2> HIDE DEF released
  <2>. QED BY <2>1, <2>2, UnbindStays, StaysTransitive
<1>3. ASSUME NEW template \in Templates, NEW deps \in SUBSET Ids(orch), TaskAdd(template, deps)
      PROVE  Stays(orch, orch')
  <2>1. PICK task : /\ task.assignee = NoPane /\ task.place = "none"
                    /\ orch' = AddTask(orch, task)
    BY <1>3, TaskAddEffect
  <2>. QED BY <1>type, <2>1, AddTaskFields DEF Stays
<1>4. ASSUME NEW p \in DOMAIN panes, TaskNext(p) PROVE Stays(orch, orch')
  <2>1. PICK id \in Ids(orch) : /\ Task_(id).status = "queued"
                                /\ orch' = Claim(BindProject(orch, id, panes[p]), id, p)
    BY <1>4 DEF TaskNext, Claimable, Task_, Commit
  <2>. QED BY <1>claim, <2>1 DEF Settled, Task_
<1>5. ASSUME NEW id \in Ids(orch), NEW p \in DOMAIN panes, TaskClaim(id, p)
      PROVE  Stays(orch, orch')
  <2> DEFINE bound == BindProject(orch, id, panes[p])
  <2>1. CASE CanClaim(bound, id) /\ orch' = Claim(bound, id, p)
    <3>1. ~Settled(orch, id)
      BY <1>pane, <1>bind, <2>1 DEF CanClaim, Settled, Task_
    <3>. QED BY <1>claim, <2>1, <3>1
  <2>2. CASE orch' = bound
    BY <1>pane, <1>bind, <2>2
  <2>. QED BY <1>5, <2>1, <2>2 DEF TaskClaim, Commit, LeaveUnsaved
<1>6. ASSUME NEW id \in Ids(orch), NEW mode \in Modes, NEW project \in Projects,
             TaskStart(id, mode, project)
      PROVE  Stays(orch, orch')
  <2> DEFINE bound == BindProject(orch, id, project)
  <2>1. LedgerType(bound) /\ Ids(bound) = Ids(orch) /\ Stays(orch, bound)
    BY <1>bind
  <2>2. mode \in Mode
    BY BoundsAssumption DEF Mode
  <2> HIDE DEF bound
  <2>3. ASSUME NEW p \in Pane, CanStart(bound, id, mode), orch' = Started(bound, id, mode, p)
        PROVE  Stays(orch, orch')
    <3>1. ~Settled(bound, id)
      BY <2>3 DEF CanStart, Settled
    <3>. QED BY <2>1, <2>2, <2>3, <3>1, StartedStays, StaysTransitive
  <2>4. lastPane + 1 \in Pane
    BY DEF TypeOK, Pane, NoPane
  <2>. QED BY <1>6, <1>pane, <2>1, <2>3, <2>4 DEF TaskStart, Commit, LeaveUnsaved, bound
<1>set. ASSUME NEW id \in Ids(orch), ~Settled(orch, id), NEW status,
               orch' = SetStatus(orch, id, status)
        PROVE  Stays(orch, orch')
  BY <1>set, <1>type, OneStays
<1>7. ASSUME NEW id \in Ids(orch), NEW status \in UpdateTo,
             TaskUpdate(id, status) \/ TaskUpdateBadNote(id, status)
      PROVE  Stays(orch, orch')
  BY <1>7, <1>set DEF TaskUpdate, TaskUpdateBadNote, CanUpdate, Commit, LeaveUnsaved, Settled,
                      Task_
<1>8. ASSUME NEW id \in Ids(orch), NEW report \in Reports, Heartbeat(id, report)
      PROVE  Stays(orch, orch')
  BY <1>8, <1>type, NoneStays DEF Heartbeat, Commit
<1>9. ASSUME NEW id \in Ids(orch), PaneState(id) PROVE Stays(orch, orch')
  BY <1>9, <1>set DEF PaneState, Commit, Settled, Task_
<1>10. ASSUME NEW id \in Ids(orch), TaskRelease(id) PROVE Stays(orch, orch')
  <2> DEFINE freed == ReleaseTask(orch, id)
  <2>1. ~Settled(orch, id)
    BY <1>10 DEF TaskRelease, CanRelease, HoldsLeases, Settled
  <2>2. LedgerType(freed) /\ Stays(orch, freed)
    BY <1>type, <2>1, ReleaseTaskType, OneStays
  <2>3. orch' = ReleaseTaskLeases(freed, id)
    BY <1>10 DEF TaskRelease, Commit
  <2> HIDE DEF freed
  <2>. QED BY <2>2, <2>3, LeasesStay, StaysTransitive DEF ReleaseTaskLeases
<1>11. ASSUME NEW id \in Ids(orch), TaskRetry(id) PROVE Stays(orch, orch')
  BY <1>11, <1>type, TaskRetryEffect, OneStays DEF CanRetry, Settled
<1>12. ASSUME NEW id \in Ids(orch), RetryAsNewRun(id) PROVE Stays(orch, orch')
  BY <1>12, <1>same DEF RetryAsNewRun
<1>final. ASSUME NEW id \in Ids(orch), ~Settled(orch, id), orch' = Finalize(orch, id)
          PROVE  Stays(orch, orch')
  <2> DEFINE done == SetStatus(orch, id, "done")
  <2>1. LedgerType(done) /\ Stays(orch, done)
    BY <1>final, <1>type, SetStatusType, OneStays DEF Status
  <2>2. orch' = ReleaseTaskLeases(done, id)
    BY <1>final DEF Finalize
  <2> HIDE DEF done
  <2>. QED BY <2>1, <2>2, LeasesStay, StaysTransitive DEF ReleaseTaskLeases
<1>13. ASSUME NEW id \in Ids(orch), TaskDone(id) PROVE Stays(orch, orch')
  BY <1>13, <1>final DEF TaskDone, CanComplete, Commit, Settled, Task_
<1>14. ASSUME NEW id \in Ids(orch), LaunchGate(id) PROVE Stays(orch, orch')
  BY <1>14, <1>set DEF LaunchGate, CanComplete, Commit, Settled, Task_
<1>15. ASSUME NEW id \in Ids(orch), TaskMerge(id) PROVE Stays(orch, orch')
  <2> DEFINE previous == Task_(id).status
             begun == BeginMerge(orch, id)
  <2>1. previous \in {"done", "blocked"} /\ ~Settled(orch, id)
    BY <1>15 DEF TaskMerge, CanBeginMerge, Settled, Task_
  <2>2. LedgerType(begun) /\ Stays(orch, begun) /\ Ids(begun) = Ids(orch)
    <3>1. LedgerType(begun) /\ Ids(begun) = Ids(orch)
      BY <1>15, <1>type, BeginMergeType DEF TaskMerge
    <3>. QED BY <1>type, <2>1, <3>1, OneStays
  <2>3. CASE orch' = FinishMerge(begun, id, previous)
    <3>1. /\ Ids(orch') = Ids(begun)
          /\ \A t \in Ids(orch) \ {id} : orch'.tasks[t] = begun.tasks[t]
      <4> HIDE DEF begun
      <4>. QED BY <2>2, <2>3 DEF FinishMerge, LedgerType, Ids
    <3> HIDE DEF begun
    <3>. QED BY <2>1, <2>2, <3>1 DEF Stays
  <2>. QED BY <1>15, <2>2, <2>3 DEF TaskMerge, Commit
<1>16. ASSUME NEW lease \in orch.leases, LeaseRelease(lease) PROVE Stays(orch, orch')
  BY <1>16, <1>type, LeasesStay DEF LeaseRelease, Commit
<1>17. ASSUME NEW id \in Ids(orch), NEW p \in DOMAIN panes, NEW paths \in LeaseRequests,
              LeaseAcquire(id, p, paths)
       PROVE  Stays(orch, orch')
  <2> DEFINE bound == BindProject(orch, id, panes[p])
  <2>1. LedgerType(bound) /\ Stays(orch, bound)
    BY <1>pane, <1>bind
  <2> HIDE DEF bound
  <2>2. Stays(orch, Acquire(bound, p, id, paths))
    BY <2>1, LeasesStay, StaysTransitive DEF Acquire
  <2>. QED BY <1>17, <2>1, <2>2 DEF LeaseAcquire, Commit, LeaveUnsaved, bound
<1>18. ASSUME NEW id \in DOMAIN gates, NEW passed \in BOOLEAN, GateFinished(id, passed)
       PROVE  Stays(orch, orch')
  <2>1. CASE GateCurrent(id)
    <3>1. id \in Ids(orch) /\ ~Settled(orch, id)
      BY <2>1 DEF GateCurrent, Settled, Task_
    <3>. QED BY <1>18, <1>set, <1>final, <2>1, <3>1 DEF GateFinished, Commit
  <2>2. CASE ~GateCurrent(id)
    BY <1>18, <1>same, <2>2 DEF GateFinished
  <2>. QED BY <2>1, <2>2
<1>19. CASE RecoverLeases
  <2>1. CASE orch' = BindTaskPaths(orch, boot, Task_(boot).assignee, Task_(boot).paths)
    BY <1>type, <2>1, BindTaskPathsStays
  <2>2. CASE /\ boot \in Ids(orch) /\ Task_(boot).status = "running"
             /\ orch' = SetStatus(orch, boot, "blocked")
    BY <1>set, <2>2 DEF Settled, Task_
  <2>. QED BY <1>19, <1>same, <2>1, <2>2 DEF RecoverLeases
<1>20. CASE SaveReconciled
  BY <1>20, <1>same DEF SaveReconciled, Commit
<1>21. CASE FinishBoot
  <2> DEFINE lost == {t \in Ids(orch) : Interruptible(Task_(t))}
  <2>1. \A t \in lost \cap Ids(orch) : ~Settled(orch, t)
    BY DEF Interruptible, Settled, Task_
  <2>2. orch' = Interrupt(orch, lost)
    BY <1>21 DEF FinishBoot, Commit
  <2> HIDE DEF lost
  <2>. QED BY <1>type, <2>1, <2>2, InterruptStays
<1>22. CASE UNCHANGED vars
  BY <1>22, <1>same DEF vars
<1>. QED
  BY <1>1, <1>2, <1>3, <1>4, <1>5, <1>6, <1>7, <1>8, <1>9, <1>10, <1>11, <1>12, <1>13, <1>14,
     <1>15, <1>16, <1>17, <1>18, <1>19, <1>20, <1>21, <1>22
     DEF Next, PaneStep, TaskStep, LeaseStep, JobStep, BootStep

\* What the snapshot knows of integrations while no save failed: every task
\* that is integrated, or being integrated, with the way back of the latter.
Recorded(o, d) ==
  \A t \in Ids(o) : Settled(o, t) =>
    /\ t \in Ids(d) /\ d.tasks[t].status = o.tasks[t].status
    /\ o.tasks[t].status = "merging" =>
         t \in DOMAIN d.mergePrevious /\ d.mergePrevious[t] = o.mergePrevious[t]

SnapshotKnows == faults = 0 => Recorded(orch, disk)

\* p integrates nothing that o does not.
Calm(o, p) ==
  /\ Ids(p) = Ids(o) /\ Keeps(o, p)
  /\ \A t \in Ids(o) : p.tasks[t].status = "merged" => o.tasks[t].status = "merged"

LEMMA CalmRecorded ==
  ASSUME NEW o, NEW p, NEW d, NEW j, Reserved(o, j), Calm(o, p), Recorded(o, d)
  PROVE  Recorded(p, d)
BY DEF Reserved, Calm, Keeps, Merging, Recorded, Settled

LEMMA SavedRecorded ==
  ASSUME NEW o, NEW j, Reserved(o, j)
  PROVE  Recorded(o, o)
BY DEF Reserved, Merging, Recorded, Settled

LEMMA SetStatusCalm ==
  ASSUME NEW o, LedgerType(o), NEW id \in Ids(o), ~Settled(o, id),
         NEW status \in Status \ {"merging", "merged"}
  PROVE  Calm(o, SetStatus(o, id, status))
<1>1. Keeps(o, SetStatus(o, id, status)) /\ Ids(SetStatus(o, id, status)) = Ids(o)
  BY SetStatusKeeps, SetStatusType DEF Settled
<1>2. \A t \in Ids(o) : SetStatus(o, id, status).tasks[t].status = "merged"
                          => o.tasks[t].status = "merged"
  BY DEF SetStatus, LedgerType, Ids, Task
<1>. QED BY <1>1, <1>2 DEF Calm

LEMMA BindProjectCalm ==
  ASSUME NEW o, LedgerType(o), NEW id \in Ids(o), NEW project \in Projects
  PROVE  Calm(o, BindProject(o, id, project))
<1>1. /\ Ids(BindProject(o, id, project)) = Ids(o)
      /\ Keeps(o, BindProject(o, id, project))
      /\ \A t \in Ids(o) : BindProject(o, id, project).tasks[t].status = o.tasks[t].status
  BY BindProjectType, BindProjectKeeps
<1>. QED BY <1>1 DEF Calm

\* A step saves what it leaves, fails to, or leaves integrations alone.
LEMMA StepSaves ==
  TypeOK /\ [Next]_vars =>
    \/ disk' = orch'
    \/ faults' = faults + 1
    \/ disk' = disk /\ faults' = faults /\ Calm(orch, orch')
    \/ Restart
<1> DEFINE Saves == \/ disk' = orch'
                    \/ faults' = faults + 1
                    \/ disk' = disk /\ faults' = faults /\ Calm(orch, orch')
<1> SUFFICES ASSUME TypeOK, [Next]_vars, ~Restart PROVE Saves
  OBVIOUS
<1>type. LedgerType(orch)
  BY DEF TypeOK
<1>pane. \A p \in DOMAIN panes : panes[p] \in Projects
  BY DEF TypeOK
<1>same. ASSUME UNCHANGED <<orch, disk, faults>> PROVE Saves
  BY <1>same DEF Calm, Keeps
<1>commit. ASSUME NEW o, Commit(o) \/ CommitOrReject(o) PROVE Saves
  BY <1>commit DEF Commit, CommitOrReject
<1>leave. ASSUME NEW o, LeaveUnsaved(o), Calm(orch, o) PROVE Saves
  BY <1>leave DEF LeaveUnsaved
<1> HIDE DEF Saves
<1>bind. ASSUME NEW id \in Ids(orch), NEW project \in Projects,
                LeaveUnsaved(BindProject(orch, id, project))
         PROVE  Saves
  BY <1>bind, <1>type, <1>leave, BindProjectCalm
<1>1. ASSUME PaneStep PROVE Saves
  <2>1. ASSUME NEW p, ClosePane(p) PROVE Saves
    BY <2>1 DEF ClosePane, CommitTwice, Saves
  <2>. QED BY <1>1, <1>same, <2>1 DEF PaneStep, OpenPane
<1>2. ASSUME NEW template, NEW deps, TaskAdd(template, deps) PROVE Saves
  BY <1>2, <1>commit DEF TaskAdd
<1>3. ASSUME NEW p, TaskNext(p) PROVE Saves
  BY <1>3, <1>commit DEF TaskNext
<1>4. ASSUME NEW id \in Ids(orch), NEW p \in DOMAIN panes, TaskClaim(id, p) PROVE Saves
  BY <1>4, <1>commit, <1>bind, <1>pane DEF TaskClaim
<1>5. ASSUME NEW id \in Ids(orch), NEW mode, NEW project \in Projects, TaskStart(id, mode, project)
      PROVE  Saves
  BY <1>5, <1>commit, <1>bind DEF TaskStart
<1>6. ASSUME NEW id \in Ids(orch), NEW status \in UpdateTo,
             TaskUpdate(id, status) \/ TaskUpdateBadNote(id, status)
      PROVE  Saves
  <2>1. CASE TaskUpdate(id, status)
    BY <1>commit, <2>1 DEF TaskUpdate
  <2>2. CASE TaskUpdateBadNote(id, status)
    <3>1. ~Settled(orch, id) /\ status \in Status \ {"merging", "merged"}
      BY <2>2, BoundsAssumption DEF TaskUpdateBadNote, CanUpdate, Settled, Task_
    <3>. QED BY <1>type, <1>leave, <2>2, <3>1, SetStatusCalm DEF TaskUpdateBadNote
  <2>. QED BY <1>6, <2>1, <2>2
<1>7. ASSUME NEW id, NEW report, Heartbeat(id, report) PROVE Saves
  BY <1>7, <1>commit DEF Heartbeat
<1>8. ASSUME NEW id, PaneState(id) \/ TaskRelease(id) \/ TaskDelete(id) \/ TaskRetry(id)
      PROVE  Saves
  BY <1>8, <1>commit DEF PaneState, TaskRelease, TaskDelete, TaskRetry
<1>9. ASSUME NEW id, RetryAsNewRun(id) PROVE Saves
  BY <1>9, <1>same DEF RetryAsNewRun
<1>10. ASSUME NEW id, TaskDone(id) \/ LaunchGate(id) \/ TaskMerge(id) PROVE Saves
  BY <1>10, <1>commit DEF TaskDone, LaunchGate, TaskMerge
<1>11. ASSUME NEW id \in Ids(orch), NEW p \in DOMAIN panes, NEW paths, LeaseAcquire(id, p, paths)
       PROVE  Saves
  BY <1>11, <1>commit, <1>bind, <1>pane DEF LeaseAcquire
<1>12. ASSUME NEW lease, LeaseRelease(lease) PROVE Saves
  BY <1>12, <1>commit DEF LeaseRelease
<1>13. ASSUME NEW id, NEW passed, GateFinished(id, passed) PROVE Saves
  BY <1>13, <1>commit, <1>same DEF GateFinished
<1>14. ASSUME NEW outcome, MergeFinished(outcome) PROVE Saves
  BY <1>14, <1>commit, <1>same DEF MergeFinished
<1>15. CASE RecoverLeases
  <2>1. disk' = disk /\ faults' = faults
    BY <1>15 DEF RecoverLeases
  <2>2. CASE orch' = BindTaskPaths(orch, boot, Task_(boot).assignee, Task_(boot).paths)
    <3>1. orch'.tasks = orch.tasks /\ orch'.mergePrevious = orch.mergePrevious
      BY <1>type, <2>2 DEF BindTaskPaths, Acquire, LedgerType
    <3>2. Calm(orch, orch')
      BY <3>1 DEF Calm, Keeps, Merging, Ids
    <3>. QED BY <2>1, <3>2 DEF Saves
  <2>3. CASE /\ boot \in Ids(orch) /\ Task_(boot).status = "running"
             /\ orch' = SetStatus(orch, boot, "blocked")
    <3>1. ~Settled(orch, boot) /\ "blocked" \in Status \ {"merging", "merged"}
      BY <2>3 DEF Settled, Task_, Status
    <3>2. Calm(orch, orch')
      BY <1>type, <2>3, <3>1, SetStatusCalm
    <3>. QED BY <2>1, <3>2 DEF Saves
  <2>4. CASE orch' = orch
    BY <1>same, <2>1, <2>4
  <2>. QED BY <1>15, <2>2, <2>3, <2>4 DEF RecoverLeases
<1>16. CASE SaveReconciled \/ FinishBoot
  BY <1>16, <1>commit DEF SaveReconciled, FinishBoot
<1>17. CASE UNCHANGED vars
  BY <1>17, <1>same DEF vars
<1>18. TaskStep => Saves
  BY <1>2, <1>3, <1>4, <1>5, <1>6, <1>7, <1>8, <1>9, <1>10 DEF TaskStep
<1>19. LeaseStep \/ JobStep \/ BootStep => Saves
  BY <1>11, <1>12, <1>13, <1>14, <1>15, <1>16 DEF LeaseStep, JobStep, BootStep
<1>20. Saves
  BY <1>1, <1>17, <1>18, <1>19 DEF Next
<1>. QED BY <1>20 DEF Saves

\* An integration interrupted by a crash goes back to where it was reserved
\* from; an integrated task stays so.
LEMMA RestartSettles ==
  ASSUME TypeOK, Restart, NEW t \in Ids(disk), disk.tasks[t].status \in {"merging", "merged"}
  PROVE  orch'.tasks[t].status =
           IF disk.tasks[t].status = "merged" THEN "merged"
           ELSE IF t \in DOMAIN disk.mergePrevious THEN disk.mergePrevious[t] ELSE "done"
<1>1. LoadedStatus(disk, t) \notin {"claimed", "running"}
  BY DEF TypeOK, LedgerType, LoadedStatus
<1>. QED BY <1>1, RestartTasks DEF LoadedStatus

LEMMA SnapshotStep ==
  TypeOK /\ MergeReservation /\ MergeReservation' /\ SnapshotKnows /\ [Next]_vars
    => SnapshotKnows'
<1> SUFFICES ASSUME TypeOK, Reserved(orch, job), Reserved(orch', job'), SnapshotKnows,
                    [Next]_vars, faults' = 0
             PROVE  Recorded(orch', disk')
  BY ReservationIsReserved DEF SnapshotKnows, MergeReservation, Reserved, Merging, Task_
<1>1. CASE disk' = orch'
  BY <1>1, SavedRecorded
<1>2. CASE faults' = faults + 1
  BY <1>2 DEF TypeOK
<1>3. CASE disk' = disk /\ faults' = faults /\ Calm(orch, orch')
  BY <1>3, CalmRecorded DEF SnapshotKnows
<1>4. CASE Restart
  <2>1. Merging(orch') = {}
    BY <1>4 DEF Restart, Reserved
  <2>2. disk' = disk /\ Ids(orch') = Ids(disk)
    BY <1>4, RestartTasks DEF Restart
  <2>3. ASSUME NEW t \in Ids(orch'), Settled(orch', t) PROVE disk.tasks[t].status = "merged"
    <3>1. orch'.tasks[t].status = "merged"
      BY <2>1, <2>3 DEF Merging, Settled
    <3>2. LoadedStatus(disk, t) = "merged"
      BY <1>4, <2>2, <2>3, <3>1, RestartTasks
    <3>. QED BY <3>2, <2>2, <2>3 DEF LoadedStatus, TypeOK, LedgerType
  <2>. QED BY <2>1, <2>2, <2>3 DEF Recorded, Settled, Merging
<1>. QED BY <1>1, <1>2, <1>3, <1>4, StepSaves

IntegrationsSettle ==
  faults' = 0 =>
    \A t \in Ids(orch) \cap Ids(orch') :
      /\ orch.tasks[t].status = "merged" => orch'.tasks[t].status = "merged"
      /\ orch.tasks[t].status = "merging" =>
           orch'.tasks[t].status \in {"merging", "merged", "blocked", orch.mergePrevious[t]}

LEMMA SettlesStep ==
  TypeOK /\ MergeReservation /\ SnapshotKnows /\ [Next]_vars => [IntegrationsSettle]_vars
<1> SUFFICES ASSUME TypeOK, Reserved(orch, job), SnapshotKnows, [Next]_vars, faults' = 0,
                    NEW t \in Ids(orch) \cap Ids(orch'), Settled(orch, t)
             PROVE  IF orch.tasks[t].status = "merged" THEN orch'.tasks[t].status = "merged"
                    ELSE orch'.tasks[t].status
                           \in {"merging", "merged", "blocked", orch.mergePrevious[t]}
  BY ReservationIsReserved DEF IntegrationsSettle, Settled
<1>1. CASE Stays(orch, orch')
  BY <1>1 DEF Stays, Settled
<1>2. ASSUME NEW id \in Ids(orch), TaskDelete(id)
      PROVE  orch'.tasks[t].status = orch.tasks[t].status
  <2>1. orch' = DeleteTask(orch, id) /\ LedgerType(orch)
    BY <1>2, TaskDeleteEffect DEF TypeOK
  <2>. QED BY <2>1, DeleteTaskFields
<1>3. ASSUME NEW outcome \in {"merged", "conflict", "error"}, MergeFinished(outcome)
      PROVE  IF orch.tasks[t].status = "merged" THEN orch'.tasks[t].status = "merged"
             ELSE orch'.tasks[t].status
                    \in {"merging", "merged", "blocked", orch.mergePrevious[t]}
  <2>1. job.task \in Ids(orch) /\ orch.tasks[job.task].status = "merging"
        /\ orch.mergePrevious[job.task] = job.previous
    BY <1>3 DEF MergeFinished, Reserved, Merging
  <2>2. orch.tasks[t].status = "merging" => t = job.task
    BY <1>3 DEF MergeFinished, Reserved, Merging
  <2> DEFINE status == CASE outcome = "merged"   -> "merged"
                         [] outcome = "conflict" -> "blocked"
                         [] outcome = "error"    -> job.previous
  <2>3. status \in {"merged", "blocked", job.previous}
    OBVIOUS
  <2>4. orch' = FinishMerge(orch, job.task, status)
    BY <1>3, <2>1 DEF MergeFinished, CanFinishMerge, Commit
  <2> HIDE DEF status
  <2>5. orch'.tasks[t].status = IF t = job.task THEN status ELSE orch.tasks[t].status
    BY <2>1, <2>4 DEF TypeOK, FinishMerge, LedgerType, Ids, Task
  <2>. QED BY <2>1, <2>2, <2>3, <2>5 DEF Settled
<1>4. CASE Restart
  <2>1. Recorded(orch, disk)
    BY <1>4 DEF Restart, SnapshotKnows
  <2>2. /\ t \in Ids(disk) /\ disk.tasks[t].status = orch.tasks[t].status
        /\ orch.tasks[t].status = "merging" =>
             t \in DOMAIN disk.mergePrevious /\ disk.mergePrevious[t] = orch.mergePrevious[t]
    BY <2>1 DEF Recorded
  <2>. QED BY <1>4, <2>2, RestartSettles DEF Settled
<1>. QED BY <1>1, <1>2, <1>3, <1>4, StepStays DEF Settled

\* As long as every save succeeded, an integrated task stays integrated, and
\* an integration ends merged, blocked, or where it was reserved from, also
\* when a crash interrupts it.
THEOREM IntegrationsEnd == Spec => IntegrationSettles
<1>1. Init => SnapshotKnows
  BY DEF Init, SnapshotKnows, Recorded, EmptyLedger, Ids
<1>2. Spec => []TypeOK /\ []MergeReservation
  BY TypeCorrect, IntegrationReserved
<1>3. [IntegrationsSettle]_vars <=>
        [faults' = 0 =>
           \A t \in Ids(orch) \cap Ids(orch') :
             /\ orch.tasks[t].status = "merged" => orch'.tasks[t].status = "merged"
             /\ orch.tasks[t].status = "merging" =>
                  orch'.tasks[t].status \in
                    {"merging", "merged", "blocked", orch.mergePrevious[t]}]_vars
  BY DEF IntegrationsSettle
<1>. QED
  BY <1>1, <1>2, <1>3, SnapshotStep, SettlesStep, PTL DEF Spec, IntegrationSettles

-----------------------------------------------------------------------------
(* The inductive invariant of WorktreeSlot                                 *)
(*                                                                         *)
(* A handler goes from world to world, so the invariant is said of worlds: *)
(* Sound(w, f), where f is the tree that the handler has made or taken and *)
(* not yet opened, removed or handed on.  Between two handlers there is no *)
(* such tree and no result lies ready.                                     *)

Maybe(S) == S \cup {Nil}
Results == {Created(t, made) : t \in Trees, made \in BOOLEAN} \cup {Removed(t) : t \in Trees}
Deletions == {Deletion(t, known) : t \in Trees, known \in BOOLEAN}
Owners == Calls \cup Runs \cup Spaces \cup {Prompt}
Statuses == {"queued", "claimed", "running", "done", "failed"}

JobTypes == [owner : Owners, kind : {"create", "remove", "check"}, tree : Trees, slot : BOOLEAN,
             force : BOOLEAN, others : BOOLEAN, done : BOOLEAN, result : Maybe(Results)]
Disks == [Trees -> {"none", "made", "kept"}]
Apps == [inflight : BOOLEAN, ready : Maybe(Results), open : [Trees -> SUBSET Spaces],
         busy : SUBSET Spaces, task : [Tasks -> [status : Statuses, place : Maybe(Trees)]],
         run : [Runs -> {"none", "pending", "running", "failed"}], saving : BOOLEAN,
         deleting : [Spaces -> Maybe(Deletions)],
         prompt : [open : BOOLEAN, tree : Maybe(Trees), waiting : BOOLEAN]]
Worlds == [disk : Disks, app : Apps, jobs : SUBSET JobTypes]

\* Who owns which jobs, and what they return.
JobOK(j) ==
  /\ j.slot => "module" \in Providers
  /\ j.owner \in Calls => j.slot /\ j.kind # "check"
  /\ j.owner \in Runs \cup {Prompt} => j.slot /\ j.kind = "create"
  /\ j.owner \in Spaces => j.kind # "create"
  /\ j.kind = "check" => ~ j.slot
  /\ j.result # Nil =>
       /\ j.done
       /\ j.result \in IF j.kind = "create" THEN {Created(j.tree, TRUE), Created(j.tree, FALSE)}
                       ELSE {Removed(j.tree)}

\* One job has the slot, or nobody; a result lies ready only while nobody has it.
OneSlot(w) ==
  /\ \A i, j \in w.jobs : i.slot /\ j.slot => i = j
  /\ w.app.inflight <=> \E j \in w.jobs : j.slot
  /\ w.app.ready # Nil => ~ w.app.inflight

\* Somebody will still be told that tree t was made for him.
Finds(w, t) ==
  \/ w.app.ready = Created(t, TRUE)
  \/ \E j \in w.jobs : j.slot /\ j.done /\ j.result = Created(t, TRUE)

\* A tree that was made and not taken over is still found.  As long as the setting
\* of the provider does not change, what is found has not been taken over.
Orphanless(w, f) == \A t \in Trees : w.disk[t] = "made" => t = f \/ Finds(w, t)
Unkept(w) == Providers = {"module", "git"} \/ \A t \in Trees : Finds(w, t) => w.disk[t] # "kept"

\* A space has one deletion and one job for it, which know the same tree.
Deletes(w) ==
  /\ \A i, j \in w.jobs : i.owner = j.owner /\ i.owner \in Spaces => i = j
  /\ \A j \in w.jobs : j.owner \in Spaces =>
       /\ w.app.deleting[j.owner] # Nil
       /\ w.app.deleting[j.owner].tree = j.tree
       /\ j.kind = "remove" => w.app.deleting[j.owner].resolved /\ w.app.open[j.tree] = {}

\* Tasks, agents and the prompt: in the task's own tree, in an open workspace, on
\* a tree.
TasksPlaced(w) == \A k \in Tasks : w.app.task[k].place \in {Nil, BranchOf[k]}
BusyOpen(w) == \A s \in w.app.busy : \E t \in Trees : s \in w.app.open[t]
Asked(w) == w.app.prompt.open => w.app.prompt.tree \in Trees

Sound(w, f) ==
  /\ w \in Worlds
  /\ \A j \in w.jobs : JobOK(j)
  /\ OneSlot(w) /\ Orphanless(w, f) /\ Unkept(w) /\ Deletes(w) /\ TasksPlaced(w) /\ BusyOpen(w) /\ Asked(w)

\* A job of the API works on what its request asked for.
CallsOK ==
  \A j \in jobs : j.owner \in Calls =>
    /\ call[j.owner].kind \in {"create", "remove", "next"}
    /\ call[j.owner].kind = "remove" <=> j.kind = "remove"
    /\ j.kind = "remove" => call[j.owner].tree = j.tree

Calling == [kind : {"idle", "answered", "create", "remove", "next"}, tree : Maybe(Trees),
            force : BOOLEAN]

CallType ==
  /\ call \in [Calls -> Calling]
  /\ \A c \in Calls : call[c].kind \in {"create", "remove"} => call[c].tree \in Trees

SlotInv == Sound(World, Nil) /\ app.ready = Nil /\ CallsOK /\ CallType

-----------------------------------------------------------------------------
(* Worlds that differ in a few fields *)

LEMMA NoneIsNoResult ==
  ASSUME SlotAssumption
  PROVE  /\ Nil \notin Trees
         /\ \A r \in Results : r # Nil
         /\ \A d \in Deletions : d # Nil
         /\ \A t \in Trees, b \in BOOLEAN : Created(t, b) # Nil /\ Created(t, b) \in Results
         /\ \A t \in Trees : Removed(t) # Nil /\ Removed(t) \in Results
         /\ \A t \in Trees, b \in BOOLEAN : Deletion(t, b) # Nil /\ Deletion(t, b) \in Deletions
<1>1. Nil \notin Trees
  BY DEF SlotAssumption
<1>2. \A t \in Trees, b \in BOOLEAN : Created(t, b) # Nil /\ Deletion(t, b) # Nil
  BY DEF SlotAssumption
<1>3. \A t \in Trees : Removed(t) # Nil
  <2>1. TRUE \in BOOLEAN
    OBVIOUS
  <2> QED BY <2>1 DEF SlotAssumption
<1> QED BY <1>1, <1>2, <1>3 DEF Results, Deletions

LEMMA MadeIsNoResult ==
  ASSUME SlotAssumption, NEW t \in Trees
  PROVE  Created(t, TRUE) # Nil
<1> DEFINE made == TRUE
<1>1. made \in BOOLEAN
  OBVIOUS
<1> HIDE DEF made
<1>2. Created(t, made) # Nil
  BY <1>1, NoneIsNoResult
<1> QED BY <1>2 DEF made

LEMMA ResultFields ==
  /\ \A t, b : /\ Created(t, b).kind = "create" /\ Created(t, b).tree = t
               /\ Created(t, b).made = b
  /\ \A t : Removed(t).kind = "remove" /\ Removed(t).tree = t /\ Removed(t).made = FALSE
  /\ \A t, b : Deletion(t, b).tree = t /\ Deletion(t, b).resolved = b
  BY DEF Created, Removed, Deletion

LEMMA ResultIs ==
  ASSUME NEW r \in Results
  PROVE  /\ r.tree \in Trees /\ r.made \in BOOLEAN
         /\ \/ r.kind = "create" /\ r = Created(r.tree, r.made)
            \/ r.kind = "remove" /\ r = Removed(r.tree)
<1>1. CASE \E t \in Trees, b \in BOOLEAN : r = Created(t, b)
  BY <1>1, ResultFields
<1>2. CASE \E t \in Trees : r = Removed(t)
  BY <1>2, ResultFields
<1> QED BY <1>1, <1>2 DEF Results

LEMMA SetDisk ==
  ASSUME NEW w \in Worlds, NEW t \in Trees, NEW m \in {"none", "made", "kept"}
  PROVE  LET x == [w EXCEPT !.disk[t] = m]
         IN  /\ x \in Worlds /\ x.app = w.app /\ x.jobs = w.jobs /\ x.disk[t] = m
             /\ \A u \in Trees : u # t => x.disk[u] = w.disk[u]
  BY DEF Worlds, Disks

LEMMA SetJobs ==
  ASSUME NEW w \in Worlds, NEW J \in SUBSET JobTypes
  PROVE  LET x == [w EXCEPT !.jobs = J]
         IN  x \in Worlds /\ x.app = w.app /\ x.disk = w.disk /\ x.jobs = J
  BY DEF Worlds

\* The fields that speak of trees and jobs.
SameSlot(x, w) ==
  /\ x.disk = w.disk /\ x.jobs = w.jobs
  /\ x.app.inflight = w.app.inflight /\ x.app.ready = w.app.ready

SameSpaces(x, w) ==
  x.app.open = w.app.open /\ x.app.busy = w.app.busy /\ x.app.deleting = w.app.deleting

LEMMA SoundSpaces ==
  ASSUME NEW w, NEW f, Sound(w, f), NEW x \in Worlds, SameSlot(x, w),
         Deletes(x), BusyOpen(x), TasksPlaced(x), Asked(x)
  PROVE  Sound(x, f)
<1>1. OneSlot(x)
  BY DEF Sound, SameSlot, OneSlot
<1>2. \A t : Finds(x, t) <=> Finds(w, t)
  BY DEF SameSlot, Finds
<1>3. Orphanless(x, f)
  BY <1>2 DEF Sound, SameSlot, Orphanless
<1>4. Unkept(x)
  BY <1>2 DEF Sound, SameSlot, Unkept
<1>5. \A j \in x.jobs : JobOK(j)
  BY DEF Sound, SameSlot
<1> QED BY <1>1, <1>3, <1>4, <1>5 DEF Sound

LEMMA SoundSame ==
  ASSUME NEW w, NEW f, Sound(w, f), NEW x \in Worlds, SameSlot(x, w), SameSpaces(x, w),
         TasksPlaced(x), Asked(x)
  PROVE  Sound(x, f)
<1>1. Deletes(x)
  BY DEF Sound, SameSlot, SameSpaces, Deletes
<1>2. BusyOpen(x)
  BY DEF Sound, SameSlot, SameSpaces, BusyOpen
<1> QED BY <1>1, <1>2, SoundSpaces

LEMMA SetReady ==
  ASSUME NEW w \in Worlds, NEW r \in Maybe(Results)
  PROVE  LET x == [w EXCEPT !.app.ready = r]
         IN  /\ x \in Worlds /\ x.disk = w.disk /\ x.jobs = w.jobs /\ SameSpaces(x, w)
             /\ x.app.inflight = w.app.inflight /\ x.app.ready = r
             /\ x.app.task = w.app.task /\ x.app.prompt = w.app.prompt
  BY DEF Worlds, Apps, SameSpaces

LEMMA SetPlace ==
  ASSUME NEW w \in Worlds, NEW k \in Tasks, NEW v \in [status : Statuses, place : Maybe(Trees)]
  PROVE  LET x == [w EXCEPT !.app.task[k] = v]
         IN  /\ x \in Worlds /\ SameSlot(x, w) /\ SameSpaces(x, w)
             /\ x.app.prompt = w.app.prompt /\ x.app.task[k] = v
             /\ \A l \in Tasks : l # k => x.app.task[l] = w.app.task[l]
  BY DEF Worlds, Apps, SameSlot, SameSpaces

LEMMA SetTaskStatus ==
  ASSUME NEW w \in Worlds, NEW k \in Tasks, NEW v \in Statuses
  PROVE  LET x == [w EXCEPT !.app.task[k].status = v]
         IN  /\ x \in Worlds /\ SameSlot(x, w) /\ SameSpaces(x, w)
             /\ x.app.prompt = w.app.prompt
             /\ \A l \in Tasks : x.app.task[l].place = w.app.task[l].place
<1> DEFINE T == [w.app.task EXCEPT ![k].status = v]
           x == [w EXCEPT !.app.task = T]
<1>1. /\ T \in [Tasks -> [status : Statuses, place : Maybe(Trees)]]
      /\ \A l \in Tasks : T[l].place = w.app.task[l].place
  BY DEF Worlds, Apps
<1>2. [w EXCEPT !.app.task[k].status = v] = x
  BY DEF Worlds, Apps
<1> HIDE DEF T
<1>3. /\ x \in Worlds /\ SameSlot(x, w) /\ SameSpaces(x, w)
      /\ x.app.prompt = w.app.prompt /\ x.app.task = T
  BY <1>1 DEF Worlds, Apps, SameSlot, SameSpaces
<1> QED BY <1>1, <1>2, <1>3

LEMMA SetRun ==
  ASSUME NEW w \in Worlds, NEW r \in Runs, NEW v \in {"none", "pending", "running", "failed"}
  PROVE  LET x == EndRun(w, r, v)
         IN  /\ x \in Worlds /\ SameSlot(x, w) /\ SameSpaces(x, w)
             /\ x.app.prompt = w.app.prompt /\ x.app.task = w.app.task
  BY DEF EndRun, Worlds, Apps, SameSlot, SameSpaces

LEMMA SetSaving ==
  ASSUME NEW w \in Worlds, NEW v \in BOOLEAN
  PROVE  LET x == [w EXCEPT !.app.saving = v]
         IN  /\ x \in Worlds /\ SameSlot(x, w) /\ SameSpaces(x, w)
             /\ x.app.prompt = w.app.prompt /\ x.app.task = w.app.task
  BY DEF Worlds, Apps, SameSlot, SameSpaces

LEMMA PromptSet ==
  ASSUME NEW w \in Worlds, NEW p \in [open : BOOLEAN, tree : Maybe(Trees), waiting : BOOLEAN]
  PROVE  LET x == [w EXCEPT !.app.prompt = p]
         IN  /\ x \in Worlds /\ SameSlot(x, w) /\ SameSpaces(x, w)
             /\ x.app.prompt = p /\ x.app.task = w.app.task
  BY DEF Worlds, Apps, SameSlot, SameSpaces

LEMMA SetInflight ==
  ASSUME NEW w \in Worlds
  PROVE  LET x == [w EXCEPT !.app.inflight = TRUE]
         IN  /\ x \in Worlds /\ x.disk = w.disk /\ x.jobs = w.jobs /\ SameSpaces(x, w)
             /\ x.app.inflight = TRUE /\ x.app.ready = w.app.ready
             /\ x.app.task = w.app.task /\ x.app.prompt = w.app.prompt
  BY DEF Worlds, Apps, SameSpaces

LEMMA SetDeleting ==
  ASSUME NEW w \in Worlds, NEW s \in Spaces, NEW d \in Maybe(Deletions)
  PROVE  LET x == [w EXCEPT !.app.deleting[s] = d]
         IN  /\ x \in Worlds /\ SameSlot(x, w)
             /\ x.app.open = w.app.open /\ x.app.busy = w.app.busy
             /\ x.app.task = w.app.task /\ x.app.prompt = w.app.prompt
             /\ x.app.deleting[s] = d
             /\ \A r \in Spaces : r # s => x.app.deleting[r] = w.app.deleting[r]
  BY DEF Worlds, Apps, SameSlot

LEMMA SetOpen ==
  ASSUME NEW w \in Worlds, NEW t \in Trees, NEW S \in SUBSET Spaces
  PROVE  LET x == [w EXCEPT !.app.open[t] = S]
         IN  /\ x \in Worlds /\ SameSlot(x, w)
             /\ x.app.busy = w.app.busy /\ x.app.deleting = w.app.deleting
             /\ x.app.task = w.app.task /\ x.app.prompt = w.app.prompt
             /\ x.app.open[t] = S
             /\ \A u \in Trees : u # t => x.app.open[u] = w.app.open[u]
  BY DEF Worlds, Apps, SameSlot

LEMMA SetBusy ==
  ASSUME NEW w \in Worlds, NEW S \in SUBSET Spaces
  PROVE  LET x == [w EXCEPT !.app.busy = S]
         IN  /\ x \in Worlds /\ SameSlot(x, w)
             /\ x.app.open = w.app.open /\ x.app.deleting = w.app.deleting
             /\ x.app.task = w.app.task /\ x.app.prompt = w.app.prompt
             /\ x.app.busy = S
  BY DEF Worlds, Apps, SameSlot

-----------------------------------------------------------------------------
(* What a handler may do to a world *)

\* Between its start and a point where only tree f may be without an owner.
Leads(w, x, f) ==
  /\ Sound(x, f)
  /\ x.app.ready \in {Nil, w.app.ready}
  /\ \A t \in Trees : w.disk[t] = "kept" /\ w.app.ready # Created(t, TRUE) => x.disk[t] = "kept"
  /\ \A j \in x.jobs : j \in w.jobs \/ j.owner \notin Calls

LEMMA LeadsStay ==
  ASSUME NEW w, NEW f, Sound(w, f)
  PROVE  Leads(w, w, f)
  BY DEF Leads

LEMMA LeadsOn ==
  ASSUME SlotAssumption, NEW w, NEW x, NEW y, NEW e, NEW f, Leads(w, x, e), Leads(x, y, f)
  PROVE  Leads(w, y, f)
  BY NoneIsNoResult DEF Leads

LEMMA LeadsSame ==
  ASSUME NEW w, NEW f, Sound(w, f), NEW x, Sound(x, f), SameSlot(x, w)
  PROVE  Leads(w, x, f)
  BY DEF Leads, SameSlot

-----------------------------------------------------------------------------
(* Workspaces *)

LEMMA DeletePendingIs ==
  ASSUME SlotAssumption, NEW w, NEW f, Sound(w, f), NEW t \in Trees, NEW alias \in BOOLEAN,
         ~ DeletePending(w.app, t, alias)
  PROVE  \A j \in w.jobs : j.owner \in Spaces /\ j.kind = "remove" => j.tree # t
  BY DEF DeletePending, Sound, Deletes

LEMMA OpenAtLeads ==
  ASSUME SlotAssumption, NEW w, NEW f, Sound(w, f), NEW t \in Trees, NEW alias \in BOOLEAN,
         NEW o \in OpenAt(w, t, alias)
  PROVE  /\ Leads(w, o.world, f) /\ SameSlot(o.world, w)
         /\ o.ok \in BOOLEAN
         /\ ~ o.ok => o.world = w
<1>0. w \in Worlds
  BY DEF Sound
<1>1. CASE o = [world |-> w, ok |-> FALSE, space |-> Nil]
  BY <1>1, LeadsStay DEF SameSlot
<1>2. CASE o # [world |-> w, ok |-> FALSE, space |-> Nil]
  <2>1. PICK s \in FreeSpaces(w.app) :
          o = [world |-> [w EXCEPT !.app.open[t] = @ \cup {s}], ok |-> TRUE, space |-> s]
    BY <1>2 DEF OpenAt
  <2>2. ~ DeletePending(w.app, t, alias)
    BY <1>2 DEF OpenAt
  <2> DEFINE S == w.app.open[t] \cup {s}
             x == [w EXCEPT !.app.open[t] = S]
  <2>3. S \in SUBSET Spaces
    BY <1>0 DEF FreeSpaces, Worlds, Apps
  <2>4. o.world = x /\ o.ok = TRUE
    BY <2>1
  <2>5. /\ x \in Worlds /\ SameSlot(x, w)
        /\ x.app.busy = w.app.busy /\ x.app.deleting = w.app.deleting
        /\ x.app.task = w.app.task /\ x.app.prompt = w.app.prompt
        /\ x.app.open[t] = S
        /\ \A u \in Trees : u # t => x.app.open[u] = w.app.open[u]
    <3> HIDE DEF S
    <3> QED BY <1>0, <2>3, SetOpen
  <2> HIDE DEF x
  <2>6. Deletes(x)
    <3>1. \A j \in w.jobs : j.owner \in Spaces /\ j.kind = "remove" => j.tree # t
      BY <2>2, DeletePendingIs
    <3>2. \A j \in w.jobs : j.tree \in Trees
      BY <1>0 DEF Worlds, JobTypes
    <3> QED BY <2>5, <3>1, <3>2 DEF Sound, Deletes, SameSlot
  <2>7. BusyOpen(x)
    BY <2>5 DEF Sound, BusyOpen
  <2>8. TasksPlaced(x) /\ Asked(x)
    BY <2>5 DEF Sound, TasksPlaced, Asked
  <2>9. Sound(x, f)
    BY <2>5, <2>6, <2>7, <2>8, SoundSpaces
  <2> QED BY <2>4, <2>5, <2>9, LeadsSame
<1> QED BY <1>1, <1>2

\* Closing workspaces of tree t.
Closes(w, t, gone) == [w EXCEPT !.app.open[t] = @ \ gone, !.app.busy = @ \ gone]

LEMMA ClosesSound ==
  ASSUME NEW w, NEW f, Sound(w, f), NEW t \in Trees, NEW gone \in SUBSET Spaces
  PROVE  LET x == Closes(w, t, gone)
         IN  Sound(x, f) /\ SameSlot(x, w) /\ x.app.open[t] = w.app.open[t] \ gone
             /\ x.app.deleting = w.app.deleting
<1> DEFINE x == [w EXCEPT !.app.open[t] = @ \ gone, !.app.busy = @ \ gone]
           y == [w EXCEPT !.app.open[t] = w.app.open[t] \ gone]
           z == [y EXCEPT !.app.busy = w.app.busy \ gone]
<1>0. w \in Worlds
  BY DEF Sound
<1>1. x = z
  BY <1>0 DEF Worlds, Apps
<1>2. w.app.open[t] \ gone \in SUBSET Spaces /\ w.app.busy \ gone \in SUBSET Spaces
  BY <1>0 DEF Worlds, Apps
<1>3. /\ y \in Worlds /\ SameSlot(y, w)
      /\ y.app.busy = w.app.busy /\ y.app.deleting = w.app.deleting
      /\ y.app.task = w.app.task /\ y.app.prompt = w.app.prompt
      /\ y.app.open[t] = w.app.open[t] \ gone
      /\ \A u \in Trees : u # t => y.app.open[u] = w.app.open[u]
  BY <1>0, <1>2, SetOpen
<1> HIDE DEF y
<1>4. /\ z \in Worlds /\ SameSlot(z, y)
      /\ z.app.open = y.app.open /\ z.app.deleting = y.app.deleting
      /\ z.app.task = y.app.task /\ z.app.prompt = y.app.prompt
      /\ z.app.busy = w.app.busy \ gone
  BY <1>2, <1>3, SetBusy
<1> HIDE DEF z
<1>5. SameSlot(z, w)
  BY <1>3, <1>4 DEF SameSlot
<1>6. \A u \in Trees : z.app.open[u] \subseteq w.app.open[u]
                     /\ w.app.open[u] \subseteq z.app.open[u] \cup gone
  BY <1>3, <1>4
<1>7. BusyOpen(z)
  BY <1>4, <1>6 DEF Sound, BusyOpen
<1>8. Deletes(z)
  <2>1. \A j \in w.jobs : j.tree \in Trees
    BY <1>0 DEF Worlds, JobTypes
  <2> QED BY <1>3, <1>4, <1>5, <1>6, <2>1 DEF Sound, Deletes, SameSlot
<1>9. TasksPlaced(z) /\ Asked(z)
  BY <1>3, <1>4 DEF Sound, TasksPlaced, Asked
<1>10. z.app.open[t] = w.app.open[t] \ gone /\ z.app.deleting = w.app.deleting
  BY <1>3, <1>4
<1>11. Sound(z, f)
  BY <1>4, <1>5, <1>7, <1>8, <1>9, SoundSpaces
<1> HIDE DEF x
<1> QED BY <1>1, <1>5, <1>10, <1>11 DEF x, Closes

LEMMA CloseSpaceSound ==
  ASSUME NEW w, NEW f, Sound(w, f), NEW t \in Trees, NEW s \in Spaces
  PROVE  LET x == CloseSpace(w, t, s)
         IN  Sound(x, f) /\ SameSlot(x, w) /\ x.app.open[t] = w.app.open[t] \ {s}
             /\ x.app.deleting = w.app.deleting
<1>1. {s} \in SUBSET Spaces
  OBVIOUS
<1>2. CloseSpace(w, t, s) = Closes(w, t, {s})
  BY DEF CloseSpace, Closes
<1> QED BY <1>1, <1>2, ClosesSound

LEMMA CloseAllSound ==
  ASSUME NEW w, NEW f, Sound(w, f), NEW t \in Trees
  PROVE  LET x == CloseAll(w, t)
         IN  Sound(x, f) /\ SameSlot(x, w) /\ x.app.deleting = w.app.deleting
<1>1. w.app.open[t] \in SUBSET Spaces
  BY DEF Sound, Worlds, Apps
<1>2. CloseAll(w, t) = Closes(w, t, w.app.open[t])
  BY DEF CloseAll, Closes, Sound, Worlds, Apps
<1> QED BY <1>1, <1>2, ClosesSound

-----------------------------------------------------------------------------
(* Trees *)

LEMMA TreeGone ==
  ASSUME SlotAssumption, NEW w, NEW t \in Trees, NEW f \in {Nil, t}, Sound(w, f)
  PROVE  LET x == [w EXCEPT !.disk[t] = "none"]
         IN  /\ Sound(x, Nil) /\ x.app = w.app /\ x.jobs = w.jobs
             /\ \A u \in Trees : u # t => x.disk[u] = w.disk[u]
<1> DEFINE x == [w EXCEPT !.disk[t] = "none"]
<1>1. /\ x \in Worlds /\ x.app = w.app /\ x.jobs = w.jobs /\ x.disk[t] = "none"
      /\ \A u \in Trees : u # t => x.disk[u] = w.disk[u]
  BY SetDisk DEF Sound
<1> HIDE DEF x
<1>2. \A u \in Trees : Finds(x, u) <=> Finds(w, u)
  BY <1>1 DEF Finds
<1>3. Orphanless(x, Nil) /\ Unkept(x)
  BY <1>1, <1>2, NoneIsNoResult DEF Sound, Orphanless, Unkept
<1>4. Sound(x, Nil)
  BY <1>1, <1>3 DEF Sound, OneSlot, Deletes, TasksPlaced, BusyOpen, Asked
<1> QED BY <1>1, <1>4 DEF x

\* No result that is still to be applied can be of a tree that is taken over now.
SlotSettled(w) ==
  w.app.ready = Nil /\ (Providers = {"module", "git"} \/ \A j \in w.jobs : ~ j.slot)

LEMMA TreeKept ==
  ASSUME SlotAssumption, NEW w, NEW t \in Trees, NEW f \in {Nil, t}, Sound(w, f), SlotSettled(w)
  PROVE  LET x == Keep(w, t)
         IN  /\ Sound(x, Nil) /\ x.app = w.app /\ x.jobs = w.jobs
             /\ \A u \in Trees : w.disk[u] = "kept" => x.disk[u] = "kept"
<1> DEFINE x == Keep(w, t)
<1>1. /\ x \in Worlds /\ x.app = w.app /\ x.jobs = w.jobs /\ x.disk[t] = "kept"
      /\ \A u \in Trees : u # t => x.disk[u] = w.disk[u]
  BY SetDisk DEF Sound, Keep
<1> HIDE DEF x
<1>2. \A u \in Trees : Finds(x, u) <=> Finds(w, u)
  BY <1>1 DEF Finds
<1>3. Providers = {"module", "git"} \/ ~ Finds(w, t)
  BY NoneIsNoResult DEF Finds, SlotSettled
<1>4. Orphanless(x, Nil) /\ Unkept(x)
  BY <1>1, <1>2, <1>3, NoneIsNoResult DEF Sound, Orphanless, Unkept
<1>5. Sound(x, Nil)
  BY <1>1, <1>4 DEF Sound, OneSlot, Deletes, TasksPlaced, BusyOpen, Asked
<1> QED BY <1>1, <1>5 DEF x

LEMMA TreeMade ==
  ASSUME SlotAssumption, NEW w, NEW t \in Trees, Sound(w, Nil), w.disk[t] = "none"
  PROVE  LET x == [w EXCEPT !.disk[t] = "made"]
         IN  /\ Sound(x, t) /\ x.app = w.app /\ x.jobs = w.jobs /\ x.disk[t] = "made"
             /\ \A u \in Trees : u # t => x.disk[u] = w.disk[u]
<1> DEFINE x == [w EXCEPT !.disk[t] = "made"]
<1>1. /\ x \in Worlds /\ x.app = w.app /\ x.jobs = w.jobs /\ x.disk[t] = "made"
      /\ \A u \in Trees : u # t => x.disk[u] = w.disk[u]
  BY SetDisk DEF Sound
<1> HIDE DEF x
<1>2. \A u \in Trees : Finds(x, u) <=> Finds(w, u)
  BY <1>1 DEF Finds
<1>3. Orphanless(x, t) /\ Unkept(x)
  BY <1>1, <1>2, NoneIsNoResult DEF Sound, Orphanless, Unkept
<1>4. Sound(x, t)
  BY <1>1, <1>3 DEF Sound, OneSlot, Deletes, TasksPlaced, BusyOpen, Asked
<1> QED BY <1>1, <1>4 DEF x

-----------------------------------------------------------------------------
(* The result that is ready *)

Taken(w) == [w EXCEPT !.app.ready = Nil]

\* Its tree is without an owner when it has been taken.
LEMMA TakenSound ==
  ASSUME SlotAssumption, NEW w, Sound(w, Nil), w.app.ready # Nil
  PROVE  LET x == Taken(w)  r == w.app.ready
         IN  /\ x.disk = w.disk /\ x.jobs = w.jobs /\ x.app.ready = Nil
             /\ x.app.inflight = w.app.inflight /\ SameSpaces(x, w)
             /\ r \in Results /\ Sound(x, r.tree)
             /\ r # Created(r.tree, TRUE) => Sound(x, Nil)
             /\ \A j \in x.jobs : ~ j.slot
<1> DEFINE x == Taken(w)
           r == w.app.ready
<1>0. r \in Results
  BY DEF Sound, Worlds, Apps, Maybe
<1>1. /\ x \in Worlds /\ x.disk = w.disk /\ x.jobs = w.jobs /\ SameSpaces(x, w)
      /\ x.app.inflight = w.app.inflight /\ x.app.ready = Nil
      /\ x.app.task = w.app.task /\ x.app.prompt = w.app.prompt
  <2>1. Nil \in Maybe(Results)
    BY DEF Maybe
  <2> QED BY <2>1, SetReady DEF Sound, Taken
<1> HIDE DEF x
<1>2. \A j \in w.jobs : ~ j.slot
  BY DEF Sound, OneSlot
<1>3. \A u \in Trees : ~ Finds(x, u)
  BY <1>1, <1>2, NoneIsNoResult DEF Finds
<1>4. \A u \in Trees : Finds(w, u) => r = Created(u, TRUE) /\ u = r.tree
  BY <1>2 DEF Finds, Created
<1>5. Orphanless(x, r.tree) /\ (r # Created(r.tree, TRUE) => Orphanless(x, Nil))
  BY <1>1, <1>4, NoneIsNoResult DEF Sound, Orphanless
<1>6. OneSlot(x) /\ Unkept(x)
  BY <1>1, <1>3 DEF Sound, OneSlot, Unkept
<1>7. Deletes(x) /\ BusyOpen(x) /\ TasksPlaced(x) /\ Asked(x)
  BY <1>1 DEF Sound, Deletes, BusyOpen, TasksPlaced, Asked, SameSpaces
<1>8. Sound(x, r.tree) /\ (r # Created(r.tree, TRUE) => Sound(x, Nil))
  BY <1>1, <1>5, <1>6, <1>7 DEF Sound
<1> QED BY <1>0, <1>1, <1>2, <1>8 DEF x

LEMMA CleanupLeads ==
  ASSUME SlotAssumption, NEW w, Sound(w, Nil), w.app.ready # Nil
  PROVE  LET x == Cleanup(Taken(w), w.app.ready)
         IN  /\ Leads(w, x, Nil) /\ x.app.ready = Nil
             /\ x.jobs = w.jobs /\ SameSpaces(x, w)
<1> DEFINE y == Taken(w)
           r == w.app.ready
           x == Cleanup(y, r)
<1>1. /\ y.disk = w.disk /\ y.jobs = w.jobs /\ y.app.ready = Nil
      /\ y.app.inflight = w.app.inflight /\ SameSpaces(y, w)
      /\ r \in Results /\ Sound(y, r.tree)
      /\ r # Created(r.tree, TRUE) => Sound(y, Nil)
  BY TakenSound
<1>2. r.tree \in Trees
  BY <1>1, ResultIs
<1> HIDE DEF y
<1>3. CASE r.kind = "create" /\ r.made
  <2>1. x = [y EXCEPT !.disk[r.tree] = "none"]
    BY <1>3 DEF Cleanup
  <2>2. /\ Sound(x, Nil) /\ x.app = y.app /\ x.jobs = y.jobs
        /\ \A u \in Trees : u # r.tree => x.disk[u] = y.disk[u]
    BY <1>1, <1>2, <2>1, TreeGone
  <2>3. r = Created(r.tree, TRUE)
    BY <1>1, <1>3, ResultIs, ResultFields
  <2> HIDE DEF x
  <2> QED BY <1>1, <2>2, <2>3 DEF Leads, SameSpaces, x, y
<1>4. CASE ~ (r.kind = "create" /\ r.made)
  <2>1. x = y
    BY <1>4 DEF Cleanup
  <2>2. r # Created(r.tree, TRUE)
    BY <1>4 DEF Created
  <2> QED BY <1>1, <2>1, <2>2 DEF Leads, y
<1> QED BY <1>3, <1>4

LEMMA DiscardLeads ==
  ASSUME SlotAssumption, NEW w, Sound(w, Nil)
  PROVE  Leads(w, Discard(w), Nil) /\ Discard(w).app.ready = Nil
<1>1. CASE w.app.ready = Nil
  BY <1>1, LeadsStay DEF Discard
<1>2. CASE w.app.ready # Nil
  BY <1>2, CleanupLeads DEF Discard, Taken
<1> QED BY <1>1, <1>2

-----------------------------------------------------------------------------
(* Creating a tree *)

\* A request has its tree open, and may still have to take it over.
Opened(w, a, t) ==
  /\ Leads(w, a.world, t) /\ SlotSettled(a.world)
  /\ ~ a.made => Sound(a.world, Nil)
  /\ a.made => a.world.disk[t] # "kept" \/ w.app.ready = Created(t, TRUE)
  /\ a.space # Nil => a.space \in Spaces

\* An answer is a record of its fields.
Whole(a) ==
  a = [world |-> a.world, says |-> a.says, tree |-> a.tree, made |-> a.made, space |-> a.space]

CreateIs(w, a, t) ==
  /\ Whole(a) /\ a.tree = t /\ a.made \in BOOLEAN
  /\ \/ a.says = "failed" /\ Leads(w, a.world, Nil) /\ a.world.app.ready = Nil
     \/ /\ a.says = "pending" /\ a.world = w /\ w.app.ready = Nil
        /\ ~ w.app.inflight /\ "module" \in Providers
     \/ a.says = "opened" /\ Opened(w, a, t)

LEMMA OpenAtSpace ==
  ASSUME NEW w, NEW t, NEW alias, NEW o \in OpenAt(w, t, alias)
  PROVE  IF o.ok THEN o.space \in Spaces ELSE o.space = Nil
  BY DEF OpenAt, FreeSpaces

LEMMA ByGit ==
  ASSUME SlotAssumption, NEW w, Sound(w, Nil), w.app.ready = Nil, NEW t \in Trees,
         "git" \in Providers, NEW a \in CreateByGit(w, t)
  PROVE  CreateIs(w, a, t)
<1>1. CASE w.disk[t] # "none"
  <2>1. a = Answer(w, "failed", t)
    BY <1>1 DEF CreateByGit
  <2> QED BY <2>1, LeadsStay DEF Answer, CreateIs, Whole
<1>2. CASE w.disk[t] = "none"
  <2> DEFINE x == [w EXCEPT !.disk[t] = "made"]
  <2>1. /\ Sound(x, t) /\ x.app = w.app /\ x.jobs = w.jobs /\ x.disk[t] = "made"
        /\ \A u \in Trees : u # t => x.disk[u] = w.disk[u]
    BY <1>2, TreeMade
  <2>2. PICK o \in OpenAt(x, t, FALSE) :
          a = [Answer(o.world, "opened", t) EXCEPT !.made = TRUE, !.space = o.space]
    BY <1>2 DEF CreateByGit
  <2> HIDE DEF x
  <2>3. /\ a.tree = t /\ a.made = TRUE /\ a.says = "opened" /\ a.world = o.world
        /\ a.space = o.space /\ Whole(a)
    BY <2>2 DEF Answer, Whole
  <2>4. Leads(x, o.world, t) /\ SameSlot(o.world, x)
    BY <2>1, OpenAtLeads
  <2>5. Leads(w, o.world, t)
    BY <1>2, <2>1, <2>4 DEF Leads
  <2>6. SlotSettled(o.world)
    <3>1. Providers = {"module", "git"} \/ "module" \notin Providers
      BY DEF SlotAssumption
    <3>2. \A j \in w.jobs : j.slot => "module" \in Providers
      BY DEF Sound, JobOK
    <3> QED BY <2>1, <2>4, <3>1, <3>2 DEF SlotSettled, SameSlot
  <2>7. o.world.disk[t] # "kept"
    BY <2>1, <2>4 DEF SameSlot
  <2>8. a.space # Nil => a.space \in Spaces
    BY <2>3, OpenAtSpace
  <2> QED BY <2>3, <2>5, <2>6, <2>7, <2>8 DEF CreateIs, Opened
<1> QED BY <1>1, <1>2

LEMMA FromResult ==
  ASSUME SlotAssumption, NEW w, Sound(w, Nil), NEW t \in Trees, Matches(w.app.ready, t),
         NEW a \in CreateFromResult(w, w.app.ready)
  PROVE  CreateIs(w, a, t)
<1> DEFINE x == Taken(w)
           r == w.app.ready
<1>1. /\ x.disk = w.disk /\ x.jobs = w.jobs /\ x.app.ready = Nil
      /\ x.app.inflight = w.app.inflight /\ SameSpaces(x, w)
      /\ r \in Results /\ Sound(x, r.tree)
      /\ r # Created(r.tree, TRUE) => Sound(x, Nil)
      /\ \A j \in x.jobs : ~ j.slot
  BY TakenSound DEF Matches
<1>2. r.tree = t /\ r.made \in BOOLEAN /\ r = Created(t, r.made)
  BY <1>1, ResultIs DEF Matches
<1>3. Leads(w, x, t) /\ (~ r.made => Sound(x, Nil))
  BY <1>1, <1>2 DEF Leads, Created
<1>4. PICK o \in OpenAt(x, t, FALSE) :
        a = IF o.ok
            THEN [Answer(o.world, "opened", t) EXCEPT !.made = r.made, !.space = o.space]
            ELSE Answer(Cleanup(x, r), "failed", t)
  BY <1>2 DEF CreateFromResult, Taken
<1> HIDE DEF x
<1>5. CASE ~ o.ok
  <2>1. /\ a.tree = t /\ a.made = FALSE /\ a.says = "failed" /\ a.world = Cleanup(x, r)
        /\ Whole(a)
    BY <1>4, <1>5 DEF Answer, Whole
  <2>2. Leads(w, a.world, Nil) /\ a.world.app.ready = Nil
    BY <2>1, CleanupLeads DEF x, Matches
  <2> QED BY <2>1, <2>2 DEF CreateIs
<1>6. CASE o.ok
  <2>1. /\ a.tree = t /\ a.made = r.made /\ a.says = "opened" /\ a.world = o.world
        /\ a.space = o.space /\ Whole(a)
    BY <1>4, <1>6 DEF Answer, Whole
  <2>2. Leads(x, o.world, t) /\ SameSlot(o.world, x)
    BY <1>1, <1>2, OpenAtLeads
  <2>3. Leads(w, o.world, t)
    BY <1>3, <2>2, LeadsOn
  <2>4. ~ r.made => Sound(o.world, Nil)
    BY <1>3, OpenAtLeads DEF Leads
  <2>5. SlotSettled(o.world)
    BY <1>1, <2>2 DEF SlotSettled, SameSlot
  <2>6. r.made => r = Created(t, TRUE)
    BY <1>2
  <2>7. a.space # Nil => a.space \in Spaces
    BY <1>6, <2>1, OpenAtSpace
  <2> QED BY <1>2, <2>1, <2>3, <2>4, <2>5, <2>6, <2>7 DEF CreateIs, Opened
<1> QED BY <1>5, <1>6

LEMMA CreateTreeIs ==
  ASSUME SlotAssumption, NEW w, Sound(w, Nil), NEW t \in Trees, NEW a \in CreateTree(w, t)
  PROVE  CreateIs(w, a, t)
<1>1. CASE Matches(w.app.ready, t)
  BY <1>1, FromResult DEF CreateTree
<1>2. CASE ~ Matches(w.app.ready, t) /\ w.app.ready # Nil
  <2>1. a = Answer(Discard(w), "failed", t)
    BY <1>2 DEF CreateTree
  <2> QED BY <2>1, DiscardLeads DEF Answer, CreateIs, Whole
<1>3. CASE w.app.ready = Nil
  <2>1. ~ Matches(w.app.ready, t)
    BY <1>3 DEF Matches
  <2>2. CASE "git" \in Providers /\ a \in CreateByGit(w, t)
    BY <1>3, <2>2, ByGit
  <2>3. CASE "module" \in Providers /\ a \in ByModule(w, t)
    <3>1. a = Answer(w, IF w.app.inflight THEN "failed" ELSE "pending", t)
      BY <2>3 DEF ByModule
    <3>2. /\ a.tree = t /\ a.made = FALSE /\ a.world = w /\ Whole(a)
          /\ a.says = IF w.app.inflight THEN "failed" ELSE "pending"
      BY <3>1 DEF Answer, Whole
    <3>3. Leads(w, w, Nil)
      BY LeadsStay
    <3> QED BY <1>3, <2>3, <3>2, <3>3 DEF CreateIs
  <2> QED BY <1>3, <2>1, <2>2, <2>3 DEF CreateTree
<1> QED BY <1>1, <1>2, <1>3

-----------------------------------------------------------------------------
(* Jobs *)

AddJob(w, j) ==
  LET added == [w EXCEPT !.jobs = @ \cup {j}]
  IN  IF j.slot THEN [added EXCEPT !.app.inflight = TRUE] ELSE added

\* What a new job needs.
MayAdd(w, j) ==
  /\ j \in JobTypes /\ JobOK(j) /\ ~ j.done /\ j.result = Nil
  /\ j.slot => ~ w.app.inflight /\ w.app.ready = Nil
  /\ j.owner \in Spaces =>
       /\ \A i \in w.jobs : i.owner # j.owner
       /\ w.app.deleting[j.owner] # Nil /\ w.app.deleting[j.owner].tree = j.tree
       /\ j.kind = "remove" => w.app.deleting[j.owner].resolved /\ w.app.open[j.tree] = {}

LEMMA AddJobSound ==
  ASSUME SlotAssumption, NEW w, Sound(w, Nil), NEW j, MayAdd(w, j)
  PROVE  LET x == AddJob(w, j)
         IN  /\ Sound(x, Nil) /\ x.jobs = w.jobs \cup {j} /\ x.disk = w.disk
             /\ x.app.ready = w.app.ready /\ SameSpaces(x, w)
<1> DEFINE x == AddJob(w, j)
<1>0. j \in JobTypes /\ w \in Worlds /\ j.slot \in BOOLEAN /\ w.app.inflight \in BOOLEAN
  BY DEF MayAdd, Sound, JobTypes, Worlds, Apps
<1>1. /\ x \in Worlds /\ x.jobs = w.jobs \cup {j} /\ x.disk = w.disk /\ SameSpaces(x, w)
      /\ x.app.inflight = (w.app.inflight \/ j.slot) /\ x.app.ready = w.app.ready
      /\ x.app.task = w.app.task /\ x.app.prompt = w.app.prompt
  <2>1. CASE j.slot
    BY <1>0, <2>1 DEF AddJob, Worlds, Apps, SameSpaces
  <2>2. CASE ~ j.slot
    BY <1>0, <2>2 DEF AddJob, Worlds, Apps, SameSpaces
  <2> QED BY <1>0, <2>1, <2>2
<1> HIDE DEF x
<1>2. \A i \in x.jobs : JobOK(i)
  BY <1>1 DEF Sound, MayAdd
<1>3. OneSlot(x)
  BY <1>0, <1>1 DEF Sound, OneSlot, MayAdd
<1>4. \A u \in Trees : Finds(x, u) <=> Finds(w, u)
  BY <1>1, NoneIsNoResult DEF Finds, MayAdd
<1>5. Orphanless(x, Nil) /\ Unkept(x)
  BY <1>1, <1>4 DEF Sound, Orphanless, Unkept
<1>6. Deletes(x)
  BY <1>1 DEF Sound, Deletes, SameSpaces, MayAdd
<1>7. BusyOpen(x) /\ TasksPlaced(x) /\ Asked(x)
  BY <1>1 DEF Sound, BusyOpen, TasksPlaced, Asked, SameSpaces
<1>8. Sound(x, Nil)
  BY <1>1, <1>2, <1>3, <1>5, <1>6, <1>7 DEF Sound
<1> QED BY <1>1, <1>8 DEF x

Requester(owner, kind) ==
  \/ owner \in Calls /\ kind \in {"create", "remove"}
  \/ owner \in Runs \cup {Prompt} /\ kind = "create"

\* A parked request, and its job.
Parked(w, x, owner, kind, t) ==
  /\ Sound(x, Nil) /\ x.disk = w.disk /\ x.app.ready = Nil
  /\ \E j \in JobTypes : j.owner = owner /\ j.kind = kind /\ j.tree = t
                         /\ x.jobs = w.jobs \cup {j}

LEMMA ScheduleRaw ==
  ASSUME NEW w \in Worlds, NEW owner, NEW kind, NEW t, NEW force,
         NEW o \in Schedule(w, owner, kind, t, force)
  PROVE  \/ o.ok = FALSE /\ o.world = w
         \/ o.ok = TRUE /\ o.world = AddJob(w, Job(owner, kind, t, TRUE, force, FALSE))
<1> DEFINE j == Job(owner, kind, t, TRUE, force, FALSE)
           x == AddJob(w, j)
<1>0. j.slot = TRUE
  BY DEF Job
<1>1. \/ o.ok = FALSE /\ o.world = w
      \/ o.ok = TRUE /\ o.world = [[w EXCEPT !.jobs = @ \cup {j}] EXCEPT !.app.inflight = TRUE]
  <2> DEFINE y == [w EXCEPT !.jobs = @ \cup {j}]
  <2>1. PICK p \in {[world |-> w, ok |-> FALSE], [world |-> y, ok |-> TRUE]} :
          o = IF p.ok THEN [p EXCEPT !.world.app.inflight = TRUE] ELSE p
    BY DEF Schedule, Submit
  <2> HIDE DEF y
  <2>2. \/ o.ok = FALSE /\ o.world = w
        \/ o.ok = TRUE /\ o.world = [y EXCEPT !.app.inflight = TRUE]
    <3>1. CASE p = [world |-> w, ok |-> FALSE]
      BY <2>1, <3>1
    <3>2. CASE p = [world |-> y, ok |-> TRUE]
      <4>1. o = [p EXCEPT !.world.app.inflight = TRUE]
        BY <2>1, <3>2
      <4>2. o.ok = TRUE /\ o.world = [p.world EXCEPT !.app.inflight = TRUE]
        BY <3>2, <4>1
      <4> QED BY <3>2, <4>2
    <3> QED BY <2>1, <3>1, <3>2
  <2> QED BY <2>2 DEF y
<1>2. [[w EXCEPT !.jobs = @ \cup {j}] EXCEPT !.app.inflight = TRUE] = x
  <2> HIDE DEF j
  <2> QED BY <1>0 DEF AddJob
<1> HIDE DEF j, x
<1>3. \/ o.ok = FALSE /\ o.world = w
      \/ o.ok = TRUE /\ o.world = x
  BY <1>1, <1>2
<1> QED BY <1>3 DEF x, j

LEMMA SubmitRaw ==
  ASSUME NEW w \in Worlds, NEW j, j.slot = FALSE, NEW o \in Submit(w, j)
  PROVE  \/ o.ok = FALSE /\ o.world = w
         \/ o.ok = TRUE /\ o.world = AddJob(w, j)
<1> DEFINE y == [w EXCEPT !.jobs = @ \cup {j}]
<1>1. y = AddJob(w, j)
  BY DEF AddJob
<1>2. o \in {[world |-> w, ok |-> FALSE], [world |-> y, ok |-> TRUE]}
  BY DEF Submit
<1> HIDE DEF y
<1> QED BY <1>1, <1>2

LEMMA ScheduleIs ==
  ASSUME SlotAssumption, NEW w, Sound(w, Nil), w.app.ready = Nil, ~ w.app.inflight,
         "module" \in Providers, NEW owner, NEW kind, Requester(owner, kind),
         NEW t \in Trees, NEW force \in BOOLEAN, NEW o \in Schedule(w, owner, kind, t, force)
  PROVE  o.ok \in BOOLEAN /\ IF o.ok THEN Parked(w, o.world, owner, kind, t) ELSE o.world = w
<1> DEFINE j == Job(owner, kind, t, TRUE, force, FALSE)
           x == AddJob(w, j)
<1>1. /\ j.owner = owner /\ j.kind = kind /\ j.tree = t /\ j.slot = TRUE /\ j.force = force
      /\ j.others = FALSE /\ j.done = FALSE /\ j.result = Nil
  BY DEF Job
<1>2. j \in JobTypes /\ JobOK(j)
  <2>1. owner \in Calls \cup Runs \cup Spaces \cup {Prompt} /\ kind \in {"create", "remove", "check"}
        /\ Nil \in Maybe(Results)
    BY DEF Requester, Maybe
  <2>2. j \in JobTypes
    BY <2>1 DEF JobTypes, Owners, Job
  <2>3. JobOK(j)
    <3> HIDE DEF j
    <3> QED BY <1>1 DEF JobOK, Requester, SlotAssumption
  <2> QED BY <2>2, <2>3
<1>3. owner \notin Spaces
  BY DEF Requester, SlotAssumption
<1>4. MayAdd(w, j)
  <2> HIDE DEF j
  <2> QED BY <1>1, <1>2, <1>3 DEF MayAdd
<1>5. \/ o.ok = FALSE /\ o.world = w
      \/ o.ok = TRUE /\ o.world = x
  BY ScheduleRaw DEF Sound
<1>7. /\ Sound(x, Nil) /\ x.jobs = w.jobs \cup {j} /\ x.disk = w.disk
      /\ x.app.ready = w.app.ready /\ SameSpaces(x, w)
  <2> HIDE DEF j
  <2> QED BY <1>4, AddJobSound
<1> HIDE DEF j, x
<1>8. Parked(w, x, owner, kind, t)
  BY <1>1, <1>2, <1>7 DEF Parked
<1> QED BY <1>5, <1>8

-----------------------------------------------------------------------------
(* Tasks and runs *)

LEMMA RollbackLeads ==
  ASSUME SlotAssumption, NEW w, Sound(w, Nil), NEW t \in Trees, NEW a, Opened(w, a, t),
         a.tree = t, a.made \in BOOLEAN
  PROVE  Leads(w, Rollback(a), Nil)
<1> DEFINE x == IF a.space = Nil THEN a.world ELSE CloseSpace(a.world, a.tree, a.space)
<1>1. Sound(a.world, t) /\ Leads(w, a.world, t)
  BY DEF Opened, Leads
<1>2. /\ \A f : Sound(a.world, f) => Sound(x, f)
      /\ SameSlot(x, a.world)
  <2>1. CASE a.space = Nil
    BY <2>1 DEF SameSlot
  <2>2. CASE a.space # Nil
    <3>1. a.space \in Spaces
      BY <2>2 DEF Opened
    <3> QED BY <1>1, <2>2, <3>1, CloseSpaceSound
  <2> QED BY <2>1, <2>2
<1> HIDE DEF x
<1>3. Leads(w, x, t)
  <2>1. Leads(a.world, x, t)
    BY <1>1, <1>2, LeadsSame
  <2> QED BY <1>1, <2>1, LeadsOn
<1>4. CASE a.made
  <2> DEFINE y == [x EXCEPT !.disk[t] = "none"]
  <2>1. Rollback(a) = y
    BY <1>4 DEF Rollback, x
  <2>2. /\ Sound(y, Nil) /\ y.app = x.app /\ y.jobs = x.jobs
        /\ \A u \in Trees : u # t => y.disk[u] = x.disk[u]
    <3>1. Sound(x, t)
      BY <1>3 DEF Leads
    <3> QED BY <3>1, TreeGone
  <2> HIDE DEF y
  <2>3. ~ (w.disk[t] = "kept" /\ w.app.ready # Created(t, TRUE))
    <3>1. x.disk[t] # "kept" \/ w.app.ready = Created(t, TRUE)
      BY <1>2, <1>4 DEF Opened, SameSlot
    <3> QED BY <1>3, <3>1 DEF Leads
  <2>4. Leads(w, y, Nil)
    BY <1>3, <2>2, <2>3 DEF Leads
  <2> QED BY <2>1, <2>4
<1>5. CASE ~ a.made
  <2>1. Rollback(a) = x
    BY <1>5 DEF Rollback, x
  <2>2. Sound(x, Nil)
    BY <1>2, <1>5 DEF Opened
  <2>3. Leads(w, x, Nil)
    BY <1>3, <2>2 DEF Leads
  <2> QED BY <2>1, <2>3
<1> QED BY <1>4, <1>5

LEMMA BindLeads ==
  ASSUME SlotAssumption, NEW w, Sound(w, Nil), NEW k \in Tasks
  PROVE  Leads(w, Bind(w, k, BranchOf[k]), Nil)
<1> DEFINE v == [status |-> "running", place |-> BranchOf[k]]
           x == Bind(w, k, BranchOf[k])
<1>1. v \in [status : Statuses, place : Maybe(Trees)] /\ v.place = BranchOf[k]
  BY DEF SlotAssumption, Statuses, Maybe
<1>2. /\ x \in Worlds /\ SameSlot(x, w) /\ SameSpaces(x, w)
      /\ x.app.prompt = w.app.prompt /\ x.app.task[k].place = BranchOf[k]
      /\ \A l \in Tasks : l # k => x.app.task[l] = w.app.task[l]
  <2>1. x = [w EXCEPT !.app.task[k] = v]
    BY DEF Bind
  <2> HIDE DEF v
  <2> QED BY <1>1, <2>1, SetPlace DEF Sound
<1> HIDE DEF x
<1>3. TasksPlaced(x) /\ Asked(x)
  BY <1>2 DEF Sound, TasksPlaced, Asked
<1>4. Sound(x, Nil)
  BY <1>2, <1>3, SoundSame
<1> QED BY <1>2, <1>4, LeadsSame DEF x

LEMMA EndRunLeads ==
  ASSUME NEW w, Sound(w, Nil), NEW r \in Runs, NEW v \in {"pending", "running", "failed"}
  PROVE  Leads(w, EndRun(w, r, v), Nil)
<1> DEFINE x == EndRun(w, r, v)
<1>1. /\ x \in Worlds /\ SameSlot(x, w) /\ SameSpaces(x, w)
      /\ x.app.prompt = w.app.prompt /\ x.app.task = w.app.task
  <2>1. v \in {"none", "pending", "running", "failed"} /\ w \in Worlds
    BY DEF Sound
  <2> QED BY <2>1, SetRun
<1> HIDE DEF x
<1>2. TasksPlaced(x) /\ Asked(x)
  BY <1>1 DEF Sound, TasksPlaced, Asked
<1>3. Sound(x, Nil)
  BY <1>1, <1>2, SoundSame
<1> QED BY <1>1, <1>3, LeadsSame DEF x

LEMMA StatusLeads ==
  ASSUME NEW w, Sound(w, Nil), NEW k \in Tasks, NEW v \in Statuses
  PROVE  Leads(w, [w EXCEPT !.app.task[k].status = v], Nil)
<1> DEFINE x == [w EXCEPT !.app.task[k].status = v]
<1>1. /\ x \in Worlds /\ SameSlot(x, w) /\ SameSpaces(x, w)
      /\ x.app.prompt = w.app.prompt
      /\ \A l \in Tasks : x.app.task[l].place = w.app.task[l].place
  BY SetTaskStatus DEF Sound
<1> HIDE DEF x
<1>2. TasksPlaced(x) /\ Asked(x)
  BY <1>1 DEF Sound, TasksPlaced, Asked
<1>3. Sound(x, Nil)
  BY <1>1, <1>2, SoundSame
<1> QED BY <1>1, <1>3, LeadsSame DEF x

LEMMA SavingLeads ==
  ASSUME NEW w, Sound(w, Nil), NEW v \in BOOLEAN
  PROVE  Leads(w, [w EXCEPT !.app.saving = v], Nil)
<1> DEFINE x == [w EXCEPT !.app.saving = v]
<1>1. /\ x \in Worlds /\ SameSlot(x, w) /\ SameSpaces(x, w)
      /\ x.app.prompt = w.app.prompt /\ x.app.task = w.app.task
  BY SetSaving DEF Sound
<1> HIDE DEF x
<1>2. TasksPlaced(x) /\ Asked(x)
  BY <1>1 DEF Sound, TasksPlaced, Asked
<1>3. Sound(x, Nil)
  BY <1>1, <1>2, SoundSame
<1> QED BY <1>1, <1>3, LeadsSame DEF x

LEMMA FailRunLeads ==
  ASSUME SlotAssumption, NEW w, Sound(w, Nil), NEW r \in Runs
  PROVE  Leads(w, FailRun(w, r), Nil)
<1> DEFINE x == [w EXCEPT !.app.task[r].status = "failed"]
<1>1. Leads(w, x, Nil)
  BY StatusLeads DEF SlotAssumption, Statuses
<1>2. FailRun(w, r) = EndRun(x, r, "failed")
  BY DEF FailRun
<1> HIDE DEF x
<1>3. Leads(x, EndRun(x, r, "failed"), Nil)
  BY <1>1, EndRunLeads DEF Leads
<1> QED BY <1>1, <1>2, <1>3, LeadsOn

\* The answer of a start.
StartIs(w, b) ==
  \/ b.says \in {"started", "failed"} /\ Leads(w, b.world, Nil)
  \/ /\ b.says = "pending" /\ b.world = w /\ w.app.ready = Nil
     /\ ~ w.app.inflight /\ "module" \in Providers

LEMMA Answers ==
  /\ \A w : Failed(w).says = "failed" /\ Failed(w).world = w
  /\ \A w, k, t : StartedTask(w, k, t).says = "started" /\ StartedTask(w, k, t).world = Bind(w, k, t)
  BY DEF Failed, StartedTask

LEMMA LaunchIs ==
  ASSUME SlotAssumption, NEW w, Sound(w, Nil), NEW k \in Tasks, NEW a, Opened(w, a, BranchOf[k]),
         a.tree = BranchOf[k], a.made \in BOOLEAN, NEW b \in Launch(a, k)
  PROVE  StartIs(w, b)
<1> DEFINE t == BranchOf[k]
           x == Keep(a.world, t)
<1>1. t \in Trees
  BY DEF SlotAssumption
<1>2. CASE b = Failed(Rollback(a))
  BY <1>1, <1>2, RollbackLeads, Answers DEF StartIs
<1>3. CASE b = StartedTask(x, k, t)
  <2>1. Leads(w, a.world, t) /\ Sound(a.world, t) /\ SlotSettled(a.world)
    BY DEF Opened, Leads
  <2>2. /\ Sound(x, Nil) /\ x.app = a.world.app /\ x.jobs = a.world.jobs
        /\ \A u \in Trees : a.world.disk[u] = "kept" => x.disk[u] = "kept"
    BY <1>1, <2>1, TreeKept
  <2> HIDE DEF x, t
  <2>3. Leads(w, x, Nil)
    BY <2>1, <2>2 DEF Leads
  <2>4. Leads(w, Bind(x, k, t), Nil)
    BY <2>2, <2>3, BindLeads, LeadsOn DEF t
  <2> QED BY <1>3, <2>4, Answers DEF StartIs
<1> QED BY <1>2, <1>3 DEF Launch

LEMMA LaunchThereIs ==
  ASSUME SlotAssumption, NEW w, Sound(w, Nil), NEW k \in Tasks,
         NEW b \in LaunchThere(w, k, BranchOf[k])
  PROVE  StartIs(w, b)
<1> DEFINE t == BranchOf[k]
<1>1. t \in Trees
  BY DEF SlotAssumption
<1>2. CASE b = Failed(w)
  BY <1>2, LeadsStay, Answers DEF StartIs
<1>3. CASE b = StartedTask(w, k, t)
  BY <1>3, BindLeads, Answers DEF StartIs
<1>4. CASE \E o \in OpenAt(w, t, FALSE) : b = StartedTask(o.world, k, t)
  <2>1. PICK o \in OpenAt(w, t, FALSE) : b = StartedTask(o.world, k, t)
    BY <1>4
  <2>2. Leads(w, o.world, Nil)
    BY <1>1, OpenAtLeads
  <2>3. Leads(o.world, Bind(o.world, k, t), Nil)
    BY <2>2, BindLeads DEF Leads
  <2>4. Leads(w, Bind(o.world, k, t), Nil)
    BY <2>2, <2>3, LeadsOn
  <2> QED BY <2>1, <2>4, Answers DEF StartIs
<1> QED
  <2>1. CASE w.app.open[t] # {}
    BY <1>2, <1>3, <2>1 DEF LaunchThere
  <2>2. CASE w.app.open[t] = {}
    <3>1. PICK o \in OpenAt(w, t, FALSE) :
            b \in IF o.ok THEN {StartedTask(o.world, k, t), Failed(w)} ELSE {Failed(w)}
      BY <2>2 DEF LaunchThere
    <3> QED BY <1>2, <1>4, <3>1
  <2> QED BY <2>1, <2>2

LEMMA StartTaskIs ==
  ASSUME SlotAssumption, NEW w, Sound(w, Nil), NEW k \in Tasks, NEW b \in StartTask(w, k)
  PROVE  StartIs(w, b)
<1> DEFINE t == BranchOf[k]
<1>1. t \in Trees
  BY DEF SlotAssumption
<1>2. CASE b = Failed(w)
  BY <1>2, LeadsStay, Answers DEF StartIs
<1>3. CASE b \in LaunchThere(w, k, t)
  BY <1>3, LaunchThereIs
<1>4. CASE \E a \in CreateTree(w, t) :
             b \in IF a.says = "opened" THEN Launch(a, k) ELSE {[world |-> a.world, says |-> a.says]}
  <2>1. PICK a \in CreateTree(w, t) :
             b \in IF a.says = "opened" THEN Launch(a, k) ELSE {[world |-> a.world, says |-> a.says]}
    BY <1>4
  <2>2. CreateIs(w, a, t)
    BY <1>1, CreateTreeIs
  <2>3. CASE a.says = "opened"
    BY <2>1, <2>2, <2>3, LaunchIs DEF CreateIs
  <2>4. CASE a.says # "opened"
    BY <2>1, <2>2, <2>4 DEF CreateIs, StartIs
  <2> QED BY <2>3, <2>4
<1> QED BY <1>2, <1>3, <1>4 DEF StartTask

LEMMA ParkedLeads ==
  ASSUME SlotAssumption, NEW w, NEW x, NEW owner, NEW kind, NEW t, Parked(w, x, owner, kind, t),
         owner \in Runs \cup {Prompt}
  PROVE  Leads(w, x, Nil)
  BY DEF Parked, Leads, SlotAssumption

LEMMA StartRunLeads ==
  ASSUME SlotAssumption, NEW w, Sound(w, Nil), NEW r \in Runs, NEW x \in StartRun(w, r)
  PROVE  Leads(w, x, Nil)
<1>0. r \in Tasks /\ BranchOf[r] \in Trees
  BY DEF SlotAssumption
<1>1. CASE w.app.saving \/ w.app.run[r] # "pending" \/ w.app.inflight
  BY <1>1, LeadsStay DEF StartRun
<1>2. CASE ~ (w.app.saving \/ w.app.run[r] # "pending" \/ w.app.inflight)
  <2>1. PICK a \in StartTask(w, r) :
          x \in CASE a.says = "pending" ->
                       {IF o.ok THEN o.world ELSE FailRun(o.world, r)
                          : o \in Schedule(a.world, r, "create", BranchOf[r], FALSE)}
                  [] a.says = "started" -> {EndRun(a.world, r, "running")}
                  [] OTHER -> {FailRun(a.world, r)}
    BY <1>2 DEF StartRun
  <2>2. StartIs(w, a)
    BY <1>0, StartTaskIs
  <2>3. CASE a.says = "started"
    <3>1. Leads(w, a.world, Nil) /\ Sound(a.world, Nil) /\ x = EndRun(a.world, r, "running")
      BY <2>1, <2>2, <2>3 DEF StartIs, Leads
    <3> QED BY <3>1, EndRunLeads, LeadsOn
  <2>4. CASE a.says = "failed"
    <3>1. Leads(w, a.world, Nil) /\ Sound(a.world, Nil) /\ x = FailRun(a.world, r)
      BY <2>1, <2>2, <2>4 DEF StartIs, Leads
    <3> QED BY <3>1, FailRunLeads, LeadsOn
  <2>5. CASE a.says = "pending"
    <3>1. a.world = w /\ w.app.ready = Nil /\ ~ w.app.inflight /\ "module" \in Providers
      BY <2>2, <2>5 DEF StartIs
    <3>2. PICK o \in Schedule(w, r, "create", BranchOf[r], FALSE) :
            x = IF o.ok THEN o.world ELSE FailRun(o.world, r)
      BY <2>1, <2>5, <3>1
    <3>3. Requester(r, "create")
      BY DEF Requester
    <3>4. o.ok \in BOOLEAN
          /\ IF o.ok THEN Parked(w, o.world, r, "create", BranchOf[r]) ELSE o.world = w
      <4> DEFINE force == FALSE
      <4>1. force \in BOOLEAN /\ o \in Schedule(w, r, "create", BranchOf[r], force)
        OBVIOUS
      <4> HIDE DEF force
      <4> QED BY <1>0, <3>1, <3>3, <4>1, ScheduleIs
    <3>5. CASE o.ok
      BY <3>2, <3>4, <3>5, ParkedLeads
    <3>6. CASE ~ o.ok
      BY <3>2, <3>4, <3>6, FailRunLeads
    <3> QED BY <3>5, <3>6
  <2> QED BY <2>2, <2>3, <2>4, <2>5 DEF StartIs
<1> QED BY <1>1, <1>2

LEMMA StartPendingLeads ==
  ASSUME SlotAssumption, NEW w, Sound(w, Nil), NEW x \in StartPending(w)
  PROVE  Leads(w, x, Nil)
  BY LeadsStay, StartRunLeads DEF StartPending

-----------------------------------------------------------------------------
(* Requests *)

\* A removal may take the tree away.
LeadsBut(w, x, t) ==
  /\ Sound(x, Nil)
  /\ x.app.ready \in {Nil, w.app.ready}
  /\ \A u \in Trees : u # t /\ w.disk[u] = "kept" /\ w.app.ready # Created(u, TRUE) =>
       x.disk[u] = "kept"
  /\ \A j \in x.jobs : j \in w.jobs \/ j.owner \notin Calls

PendingIs(w, a) ==
  /\ a.says = "pending" /\ a.world = w /\ w.app.ready = Nil
  /\ ~ w.app.inflight /\ "module" \in Providers

LEMMA AnswerIs ==
  \A w, says, t : /\ Answer(w, says, t).world = w /\ Answer(w, says, t).says = says
                  /\ Answer(w, says, t).tree = t
  BY DEF Answer

LEMMA RemoveFromResult ==
  ASSUME SlotAssumption, NEW w, Sound(w, Nil), NEW t \in Trees, w.app.ready = Removed(t),
         NEW force \in BOOLEAN, NEW a \in RemoveTree(w, t, force)
  PROVE  /\ a.says = "opened" /\ Leads(w, a.world, Nil) /\ a.world.app.ready = Nil
         /\ a.world.jobs = w.jobs
<1>1. a = Answer(Taken(w), "opened", t)
  BY DEF RemoveTree, Taken
<1>2. w.app.ready # Nil /\ w.app.ready # Created(w.app.ready.tree, TRUE)
  BY NoneIsNoResult DEF Created, Removed
<1>3. /\ Taken(w).disk = w.disk /\ Taken(w).jobs = w.jobs /\ Taken(w).app.ready = Nil
      /\ Sound(Taken(w), Nil)
  BY <1>2, TakenSound
<1>4. Leads(w, Taken(w), Nil)
  BY <1>3 DEF Leads
<1> QED BY <1>1, <1>3, <1>4, AnswerIs

LEMMA GoneLeads ==
  ASSUME SlotAssumption, NEW w, Sound(w, Nil), NEW t \in Trees
  PROVE  LeadsBut(w, Gone(w, t), t)
<1> DEFINE x == [w EXCEPT !.disk[t] = "none"]
<1>1. /\ Sound(x, Nil) /\ x.app = w.app /\ x.jobs = w.jobs
      /\ \A u \in Trees : u # t => x.disk[u] = w.disk[u]
  BY TreeGone
<1>2. Gone(w, t) = CloseAll(x, t)
  BY DEF Gone
<1> HIDE DEF x
<1>3. Sound(CloseAll(x, t), Nil) /\ SameSlot(CloseAll(x, t), x)
  BY <1>1, CloseAllSound
<1> QED BY <1>1, <1>2, <1>3 DEF LeadsBut, SameSlot

LEMMA RemoveTreeIs ==
  ASSUME SlotAssumption, NEW w, Sound(w, Nil), NEW t \in Trees,
         NEW force \in BOOLEAN, NEW a \in RemoveTree(w, t, force)
  PROVE  a.tree = t /\ (PendingIs(w, a) \/ (a.says # "pending" /\ LeadsBut(w, a.world, t)))
<1>0. Leads(w, w, Nil) /\ \A x : Leads(w, x, Nil) => LeadsBut(w, x, t)
  BY LeadsStay DEF Leads, LeadsBut
<1>1. CASE w.app.ready = Removed(t)
  <2>1. a.tree = t
    BY <1>1, AnswerIs DEF RemoveTree
  <2> QED BY <1>0, <1>1, <2>1, RemoveFromResult
<1>2. CASE a = Answer(w, "failed", t)
  BY <1>0, <1>2, AnswerIs
<1>3. CASE a = Answer(Discard(w), "failed", t)
  BY <1>0, <1>3, DiscardLeads, AnswerIs
<1>4. CASE a = Answer(Gone(w, t), "opened", t)
  BY <1>4, GoneLeads, AnswerIs
<1>5. CASE "module" \in Providers /\ a \in ByModule(w, t) /\ w.app.ready = Nil
  <2>1. a = Answer(w, IF w.app.inflight THEN "failed" ELSE "pending", t)
    BY <1>5 DEF ByModule
  <2> QED BY <1>0, <1>5, <2>1, AnswerIs DEF PendingIs
<1> QED
  <2>1. CASE w.app.ready # Removed(t) /\ ((~ force /\ InUse(w, t)) \/ w.app.ready # Nil)
    BY <1>2, <1>3, <2>1 DEF RemoveTree
  <2>2. CASE w.app.ready # Removed(t) /\ ~ (~ force /\ InUse(w, t)) /\ w.app.ready = Nil
    BY <1>2, <1>4, <1>5, <2>2 DEF RemoveTree
  <2> QED BY <1>1, <2>1, <2>2

LEMMA HandleCreate ==
  ASSUME SlotAssumption, NEW w, Sound(w, Nil), NEW request, request.kind = "create",
         request.tree \in Trees, NEW a \in Handle(w, request)
  PROVE  /\ a.tree = request.tree
         /\ PendingIs(w, a) \/ (a.says # "pending" /\ Leads(w, a.world, Nil))
<1> DEFINE t == request.tree
<1>1. PICK b \in CreateTree(w, t) :
        a = IF b.says = "opened" THEN [b EXCEPT !.world = Keep(@, b.tree)] ELSE b
  BY DEF Handle
<1>2. CreateIs(w, b, t)
  BY <1>1, CreateTreeIs
<1>3. CASE b.says # "opened"
  BY <1>1, <1>2, <1>3 DEF CreateIs, PendingIs
<1>4. CASE b.says = "opened"
  <2> DEFINE x == Keep(b.world, t)
  <2>1. Leads(w, b.world, t) /\ Sound(b.world, t) /\ SlotSettled(b.world) /\ b.tree = t
    BY <1>2, <1>4 DEF CreateIs, Opened, Leads
  <2>2. /\ Sound(x, Nil) /\ x.app = b.world.app /\ x.jobs = b.world.jobs
        /\ \A u \in Trees : b.world.disk[u] = "kept" => x.disk[u] = "kept"
    BY <2>1, TreeKept
  <2>3. a = [b EXCEPT !.world = x]
    BY <1>1, <1>4, <2>1
  <2> HIDE DEF x
  <2>4. Leads(w, x, Nil)
    BY <2>1, <2>2 DEF Leads
  <2>5. a.world = x /\ a.says = b.says /\ a.tree = b.tree
    BY <1>2, <2>3 DEF CreateIs, Whole
  <2> QED BY <1>4, <2>1, <2>4, <2>5
<1> QED BY <1>3, <1>4

LEMMA HandleNext ==
  ASSUME SlotAssumption, NEW w, Sound(w, Nil), NEW request, request.kind = "next",
         NEW a \in Handle(w, request)
  PROVE  (PendingIs(w, a) /\ a.tree \in Trees) \/ (a.says # "pending" /\ Leads(w, a.world, Nil))
<1> DEFINE queued == {k \in Tasks : w.app.task[k].status = "queued"}
<1>1. CASE queued = {}
  <2>1. a = Answer(w, "failed", Nil)
    BY <1>1 DEF Handle
  <2> QED BY <2>1, LeadsStay, AnswerIs
<1>2. CASE queued # {}
  <2>1. PICK k \in Tasks : a \in {Answer(b.world, b.says, BranchOf[k]) : b \in StartTask(w, k)}
    BY <1>2 DEF Handle
  <2>2. PICK b \in StartTask(w, k) : a = Answer(b.world, b.says, BranchOf[k])
    BY <2>1
  <2>3. StartIs(w, b) /\ BranchOf[k] \in Trees
    BY StartTaskIs DEF SlotAssumption
  <2> QED BY <2>2, <2>3, AnswerIs DEF StartIs, PendingIs
<1> QED BY <1>1, <1>2

LEMMA LeadsDiscard ==
  ASSUME SlotAssumption, NEW w, NEW x, Leads(w, x, Nil)
  PROVE  Leads(w, Discard(x), Nil) /\ Discard(x).app.ready = Nil
<1>1. Sound(x, Nil)
  BY DEF Leads
<1>2. Leads(x, Discard(x), Nil) /\ Discard(x).app.ready = Nil
  BY <1>1, DiscardLeads
<1> QED BY <1>2, LeadsOn

\* A parked request is replayed on its own result.
LEMMA ReplayCallLeads ==
  ASSUME SlotAssumption, NEW w, Sound(w, Nil), NEW c \in Calls,
         call[c] \in Calling, call[c].kind \in {"create", "remove", "next"},
         call[c].kind \in {"create", "remove"} => call[c].tree \in Trees,
         call[c].kind = "remove" => w.app.ready = Removed(call[c].tree),
         NEW x \in ReplayCall(w, c)
  PROVE  Leads(w, x, Nil) /\ x.app.ready = Nil
<1>1. CASE call[c].kind = "remove"
  <2> DEFINE t == call[c].tree
  <2>1. PICK a \in Handle(w, call[c]) : x = CloseAll(a.world, t)
    BY <1>1 DEF ReplayCall
  <2>2. a \in RemoveTree(w, t, call[c].force) /\ t \in Trees /\ call[c].force \in BOOLEAN
    BY <1>1, <2>1 DEF Handle, Calling
  <2>3. Leads(w, a.world, Nil) /\ a.world.app.ready = Nil
    BY <1>1, <2>2, RemoveFromResult
  <2>4. Sound(x, Nil) /\ SameSlot(x, a.world)
    BY <2>1, <2>2, <2>3, CloseAllSound DEF Leads
  <2>5. Leads(w, x, Nil)
    <3>1. Sound(a.world, Nil)
      BY <2>3 DEF Leads
    <3>2. Leads(a.world, x, Nil)
      BY <2>4, <3>1, LeadsSame
    <3> QED BY <2>3, <3>2, LeadsOn
  <2> QED BY <2>3, <2>4, <2>5 DEF SameSlot
<1>2. CASE call[c].kind # "remove"
  <2>2. CASE x = Discard(w)
    BY <2>2, LeadsStay, LeadsDiscard
  <2>3. CASE \E a \in Handle(w, call[c]) : x = Discard(a.world)
    <3>1. PICK a \in Handle(w, call[c]) : x = Discard(a.world)
      BY <2>3
    <3>2. PendingIs(w, a) \/ (a.says # "pending" /\ Leads(w, a.world, Nil))
      BY <1>2, HandleCreate, HandleNext
    <3>3. Leads(w, a.world, Nil)
      BY <3>2, LeadsStay DEF PendingIs
    <3> QED BY <3>1, <3>3, LeadsDiscard
  <2> QED BY <1>2, <2>2, <2>3 DEF ReplayCall
<1> QED BY <1>1, <1>2

-----------------------------------------------------------------------------
(* The prompt *)

PromptType == [open : BOOLEAN, tree : Maybe(Trees), waiting : BOOLEAN]

LEMMA SetPromptLeads ==
  ASSUME NEW w, Sound(w, Nil), NEW p \in PromptType, p.open => p.tree \in Trees
  PROVE  Leads(w, SetPrompt(w, p), Nil) /\ SetPrompt(w, p).app.ready = w.app.ready
<1> DEFINE x == SetPrompt(w, p)
<1>1. /\ x \in Worlds /\ SameSlot(x, w) /\ SameSpaces(x, w)
      /\ x.app.prompt = p /\ x.app.task = w.app.task
  BY PromptSet DEF Sound, SetPrompt, PromptType
<1> HIDE DEF x
<1>2. TasksPlaced(x) /\ Asked(x)
  BY <1>1 DEF Sound, TasksPlaced, Asked
<1>3. Sound(x, Nil)
  BY <1>1, <1>2, SoundSame
<1>4. Leads(w, x, Nil) /\ x.app.ready = w.app.ready
  BY <1>1, <1>3, LeadsSame DEF SameSlot
<1> QED BY <1>4 DEF x

LEMMA PromptOf ==
  ASSUME NEW w, Sound(w, Nil)
  PROVE  w.app.prompt \in PromptType /\ (w.app.prompt.open => w.app.prompt.tree \in Trees)
  BY DEF Sound, Worlds, Apps, Asked, PromptType

LEMMA WaitingLeads ==
  ASSUME NEW w, Sound(w, Nil), NEW flag \in BOOLEAN
  PROVE  Leads(w, Waiting(w, flag), Nil) /\ Waiting(w, flag).app.ready = w.app.ready
<1> DEFINE p == [w.app.prompt EXCEPT !.waiting = flag]
<1>1. p \in PromptType /\ p.open = w.app.prompt.open /\ p.tree = w.app.prompt.tree
  BY PromptOf DEF PromptType
<1>2. Waiting(w, flag) = SetPrompt(w, p)
  BY DEF Waiting, SetPrompt
<1> HIDE DEF p
<1> QED BY <1>1, <1>2, PromptOf, SetPromptLeads

LEMMA WaitsNoMore ==
  ASSUME NEW w, Sound(w, Nil)
  PROVE  Leads(w, Waiting(w, FALSE), Nil) /\ Waiting(w, FALSE).app.ready = w.app.ready
<1> DEFINE flag == FALSE
<1>1. flag \in BOOLEAN
  OBVIOUS
<1> HIDE DEF flag
<1>2. Leads(w, Waiting(w, flag), Nil) /\ Waiting(w, flag).app.ready = w.app.ready
  BY <1>1, WaitingLeads
<1> QED BY <1>2 DEF flag

\* The tree that a request opened is taken over.
LEMMA KeepLeads ==
  ASSUME SlotAssumption, NEW w, Sound(w, Nil), NEW t \in Trees, NEW a, CreateIs(w, a, t),
         a.says = "opened"
  PROVE  Leads(w, Keep(a.world, t), Nil) /\ Keep(a.world, t).app.ready = Nil
<1> DEFINE x == Keep(a.world, t)
<1>1. Leads(w, a.world, t) /\ Sound(a.world, t) /\ SlotSettled(a.world)
  BY DEF CreateIs, Opened, Leads
<1>2. /\ Sound(x, Nil) /\ x.app = a.world.app /\ x.jobs = a.world.jobs
      /\ \A u \in Trees : a.world.disk[u] = "kept" => x.disk[u] = "kept"
  BY <1>1, TreeKept
<1> HIDE DEF x
<1>3. Leads(w, x, Nil) /\ x.app.ready = Nil
  BY <1>1, <1>2 DEF Leads, SlotSettled
<1> QED BY <1>3 DEF x

LEMMA ReplayPromptLeads ==
  ASSUME SlotAssumption, NEW w, Sound(w, Nil), NEW j, j.tree \in Trees, w.app.ready = j.result,
         NEW x \in ReplayPrompt(w, j)
  PROVE  Leads(w, x, Nil) /\ x.app.ready = Nil
<1>1. CASE ~ StillPending(w, j)
  BY <1>1, DiscardLeads DEF ReplayPrompt
<1>2. CASE StillPending(w, j) /\ j.result = Nil
  BY <1>2, WaitsNoMore DEF ReplayPrompt
<1>3. CASE StillPending(w, j) /\ j.result # Nil
  <2>1. PICK a \in CreateTree(w, j.tree) :
          x = IF a.says = "opened"
              THEN SetPrompt(Keep(a.world, a.tree), [w.app.prompt EXCEPT !.open = FALSE,
                                                                         !.waiting = FALSE])
              ELSE Waiting(Discard(a.world), FALSE)
    BY <1>3 DEF ReplayPrompt
  <2>2. CreateIs(w, a, j.tree) /\ a.tree = j.tree
    BY CreateTreeIs DEF CreateIs
  <2>3. CASE a.says = "opened"
    <3> DEFINE y == Keep(a.world, j.tree)
               p == [w.app.prompt EXCEPT !.open = FALSE, !.waiting = FALSE]
    <3>1. Leads(w, y, Nil) /\ y.app.ready = Nil
      BY <2>2, <2>3, KeepLeads
    <3>2. p \in PromptType /\ ~ p.open
      BY PromptOf DEF PromptType
    <3>3. x = SetPrompt(y, p)
      BY <2>1, <2>2, <2>3
    <3> HIDE DEF y, p
    <3>4. Sound(y, Nil)
      BY <3>1 DEF Leads
    <3>5. Leads(y, x, Nil) /\ x.app.ready = Nil
      BY <3>1, <3>2, <3>3, <3>4, SetPromptLeads
    <3> QED BY <3>1, <3>5, LeadsOn
  <2>4. CASE a.says # "opened"
    <3> DEFINE y == Discard(a.world)
    <3>1. Leads(w, a.world, Nil)
      BY <2>2, <2>4, LeadsStay DEF CreateIs
    <3>2. Leads(w, y, Nil) /\ Sound(y, Nil) /\ y.app.ready = Nil
      BY <3>1, LeadsDiscard DEF Leads
    <3>3. x = Waiting(y, FALSE)
      BY <2>1, <2>4
    <3> HIDE DEF y
    <3>4. Leads(y, x, Nil) /\ x.app.ready = Nil
      BY <3>2, <3>3, WaitsNoMore
    <3> QED BY <3>2, <3>4, LeadsOn
  <2> QED BY <2>3, <2>4
<1> QED BY <1>1, <1>2, <1>3

-----------------------------------------------------------------------------
(* Deletions *)

\* What becomes of a deletion without a job does not matter to the others.
LEMMA DeletionSound ==
  ASSUME NEW w, Sound(w, Nil), NEW s \in Spaces, \A j \in w.jobs : j.owner # s,
         NEW d \in Maybe(Deletions)
  PROVE  LET x == [w EXCEPT !.app.deleting[s] = d]
         IN  /\ Sound(x, Nil) /\ SameSlot(x, w) /\ x.app.deleting[s] = d
             /\ x.app.open = w.app.open
<1> DEFINE x == [w EXCEPT !.app.deleting[s] = d]
<1>1. /\ x \in Worlds /\ SameSlot(x, w)
      /\ x.app.open = w.app.open /\ x.app.busy = w.app.busy
      /\ x.app.task = w.app.task /\ x.app.prompt = w.app.prompt
      /\ x.app.deleting[s] = d
      /\ \A r \in Spaces : r # s => x.app.deleting[r] = w.app.deleting[r]
  BY SetDeleting DEF Sound
<1> HIDE DEF x
<1>2. Deletes(x)
  BY <1>1 DEF Sound, Deletes, SameSlot
<1>3. BusyOpen(x) /\ TasksPlaced(x) /\ Asked(x)
  BY <1>1 DEF Sound, BusyOpen, TasksPlaced, Asked
<1>4. Sound(x, Nil)
  BY <1>1, <1>2, <1>3, SoundSpaces
<1> QED BY <1>1, <1>4 DEF x

LEMMA FinishDeleteLeads ==
  ASSUME NEW w, Sound(w, Nil), NEW s \in Spaces, \A j \in w.jobs : j.owner # s
  PROVE  Leads(w, FinishDelete(w, s), Nil) /\ FinishDelete(w, s).app.ready = w.app.ready
<1>1. Nil \in Maybe(Deletions)
  BY DEF Maybe
<1>2. Sound(FinishDelete(w, s), Nil) /\ SameSlot(FinishDelete(w, s), w)
  BY <1>1, DeletionSound DEF FinishDelete
<1> QED BY <1>2, LeadsSame DEF SameSlot

\* A job of a deletion.
LEMMA SpaceJob ==
  ASSUME SlotAssumption, NEW s \in Spaces, NEW kind \in {"check", "remove"}, NEW t \in Trees,
         NEW slot \in BOOLEAN, slot => kind = "remove" /\ "module" \in Providers,
         NEW force \in BOOLEAN, NEW others \in BOOLEAN
  PROVE  LET j == Job(s, kind, t, slot, force, others)
         IN  /\ j \in JobTypes /\ JobOK(j) /\ ~ j.done /\ j.result = Nil
             /\ j.owner = s /\ j.kind = kind /\ j.tree = t /\ j.slot = slot
<1> DEFINE j == Job(s, kind, t, slot, force, others)
<1>1. /\ j.owner = s /\ j.kind = kind /\ j.tree = t /\ j.slot = slot
      /\ j.done = FALSE /\ j.result = Nil
  BY DEF Job
<1>2. j \in JobTypes
  <2>1. s \in Owners /\ Nil \in Maybe(Results)
    BY DEF Owners, Maybe
  <2> QED BY <2>1 DEF JobTypes, Job
<1> HIDE DEF j
<1>3. JobOK(j)
  BY <1>1 DEF JobOK, SlotAssumption
<1>4. ~ j.done
  BY <1>1
<1> QED BY <1>1, <1>2, <1>3, <1>4 DEF j

LEMMA CheckStarts ==
  ASSUME SlotAssumption, NEW w, Sound(w, Nil), w.app.ready = Nil, NEW s \in Spaces, NEW t \in Trees,
         w.app.deleting[s] = Nil, NEW others \in BOOLEAN,
         NEW o \in Submit([w EXCEPT !.app.deleting[s] = Deletion(t, FALSE)],
                          Job(s, "check", t, FALSE, TRUE, others))
  PROVE  Leads(w, IF o.ok THEN o.world ELSE FinishDelete(o.world, s), Nil)
<1> DEFINE y == [w EXCEPT !.app.deleting[s] = Deletion(t, FALSE)]
           j == Job(s, "check", t, FALSE, TRUE, others)
           slot == FALSE
           force == TRUE
<1>1. \A i \in w.jobs : i.owner # s
  BY DEF Sound, Deletes
<1>2. Deletion(t, FALSE) # Nil /\ Deletion(t, FALSE) \in Maybe(Deletions)
      /\ Deletion(t, FALSE).tree = t
  BY NoneIsNoResult, slot \in BOOLEAN DEF Maybe, Deletion
<1>3. /\ Sound(y, Nil) /\ SameSlot(y, w) /\ y.app.deleting[s] = Deletion(t, FALSE)
      /\ y.app.open = w.app.open
  BY <1>1, <1>2, DeletionSound
<1>4. /\ j \in JobTypes /\ JobOK(j) /\ ~ j.done /\ j.result = Nil
      /\ j.owner = s /\ j.kind = "check" /\ j.tree = t /\ j.slot = FALSE
  <2>1. slot \in BOOLEAN /\ force \in BOOLEAN /\ ~ slot /\ j = Job(s, "check", t, slot, force, others)
    OBVIOUS
  <2>2. j.slot = FALSE
    BY DEF Job
  <2> HIDE DEF slot, force, j
  <2> QED BY <2>1, <2>2, SpaceJob
<1> HIDE DEF y, j, slot, force
<1>5. \/ o.ok = FALSE /\ o.world = y
      \/ o.ok = TRUE /\ o.world = AddJob(y, j)
  BY <1>3, <1>4, SubmitRaw DEF Sound, y, j
<1>6. Leads(w, y, Nil)
  BY <1>3, LeadsSame
<1>7. Leads(y, FinishDelete(y, s), Nil)
  BY <1>1, <1>3, FinishDeleteLeads DEF SameSlot
<1>8. Leads(y, AddJob(y, j), Nil)
  <2>1. MayAdd(y, j)
    BY <1>1, <1>2, <1>3, <1>4 DEF MayAdd, SameSlot
  <2>2. /\ Sound(AddJob(y, j), Nil) /\ AddJob(y, j).jobs = y.jobs \cup {j}
        /\ AddJob(y, j).disk = y.disk /\ AddJob(y, j).app.ready = y.app.ready
    BY <1>3, <2>1, AddJobSound
  <2>3. s \notin Calls
    BY DEF SlotAssumption
  <2> QED BY <1>4, <2>2, <2>3 DEF Leads
<1> QED BY <1>5, <1>6, <1>7, <1>8, LeadsOn

\* What closing a workspace and adding a job do to the fields of a world.
CloseApp(a, t, s) == [a EXCEPT !.open[t] = a.open[t] \ {s}, !.busy = a.busy \ {s}]

LEMMA CloseSpaceIs ==
  ASSUME NEW w, w.app \in Apps, w = [disk |-> w.disk, app |-> w.app, jobs |-> w.jobs],
         NEW t \in Trees, NEW s \in Spaces
  PROVE  CloseSpace(w, t, s) = [disk |-> w.disk, app |-> CloseApp(w.app, t, s), jobs |-> w.jobs]
<1> DEFINE a == [w.app EXCEPT !.open[t] = w.app.open[t] \ {s}, !.busy = w.app.busy \ {s}]
<1>1. CloseSpace(w, t, s) = [w EXCEPT !.app = a]
  BY DEF CloseSpace, Apps
<1>2. a = CloseApp(w.app, t, s)
  BY DEF CloseApp
<1> HIDE DEF a
<1>3. [w EXCEPT !.app = a] = [disk |-> w.disk, app |-> a, jobs |-> w.jobs]
  OBVIOUS
<1> QED BY <1>1, <1>2, <1>3

LEMMA CloseSpaceOf ==
  ASSUME NEW d, NEW a \in Apps, NEW J, NEW t \in Trees, NEW s \in Spaces
  PROVE  CloseSpace([disk |-> d, app |-> a, jobs |-> J], t, s)
         = [disk |-> d, app |-> CloseApp(a, t, s), jobs |-> J]
<1> DEFINE w == [disk |-> d, app |-> a, jobs |-> J]
<1>1. w.app = a /\ w.disk = d /\ w.jobs = J
  OBVIOUS
<1>2. w.app \in Apps /\ w = [disk |-> w.disk, app |-> w.app, jobs |-> w.jobs]
  OBVIOUS
<1> HIDE DEF w
<1>3. CloseSpace(w, t, s) = [disk |-> w.disk, app |-> CloseApp(w.app, t, s), jobs |-> w.jobs]
  BY <1>2, CloseSpaceIs
<1> QED BY <1>1, <1>3 DEF w

LEMMA CloseAppStarts ==
  ASSUME NEW a \in Apps, NEW t \in Trees, NEW s \in Spaces
  PROVE  CloseApp([a EXCEPT !.inflight = TRUE], t, s) = [CloseApp(a, t, s) EXCEPT !.inflight = TRUE]
  BY DEF CloseApp, Apps

LEMMA AddJobIs ==
  ASSUME NEW w, NEW j, w = [disk |-> w.disk, app |-> w.app, jobs |-> w.jobs]
  PROVE  AddJob(w, j) = [disk |-> w.disk,
                         app |-> IF j.slot THEN [w.app EXCEPT !.inflight = TRUE] ELSE w.app,
                         jobs |-> w.jobs \cup {j}]
  BY DEF AddJob

\* The deletion of t from workspace s has been confirmed and its tree looked up.
Confirmed(w, s, t) ==
  w.app.deleting[s] # Nil /\ w.app.deleting[s].tree = t /\ w.app.deleting[s].resolved

\* The removal is added and the workspace closed: in either order.
LEMMA RemovalAdded ==
  ASSUME SlotAssumption, NEW w, Sound(w, Nil), w.app.ready = Nil, NEW s \in Spaces, NEW t \in Trees,
         \A i \in w.jobs : i.owner # s, Confirmed(w, s, t),
         ~ Others(w.app, t, s), NEW j, j \in JobTypes, JobOK(j), ~ j.done, j.result = Nil,
         j.owner = s, j.kind = "remove", j.tree = t, j.slot => ~ w.app.inflight
  PROVE  /\ Leads(w, CloseSpace(AddJob(w, j), t, s), Nil)
         /\ CloseSpace(AddJob(w, j), t, s).app.ready = Nil
<1> DEFINE y == CloseSpace(w, t, s)
           x == AddJob(y, j)
<1>1. /\ Sound(y, Nil) /\ SameSlot(y, w) /\ y.app.open[t] = w.app.open[t] \ {s}
      /\ y.app.deleting = w.app.deleting
  BY CloseSpaceSound
<1>2. CloseSpace(AddJob(w, j), t, s) = x
  <2>1. w.app \in Apps /\ w = [disk |-> w.disk, app |-> w.app, jobs |-> w.jobs]
    BY DEF Sound, Worlds
  <2>2. y = [disk |-> w.disk, app |-> CloseApp(w.app, t, s), jobs |-> w.jobs]
    BY <2>1, CloseSpaceIs
  <2> HIDE DEF y
  <2>0. /\ y = [disk |-> y.disk, app |-> y.app, jobs |-> y.jobs]
        /\ y.disk = w.disk /\ y.app = CloseApp(w.app, t, s) /\ y.jobs = w.jobs
    BY <2>2
  <2> DEFINE a == [w.app EXCEPT !.inflight = TRUE]
             J == w.jobs \cup {j}
  <2>3. CASE j.slot
    <3>1. AddJob(w, j) = [disk |-> w.disk, app |-> a, jobs |-> J]
      BY <2>1, <2>3, AddJobIs
    <3>2. x = [disk |-> w.disk, app |-> [CloseApp(w.app, t, s) EXCEPT !.inflight = TRUE], jobs |-> J]
      BY <2>0, <2>3, AddJobIs
    <3>3. a \in Apps
      BY <2>1 DEF Apps
    <3>4. CloseApp(a, t, s) = [CloseApp(w.app, t, s) EXCEPT !.inflight = TRUE]
      BY <2>1, CloseAppStarts
    <3> HIDE DEF a, x, J
    <3>5. CloseSpace(AddJob(w, j), t, s) = [disk |-> w.disk, app |-> CloseApp(a, t, s), jobs |-> J]
      BY <3>1, <3>3, CloseSpaceOf
    <3> QED BY <3>2, <3>4, <3>5
  <2>4. CASE ~ j.slot
    <3>1. AddJob(w, j) = [disk |-> w.disk, app |-> w.app, jobs |-> J]
      BY <2>1, <2>4, AddJobIs
    <3>2. x = [disk |-> w.disk, app |-> CloseApp(w.app, t, s), jobs |-> J]
      BY <2>0, <2>4, AddJobIs
    <3> HIDE DEF a, x, J
    <3>5. CloseSpace(AddJob(w, j), t, s)
          = [disk |-> w.disk, app |-> CloseApp(w.app, t, s), jobs |-> J]
      BY <2>1, <3>1, CloseSpaceOf
    <3> QED BY <3>2, <3>5
  <2> QED BY <2>3, <2>4
<1> HIDE DEF y
<1>4. MayAdd(y, j)
  <2>1. y.app.open[t] = {}
    BY <1>1 DEF Others
  <2> QED BY <1>1, <2>1 DEF MayAdd, SameSlot, Confirmed
<1>5. /\ Sound(x, Nil) /\ x.jobs = y.jobs \cup {j} /\ x.disk = y.disk
      /\ x.app.ready = y.app.ready
  BY <1>1, <1>4, AddJobSound
<1> HIDE DEF x
<1>6. s \notin Calls
  BY DEF SlotAssumption
<1> QED BY <1>1, <1>2, <1>5, <1>6 DEF Leads, SameSlot

LEMMA DeletionIs ==
  ASSUME SlotAssumption, NEW t \in Trees
  PROVE  LET d == Deletion(t, TRUE)
         IN  d # Nil /\ d \in Maybe(Deletions) /\ d.tree = t /\ d.resolved
<1> DEFINE known == TRUE
<1>1. known \in BOOLEAN /\ known
  OBVIOUS
<1> HIDE DEF known
<1>2. LET d == Deletion(t, known)
      IN  d # Nil /\ d \in Maybe(Deletions) /\ d.tree = t /\ d.resolved
  BY <1>1, NoneIsNoResult, ResultFields DEF Maybe
<1> QED BY <1>2 DEF known

LEMMA Resolve ==
  ASSUME NEW t, NEW known \in BOOLEAN, NEW now \in BOOLEAN
  PROVE  [Deletion(t, known) EXCEPT !.resolved = now] = Deletion(t, now)
  BY DEF Deletion

\* The job of a removal, in the slot or beside it, and what follows its admission.
Removal(s, t, slot) == Job(s, "remove", t, slot, TRUE, FALSE)

Admitted(o, w, j) ==
  \/ o.ok = FALSE /\ o.world = w
  \/ o.ok = TRUE /\ o.world = AddJob(w, j)

Settle(o, s, t) == IF o.ok THEN CloseSpace(o.world, t, s) ELSE FinishDelete(o.world, s)

LEMMA RemovalIs ==
  ASSUME SlotAssumption, NEW s \in Spaces, NEW t \in Trees, NEW slot \in BOOLEAN,
         slot => "module" \in Providers
  PROVE  LET j == Removal(s, t, slot)
         IN  /\ j \in JobTypes /\ JobOK(j) /\ ~ j.done /\ j.result = Nil
             /\ j.owner = s /\ j.kind = "remove" /\ j.tree = t /\ j.slot = slot
<1> DEFINE force == TRUE
           others == FALSE
<1>1. force \in BOOLEAN /\ others \in BOOLEAN /\ Removal(s, t, slot) = Job(s, "remove", t, slot, force, others)
  BY DEF Removal
<1> HIDE DEF force, others
<1> QED BY <1>1, SpaceJob

\* A removal that was accepted, or not.
LEMMA RemovalStarts ==
  ASSUME SlotAssumption, NEW w, Sound(w, Nil), w.app.ready = Nil, NEW s \in Spaces, NEW t \in Trees,
         \A i \in w.jobs : i.owner # s, Confirmed(w, s, t),
         ~ Others(w.app, t, s), NEW slot \in BOOLEAN,
         slot => ~ w.app.inflight /\ "module" \in Providers,
         NEW o, Admitted(o, w, Removal(s, t, slot))
  PROVE  Leads(w, Settle(o, s, t), Nil) /\ Settle(o, s, t).app.ready = Nil
<1> DEFINE j == Removal(s, t, slot)
<1>1. CASE o.ok = FALSE /\ o.world = w
  BY <1>1, FinishDeleteLeads DEF Settle
<1>2. CASE o.ok = TRUE /\ o.world = AddJob(w, j)
  <2>1. /\ j \in JobTypes /\ JobOK(j) /\ ~ j.done /\ j.result = Nil
        /\ j.owner = s /\ j.kind = "remove" /\ j.tree = t /\ j.slot = slot
    BY RemovalIs
  <2> HIDE DEF j
  <2>2. j.slot => ~ w.app.inflight
    BY <2>1
  <2>3. /\ Leads(w, CloseSpace(AddJob(w, j), t, s), Nil)
        /\ CloseSpace(AddJob(w, j), t, s).app.ready = Nil
    BY <2>1, <2>2, RemovalAdded
  <2>4. Settle(o, s, t) = CloseSpace(AddJob(w, j), t, s)
    BY <1>2 DEF Settle
  <2> QED BY <2>3, <2>4
<1> QED BY <1>1, <1>2 DEF Admitted

LEMMA StartRemovalLeads ==
  ASSUME SlotAssumption, NEW w, Sound(w, Nil), w.app.ready = Nil, NEW s \in Spaces, NEW t \in Trees,
         \A i \in w.jobs : i.owner # s, Confirmed(w, s, t),
         ~ Others(w.app, t, s), NEW x \in StartRemoval(w, s, t)
  PROVE  Leads(w, x, Nil) /\ x.app.ready = Nil
<1>0. w \in Worlds
  BY DEF Sound
<1>1. CASE x = FinishDelete(w, s)
  BY <1>1, FinishDeleteLeads
<1>2. CASE /\ "module" \in Providers /\ ~ w.app.inflight
           /\ \E o \in Schedule(w, s, "remove", t, TRUE) : x = Settle(o, s, t)
  <2>1. PICK o \in Schedule(w, s, "remove", t, TRUE) : x = Settle(o, s, t)
    BY <1>2
  <2> DEFINE slot == TRUE
  <2>2. Admitted(o, w, Removal(s, t, slot))
    BY <1>0, ScheduleRaw DEF Admitted, Removal
  <2>3. slot \in BOOLEAN /\ (slot => ~ w.app.inflight /\ "module" \in Providers)
    BY <1>2
  <2> HIDE DEF slot
  <2> QED BY <2>1, <2>2, <2>3, RemovalStarts
<1>3. CASE \E o \in Submit(w, Job(s, "remove", t, FALSE, TRUE, FALSE)) : x = Settle(o, s, t)
  <2>1. PICK o \in Submit(w, Job(s, "remove", t, FALSE, TRUE, FALSE)) : x = Settle(o, s, t)
    BY <1>3
  <2> DEFINE slot == FALSE
             j == Removal(s, t, slot)
  <2>2. j.slot = FALSE /\ o \in Submit(w, j)
    BY DEF Job, Removal
  <2>3. slot \in BOOLEAN /\ ~ slot
    OBVIOUS
  <2> HIDE DEF slot, j
  <2>4. Admitted(o, w, j)
    BY <1>0, <2>2, SubmitRaw DEF Admitted
  <2> QED BY <2>1, <2>3, <2>4, RemovalStarts DEF j
<1> QED BY <1>1, <1>2, <1>3 DEF StartRemoval, Settle

LEMMA ContinueLeads ==
  ASSUME SlotAssumption, NEW w, Sound(w, Nil), w.app.ready = Nil, NEW j, j.owner \in Spaces,
         j.tree \in Trees, \A i \in w.jobs : i.owner # j.owner,
         w.app.deleting[j.owner] # Nil, w.app.deleting[j.owner].tree = j.tree,
         NEW x \in ContinueDelete(w, j)
  PROVE  Leads(w, x, Nil) /\ x.app.ready = Nil
<1> DEFINE s == j.owner
           t == j.tree
           d == Deletion(t, TRUE)
           y == [w EXCEPT !.app.deleting[s] = d]
<1>0. s \in Spaces /\ t \in Trees
  OBVIOUS
<1>1. [w EXCEPT !.app.deleting[s].resolved = TRUE] = y
  <2>1. w.app.deleting[s] \in Deletions /\ w \in Worlds /\ w.app.deleting[s].tree = t
    BY DEF Sound, Worlds, Apps, Maybe
  <2>2. [w.app.deleting[s] EXCEPT !.resolved = TRUE] = Deletion(t, TRUE)
    <3>1. PICK u \in Trees, b \in BOOLEAN : w.app.deleting[s] = Deletion(u, b)
      BY <2>1 DEF Deletions
    <3>2. u = t
      BY <2>1, <3>1, ResultFields
    <3> DEFINE now == TRUE
    <3>3. now \in BOOLEAN
      OBVIOUS
    <3> HIDE DEF now
    <3>4. [w.app.deleting[s] EXCEPT !.resolved = now] = Deletion(t, now)
      BY <3>1, <3>2, <3>3, Resolve
    <3> QED BY <3>4 DEF now
  <2> DEFINE e == [w.app.deleting[s] EXCEPT !.resolved = TRUE]
  <2>3. [w EXCEPT !.app.deleting[s].resolved = TRUE] = [w EXCEPT !.app.deleting[s] = e]
    BY <2>1 DEF Worlds, Apps
  <2> QED BY <2>2, <2>3
<1>2. /\ Sound(y, Nil) /\ SameSlot(y, w) /\ Confirmed(y, s, t)
      /\ y.app.open = w.app.open
  <2>1. d # Nil /\ d \in Maybe(Deletions) /\ d.tree = t /\ d.resolved
    BY <1>0, DeletionIs
  <2> HIDE DEF d
  <2>2. /\ Sound(y, Nil) /\ SameSlot(y, w) /\ y.app.deleting[s] = d
        /\ y.app.open = w.app.open
    BY <1>0, <2>1, DeletionSound
  <2> QED BY <2>1, <2>2 DEF Confirmed
<1> HIDE DEF y
<1>3. Leads(w, y, Nil) /\ y.app.ready = Nil /\ y.jobs = w.jobs
  BY <1>2, LeadsSame DEF SameSlot
<1>4. CASE x = FinishDelete(w, s)
  BY <1>0, <1>4, FinishDeleteLeads
<1>5. CASE x = FinishDelete(y, s)
  <2>1. Leads(y, x, Nil) /\ x.app.ready = Nil
    BY <1>0, <1>2, <1>3, <1>5, FinishDeleteLeads
  <2> QED BY <1>3, <2>1, LeadsOn
<1>6. CASE x \in StartRemoval(y, s, t) /\ ~ Others(y.app, t, s)
  <2>1. Leads(y, x, Nil) /\ x.app.ready = Nil
    <3> HIDE DEF s, t
    <3> QED BY <1>0, <1>2, <1>3, <1>6, StartRemovalLeads DEF s
  <2> QED BY <1>3, <2>1, LeadsOn
<1> QED
  <2>1. Others(w.app, t, s) <=> Others(y.app, t, s)
    BY <1>2 DEF Others
  <2> QED BY <1>1, <1>4, <1>5, <1>6, <2>1 DEF ContinueDelete

\* A removal is done, by the provider in the slot or beside it.
LEMMA ReplayDeleteLeads ==
  ASSUME SlotAssumption, NEW w, Sound(w, Nil), NEW j, j.owner \in Spaces, j.tree \in Trees,
         \A i \in w.jobs : i.owner # j.owner,
         w.app.ready = IF j.slot /\ j.result # Nil THEN Removed(j.tree) ELSE Nil,
         NEW x \in ReplayDelete(w, j)
  PROVE  Leads(w, x, Nil) /\ x.app.ready = Nil
<1>1. CASE j.slot /\ j.result # Nil
  <2>1. PICK a \in RemoveTree(w, j.tree, TRUE) : x = FinishDelete(a.world, j.owner)
    BY <1>1 DEF ReplayDelete
  <2>2. Leads(w, a.world, Nil) /\ a.world.app.ready = Nil /\ a.world.jobs = w.jobs
    <3> DEFINE force == TRUE
    <3>1. force \in BOOLEAN /\ a \in RemoveTree(w, j.tree, force)
      OBVIOUS
    <3> HIDE DEF force
    <3> QED BY <1>1, <3>1, RemoveFromResult
  <2>3. Leads(a.world, x, Nil) /\ x.app.ready = Nil
    BY <2>1, <2>2, FinishDeleteLeads DEF Leads
  <2> QED BY <2>2, <2>3, LeadsOn
<1>2. CASE ~ (j.slot /\ j.result # Nil)
  BY <1>2, FinishDeleteLeads DEF ReplayDelete
<1> QED BY <1>1, <1>2

\* The run that asked for the result.
LEMMA ReplayRunLeads ==
  ASSUME SlotAssumption, NEW w, Sound(w, Nil), NEW j, j.owner \in Runs, w.app.ready = j.result,
         NEW x \in ReplayRun(w, j)
  PROVE  Leads(w, x, Nil) /\ x.app.ready = Nil
<1>1. CASE j.result = Nil
  <2>1. Leads(w, x, Nil)
    BY <1>1, FailRunLeads DEF ReplayRun
  <2> QED BY <1>1, <2>1 DEF Leads
<1>2. CASE j.result # Nil
  <2>1. PICK y \in StartRun(w, j.owner) : x = Discard(y)
    BY <1>2 DEF ReplayRun
  <2>2. Leads(w, y, Nil)
    BY StartRunLeads
  <2> QED BY <2>1, <2>2, LeadsDiscard
<1> QED BY <1>1, <1>2

-----------------------------------------------------------------------------
(* The completion of a job *)

Left(w, j) == [w EXCEPT !.jobs = @ \ {j}]

LEMMA LeftSound ==
  ASSUME NEW w, Sound(w, Nil), NEW j, ~ j.slot
  PROVE  LET x == Left(w, j)
         IN  Sound(x, Nil) /\ x.app = w.app /\ x.disk = w.disk /\ x.jobs = w.jobs \ {j}
<1> DEFINE x == Left(w, j)
<1>1. x \in Worlds /\ x.app = w.app /\ x.disk = w.disk /\ x.jobs = w.jobs \ {j}
  <2>1. w \in Worlds /\ w.jobs \ {j} \in SUBSET JobTypes
    BY DEF Sound, Worlds
  <2> QED BY <2>1, SetJobs DEF Left
<1> HIDE DEF x
<1>2. \A u \in Trees : Finds(x, u) <=> Finds(w, u)
  BY <1>1 DEF Finds
<1>3. OneSlot(x) /\ Deletes(x) /\ \A i \in x.jobs : JobOK(i)
  BY <1>1 DEF Sound, OneSlot, Deletes
<1>4. Orphanless(x, Nil) /\ Unkept(x)
  BY <1>1, <1>2 DEF Sound, Orphanless, Unkept
<1>5. TasksPlaced(x) /\ BusyOpen(x) /\ Asked(x)
  BY <1>1 DEF Sound, TasksPlaced, BusyOpen, Asked
<1>6. Sound(x, Nil)
  BY <1>1, <1>3, <1>4, <1>5 DEF Sound
<1> QED BY <1>1, <1>6 DEF x

LEMMA FreedSound ==
  ASSUME SlotAssumption, NEW w, Sound(w, Nil), w.app.ready = Nil, NEW j \in w.jobs, j.slot
  PROVE  LET x == SlotFreed(w, j)
         IN  /\ Sound(x, Nil) /\ SameSpaces(x, w) /\ x.disk = w.disk
             /\ x.jobs = w.jobs \ {j} /\ x.app.ready = j.result
<1> DEFINE x == SlotFreed(w, j)
<1>0. w \in Worlds /\ j \in JobTypes /\ JobOK(j)
  BY DEF Sound, Worlds
<1>1. /\ x \in Worlds /\ x.disk = w.disk /\ x.jobs = w.jobs \ {j} /\ SameSpaces(x, w)
      /\ x.app.inflight = FALSE /\ x.app.ready = j.result
      /\ x.app.task = w.app.task /\ x.app.prompt = w.app.prompt
  <2> DEFINE J == w.jobs \ {j}
             r == j.result
             a == [w.app EXCEPT !.inflight = FALSE, !.ready = r]
  <2>1. J \in SUBSET JobTypes /\ r \in Maybe(Results) /\ w.app \in Apps
    BY <1>0 DEF Worlds, JobTypes
  <2>2. a \in Apps /\ a.inflight = FALSE /\ a.ready = r
    /\ a.task = w.app.task /\ a.prompt = w.app.prompt
    /\ a.open = w.app.open /\ a.busy = w.app.busy /\ a.deleting = w.app.deleting
    <3> HIDE DEF r
    <3> QED BY <2>1 DEF Apps
  <2>3. x = [w EXCEPT !.jobs = J, !.app = a]
    BY <1>0 DEF SlotFreed, Worlds
  <2> HIDE DEF x, J, r, a
  <2>4. x \in Worlds /\ x.disk = w.disk /\ x.jobs = J /\ x.app = a
    BY <1>0, <2>1, <2>2, <2>3 DEF Worlds
  <2> QED BY <2>2, <2>4 DEF J, r, SameSpaces
<1> HIDE DEF x
<1>2. \A i \in x.jobs : ~ i.slot
  BY <1>1 DEF Sound, OneSlot
<1>3. OneSlot(x) /\ Deletes(x) /\ \A i \in x.jobs : JobOK(i)
  BY <1>1, <1>2 DEF Sound, OneSlot, Deletes, SameSpaces
<1>4. \A u \in Trees : Finds(x, u) <=> Finds(w, u)
  <2> SUFFICES ASSUME NEW u \in Trees
               PROVE  Finds(x, u) <=> Finds(w, u)
    OBVIOUS
  <2>1. Created(u, TRUE) # Nil
    BY MadeIsNoResult
  <2>2. Finds(x, u) <=> j.result = Created(u, TRUE)
    BY <1>1, <1>2 DEF Finds
  <2>3. Finds(w, u) <=> j.done /\ j.result = Created(u, TRUE)
    BY <2>1 DEF Finds, Sound, OneSlot
  <2> QED BY <1>0, <2>1, <2>2, <2>3 DEF JobOK
<1>5. Orphanless(x, Nil) /\ Unkept(x)
  BY <1>1, <1>4 DEF Sound, Orphanless, Unkept
<1>6. TasksPlaced(x) /\ BusyOpen(x) /\ Asked(x)
  BY <1>1 DEF Sound, TasksPlaced, BusyOpen, Asked, SameSpaces
<1>7. Sound(x, Nil)
  BY <1>1, <1>3, <1>5, <1>6 DEF Sound
<1> QED BY <1>1, <1>7 DEF x

\* The request that the job was for gets its result.
LEMMA ReplayLeads ==
  ASSUME SlotAssumption, CallsOK, CallType, NEW j \in jobs, j.slot, JobOK(j), j \in JobTypes,
         NEW w, Sound(w, Nil), w.app.ready = j.result,
         j.owner \in Spaces => \A i \in w.jobs : i.owner # j.owner,
         NEW x \in Replay(w, j)
  PROVE  Leads(w, x, Nil) /\ x.app.ready = Nil
<1>0. /\ j.tree \in Trees /\ j.owner \in Calls \cup Runs \cup Spaces \cup {Prompt}
      /\ j.kind \in {"create", "remove"}
      /\ j.kind = "remove" /\ j.result # Nil => j.result = Removed(j.tree)
  BY DEF JobTypes, Owners, JobOK
<1>1. CASE j.owner \in Calls
  <2>1. x \in IF j.result = Nil THEN {w} ELSE ReplayCall(w, j.owner)
    BY <1>1 DEF Replay, SlotAssumption
  <2>2. CASE j.result = Nil
    BY <2>1, <2>2, LeadsStay
  <2>3. CASE j.result # Nil
    <3> DEFINE c == j.owner
    <3>1. /\ c \in Calls /\ call[c] \in Calling /\ call[c].kind \in {"create", "remove", "next"}
          /\ call[c].kind \in {"create", "remove"} => call[c].tree \in Trees
          /\ call[c].kind = "remove" => w.app.ready = Removed(call[c].tree)
      BY <1>0, <1>1, <2>3 DEF CallsOK, CallType
    <3>2. x \in ReplayCall(w, c)
      BY <2>1, <2>3
    <3> HIDE DEF c
    <3> QED BY <3>1, <3>2, ReplayCallLeads
  <2> QED BY <2>2, <2>3
<1>2. CASE j.owner = Prompt
  <2>1. x \in ReplayPrompt(w, j)
    BY <1>2 DEF Replay, SlotAssumption
  <2> QED BY <1>0, <2>1, ReplayPromptLeads
<1>3. CASE j.owner \in Runs
  <2>1. x \in ReplayRun(w, j)
    BY <1>3 DEF Replay, SlotAssumption
  <2> QED BY <1>3, <2>1, ReplayRunLeads
<1>4. CASE j.owner \in Spaces
  <2>1. x \in ReplayDelete(w, j)
    BY <1>4 DEF Replay, SlotAssumption
  <2>2. w.app.ready = IF j.slot /\ j.result # Nil THEN Removed(j.tree) ELSE Nil
    BY <1>0, <1>4 DEF JobOK
  <2> QED BY <1>0, <1>4, <2>1, <2>2, ReplayDeleteLeads
<1> QED BY <1>0, <1>1, <1>2, <1>3, <1>4

\* After a completion: nothing is ready, and only the tree of a creation that has
\* been overtaken is lost.
Applied(w, x, j) ==
  /\ Sound(x, Nil) /\ x.app.ready = Nil
  /\ \A i \in x.jobs : (i \in w.jobs /\ i # j) \/ i.owner \notin Calls
  /\ \A t \in Trees : w.disk[t] = "kept" /\ ~ (j.slot /\ j.result = Created(t, TRUE)) =>
       x.disk[t] = "kept"

\* Checks, removals beside the slot and provider jobs are applied that way.
LEMMA ApplyLeads ==
  ASSUME SlotAssumption, SlotInv, NEW j \in jobs, NEW x \in Apply(j)
  PROVE  Applied(World, x, j)
<1> DEFINE w == World
<1>0. /\ Sound(w, Nil) /\ w.app.ready = Nil /\ j \in w.jobs /\ w.jobs = jobs
      /\ JobOK(j) /\ j \in JobTypes /\ CallsOK /\ CallType
  BY DEF SlotInv, World, Sound, Worlds
<1>1. /\ j.owner \in Spaces => /\ \A i \in w.jobs \ {j} : i.owner # j.owner
                               /\ w.app.deleting[j.owner] # Nil
                               /\ w.app.deleting[j.owner].tree = j.tree
      /\ j.tree \in Trees /\ j.owner \in Calls \cup Runs \cup Spaces \cup {Prompt}
  BY <1>0 DEF Sound, Deletes, JobTypes, Owners
<1> DEFINE left == Left(w, j)
           freed == SlotFreed(w, j)
<1>2. \/ j.kind = "check" /\ x \in ContinueDelete(left, j)
      \/ j.kind # "check" /\ ~ j.slot /\ x \in ReplayDelete(left, j)
      \/ j.kind # "check" /\ j.slot /\ \E y \in Replay(freed, j) : x \in StartPending(y)
  BY DEF Apply, Left
<1>3. CASE ~ j.slot /\ x \in ContinueDelete(left, j) \cup ReplayDelete(left, j)
  <2>1. Sound(left, Nil) /\ left.app = w.app /\ left.disk = w.disk /\ left.jobs = w.jobs \ {j}
    <3> HIDE DEF w
    <3> QED BY <1>0, <1>3, LeftSound
  <2>2. j.owner \in Spaces
    BY <1>0, <1>1, <1>3 DEF JobOK
  <2> HIDE DEF w, left
  <2>3. Leads(left, x, Nil) /\ x.app.ready = Nil
    <3>1. CASE x \in ContinueDelete(left, j)
      BY <1>0, <1>1, <2>1, <2>2, <3>1, ContinueLeads
    <3>2. CASE x \in ReplayDelete(left, j)
      BY <1>0, <1>1, <1>3, <2>1, <2>2, <3>2, ReplayDeleteLeads
    <3> QED BY <1>3, <3>1, <3>2
  <2>4. \A t \in Trees : Created(t, TRUE) # Nil
    BY MadeIsNoResult
  <2>5. Applied(w, x, j)
    BY <1>0, <2>1, <2>3, <2>4 DEF Leads, Applied
  <2> QED BY <2>5 DEF w
<1>4. CASE j.slot /\ \E y \in Replay(freed, j) : x \in StartPending(y)
  <2>1. /\ Sound(freed, Nil) /\ SameSpaces(freed, w) /\ freed.disk = w.disk
        /\ freed.jobs = w.jobs \ {j} /\ freed.app.ready = j.result
    <3> HIDE DEF w
    <3> QED BY <1>0, <1>4, FreedSound
  <2>2. PICK y \in Replay(freed, j) : x \in StartPending(y)
    BY <1>4
  <2> HIDE DEF w, freed
  <2>3. Leads(freed, y, Nil) /\ y.app.ready = Nil
    BY <1>0, <1>1, <1>4, <2>1, ReplayLeads
  <2>4. Leads(y, x, Nil)
    BY <2>2, <2>3, StartPendingLeads DEF Leads
  <2>5. Leads(freed, x, Nil) /\ x.app.ready = Nil
    <3>1. Leads(freed, x, Nil)
      BY <2>3, <2>4, LeadsOn
    <3>2. x.app.ready = Nil
      BY <2>3, <2>4 DEF Leads
    <3> QED BY <3>1, <3>2
  <2>6. Applied(w, x, j)
    BY <1>4, <2>1, <2>5 DEF Leads, Applied
  <2> QED BY <2>6 DEF w
<1> QED BY <1>0, <1>2, <1>3, <1>4 DEF JobOK

-----------------------------------------------------------------------------
(* The steps *)

\* What KeptOnlyRemoved asks of a step.
KeptStep ==
  \A t \in Trees : checkouts[t] = "kept" /\ checkouts'[t] = "none" =>
    \/ \E j \in jobs : j.kind = "remove" /\ j.tree = t /\ ~j.done
    \/ \E c \in Calls : IdleCall(c) /\ call'[c].tree = t
    \/ Overtaken(t)

LEMMA WorldIs ==
  ASSUME NEW x \in Worlds, Becomes(x)
  PROVE  /\ [disk |-> checkouts', app |-> app', jobs |-> jobs'] = x
         /\ checkouts' = x.disk /\ app' = x.app /\ jobs' = x.jobs
  BY DEF Becomes, Worlds

LEMMA InvIs ==
  ASSUME SlotInv
  PROVE  /\ Sound(World, Nil) /\ World.app = app /\ World.disk = checkouts /\ World.jobs = jobs
         /\ World.app.ready = Nil /\ World \in Worlds
  BY DEF SlotInv, World, Sound

\* A handler that leaves the requests alone.
LEMMA LeadStep ==
  ASSUME SlotAssumption, SlotInv, NEW x, Leads(World, x, Nil), Becomes(x), UNCHANGED call
  PROVE  SlotInv' /\ KeptStep
<1>1. Sound(x, Nil) /\ x \in Worlds /\ x.app.ready = Nil
  BY InvIs DEF Leads, Sound
<1>2. World' = x /\ checkouts' = x.disk /\ app' = x.app /\ jobs' = x.jobs
  BY <1>1, WorldIs DEF World
<1>3. Sound(World, Nil)' /\ app'.ready = Nil
  BY <1>1, <1>2
<1>4. CallsOK' /\ CallType'
  BY <1>2, InvIs DEF Leads, SlotInv, CallsOK, CallType
<1>5. KeptStep
  BY <1>2, InvIs, MadeIsNoResult DEF Leads, KeptStep
<1> QED BY <1>3, <1>4, <1>5 DEF SlotInv

LEMMA PromptSteps ==
  ASSUME SlotAssumption, SlotInv, (\E t \in Trees : OpenPrompt(t)) \/ CancelPrompt
  PROVE  SlotInv' /\ KeptStep
<1> DEFINE w == World
           x(p) == SetPrompt(w, p)
<1>0. Sound(w, Nil) /\ w.app = app /\ w.disk = checkouts /\ w.jobs = jobs /\ w \in Worlds
  BY InvIs
<1>1. PICK p \in PromptType : /\ p.open => p.tree \in Trees
                              /\ app' = [app EXCEPT !.prompt = p]
                              /\ UNCHANGED <<checkouts, jobs, call>>
  <2>1. CASE \E t \in Trees : OpenPrompt(t)
    <3>1. PICK t \in Trees : OpenPrompt(t)
      BY <2>1
    <3> DEFINE p == [open |-> TRUE, tree |-> t, waiting |-> FALSE]
    <3>2. p \in PromptType /\ p.tree \in Trees
      BY DEF PromptType, Maybe
    <3> QED BY <3>1, <3>2 DEF OpenPrompt
  <2>2. CASE CancelPrompt
    <3> DEFINE p == [app.prompt EXCEPT !.open = FALSE, !.waiting = FALSE]
    <3>1. app.prompt \in PromptType /\ app \in Apps
      BY <1>0, PromptOf DEF Worlds
    <3>2. p \in PromptType /\ ~ p.open
      BY <3>1 DEF PromptType
    <3>3. [app EXCEPT !.prompt.open = FALSE, !.prompt.waiting = FALSE] = [app EXCEPT !.prompt = p]
      BY <3>1 DEF Apps
    <3> QED BY <2>2, <3>2, <3>3 DEF CancelPrompt
  <2> QED BY <2>1, <2>2
<1> HIDE DEF w
<1>2. Leads(w, x(p), Nil)
  BY <1>0, <1>1, SetPromptLeads
<1>3. Becomes(x(p))
  BY <1>0, <1>1 DEF SetPrompt, Worlds, Becomes
<1> QED BY <1>1, <1>2, <1>3, LeadStep DEF w

LEMMA EnterStep ==
  ASSUME SlotAssumption, SlotInv, EnterPrompt
  PROVE  SlotInv' /\ KeptStep
<1> DEFINE w == World
           t == app.prompt.tree
<1>0. Sound(w, Nil) /\ w.app = app /\ w.app.ready = Nil
  BY InvIs
<1>1. /\ app.prompt.open /\ app.prompt \in PromptType /\ t \in Trees
      /\ UNCHANGED call
  BY <1>0, PromptOf DEF EnterPrompt
<1>2. PICK a \in CreateTree(w, t) :
        \/ /\ a.says = "opened"
           /\ Becomes(SetPrompt(Keep(a.world, a.tree), [app.prompt EXCEPT !.open = FALSE]))
        \/ /\ a.says = "failed"
           /\ Becomes(Waiting(a.world, FALSE))
        \/ /\ a.says = "pending"
           /\ \E o \in Schedule(a.world, Prompt, "create", a.tree, FALSE) :
                Becomes(Waiting(o.world, o.ok))
  BY DEF EnterPrompt
<1>3. CreateIs(w, a, t)
  BY <1>0, <1>1, <1>2, CreateTreeIs
<1> HIDE DEF w, t
<1>4. SUFFICES \E x : Leads(w, x, Nil) /\ Becomes(x)
  BY <1>1, LeadStep DEF w
<1>5. CASE a.says = "opened"
  <2> DEFINE y == Keep(a.world, t)
             p == [app.prompt EXCEPT !.open = FALSE]
  <2>1. Leads(w, y, Nil) /\ Sound(y, Nil)
    <3>1. Leads(w, y, Nil)
      BY <1>0, <1>1, <1>3, <1>5, KeepLeads
    <3> QED BY <3>1 DEF Leads
  <2>2. p \in PromptType /\ ~ p.open
    BY <1>1 DEF PromptType
  <2>3. Becomes(SetPrompt(y, p))
    BY <1>2, <1>3, <1>5 DEF CreateIs
  <2> HIDE DEF y, p
  <2>4. Leads(y, SetPrompt(y, p), Nil)
    BY <2>1, <2>2, SetPromptLeads
  <2>5. Leads(w, SetPrompt(y, p), Nil)
    BY <2>1, <2>4, LeadsOn
  <2> QED BY <2>3, <2>5
<1>6. CASE a.says = "failed"
  <2>1. Leads(w, a.world, Nil) /\ Sound(a.world, Nil) /\ Becomes(Waiting(a.world, FALSE))
    BY <1>2, <1>3, <1>6 DEF CreateIs, Leads
  <2>2. Leads(a.world, Waiting(a.world, FALSE), Nil)
    BY <2>1, WaitsNoMore
  <2> QED BY <2>1, <2>2, LeadsOn
<1>7. CASE a.says = "pending"
  <2>1. a.world = w /\ a.tree = t /\ ~ w.app.inflight /\ "module" \in Providers
    BY <1>3, <1>7 DEF CreateIs
  <2>2. PICK o \in Schedule(w, Prompt, "create", t, FALSE) : Becomes(Waiting(o.world, o.ok))
    BY <1>2, <1>7, <2>1
  <2>3. o.ok \in BOOLEAN /\ IF o.ok THEN Parked(w, o.world, Prompt, "create", t) ELSE o.world = w
    <3> DEFINE force == FALSE
    <3>1. force \in BOOLEAN /\ o \in Schedule(w, Prompt, "create", t, force)
      OBVIOUS
    <3>2. Requester(Prompt, "create")
      BY DEF Requester
    <3> HIDE DEF force
    <3> QED BY <1>0, <1>1, <2>1, <3>1, <3>2, ScheduleIs
  <2>4. Leads(w, o.world, Nil) /\ Sound(o.world, Nil)
    BY <1>0, <2>3, ParkedLeads, LeadsStay DEF Leads
  <2>5. Leads(o.world, Waiting(o.world, o.ok), Nil)
    BY <2>3, <2>4, WaitingLeads
  <2>6. Leads(w, Waiting(o.world, o.ok), Nil)
    BY <2>4, <2>5, LeadsOn
  <2> QED BY <2>2, <2>6
<1> QED BY <1>2, <1>5, <1>6, <1>7

LEMMA SavedStep ==
  ASSUME SlotAssumption, SlotInv, Saved
  PROVE  SlotInv' /\ KeptStep
<1> DEFINE w == World
           saving == FALSE
           y == [w EXCEPT !.app.saving = saving]
<1>1. Sound(w, Nil)
  BY InvIs
<1>2. PICK x \in StartPending(y) : Becomes(x) /\ UNCHANGED call
  BY DEF Saved
<1>3. saving \in BOOLEAN
  OBVIOUS
<1> HIDE DEF w, saving
<1>4. Leads(w, y, Nil) /\ Sound(y, Nil)
  <2>1. Leads(w, y, Nil)
    BY <1>1, <1>3, SavingLeads
  <2> QED BY <2>1 DEF Leads
<1> HIDE DEF y
<1>5. Leads(w, x, Nil)
  BY <1>2, <1>4, StartPendingLeads, LeadsOn
<1> QED BY <1>2, <1>5, LeadStep DEF w

LEMMA EditStep ==
  ASSUME SlotAssumption, SlotInv, EditAutomation
  PROVE  SlotInv' /\ KeptStep
<1> DEFINE w == World
           saving == TRUE
           x == [w EXCEPT !.app.saving = saving]
<1>1. Sound(w, Nil) /\ saving \in BOOLEAN
  BY InvIs
<1>2. Becomes(x) /\ UNCHANGED call
  BY DEF EditAutomation, Becomes, World
<1> HIDE DEF w, saving
<1>3. Leads(w, x, Nil)
  BY <1>1, SavingLeads
<1> HIDE DEF x
<1> QED BY <1>2, <1>3, LeadStep DEF w

LEMMA RequestRunStep ==
  ASSUME SlotAssumption, SlotInv, NEW r \in Runs, RequestRun(r)
  PROVE  SlotInv' /\ KeptStep
<1> DEFINE w == World
           x == EndRun(w, r, "pending")
<1>1. Sound(w, Nil)
  BY InvIs
<1>2. Becomes(x) /\ UNCHANGED call
  BY DEF RequestRun, Becomes, World, EndRun
<1> HIDE DEF w
<1>3. Leads(w, x, Nil)
  BY <1>1, EndRunLeads
<1> HIDE DEF x
<1> QED BY <1>2, <1>3, LeadStep DEF w

LEMMA TaskSteps ==
  ASSUME SlotAssumption, SlotInv, NEW k \in Tasks, ClaimTask(k) \/ FinishTask(k)
  PROVE  SlotInv' /\ KeptStep
<1> DEFINE w == World
           x(v) == [w EXCEPT !.app.task[k].status = v]
<1>1. Sound(w, Nil)
  BY InvIs
<1>2. PICK v \in Statuses : Becomes(x(v)) /\ UNCHANGED call
  <2>1. CASE ClaimTask(k)
    <3>1. Becomes(x("claimed")) /\ UNCHANGED call
      BY <2>1 DEF ClaimTask, Becomes, World
    <3> QED BY <3>1 DEF Statuses
  <2>2. CASE FinishTask(k)
    <3>1. Becomes(x("done")) /\ UNCHANGED call
      BY <2>2 DEF FinishTask, Becomes, World
    <3> QED BY <3>1 DEF Statuses
  <2> QED BY <2>1, <2>2
<1> HIDE DEF w
<1>3. Leads(w, x(v), Nil)
  BY <1>1, StatusLeads
<1> HIDE DEF x
<1> QED BY <1>2, <1>3, LeadStep DEF w

LEMMA WorkStep ==
  ASSUME SlotAssumption, SlotInv, NEW s \in Spaces, NEW t \in Trees, Work(s, t)
  PROVE  SlotInv' /\ KeptStep
<1> DEFINE w == World
           S == (w.app.busy \ {s}) \cup ({s} \ w.app.busy)
           x == [w EXCEPT !.app.busy = S]
<1>1. Sound(w, Nil) /\ w.app = app /\ w \in Worlds /\ s \in w.app.open[t]
  BY InvIs DEF Work
<1>2. Becomes(x) /\ UNCHANGED call
  BY DEF Work, Becomes, World
<1> HIDE DEF w
<1>3. S \in SUBSET Spaces /\ S \subseteq w.app.busy \cup {s}
  BY <1>1 DEF Worlds, Apps
<1> HIDE DEF S
<1>4. /\ x \in Worlds /\ SameSlot(x, w)
      /\ x.app.open = w.app.open /\ x.app.deleting = w.app.deleting
      /\ x.app.task = w.app.task /\ x.app.prompt = w.app.prompt
      /\ x.app.busy = S
  BY <1>1, <1>3, SetBusy
<1> HIDE DEF x
<1>5. Deletes(x) /\ BusyOpen(x) /\ TasksPlaced(x) /\ Asked(x)
  BY <1>1, <1>3, <1>4 DEF Sound, Deletes, BusyOpen, TasksPlaced, Asked, SameSlot
<1>6. Leads(w, x, Nil)
  <2>1. Sound(x, Nil)
    BY <1>1, <1>4, <1>5, SoundSpaces
  <2> QED BY <1>1, <1>4, <2>1, LeadsSame
<1> QED BY <1>2, <1>6, LeadStep DEF w

LEMMA OpenTreeStep ==
  ASSUME SlotAssumption, SlotInv, NEW t \in Trees, NEW alias \in BOOLEAN, OpenTree(t, alias)
  PROVE  SlotInv' /\ KeptStep
<1> DEFINE w == World
<1>1. PICK o \in OpenAt(w, t, alias) : Becomes(o.world) /\ UNCHANGED call
  BY DEF OpenTree
<1>2. Sound(w, Nil)
  BY InvIs
<1> HIDE DEF w
<1>3. Leads(w, o.world, Nil)
  BY <1>2, OpenAtLeads
<1> QED BY <1>1, <1>3, LeadStep DEF w

LEMMA CloseStep ==
  ASSUME SlotAssumption, SlotInv, NEW s \in Spaces, NEW t \in Trees, CloseWorkspace(s, t)
  PROVE  SlotInv' /\ KeptStep
<1> DEFINE w == World
           x == CloseSpace(w, t, s)
<1>1. Becomes(x) /\ UNCHANGED call
  BY DEF CloseWorkspace
<1>2. Sound(w, Nil)
  BY InvIs
<1> HIDE DEF w
<1>3. Leads(w, x, Nil)
  BY <1>2, CloseSpaceSound, LeadsSame
<1> HIDE DEF x
<1> QED BY <1>1, <1>3, LeadStep DEF w

LEMMA ConfirmStep ==
  ASSUME SlotAssumption, SlotInv, NEW s \in Spaces, NEW t \in Trees, ConfirmDelete(s, t)
  PROVE  SlotInv' /\ KeptStep
<1> DEFINE w == World
           others == Others(app, t, s)
<1>1. PICK o \in Submit([w EXCEPT !.app.deleting[s] = Deletion(t, FALSE)],
                        Job(s, "check", t, FALSE, TRUE, others)) :
             Becomes(IF o.ok THEN o.world ELSE FinishDelete(o.world, s)) /\ UNCHANGED call
  BY DEF ConfirmDelete
<1>2. Sound(w, Nil) /\ w.app.ready = Nil /\ w.app.deleting[s] = Nil /\ others \in BOOLEAN
  BY InvIs DEF ConfirmDelete, Others
<1> HIDE DEF w, others
<1> DEFINE x == IF o.ok THEN o.world ELSE FinishDelete(o.world, s)
<1>3. Leads(w, x, Nil)
  BY <1>2, CheckStarts
<1> HIDE DEF x
<1>4. Becomes(x) /\ UNCHANGED call
  BY <1>1 DEF x
<1> QED BY <1>3, <1>4, LeadStep DEF w

\* A job is applied and leaves; a request that it was for has its answer.
LEMMA CompleteStep ==
  ASSUME SlotAssumption, SlotInv, NEW j \in jobs, CompleteJob(j)
  PROVE  SlotInv' /\ KeptStep
<1>1. PICK x \in Apply(j) : Becomes(x)
  BY DEF CompleteJob
<1>2. Applied(World, x, j)
  BY <1>1, ApplyLeads
<1>3. Sound(x, Nil) /\ x \in Worlds /\ x.app.ready = Nil
  BY <1>2 DEF Applied, Sound
<1>4. World' = x /\ checkouts' = x.disk /\ app' = x.app /\ jobs' = x.jobs
  BY <1>1, <1>3, WorldIs DEF World
<1>5. Sound(World, Nil)' /\ app'.ready = Nil
  BY <1>3, <1>4
<1>6. call' = IF j.owner \in Calls THEN [call EXCEPT ![j.owner].kind = "answered"] ELSE call
  BY DEF CompleteJob
<1>7. \A i \in jobs' : i.owner \in Calls => i \in jobs /\ i.owner # j.owner
  <2>1. \A i \in jobs' : i.owner \in Calls => i \in jobs /\ i # j
    BY <1>2, <1>4, InvIs DEF Applied
  <2>2. \A i \in jobs : i.owner \in Calls => i.slot
    BY InvIs DEF Sound, JobOK
  <2>3. \A i \in jobs : i.slot /\ j.slot => i = j
    BY InvIs DEF Sound, OneSlot
  <2> QED BY <2>1, <2>2, <2>3
<1>8. CallsOK'
  <2>1. \A c \in Calls : c # j.owner => call'[c] = call[c]
    BY <1>6 DEF SlotInv, CallType
  <2> QED BY <1>7, <2>1 DEF SlotInv, CallsOK
<1>9. CallType'
  <2>1. CASE j.owner \notin Calls
    BY <1>6, <2>1 DEF SlotInv, CallType
  <2>2. CASE j.owner \in Calls
    <3>1. call' = [call EXCEPT ![j.owner] = [call[j.owner] EXCEPT !.kind = "answered"]]
      BY <1>6, <2>2
    <3>2. [call[j.owner] EXCEPT !.kind = "answered"] \in Calling
      BY <2>2 DEF SlotInv, CallType, Calling
    <3>3. [call[j.owner] EXCEPT !.kind = "answered"].kind = "answered"
      BY <2>2 DEF SlotInv, CallType, Calling
    <3> QED BY <2>2, <3>1, <3>2, <3>3 DEF SlotInv, CallType
  <2> QED BY <2>1, <2>2
<1>10. KeptStep
  <2> SUFFICES ASSUME NEW t \in Trees, checkouts[t] = "kept", checkouts'[t] = "none"
               PROVE  Overtaken(t)
    BY DEF KeptStep
  <2>1. j.slot /\ j.result = Created(t, TRUE)
    BY <1>2, <1>4, InvIs DEF Applied
  <2>2. j.done
    BY <2>1, InvIs, MadeIsNoResult DEF Sound, JobOK
  <2>3. Finds(World, t)
    BY <2>1, <2>2, InvIs DEF Finds
  <2>4. Providers = {"module", "git"}
    BY <2>3, InvIs DEF Sound, Unkept
  <2> QED BY <2>1, <2>2, <2>4 DEF Overtaken, SlotJobs
<1> QED BY <1>5, <1>8, <1>9, <1>10 DEF SlotInv

\* What a job may do to the disk, and its result.
Ran(old, new, j, r) ==
  /\ r \in {Nil} \cup (IF j.kind = "create"
                        THEN {Created(j.tree, TRUE), Created(j.tree, FALSE)}
                        ELSE {Removed(j.tree)})
  /\ new \in Disks /\ \A u \in Trees : u # j.tree => new[u] = old[u]
  /\ new[j.tree] = "made" => old[j.tree] = "made" \/ r = Created(j.tree, TRUE)
  /\ r = Created(j.tree, TRUE) => new[j.tree] = "made"
  /\ new[j.tree] = "kept" => old[j.tree] = "kept" \/ j.slot
  /\ old[j.tree] = "kept" /\ new[j.tree] = "none" => j.kind = "remove"

\* A job has finished off the loop.
FinishesAs(w, x, j, r) ==
  /\ Ran(w.disk, x.disk, j, r)
  /\ x = [disk |-> x.disk, app |-> w.app,
          jobs |-> (w.jobs \ {j}) \cup {[j EXCEPT !.done = TRUE, !.result = r]}]

LEMMA FinishedSound ==
  ASSUME SlotAssumption, NEW w, Sound(w, Nil), w.app.ready = Nil, NEW j \in w.jobs, ~ j.done,
         NEW r, NEW x, FinishesAs(w, x, j, r)
  PROVE  Sound(x, Nil)
<1> DEFINE i == [j EXCEPT !.done = TRUE, !.result = r]
<1>b. /\ r \in {Nil} \cup (IF j.kind = "create"
                           THEN {Created(j.tree, TRUE), Created(j.tree, FALSE)}
                           ELSE {Removed(j.tree)})
      /\ x = [disk |-> x.disk, app |-> w.app, jobs |-> (w.jobs \ {j}) \cup {i}]
      /\ x.disk \in Disks /\ \A u \in Trees : u # j.tree => x.disk[u] = w.disk[u]
      /\ x.disk[j.tree] = "made" => w.disk[j.tree] = "made" \/ r = Created(j.tree, TRUE)
      /\ r = Created(j.tree, TRUE) => x.disk[j.tree] = "made"
      /\ x.disk[j.tree] = "kept" => w.disk[j.tree] = "kept" \/ j.slot
  BY DEF FinishesAs, Ran
<1>0. w \in Worlds /\ j \in JobTypes /\ JobOK(j) /\ j.tree \in Trees
  BY DEF Sound, Worlds, JobTypes
<1>1. r \in Maybe(Results)
  <2> DEFINE yes == TRUE
             no == FALSE
  <2>1. yes \in BOOLEAN /\ no \in BOOLEAN
    OBVIOUS
  <2> HIDE DEF yes, no
  <2>2. {Created(j.tree, yes), Created(j.tree, no), Removed(j.tree)} \subseteq Results
    BY <1>0, <2>1, NoneIsNoResult
  <2> QED BY <1>b, <2>2 DEF Maybe, yes, no
<1>2. /\ i \in JobTypes /\ i.owner = j.owner /\ i.kind = j.kind /\ i.tree = j.tree
      /\ i.slot = j.slot /\ i.done /\ i.result = r
  BY <1>0, <1>1 DEF JobTypes
<1> HIDE DEF i
<1>3. JobOK(i)
  BY <1>b, <1>0, <1>2 DEF JobOK
<1>4. x \in Worlds /\ x.app = w.app /\ x.jobs = (w.jobs \ {j}) \cup {i}
  <2>1. w.app \in Apps /\ (w.jobs \ {j}) \cup {i} \in SUBSET JobTypes
    BY <1>0, <1>2 DEF Worlds
  <2> QED BY <1>b, <2>1 DEF Worlds
<1>5. OneSlot(x) /\ Deletes(x) /\ \A k \in x.jobs : JobOK(k)
  <2>1. \A k \in x.jobs : JobOK(k)
    BY <1>3, <1>4 DEF Sound
  <2>2. \A k \in x.jobs : \E l \in w.jobs : /\ k.slot = l.slot /\ k.owner = l.owner
                                           /\ k.kind = l.kind /\ k.tree = l.tree
                                           /\ k = IF l = j THEN i ELSE l
    BY <1>2, <1>4
  <2>3. \A l \in w.jobs : \E k \in x.jobs : k.slot = l.slot
    BY <1>2, <1>4
  <2>4. \A k, l \in x.jobs : k.slot /\ l.slot => k = l
    BY <2>2 DEF Sound, OneSlot
  <2>5. x.app.inflight <=> \E k \in x.jobs : k.slot
    <3>1. w.app.inflight <=> \E k \in w.jobs : k.slot
      BY DEF Sound, OneSlot
    <3> QED BY <1>4, <2>2, <2>3, <3>1
  <2>6. OneSlot(x)
    BY <1>4, <2>4, <2>5 DEF OneSlot
  <2>7. \A k, l \in x.jobs : k.owner = l.owner /\ k.owner \in Spaces => k = l
    BY <2>2 DEF Sound, Deletes
  <2>8. Deletes(x)
    BY <1>4, <2>2, <2>7 DEF Sound, Deletes
  <2> QED BY <2>1, <2>6, <2>8
<1>6. \A u \in Trees : Finds(w, u) => \E k \in w.jobs : k # j /\ k.slot
  BY <1>0, MadeIsNoResult DEF Finds, JobOK
<1>7. \A u \in Trees : Finds(w, u) => Finds(x, u) /\ ~ j.slot
  <2>1. \A k, l \in w.jobs : k.slot /\ l.slot => k = l
    BY DEF Sound, OneSlot
  <2> QED BY <1>0, <1>4, <1>6, <2>1, MadeIsNoResult DEF Finds, JobOK
<1>8. \A u \in Trees : Finds(x, u) => Finds(w, u) \/ (j.slot /\ r = Created(u, TRUE))
  BY <1>2, <1>4, MadeIsNoResult DEF Finds
<1>9. \A u \in Trees : r = Created(u, TRUE) => u = j.tree /\ j.kind = "create" /\ j.slot
  BY <1>b, <1>0, MadeIsNoResult DEF JobOK, Created, Removed, JobTypes, Owners
<1>10. Orphanless(x, Nil)
  <2> SUFFICES ASSUME NEW u \in Trees, x.disk[u] = "made"
               PROVE  Finds(x, u)
    BY DEF Orphanless
  <2>1. CASE w.disk[u] = "made"
    BY <1>7, <2>1, NoneIsNoResult DEF Sound, Orphanless
  <2>2. CASE w.disk[u] # "made"
    <3>1. u = j.tree /\ r = Created(j.tree, TRUE)
      BY <1>b, <2>2
    <3> QED BY <1>2, <1>4, <1>9, <3>1 DEF Finds
  <2> QED BY <2>1, <2>2
<1>11. Unkept(x)
  <2> SUFFICES ASSUME ~ (Providers = {"module", "git"}), NEW u \in Trees, Finds(x, u),
                      x.disk[u] = "kept"
               PROVE  FALSE
    BY DEF Unkept
  <2>1. Finds(w, u)
    BY <1>b, <1>8, <1>9
  <2>2. w.disk[u] # "kept" /\ ~ j.slot
    BY <1>7, <2>1 DEF Sound, Unkept
  <2> QED BY <1>b, <2>2
<1>12. TasksPlaced(x) /\ BusyOpen(x) /\ Asked(x)
  BY <1>4 DEF Sound, TasksPlaced, BusyOpen, Asked
<1> QED BY <1>4, <1>5, <1>10, <1>11, <1>12 DEF Sound

\* Each outcome of the three kinds of jobs is one of those.
LEMMA RunJobIs ==
  ASSUME SlotAssumption, SlotInv, NEW j \in jobs, RunJob(j)
  PROVE  \E r : /\ Ran(checkouts, checkouts', j, r) /\ ~ j.done /\ UNCHANGED <<app, call>>
                /\ jobs' = (jobs \ {j}) \cup {[j EXCEPT !.done = TRUE, !.result = r]}
<1>0. /\ j \in JobTypes /\ JobOK(j) /\ j.tree \in Trees /\ checkouts \in Disks
      /\ j.kind = "create" => j.slot
  <2>1. j \in JobTypes /\ JobOK(j) /\ checkouts \in Disks
    BY InvIs DEF Sound, Worlds
  <2> QED BY <2>1 DEF JobTypes, JobOK, Owners
<1>1. ~ j.done /\ UNCHANGED <<app, call>>
  BY DEF RunJob
<1>2. /\ Nil # Created(j.tree, TRUE) /\ Created(j.tree, FALSE) # Created(j.tree, TRUE)
      /\ Removed(j.tree) # Created(j.tree, TRUE)
  BY <1>0, MadeIsNoResult DEF Created, Removed
<1>3. CASE j.kind = "create" /\ RunCreate(j)
  <2>1. CASE /\ checkouts[j.tree] = "none"
             /\ checkouts' = [checkouts EXCEPT ![j.tree] = "made"]
             /\ Finished(j, Created(j.tree, TRUE))
    <3>1. Ran(checkouts, checkouts', j, Created(j.tree, TRUE))
      BY <1>0, <1>3, <2>1 DEF Ran, Disks
    <3> QED BY <1>1, <2>1, <3>1 DEF Finished
  <2>2. CASE /\ checkouts[j.tree] = "none"
             /\ checkouts' = [checkouts EXCEPT ![j.tree] = "kept"]
             /\ Finished(j, Nil)
    <3>1. Ran(checkouts, checkouts', j, Nil)
      BY <1>0, <1>2, <1>3, <2>2 DEF Ran, Disks
    <3> QED BY <1>1, <2>2, <3>1 DEF Finished
  <2>3. CASE /\ checkouts[j.tree] # "none"
             /\ Finished(j, Created(j.tree, FALSE))
             /\ UNCHANGED checkouts
    <3>1. Ran(checkouts, checkouts', j, Created(j.tree, FALSE))
      BY <1>0, <1>2, <1>3, <2>3 DEF Ran, Disks
    <3> QED BY <1>1, <2>3, <3>1 DEF Finished
  <2>4. CASE Finished(j, Nil) /\ UNCHANGED checkouts
    <3>1. Ran(checkouts, checkouts', j, Nil)
      BY <1>0, <1>2, <1>3, <2>4 DEF Ran, Disks
    <3> QED BY <1>1, <2>4, <3>1 DEF Finished
  <2> QED BY <1>3, <2>1, <2>2, <2>3, <2>4 DEF RunCreate
<1>4. CASE j.kind = "remove" /\ RunRemove(j)
  <2>1. CASE /\ checkouts' = [checkouts EXCEPT ![j.tree] = "none"]
             /\ Finished(j, Removed(j.tree))
    <3>1. Ran(checkouts, checkouts', j, Removed(j.tree))
      BY <1>0, <1>2, <1>4, <2>1 DEF Ran, Disks
    <3> QED BY <1>1, <2>1, <3>1 DEF Finished
  <2>2. CASE Finished(j, Nil) /\ UNCHANGED checkouts
    <3>1. Ran(checkouts, checkouts', j, Nil)
      BY <1>0, <1>2, <1>4, <2>2 DEF Ran, Disks
    <3> QED BY <1>1, <2>2, <3>1 DEF Finished
  <2> QED BY <1>4, <2>1, <2>2 DEF RunRemove
<1>5. CASE j.kind = "check" /\ RunCheck(j)
  <2>1. PICK r \in {Nil, Removed(j.tree)} : Finished(j, r) /\ UNCHANGED checkouts
    BY <1>5 DEF RunCheck
  <2>2. Ran(checkouts, checkouts', j, r)
    BY <1>0, <1>2, <1>5, <2>1 DEF Ran, Disks
  <2> QED BY <1>1, <2>1, <2>2 DEF Finished
<1> QED BY <1>3, <1>4, <1>5 DEF RunJob

LEMMA RunStep ==
  ASSUME SlotAssumption, SlotInv, NEW j \in jobs, RunJob(j)
  PROVE  SlotInv' /\ KeptStep
<1> DEFINE w == World
           x == [disk |-> checkouts', app |-> w.app, jobs |-> jobs']
           i(r) == [j EXCEPT !.done = TRUE, !.result = r]
<1>0. /\ Sound(w, Nil) /\ w.app.ready = Nil /\ w.disk = checkouts /\ w.jobs = jobs
      /\ w.app = app /\ j \in JobTypes /\ j \in w.jobs
  BY InvIs DEF Sound, Worlds
<1>1. PICK r : /\ Ran(checkouts, checkouts', j, r) /\ ~ j.done /\ UNCHANGED <<app, call>>
               /\ jobs' = (w.jobs \ {j}) \cup {i(r)}
  BY <1>0, RunJobIs
<1>2. World' = x
  BY <1>0, <1>1 DEF World
<1>3. /\ x = [disk |-> x.disk, app |-> w.app, jobs |-> (w.jobs \ {j}) \cup {i(r)}]
      /\ x.disk = checkouts'
  BY <1>1
<1>4. i(r).owner = j.owner /\ i(r).kind = j.kind /\ i(r).tree = j.tree
  BY <1>0 DEF JobTypes
<1> HIDE DEF w, x
<1>5. Sound(x, Nil)
  <2>1. FinishesAs(w, x, j, r)
    BY <1>0, <1>1, <1>3 DEF FinishesAs
  <2> HIDE DEF i
  <2> QED BY <1>0, <1>1, <2>1, FinishedSound
<1>6. CallsOK' /\ CallType'
  <2>1. \A k \in jobs' : \E l \in jobs : k.owner = l.owner /\ k.kind = l.kind /\ k.tree = l.tree
    BY <1>0, <1>1, <1>4
  <2>2. call' = call
    BY <1>1
  <2> QED BY <2>1, <2>2 DEF SlotInv, CallsOK, CallType
<1>7. KeptStep
  BY <1>0, <1>1 DEF KeptStep, Ran
<1>8. Sound(World, Nil)' /\ app'.ready = Nil
  BY <1>0, <1>1, <1>2, <1>5
<1> QED BY <1>6, <1>7, <1>8 DEF SlotInv

\* A request as the API accepts it.
Asks(request) ==
  /\ request \in Calling /\ request.kind \in {"create", "remove", "next"}
  /\ request.kind \in {"create", "remove"} => request.tree \in Trees

\* What only a removal is excused from, the others do not do either.
LEMMA LeadsAreBut ==
  ASSUME NEW w, NEW x, NEW t, Leads(w, x, Nil)
  PROVE  LeadsBut(w, x, t)
  BY DEF Leads, LeadsBut

\* A request is parked untouched, or answered.
LEMMA HandleIs ==
  ASSUME SlotAssumption, NEW w, Sound(w, Nil), NEW request, Asks(request),
         NEW a \in Handle(w, request)
  PROVE  \/ /\ PendingIs(w, a) /\ a.tree \in Trees
            /\ request.kind = "remove" => a.tree = request.tree
         \/ a.says # "pending" /\ LeadsBut(w, a.world, request.tree)
<1>1. CASE request.kind = "create"
  <2>1. /\ a.tree = request.tree /\ a.tree \in Trees
        /\ PendingIs(w, a) \/ (a.says # "pending" /\ Leads(w, a.world, Nil))
    BY <1>1, HandleCreate DEF Asks
  <2> QED BY <2>1, LeadsAreBut
<1>2. CASE request.kind = "remove"
  <2>1. a \in RemoveTree(w, request.tree, request.force)
    BY <1>2 DEF Handle
  <2>2. request.tree \in Trees /\ request.force \in BOOLEAN
    BY <1>2 DEF Asks, Calling
  <2>3. /\ a.tree = request.tree
        /\ PendingIs(w, a) \/ (a.says # "pending" /\ LeadsBut(w, a.world, request.tree))
    BY <2>1, <2>2, RemoveTreeIs
  <2> QED BY <2>2, <2>3
<1>3. CASE request.kind = "next"
  <2>1. \/ PendingIs(w, a) /\ a.tree \in Trees
        \/ a.says # "pending" /\ Leads(w, a.world, Nil)
    BY <1>3, HandleNext
  <2> QED BY <1>3, <2>1, LeadsAreBut
<1> QED BY <1>1, <1>2, <1>3 DEF Asks

\* No job works for a request that has not been made.
LEMMA IdleOwnsNone ==
  ASSUME SlotInv, NEW c \in Calls, IdleCall(c)
  PROVE  \A j \in jobs : j.owner # c
  BY DEF SlotInv, CallsOK, IdleCall

\* It is answered at once.
LEMMA AnsweredStep ==
  ASSUME SlotAssumption, SlotInv, NEW c \in Calls, IdleCall(c), NEW request, Asks(request),
         NEW x, LeadsBut(World, x, request.tree), Becomes(x),
         call' = [call EXCEPT ![c] = [request EXCEPT !.kind = "answered"]]
  PROVE  SlotInv' /\ KeptStep
<1> DEFINE q == [request EXCEPT !.kind = "answered"]
<1>0. q \in Calling /\ q.kind = "answered" /\ q.tree = request.tree
  BY DEF Asks, Calling
<1> HIDE DEF q
<1>1. Sound(x, Nil) /\ x \in Worlds /\ x.app.ready = Nil
  BY InvIs DEF LeadsBut, Sound
<1>2. World' = x /\ checkouts' = x.disk /\ app' = x.app /\ jobs' = x.jobs
  BY <1>1, WorldIs DEF World
<1>3. Sound(World, Nil)' /\ app'.ready = Nil
  BY <1>1, <1>2
<1>4. call' = [call EXCEPT ![c] = q]
  BY DEF q
<1>5. call' \in [Calls -> Calling] /\ call'[c] = q /\ \A d \in Calls : d # c => call'[d] = call[d]
  BY <1>0, <1>4 DEF SlotInv, CallType
<1>6. CallType'
  BY <1>0, <1>5 DEF SlotInv, CallType
<1>7. CallsOK'
  <2>1. \A j \in jobs' : j.owner \in Calls => j \in jobs /\ j.owner # c
    BY <1>2, InvIs, IdleOwnsNone DEF LeadsBut
  <2> QED BY <1>5, <2>1 DEF SlotInv, CallsOK
<1>8. KeptStep
  <2> SUFFICES ASSUME NEW t \in Trees, checkouts[t] = "kept", checkouts'[t] = "none"
               PROVE  IdleCall(c) /\ call'[c].tree = t
    BY DEF KeptStep
  <2>1. t = request.tree
    BY <1>2, InvIs, MadeIsNoResult DEF LeadsBut
  <2> QED BY <1>0, <1>5, <2>1
<1> QED BY <1>3, <1>6, <1>7, <1>8 DEF SlotInv

\* It is parked, and its job has been admitted.
LEMMA ParkedStep ==
  ASSUME SlotAssumption, SlotInv, NEW c \in Calls, IdleCall(c), NEW request, Asks(request),
         NEW kind, kind = (IF request.kind = "remove" THEN "remove" ELSE "create"),
         NEW t \in Trees, request.kind = "remove" => t = request.tree,
         NEW x, Parked(World, x, c, kind, t), Becomes(x), call' = [call EXCEPT ![c] = request]
  PROVE  SlotInv' /\ KeptStep
<1>1. Sound(x, Nil) /\ x \in Worlds /\ x.app.ready = Nil /\ x.disk = checkouts
  BY InvIs DEF Parked, Sound
<1>2. World' = x /\ checkouts' = x.disk /\ app' = x.app /\ jobs' = x.jobs
  BY <1>1, WorldIs DEF World
<1>3. Sound(World, Nil)' /\ app'.ready = Nil
  BY <1>1, <1>2
<1>4. /\ call' \in [Calls -> Calling] /\ call'[c] = request
      /\ \A d \in Calls : d # c => call'[d] = call[d]
  BY DEF SlotInv, CallType, Asks
<1>5. CallType'
  BY <1>4 DEF SlotInv, CallType, Asks
<1>6. CallsOK'
  <2>1. PICK j \in JobTypes : j.owner = c /\ j.kind = kind /\ j.tree = t /\ jobs' = jobs \cup {j}
    BY <1>2, InvIs DEF Parked
  <2>2. \A i \in jobs : i.owner # c
    BY IdleOwnsNone
  <2>3. SUFFICES ASSUME NEW i \in jobs', i.owner \in Calls
                 PROVE  /\ call'[i.owner].kind \in {"create", "remove", "next"}
                        /\ call'[i.owner].kind = "remove" <=> i.kind = "remove"
                        /\ i.kind = "remove" => call'[i.owner].tree = i.tree
    BY DEF CallsOK
  <2>4. CASE i = j
    BY <1>4, <2>1, <2>4 DEF Asks
  <2>5. CASE i \in jobs
    <3>1. call'[i.owner] = call[i.owner]
      BY <1>4, <2>2, <2>3, <2>5
    <3> QED BY <2>3, <2>5, <3>1 DEF SlotInv, CallsOK
  <2> QED BY <2>1, <2>4, <2>5
<1>7. KeptStep
  BY <1>1, <1>2 DEF KeptStep
<1> QED BY <1>3, <1>5, <1>6, <1>7 DEF SlotInv

LEMMA RequestStep ==
  ASSUME SlotAssumption, SlotInv, NEW c \in Calls, NEW request, Asks(request), Request(c, request)
  PROVE  SlotInv' /\ KeptStep
<1> DEFINE w == World
           kind == IF request.kind = "remove" THEN "remove" ELSE "create"
           answered == call' = [call EXCEPT ![c] = [request EXCEPT !.kind = "answered"]]
<1>0. Sound(w, Nil) /\ w.app.ready = Nil /\ IdleCall(c) /\ request.force \in BOOLEAN
  BY InvIs DEF Request, Asks, Calling
<1>1. PICK a \in Handle(w, request) :
        \/ a.says # "pending" /\ Becomes(a.world) /\ answered
        \/ /\ a.says = "pending"
           /\ \E o \in Schedule(a.world, c, kind, a.tree, request.force) :
                /\ Becomes(o.world)
                /\ call' = [call EXCEPT ![c] =
                     IF o.ok THEN request ELSE [request EXCEPT !.kind = "answered"]]
  BY DEF Request
<1>2. \/ /\ PendingIs(w, a) /\ a.tree \in Trees
         /\ request.kind = "remove" => a.tree = request.tree
      \/ a.says # "pending" /\ LeadsBut(w, a.world, request.tree)
  BY <1>0, <1>1, HandleIs
<1>3. CASE a.says # "pending"
  <2>1. LeadsBut(w, a.world, request.tree) /\ Becomes(a.world) /\ answered
    BY <1>1, <1>2, <1>3 DEF PendingIs
  <2> QED BY <1>0, <2>1, AnsweredStep
<1>4. CASE a.says = "pending"
  <2>1. /\ a.world = w /\ ~ w.app.inflight /\ "module" \in Providers /\ a.tree \in Trees
        /\ request.kind = "remove" => a.tree = request.tree
    BY <1>2, <1>4 DEF PendingIs
  <2>2. PICK o \in Schedule(w, c, kind, a.tree, request.force) :
          /\ Becomes(o.world)
          /\ call' = [call EXCEPT ![c] =
               IF o.ok THEN request ELSE [request EXCEPT !.kind = "answered"]]
    BY <1>1, <1>4, <2>1
  <2>3. Requester(c, kind)
    BY DEF Requester
  <2>4. kind = (IF request.kind = "remove" THEN "remove" ELSE "create")
    OBVIOUS
  <2> HIDE DEF w, kind
  <2>5. o.ok \in BOOLEAN /\ IF o.ok THEN Parked(w, o.world, c, kind, a.tree) ELSE o.world = w
    BY <1>0, <2>1, <2>2, <2>3, ScheduleIs
  <2>6. CASE o.ok
    <3>1. Parked(w, o.world, c, kind, a.tree) /\ Becomes(o.world)
          /\ call' = [call EXCEPT ![c] = request]
      BY <2>2, <2>5, <2>6
    <3> QED BY <1>0, <2>1, <2>4, <3>1, ParkedStep DEF w
  <2>7. CASE ~ o.ok
    <3>1. o.world = w /\ Becomes(o.world) /\ answered
      BY <2>2, <2>5, <2>7
    <3>2. LeadsBut(w, o.world, request.tree)
      BY <1>0, <3>1, LeadsStay, LeadsAreBut
    <3> QED BY <1>0, <3>1, <3>2, AnsweredStep DEF w
  <2> QED BY <2>5, <2>6, <2>7
<1> QED BY <1>3, <1>4

LEMMA CallSteps ==
  ASSUME SlotAssumption, SlotInv, NEW c \in Calls,
         \/ NextTask(c)
         \/ \E t \in Trees : Create(c, t) \/ \E force \in BOOLEAN : AskRemove(c, t, force)
  PROVE  SlotInv' /\ KeptStep
<1> SUFFICES \E request : Asks(request) /\ Request(c, request)
  BY RequestStep
<1>1. CASE NextTask(c)
  <2> DEFINE request == [kind |-> "next", tree |-> Nil, force |-> FALSE]
  <2>1. Request(c, request)
    BY <1>1 DEF NextTask
  <2>2. Asks(request)
    BY DEF Asks, Calling, Maybe
  <2> HIDE DEF request
  <2> QED BY <2>1, <2>2
<1>2. ASSUME NEW t \in Trees, Create(c, t)
      PROVE  \E request : Asks(request) /\ Request(c, request)
  <2> DEFINE request == [kind |-> "create", tree |-> t, force |-> FALSE]
  <2>1. Request(c, request)
    BY <1>2 DEF Create
  <2>2. Asks(request)
    BY DEF Asks, Calling, Maybe
  <2> HIDE DEF request
  <2> QED BY <2>1, <2>2
<1>3. ASSUME NEW t \in Trees, NEW force \in BOOLEAN, AskRemove(c, t, force)
      PROVE  \E request : Asks(request) /\ Request(c, request)
  <2> DEFINE request == [kind |-> "remove", tree |-> t, force |-> force]
  <2>1. Request(c, request)
    BY <1>3 DEF AskRemove
  <2>2. Asks(request)
    BY DEF Asks, Calling, Maybe
  <2> HIDE DEF request
  <2> QED BY <2>1, <2>2
<1> QED BY <1>1, <1>2, <1>3

-----------------------------------------------------------------------------
(* SlotSafe *)

LEMMA SlotStarts ==
  ASSUME SlotAssumption, SlotInit
  PROVE  SlotInv
<1>1. checkouts \in Disks /\ \A t \in Trees : checkouts[t] # "made"
  BY DEF SlotInit, Disks
<1>2. app \in Apps
  BY DEF SlotInit, Apps, Maybe, Statuses, NoPrompt
<1>3. World \in Worlds /\ World.disk = checkouts /\ World.app = app /\ World.jobs = {}
  BY <1>1, <1>2 DEF SlotInit, World, Worlds
<1>4. /\ app.ready = Nil /\ ~ app.inflight /\ app.busy = {} /\ ~ app.prompt.open
      /\ \A k \in Tasks : app.task[k].place = Nil
  BY DEF SlotInit, NoPrompt
<1> HIDE DEF World
<1>5. \A t \in Trees : ~ Finds(World, t)
  BY <1>3, <1>4, MadeIsNoResult DEF Finds
<1>6. OneSlot(World) /\ Orphanless(World, Nil) /\ Unkept(World) /\ Deletes(World)
  BY <1>1, <1>3, <1>4, <1>5 DEF OneSlot, Orphanless, Unkept, Deletes
<1>7. TasksPlaced(World) /\ BusyOpen(World) /\ Asked(World)
  BY <1>3, <1>4 DEF TasksPlaced, BusyOpen, Asked
<1>8. CallsOK /\ CallType
  BY DEF SlotInit, CallsOK, CallType, Calling, Maybe
<1> QED BY <1>3, <1>4, <1>6, <1>7, <1>8 DEF Sound, SlotInv

LEMMA SlotStutters ==
  ASSUME SlotAssumption, SlotInv, UNCHANGED slotVars
  PROVE  SlotInv' /\ KeptStep
<1>1. World' = World /\ checkouts' = checkouts /\ app' = app /\ jobs' = jobs /\ call' = call
  BY DEF slotVars, World
<1>2. Sound(World, Nil)' /\ app'.ready = Nil
  BY <1>1 DEF SlotInv
<1>3. CallsOK' /\ CallType'
  BY <1>1 DEF SlotInv, CallsOK, CallType
<1>4. KeptStep
  BY <1>1 DEF KeptStep
<1> QED BY <1>2, <1>3, <1>4 DEF SlotInv

LEMMA SlotSteps ==
  ASSUME SlotAssumption, SlotInv, [SlotNext]_slotVars
  PROVE  SlotInv' /\ KeptStep
<1>1. CASE Background
  BY <1>1, RunStep, CompleteStep, SavedStep DEF Background
<1>2. CASE User
  <2>1. ASSUME \/ \E t \in Trees : OpenPrompt(t) \/ \E alias \in BOOLEAN : OpenTree(t, alias)
               \/ EnterPrompt \/ CancelPrompt \/ EditAutomation
        PROVE  SlotInv' /\ KeptStep
    BY <2>1, PromptSteps, OpenTreeStep, EnterStep, EditStep
  <2>2. ASSUME NEW s \in Spaces, NEW t \in Trees,
               ConfirmDelete(s, t) \/ CloseWorkspace(s, t) \/ Work(s, t)
        PROVE  SlotInv' /\ KeptStep
    BY <2>2, ConfirmStep, CloseStep, WorkStep
  <2>3. ASSUME \/ \E k \in Tasks : ClaimTask(k) \/ FinishTask(k)
               \/ \E r \in Runs : RequestRun(r)
        PROVE  SlotInv' /\ KeptStep
    BY <2>3, TaskSteps, RequestRunStep
  <2>4. ASSUME NEW c \in Calls,
               \/ NextTask(c)
               \/ \E t \in Trees : Create(c, t) \/ \E force \in BOOLEAN : AskRemove(c, t, force)
        PROVE  SlotInv' /\ KeptStep
    BY <2>4, CallSteps
  <2> QED BY <1>2, <2>1, <2>2, <2>3, <2>4 DEF User
<1>3. CASE UNCHANGED slotVars
  BY <1>3, SlotStutters
<1> QED BY <1>1, <1>2, <1>3 DEF SlotNext

\* What the invariant says of the five conjuncts.
LEMMA SlotInvShows ==
  ASSUME SlotAssumption, SlotInv
  PROVE  SlotTypeOK /\ SlotClean /\ NoOrphanTree /\ OwnTree /\ DeletedNotOpen
<1>0. /\ checkouts \in Disks /\ app \in Apps /\ jobs \subseteq JobTypes
      /\ OneSlot(World) /\ Orphanless(World, Nil) /\ Deletes(World)
      /\ TasksPlaced(World) /\ BusyOpen(World) /\ app.ready = Nil
  BY InvIs DEF Sound, Worlds
<1>1. SlotTypeOK
  <2>1. /\ checkouts \in [Trees -> {"none", "made", "kept"}]
        /\ app.inflight \in BOOLEAN /\ app.saving \in BOOLEAN
        /\ app.open \in [Trees -> SUBSET Spaces]
        /\ app.run \in [Runs -> {"none", "pending", "running", "failed"}]
    BY <1>0 DEF Disks, Apps
  <2>2. app.busy \subseteq UNION Range(app.open)
    BY <1>0, <2>1, InvIs DEF BusyOpen, Range
  <2>3. \A k \in Tasks :
          /\ app.task[k].status \in {"queued", "claimed", "running", "done", "failed"}
          /\ app.task[k].place \in Trees \cup {Nil}
    BY <1>0 DEF Apps, Statuses, Maybe
  <2>4. \A j \in jobs : /\ j.kind \in {"create", "remove", "check"}
                        /\ j.owner \in Calls \cup Runs \cup Spaces \cup {Prompt}
    BY <1>0 DEF JobTypes, Owners
  <2> QED BY <1>0, <2>1, <2>2, <2>3, <2>4 DEF SlotTypeOK
<1>2. SlotClean
  <2>1. Cardinality(SlotJobs) <= 1
    <3>1. \A i, j \in SlotJobs : i = j
      BY <1>0, InvIs DEF OneSlot, SlotJobs
    <3>2. CASE SlotJobs = {}
      BY <3>2, FS_EmptySet
    <3>3. CASE SlotJobs # {}
      <4>1. PICK j \in SlotJobs : TRUE
        BY <3>3
      <4>2. SlotJobs = {j}
        BY <3>1, <4>1
      <4> QED BY <4>2, FS_Singleton
    <3> QED BY <3>2, <3>3
  <2>2. app.inflight <=> SlotJobs # {}
    BY <1>0, InvIs DEF OneSlot, SlotJobs
  <2> QED BY <1>0, <2>1, <2>2 DEF SlotClean
<1>3. NoOrphanTree
  BY <1>0, InvIs, MadeIsNoResult, NoneIsNoResult DEF Orphanless, Finds, NoOrphanTree, SlotJobs
<1>4. OwnTree
  BY <1>0, InvIs DEF TasksPlaced, OwnTree
<1>5. DeletedNotOpen
  BY <1>0, InvIs DEF Deletes, DeletedNotOpen
<1> QED BY <1>1, <1>2, <1>3, <1>4, <1>5

\* For all trees, spaces, tasks, runs, callers and settings of the provider: between
\* two handlers the slot is clean, no tree is orphaned, every task is in its own tree
\* and nobody in one that is being deleted; and no tree in use is lost.
THEOREM SlotIsSafe == SlotAssumption => (SlotSpec => SlotSafe)
<1> SUFFICES ASSUME SlotAssumption
             PROVE  SlotSpec => SlotSafe
  OBVIOUS
<1>1. SlotInit => SlotInv
  BY SlotStarts
<1>2. SlotInv /\ [SlotNext]_slotVars => SlotInv'
  BY SlotSteps
<1>3. SlotInv => SlotTypeOK /\ SlotClean /\ NoOrphanTree /\ OwnTree /\ DeletedNotOpen
  BY SlotInvShows
<1>4. SlotInv /\ [SlotNext]_slotVars =>
        [\A t \in Trees : checkouts[t] = "kept" /\ checkouts'[t] = "none" =>
           \/ \E j \in jobs : j.kind = "remove" /\ j.tree = t /\ ~j.done
           \/ \E c \in Calls : IdleCall(c) /\ call'[c].tree = t
           \/ Overtaken(t)]_slotVars
  BY SlotSteps DEF KeptStep
<1> QED BY <1>1, <1>2, <1>3, <1>4, PTL DEF SlotSpec, SlotSafe, KeptOnlyRemoved
-----------------------------------------------------------------------------
(* Path patterns                                                           *)

LEMMA LeastIs ==
  ASSUME NEW T \in SUBSET Nat, T # {}
  PROVE  Min(T) \in T /\ \A y \in T : Min(T) <= y
<1> DEFINE R == OpToRel(<, Nat)
<1>1. IsWellFoundedOn(R, Nat)
  BY NatLessThanWellFounded
<1>2. \A x, y \in Nat : <<y, x>> \in R <=> y < x
  BY DEF OpToRel
<1> HIDE DEF R
<1>3. PICK x \in T : \A y \in T : ~ (<<y, x>> \in R)
  BY <1>1, WFMin
<1>4. ASSUME NEW y \in T PROVE x <= y
  <2>1. x \in Nat /\ y \in Nat /\ ~ (y < x)
    BY <1>2, <1>3
  <2> QED BY <2>1
<1> QED BY <1>4 DEF Min

LEMMA GreatestIs ==
  ASSUME NEW n \in Nat, NEW T \in SUBSET (0..n), T # {}
  PROVE  Max(T) \in T /\ \A y \in T : y <= Max(T)
<1> DEFINE U == {y \in 0..n : n - y \in T}
<1>1. U \in SUBSET Nat
  OBVIOUS
<1>2. PICK t \in T : TRUE
  OBVIOUS
<1>3. t \in 0..n /\ n - t \in 0..n /\ n - (n - t) = t
  OBVIOUS
<1>4. U # {}
  BY <1>2, <1>3
<1> HIDE DEF U
<1>5. Min(U) \in U /\ \A y \in U : Min(U) <= y
  BY <1>1, <1>4, LeastIs
<1> DEFINE m == n - Min(U)
<1>6. Min(U) \in 0..n /\ m \in T
  BY <1>5 DEF U
<1>7. ASSUME NEW y \in T PROVE m >= y
  <2>1. y \in 0..n /\ n - y \in 0..n /\ n - (n - y) = y
    OBVIOUS
  <2>2. n - y \in U
    BY <2>1 DEF U
  <2>3. Min(U) <= n - y
    BY <2>2, <1>5
  <2> QED BY <2>1, <2>3, <1>6
<1> HIDE DEF m
<1>8. \E x \in T : \A y \in T : x >= y
  BY <1>6, <1>7
<1>9. Max(T) \in T /\ \A y \in T : Max(T) >= y
  BY <1>8 DEF Max
<1> QED BY <1>9

\* Where something fails for the first time.
LEMMA FirstFailure ==
  ASSUME NEW n \in Nat, NEW bad \in SUBSET (0..n), 0 \notin bad,
         \A m \in 1..n : m \in bad => m - 1 \in bad
  PROVE  bad = {}
<1> SUFFICES ASSUME bad # {} PROVE FALSE
  OBVIOUS
<1>1. bad \in SUBSET Nat
  OBVIOUS
<1> DEFINE m == Min(bad)
<1>2. m \in bad /\ \A y \in bad : m <= y
  BY <1>1, LeastIs
<1> HIDE DEF m
<1>3. m \in 0..n /\ m # 0
  BY <1>2
<1>4. m \in 1..n
  BY <1>3
<1>5. m - 1 \in bad
  BY <1>2, <1>4
<1>6. m <= m - 1
  BY <1>2, <1>5
<1> QED BY <1>3, <1>6

\* A function can be defined step by step from 0 to n.
Stepped(f, n, start, step) ==
  f[0] = start /\ \A i \in 1..n : f[i] = step[i][f[i - 1]]

LEMMA StepByStep ==
  ASSUME NEW S, NEW n \in Nat, NEW start \in S, NEW step \in [1..n -> [S -> S]]
  PROVE  \E f \in [0..n -> S] : Stepped(f, n, start, step)
<1> DEFINE Up(f, m) == f[0] = start /\ \A i \in 1..m : f[i] = step[i][f[i - 1]]
           bad == {m \in 0..n : ~ \E f \in [0..m -> S] : Up(f, m)}
<1>1. 0 \notin bad
  <2>1. [i \in 0..0 |-> start] \in [0..0 -> S] /\ Up([i \in 0..0 |-> start], 0)
    OBVIOUS
  <2> QED BY <2>1
<1>2. ASSUME NEW m \in 1..n, m - 1 \notin bad
      PROVE  m \notin bad
  <2>1. PICK f \in [0..m - 1 -> S] : Up(f, m - 1)
    BY <1>2
  <2> DEFINE g == [i \in 0..m |-> IF i = m THEN step[m][f[m - 1]] ELSE f[i]]
  <2>2. g \in [0..m -> S] /\ \A i \in 0..m - 1 : g[i] = f[i]
    OBVIOUS
  <2>3. g[m] = step[m][g[m - 1]] /\ g[0] = start
    BY <2>1
  <2>4. \A i \in 1..m : i # m => i \in 1..m - 1 /\ i \in 0..m - 1 /\ i - 1 \in 0..m - 1
    OBVIOUS
  <2> HIDE DEF g
  <2>5. Up(g, m)
    BY <2>1, <2>2, <2>3, <2>4
  <2> QED BY <2>2, <2>5
<1> HIDE DEF bad
<1>3. bad \in SUBSET (0..n)
  BY DEF bad
<1>4. bad = {}
  BY <1>1, <1>2, <1>3, FirstFailure
<1>5. n \in 0..n
  OBVIOUS
<1> QED BY <1>4, <1>5 DEF bad, Stepped

\* What the two recursive functions of the model are: the segments kept after
\* each segment of a path, and the cuts after each segment of a pattern.
Collapsing(out, path) ==
  /\ out \in [0..Len(path) -> Seq(Segments)]
  /\ out[0] = <<>>
  /\ \A i \in 1..Len(path) :
       out[i] = IF i \in 2..Len(path) - 1 /\ path[i] = "" THEN out[i - 1]
                ELSE Append(out[i - 1], path[i])

Cutting(cuts, pattern, file) ==
  /\ cuts \in [0..Len(pattern) -> SUBSET (0..Len(file))]
  /\ cuts[0] = {0}
  /\ \A i \in 1..Len(pattern) :
       cuts[i] = {to \in 0..Len(file) :
                    \E from \in cuts[i - 1] : Between(pattern[i], file, from, to)}

LEMMA CollapseIs ==
  ASSUME NEW path \in Seq(Segments)
  PROVE  \E out : Collapsing(out, path) /\ Collapse(path) = out[Len(path)]
<1> DEFINE n == Len(path)
           S == Seq(Segments)
           Kept(i, s) == IF i \in 2..n - 1 /\ path[i] = "" THEN s ELSE Append(s, path[i])
           step == [i \in 1..n |-> [s \in S |-> Kept(i, s)]]
           Defines(c) == c = [i \in 0..n |-> IF i = 0 THEN <<>> ELSE Kept(i, c[i - 1])]
<1>1. n \in Nat /\ \A i \in 1..n : path[i] \in Segments
  OBVIOUS
<1>2. ASSUME NEW i \in 1..n, NEW s \in S PROVE Kept(i, s) \in S
  <2>1. path[i] \in Segments
    BY <1>1
  <2>2. Append(s, path[i]) \in S
    BY <2>1
  <2> QED BY <2>2
<1>e. <<>> \in S
  OBVIOUS
<1>3. step \in [1..n -> [S -> S]] /\ <<>> \in S
  <2> HIDE DEF Kept, S, n
  <2> QED BY <1>2, <1>e
<1>4. \A i \in 1..n : \A s \in S : step[i][s] = Kept(i, s)
  OBVIOUS
<1>s. Collapse(path) = (CHOOSE c : Defines(c))[n]
  BY DEF Collapse
<1>sh. \A out : Collapsing(out, path) <=>
              out \in [0..n -> S] /\ out[0] = <<>> /\ \A i \in 1..n : out[i] = Kept(i, out[i - 1])
  BY DEF Collapsing
<1> HIDE DEF n, S, Kept, step
<1>st. \E f \in [0..n -> S] : Stepped(f, n, <<>>, step)
  BY <1>1, <1>3, StepByStep
<1>5. PICK f \in [0..n -> S] : f[0] = <<>> /\ \A i \in 1..n : f[i] = step[i][f[i - 1]]
  BY <1>st DEF Stepped
<1>6. \A i \in 1..n : i - 1 \in 0..n /\ i \in 0..n /\ i # 0
  BY <1>1
<1>7. \A i \in 1..n : f[i] = Kept(i, f[i - 1])
  BY <1>4, <1>5, <1>6
<1>8. \A i \in 0..n : i # 0 => i \in 1..n
  BY <1>1
<1>9. Defines(f)
  <2>1. \A i \in 0..n : f[i] = IF i = 0 THEN <<>> ELSE Kept(i, f[i - 1])
    BY <1>5, <1>7, <1>8
  <2> QED BY <2>1
<1>10. ASSUME NEW g, Defines(g) PROVE g = f
  <2> DEFINE bad == {i \in 0..n : g[i] # f[i]}
  <2>1. \A i \in 0..n : g[i] = IF i = 0 THEN <<>> ELSE Kept(i, g[i - 1])
    BY <1>10
  <2>2. 0 \notin bad
    BY <2>1, <1>5
  <2>3. ASSUME NEW m \in 1..n, m \in bad PROVE m - 1 \in bad
    BY <2>1, <2>3, <1>6, <1>7
  <2>4. bad \in SUBSET (0..n)
    OBVIOUS
  <2> HIDE DEF bad
  <2>5. bad = {}
    BY <2>2, <2>3, <2>4, <1>1, FirstFailure
  <2>6. \A i \in 0..n : g[i] = f[i]
    BY <2>5 DEF bad
  <2>7. f = [i \in 0..n |-> f[i]]
    OBVIOUS
  <2>8. g = [i \in 0..n |-> g[i]]
    BY <1>10, <2>1
  <2> QED BY <2>6, <2>7, <2>8
<1> HIDE DEF Defines
<1>11. Defines(CHOOSE c : Defines(c))
  BY <1>9
<1>12. (CHOOSE c : Defines(c)) = f
  BY <1>10, <1>11
<1>13. Collapse(path) = f[n]
  BY <1>s, <1>12
<1>14. Collapsing(f, path)
  BY <1>sh, <1>5, <1>7
<1> QED BY <1>13, <1>14 DEF n

LEMMA CutsAre ==
  ASSUME NEW pattern \in Seq(Segments), NEW file \in Seq(Names)
  PROVE  Cutting(Cuts(pattern, file), pattern, file)
<1> DEFINE n == Len(pattern)
           S == SUBSET (0..Len(file))
           Next1(i, s) == {to \in 0..Len(file) :
                           \E from \in s : Between(pattern[i], file, from, to)}
           step == [i \in 1..n |-> [s \in S |-> Next1(i, s)]]
           Defines(c) == c = [i \in 0..n |-> IF i = 0 THEN {0} ELSE Next1(i, c[i - 1])]
<1>1. n \in Nat /\ Len(file) \in Nat
  OBVIOUS
<1>3. step \in [1..n -> [S -> S]] /\ {0} \in S
  BY <1>1
<1>4. \A i \in 1..n : \A s \in S : step[i][s] = Next1(i, s)
  OBVIOUS
<1>s. Cuts(pattern, file) = (CHOOSE c : Defines(c))
  BY DEF Cuts
<1>sh. \A cuts : Cutting(cuts, pattern, file) <=>
              cuts \in [0..n -> S] /\ cuts[0] = {0} /\ \A i \in 1..n : cuts[i] = Next1(i, cuts[i - 1])
  BY DEF Cutting
<1> HIDE DEF n, S, Next1, step
<1>st. \E f \in [0..n -> S] : Stepped(f, n, {0}, step)
  BY <1>1, <1>3, StepByStep
<1>5. PICK f \in [0..n -> S] : f[0] = {0} /\ \A i \in 1..n : f[i] = step[i][f[i - 1]]
  BY <1>st DEF Stepped
<1>6. \A i \in 1..n : i - 1 \in 0..n /\ i \in 0..n /\ i # 0
  BY <1>1
<1>7. \A i \in 1..n : f[i] = Next1(i, f[i - 1])
  BY <1>4, <1>5, <1>6
<1>8. \A i \in 0..n : i # 0 => i \in 1..n
  BY <1>1
<1>9. Defines(f)
  <2>1. \A i \in 0..n : f[i] = IF i = 0 THEN {0} ELSE Next1(i, f[i - 1])
    BY <1>5, <1>7, <1>8
  <2> QED BY <2>1
<1>10. ASSUME NEW g, Defines(g) PROVE g = f
  <2> DEFINE bad == {i \in 0..n : g[i] # f[i]}
  <2>1. \A i \in 0..n : g[i] = IF i = 0 THEN {0} ELSE Next1(i, g[i - 1])
    BY <1>10
  <2>2. 0 \notin bad
    BY <2>1, <1>5
  <2>3. ASSUME NEW m \in 1..n, m \in bad PROVE m - 1 \in bad
    BY <2>1, <2>3, <1>6, <1>7
  <2>4. bad \in SUBSET (0..n)
    OBVIOUS
  <2> HIDE DEF bad
  <2>5. bad = {}
    BY <2>2, <2>3, <2>4, <1>1, FirstFailure
  <2>6. \A i \in 0..n : g[i] = f[i]
    BY <2>5 DEF bad
  <2>7. f = [i \in 0..n |-> f[i]]
    OBVIOUS
  <2>8. g = [i \in 0..n |-> g[i]]
    BY <1>10, <2>1
  <2> QED BY <2>6, <2>7, <2>8
<1> HIDE DEF Defines
<1>11. Defines(CHOOSE c : Defines(c))
  BY <1>9
<1>12. (CHOOSE c : Defines(c)) = f
  BY <1>10, <1>11
<1> QED BY <1>s, <1>12, <1>sh, <1>5, <1>7

\* Leading "." segments go, but a last one stays.
LEMMA StripIs ==
  ASSUME NEW path \in Seq(Segments), path # <<>>
  PROVE  \E k \in 1..Len(path) :
           /\ StripHere(path) = SubSeq(path, k, Len(path))
           /\ \A i \in 1..k - 1 : path[i] = "."
           /\ path[k] # "." \/ k = Len(path)
<1> DEFINE kept == {i \in 1..Len(path) : path[i] # "." \/ i = Len(path)}
           k == Min(kept)
<1>1. Len(path) \in Nat /\ Len(path) \in kept
  OBVIOUS
<1>2. kept \in SUBSET Nat /\ kept # {}
  BY <1>1
<1>3. StripHere(path) = SubSeq(path, k, Len(path))
  BY DEF StripHere
<1> HIDE DEF kept
<1>4. k \in kept /\ \A y \in kept : k <= y
  BY <1>2, LeastIs
<1> HIDE DEF k
<1>5. k \in 1..Len(path) /\ (path[k] # "." \/ k = Len(path))
  BY <1>4 DEF kept
<1>6. ASSUME NEW i \in 1..k - 1 PROVE path[i] = "."
  <2>1. i \in 1..Len(path) /\ ~ (k <= i)
    BY <1>1, <1>5
  <2>2. i \notin kept
    BY <2>1, <1>4
  <2> QED BY <2>1, <2>2 DEF kept
<1> QED BY <1>3, <1>5, <1>6

\* What StripHere returns is a path, and the strip is done.
LEMMA Stripped ==
  ASSUME NEW path \in Seq(Segments), path # <<>>
  PROVE  /\ StripHere(path) \in Seq(Segments)
         /\ Len(StripHere(path)) >= 1
         /\ StripHere(path)[1] # "." \/ Len(StripHere(path)) = 1
<1>1. PICK k \in 1..Len(path) :
           /\ StripHere(path) = SubSeq(path, k, Len(path))
           /\ \A i \in 1..k - 1 : path[i] = "."
           /\ path[k] # "." \/ k = Len(path)
  BY StripIs
<1> QED BY <1>1

LEMMA StripStays ==
  ASSUME NEW path \in Seq(Segments), path # <<>>,
         path[1] # "." \/ Len(path) = 1
  PROVE  StripHere(path) = path
<1>1. PICK k \in 1..Len(path) :
           /\ StripHere(path) = SubSeq(path, k, Len(path))
           /\ \A i \in 1..k - 1 : path[i] = "."
           /\ path[k] # "." \/ k = Len(path)
  BY StripIs
<1>2. k = 1
  BY <1>1
<1> QED BY <1>1, <1>2, SubSeqFull

\* No segment within the path is blank.
NoneBlankWithin(path) == \A i \in 2..Len(path) - 1 : path[i] # ""

LEMMA CollapseStays ==
  ASSUME NEW path \in Seq(Segments), NoneBlankWithin(path)
  PROVE  Collapse(path) = path
<1>1. PICK out : Collapsing(out, path) /\ Collapse(path) = out[Len(path)]
  BY CollapseIs
<1> DEFINE n == Len(path)
           bad == {i \in 0..n : out[i] # SubSeq(path, 1, i)}
<1>2. n \in Nat /\ \A i \in 1..n : path[i] \in Segments
  OBVIOUS
<1>3. 0 \notin bad
  <2>1. out[0] = <<>>
    BY <1>1 DEF Collapsing
  <2>2. SubSeq(path, 1, 0) = <<>>
    BY SubSeqEmpty
  <2> QED BY <2>1, <2>2
<1>4. ASSUME NEW m \in 1..n, m - 1 \notin bad
      PROVE  m \notin bad
  <2>1. m - 1 \in 0..n
    OBVIOUS
  <2>2. out[m - 1] = SubSeq(path, 1, m - 1)
    BY <1>4, <2>1
  <2>3. out[m] = Append(out[m - 1], path[m])
    BY <1>1 DEF Collapsing, NoneBlankWithin
  <2>4. Append(SubSeq(path, 1, m - 1), path[m]) = SubSeq(path, 1, m)
    OBVIOUS
  <2> QED BY <2>2, <2>3, <2>4
<1>5. bad \in SUBSET (0..n)
  OBVIOUS
<1> HIDE DEF bad
<1>6. bad = {}
  BY <1>2, <1>3, <1>4, <1>5, FirstFailure
<1>7. out[n] = SubSeq(path, 1, n)
  BY <1>2, <1>6 DEF bad
<1> QED BY <1>1, <1>7, SubSeqFull

\* The path s after a segment before the last one: it begins with the path, and
\* no other segment of it is blank.
Begun(s, path) == Len(s) >= 1 /\ s[1] = path[1] /\ \A j \in 2..Len(s) : s[j] # ""

LEMMA BegunAppend ==
  ASSUME NEW path, NEW s \in Seq(Segments), NEW e \in Segments, Begun(s, path)
  PROVE  /\ Append(s, e) \in Seq(Segments)
         /\ Len(Append(s, e)) >= 1 /\ Append(s, e)[1] = path[1]
         /\ NoneBlankWithin(Append(s, e))
         /\ e # "" => Begun(Append(s, e), path)
<1> DEFINE t == Append(s, e)
<1>1. /\ t \in Seq(Segments) /\ Len(t) = Len(s) + 1 /\ Len(s) \in Nat
      /\ \A j \in 1..Len(s) : t[j] = s[j]
      /\ t[Len(s) + 1] = e
  OBVIOUS
<1> HIDE DEF t
<1>2. Len(s) >= 1 /\ s[1] = path[1] /\ \A j \in 2..Len(s) : s[j] # ""
  BY DEF Begun
<1> DEFINE l == Len(s)
<1>l. l \in Nat /\ l >= 1 /\ Len(t) = l + 1 /\ \A j \in 1..l : t[j] = s[j]
  BY <1>1, <1>2
<1> HIDE DEF l
<1>i. 1 \in 1..l /\ \A j \in 2..l : j \in 1..l
  BY <1>l
<1>3. Len(t) >= 1 /\ t[1] = path[1]
  <2>1. Len(t) >= 1
    BY <1>l
  <2>2. t[1] = s[1]
    BY <1>l, <1>i
  <2> QED BY <2>1, <2>2, <1>2
<1>k. \A j \in 2..l : t[j] # ""
  <2>1. \A j \in 2..l : t[j] = s[j]
    BY <1>l, <1>i
  <2>2. \A j \in 2..l : s[j] # ""
    BY <1>2 DEF l
  <2> QED BY <2>1, <2>2
<1>4. \A j \in 2..Len(s) : t[j] # ""
  BY <1>k DEF l
<1>5. NoneBlankWithin(t)
  <2>1. \A j \in 2..Len(t) - 1 : j \in 2..l
    BY <1>l
  <2> QED BY <2>1, <1>k DEF NoneBlankWithin
<1>6. ASSUME e # "" PROVE Begun(t, path)
  <2>1. \A j \in 2..Len(t) : j \in 2..Len(s) \/ j = Len(s) + 1
    BY <1>1
  <2> QED BY <1>1, <1>3, <1>4, <1>6, <2>1 DEF Begun
<1> QED BY <1>1, <1>3, <1>5, <1>6 DEF t

LEMMA BegunOne ==
  ASSUME NEW path \in Seq(Segments), path # <<>>
  PROVE  Begun(<<path[1]>>, path)
BY DEF Begun

\* Before the last segment the collapsed path is begun.
LEMMA CollapsingBegun ==
  ASSUME NEW path \in Seq(Segments), NEW out, Collapsing(out, path),
         NEW i \in 1..Len(path), i < Len(path)
  PROVE  Begun(out[i], path)
<1> DEFINE n == Len(path) - 1
           bad == {m \in 0..n : m # 0 /\ ~ Begun(out[m], path)}
<1>1. n \in Nat /\ n >= 1 /\ path # <<>> /\ i \in 0..n /\ i # 0
  OBVIOUS
<1>2. out \in [0..Len(path) -> Seq(Segments)] /\ out[0] = <<>>
  BY DEF Collapsing
<1>3. ASSUME NEW m \in 1..n, m - 1 \notin bad
      PROVE  m \notin bad
  <2>1. m - 1 \in 0..n /\ m - 1 \in 0..Len(path) /\ m \in 1..Len(path) /\ m <= Len(path) - 1
    BY <1>1
  <2>e. path[m] \in Segments
    BY <2>1
  <2>2. out[m - 1] \in Seq(Segments) /\ path[m] \in Segments
    BY <1>2, <2>1, <2>e
  <2>3. out[m] = IF m \in 2..Len(path) - 1 /\ path[m] = "" THEN out[m - 1]
                 ELSE Append(out[m - 1], path[m])
    BY <2>1 DEF Collapsing
  <2>4. CASE m = 1
    <3>0. out[m - 1] = <<>> /\ path[m] = path[1]
      BY <2>4, <1>2
    <3>1. out[m] = <<path[1]>>
      BY <2>3, <2>4, <3>0
    <3>2. Begun(out[m], path)
      BY <1>1, <3>1, BegunOne
    <3> QED BY <3>2
  <2>5. CASE m # 1
    <3>1. Begun(out[m - 1], path) /\ m \in 2..Len(path) - 1
      BY <1>3, <2>1, <2>5
    <3>2. CASE path[m] = ""
      BY <3>1, <3>2, <2>3
    <3>3. CASE path[m] # ""
      <4>1. out[m] = Append(out[m - 1], path[m])
        BY <2>3, <3>3
      <4>2. Begun(out[m], path)
        BY <2>2, <3>1, <3>3, <4>1, BegunAppend
      <4> QED BY <4>2
    <3> QED BY <3>2, <3>3
  <2> QED BY <2>4, <2>5
<1>4. bad \in SUBSET (0..n) /\ 0 \notin bad
  BY <1>1
<1> HIDE DEF bad, n
<1>5. bad = {}
  BY <1>1, <1>3, <1>4, FirstFailure
<1> QED BY <1>1, <1>5 DEF bad

\* Collapsing a path keeps its first segment and leaves no blank within.
LEMMA Collapsed ==
  ASSUME NEW path \in Seq(Segments), path # <<>>
  PROVE  /\ Collapse(path) \in Seq(Segments)
         /\ Len(Collapse(path)) >= 1
         /\ Collapse(path)[1] = path[1]
         /\ Len(path) = 1 => Len(Collapse(path)) = 1
         /\ NoneBlankWithin(Collapse(path))
<1>1. PICK out : Collapsing(out, path) /\ Collapse(path) = out[Len(path)]
  BY CollapseIs
<1> DEFINE n == Len(path)
           s == out[n - 1]
<1>2. n \in 1..n /\ n - 1 \in 0..n /\ path[n] \in Segments /\ n \notin 2..n - 1 /\ n \in Nat
  OBVIOUS
<1>3. out \in [0..n -> Seq(Segments)] /\ out[0] = <<>> /\ s \in Seq(Segments)
  BY <1>1, <1>2 DEF Collapsing
<1>4. Collapse(path) = Append(s, path[n])
  BY <1>1, <1>2 DEF Collapsing
<1>5. CASE n = 1
  <2>0. s = <<>> /\ path[n] = path[1]
    BY <1>3, <1>5
  <2>1. Collapse(path) = <<path[1]>>
    BY <1>4, <2>0
  <2> QED BY <2>1, <1>2, <1>5 DEF NoneBlankWithin
<1>6. CASE n # 1
  <2> HIDE DEF n
  <2>1. n - 1 \in 1..n /\ n - 1 < n
    BY <1>2, <1>6
  <2>2. Begun(s, path)
    BY <1>1, <2>1, CollapsingBegun DEF n
  <2> DEFINE e == path[n]
  <2>3. s \in Seq(Segments) /\ e \in Segments /\ Begun(s, path) /\ Collapse(path) = Append(s, e)
    BY <1>2, <1>3, <1>4, <2>2
  <2> HIDE DEF s, e
  <2>4. /\ Append(s, e) \in Seq(Segments)
        /\ Len(Append(s, e)) >= 1 /\ Append(s, e)[1] = path[1]
        /\ NoneBlankWithin(Append(s, e))
    BY <2>3, BegunAppend
  <2>5. Len(path) # 1
    BY <1>6 DEF n
  <2> QED BY <2>3, <2>4, <2>5
<1> QED BY <1>5, <1>6

\* Normalising is done once and for all.
LEMMA NormalizingStays ==
  ASSUME NEW path \in Seq(Segments), path # <<>>
  PROVE  normalize_path(normalize_path(path)) = normalize_path(path)
<1> DEFINE q == StripHere(path)
           n == Collapse(q)
<1>1. q \in Seq(Segments) /\ Len(q) >= 1 /\ (q[1] # "." \/ Len(q) = 1)
  BY Stripped
<1>2. q # <<>>
  BY <1>1
<1> HIDE DEF q
<1>3. /\ n \in Seq(Segments) /\ Len(n) >= 1 /\ n[1] = q[1]
      /\ Len(q) = 1 => Len(n) = 1
      /\ NoneBlankWithin(n)
  BY <1>1, <1>2, Collapsed
<1> HIDE DEF n
<1>4. n # <<>> /\ (n[1] # "." \/ Len(n) = 1)
  BY <1>1, <1>3
<1>5. StripHere(n) = n
  BY <1>3, <1>4, StripStays
<1>6. Collapse(n) = n
  BY <1>3, CollapseStays
<1> QED BY <1>5, <1>6 DEF normalize_path, q, n

\* What tells the kinds of segments apart.
LEMMA Kinds ==
  ASSUME PatternAssumption
  PROVE  /\ "" \notin Names /\ "." \notin Names /\ "" \notin Globs /\ "." \notin Globs
         /\ "**" # "" /\ "**" # "." /\ "" # "."
         /\ \A s \in Segments : s \in Names \/ s \in Globs \/ s = "" \/ s = "."
         /\ \A s \in Names : s \notin Globs
BY DEF PatternAssumption, Segments

\* What a segment that is no glob covers.
PlainCut(s, file, from, to) ==
  /\ s \in Segments /\ s \notin Globs
  /\ from \in 0..Len(file) /\ to \in 0..Len(file) /\ Between(s, file, from, to)

Advances(s, file, from, to) ==
  /\ s = "" \/ s = "." => to = from
  /\ s \in Names => to = from + 1 /\ file[to] = s

LEMMA BetweenIs ==
  ASSUME PatternAssumption, NEW file \in Seq(Names), NEW s, NEW from, NEW to,
         PlainCut(s, file, from, to)
  PROVE  Advances(s, file, from, to)
<1>0. s \notin Globs /\ from \in 0..Len(file) /\ to \in 0..Len(file)
  BY DEF PlainCut
<1>1. "**" \in Globs /\ s # "**"
  BY <1>0 DEF PatternAssumption
<1>2. to # 0 => file[to] \in Names
  BY <1>0
<1>3. \/ s \in {"", "."} /\ to = from
      \/ to = from + 1 /\ s = file[to]
  BY <1>0, <1>1 DEF Between, PlainCut
<1>4. to # 0 => file[to] # "" /\ file[to] # "."
  BY <1>2, Kinds
<1>5. from + 1 # 0
  BY <1>0
<1>6. ASSUME s \in {"", "."} PROVE to = from
  BY <1>3, <1>4, <1>5, <1>6
<1>8. s = "" \/ s = "." => to = from
  BY <1>6
<1>7. ASSUME s \in Names PROVE to = from + 1 /\ file[to] = s
  <2>1. s \notin {"", "."}
    BY <1>7, Kinds
  <2> QED BY <1>3, <2>1
<1> QED BY <1>7, <1>8 DEF Advances

\* A pattern that covers a file can be cut everywhere.
LEMMA CutEverywhere ==
  ASSUME NEW pattern, NEW file, Len(pattern) \in Nat, NEW cuts,
         Cutting(cuts, pattern, file), cuts[Len(pattern)] # {}
  PROVE  \A i \in 0..Len(pattern) : cuts[i] # {}
<1> DEFINE n == Len(pattern)
           bad == {j \in 0..n : cuts[n - j] = {}}
<1>1. n \in Nat /\ n - 0 = n
  OBVIOUS
<1>2. 0 \notin bad
  BY <1>1
<1>3. ASSUME NEW m \in 1..n, m \in bad PROVE m - 1 \in bad
  <2> DEFINE i == n - (m - 1)
  <2>1. i \in 1..n /\ i - 1 = n - m /\ m - 1 \in 0..n
    BY <1>1
  <2>2. cuts[i - 1] = {}
    BY <1>3, <2>1
  <2> HIDE DEF i
  <2>3. cuts[i] = {to \in 0..Len(file) :
                    \E from \in cuts[i - 1] : Between(pattern[i], file, from, to)}
    BY <2>1 DEF Cutting
  <2>4. cuts[i] = {}
    BY <2>2, <2>3
  <2> QED BY <2>1, <2>4 DEF i
<1>4. bad \in SUBSET (0..n)
  OBVIOUS
<1> HIDE DEF bad, n
<1>5. bad = {}
  BY <1>1, <1>2, <1>3, <1>4, FirstFailure
<1>6. ASSUME NEW i \in 0..n PROVE cuts[i] # {}
  <2>1. n - i \in 0..n /\ n - (n - i) = i
    BY <1>1
  <2> QED BY <2>1, <1>5 DEF bad
<1> QED BY <1>6 DEF n

\* Stripping leading "." segments changes nothing of what a pattern covers.
LEMMA CutsStripped ==
  ASSUME PatternAssumption, NEW pattern \in Seq(Segments), pattern # <<>>,
         NEW file \in Seq(Names), Covers(pattern, file)
  PROVE  \E cuts : /\ Cutting(cuts, StripHere(pattern), file)
                   /\ \A i \in 0..Len(StripHere(pattern)) : cuts[i] # {}
<1>1. PICK k \in 1..Len(pattern) :
           /\ StripHere(pattern) = SubSeq(pattern, k, Len(pattern))
           /\ \A i \in 1..k - 1 : pattern[i] = "."
           /\ pattern[k] # "." \/ k = Len(pattern)
  BY StripIs
<1> DEFINE n == Len(pattern)
           l == Len(file)
           d == k - 1
           q == StripHere(pattern)
           all == Cuts(pattern, file)
           cuts == [i \in 0..Len(q) |-> all[d + i]]
<1>2. n \in Nat /\ l \in Nat /\ d \in 0..n - 1 /\ Len(q) = n - d /\ Len(q) \in Nat
  BY <1>1
<1>3. \A i \in 1..Len(q) : q[i] = pattern[d + i]
  BY <1>1
<1>4. Cutting(all, pattern, file)
  BY CutsAre
<1>5. \A i \in 0..n : all[i] # {}
  BY <1>2, <1>4, CutEverywhere DEF Covers
<1>6. all[0] = {0} /\ all \in [0..n -> SUBSET (0..l)]
  BY <1>4 DEF Cutting
<1>7. \A i \in 1..n : all[i] = {to \in 0..l :
                    \E from \in all[i - 1] : Between(pattern[i], file, from, to)}
  BY <1>4 DEF Cutting
<1>p. \A i \in 1..d : pattern[i] = "."
  BY <1>1
<1>q. \A i \in 1..n : pattern[i] \in Segments
  OBVIOUS
<1>c. \A c : Cutting(c, q, file) <=>
         /\ c \in [0..Len(q) -> SUBSET (0..l)]
         /\ c[0] = {0}
         /\ \A i \in 1..Len(q) :
              c[i] = {to \in 0..l : \E from \in c[i - 1] : Between(q[i], file, from, to)}
  BY DEF Cutting
<1>s. l = Len(file) /\ q = StripHere(pattern)
  OBVIOUS
<1> HIDE DEF n, l, d, q, all
<1>8. all[d] = {0}
  <2> DEFINE bad == {i \in 0..d : all[i] # {0}}
  <2>1. d \in Nat /\ 0 \notin bad /\ bad \in SUBSET (0..d)
    BY <1>2, <1>6
  <2>2. ASSUME NEW m \in 1..d, m - 1 \notin bad PROVE m \notin bad
    <3>1. m \in 1..n /\ m - 1 \in 0..d /\ m \in 0..n
      BY <1>2
    <3>2. all[m - 1] = {0} /\ pattern[m] = "."
      BY <2>2, <3>1, <1>p
    <3>a. all[m] = {to \in 0..l : \E from \in all[m - 1] : Between(pattern[m], file, from, to)}
      BY <1>7, <3>1
    <3>3. all[m] = {to \in 0..l : Between(".", file, 0, to)}
      BY <3>a, <3>2
    <3>4. 0 \in 0..l /\ Between(".", file, 0, 0)
      BY <1>2 DEF Between
    <3>5. ASSUME NEW to \in 0..l, Between(".", file, 0, to) PROVE to = 0
      <4>1. "." \in Segments /\ "." \notin Globs
        BY <3>1, <3>2, <1>q, Kinds
      <4>2. PlainCut(".", file, 0, to)
        BY <3>4, <3>5, <4>1, <1>s DEF PlainCut
      <4> QED BY <4>2, BetweenIs DEF Advances
    <3>6. all[m] = {0}
      BY <3>3, <3>4, <3>5
    <3> QED BY <3>6
  <2> HIDE DEF bad
  <2>3. bad = {}
    BY <2>1, <2>2, FirstFailure
  <2> QED BY <2>1, <2>3 DEF bad
<1>9. \A i \in 0..Len(q) : d + i \in 0..n /\ cuts[i] = all[d + i]
  BY <1>2
<1>10. cuts \in [0..Len(q) -> SUBSET (0..l)] /\ cuts[0] = {0}
  BY <1>2, <1>6, <1>8, <1>9
<1>11. \A i \in 0..Len(q) : cuts[i] # {}
  BY <1>5, <1>9
<1> HIDE DEF cuts
<1>12. ASSUME NEW i \in 1..Len(q)
       PROVE  cuts[i] = {to \in 0..l : \E from \in cuts[i - 1] : Between(q[i], file, from, to)}
  <2>1. d + i \in 1..n /\ (d + i) - 1 = d + (i - 1) /\ i - 1 \in 0..Len(q) /\ i \in 0..Len(q)
    BY <1>2
  <2>2. all[d + i] = {to \in 0..l :
                    \E from \in all[d + (i - 1)] : Between(pattern[d + i], file, from, to)}
    BY <1>7, <2>1
  <2>3. cuts[i] = all[d + i] /\ cuts[i - 1] = all[d + (i - 1)] /\ q[i] = pattern[d + i]
    BY <1>3, <1>9, <2>1
  <2> QED BY <2>2, <2>3
<1>13. Cutting(cuts, q, file)
  BY <1>c, <1>10, <1>12
<1> QED BY <1>11, <1>13 DEF q

\* A stripped path, what collapsing keeps of it and how it cuts a file.
Relative(q) == q # <<>> /\ q[1] # "" /\ \A i \in 1..Len(q) : q[i] # "."

Facing(q, file, out, cuts) ==
  /\ Relative(q)
  /\ Collapsing(out, q)
  /\ Cutting(cuts, q, file)
  /\ \A i \in 0..Len(q) : cuts[i] # {}

\* The first g segments are no globs.
NoGlobs(q, g) == g \in 0..Len(q) /\ \A i \in 1..g : q[i] \notin Globs

\* Before the first glob, the segments kept are the names before the cut.
Matching(q, file, out, cuts, g) ==
  \A i \in 0..g : i # Len(q) \/ q[i] # "" =>
     \A to \in cuts[i] : out[i] = SubSeq(file, 1, to) /\ (i # 0 => to # 0)

LEMMA FrontMatches ==
  ASSUME PatternAssumption, NEW file \in Seq(Names), NEW q \in Seq(Segments), NEW out, NEW cuts,
         Facing(q, file, out, cuts),
         NEW g, NoGlobs(q, g)
  PROVE  Matching(q, file, out, cuts, g)
<1> DEFINE n == Len(q)
           l == Len(file)
           B(j) == q[j] = ""
           Match(j) == (j = n /\ B(j))
                       \/ \A t \in cuts[j] : out[j] = SubSeq(file, 1, t) /\ (j # 0 => t # 0)
           bad == {j \in 0..g : ~ Match(j)}
<1>0. n \in Nat /\ l \in Nat /\ \A j \in 1..n : q[j] \in Segments
  OBVIOUS
<1>g. g \in 0..n /\ \A j \in 1..g : q[j] \notin Globs
  BY DEF NoGlobs
<1>1. n \in Nat /\ l \in Nat /\ g \in Nat /\ g <= n
  BY <1>0, <1>g
<1>2. /\ cuts \in [0..n -> SUBSET (0..l)] /\ cuts[0] = {0}
      /\ \A j \in 1..n :
           cuts[j] = {t \in 0..l : \E from \in cuts[j - 1] : Between(q[j], file, from, t)}
  BY DEF Facing, Cutting
<1>3. /\ out[0] = <<>>
      /\ \A j \in 1..n : out[j] = IF j \in 2..n - 1 /\ B(j) THEN out[j - 1]
                                  ELSE Append(out[j - 1], q[j])
  BY DEF Facing, Collapsing
<1>4. ~ B(1) /\ \A j \in 1..n : q[j] \in Segments /\ q[j] # "."
  BY <1>0 DEF Facing, Relative
<1>5. SubSeq(file, 1, 0) = <<>>
  BY SubSeqEmpty
<1>6. \A t \in 0..l : t + 1 \in 0..l =>
         SubSeq(file, 1, t + 1) = Append(SubSeq(file, 1, t), file[t + 1])
  OBVIOUS
<1>n. Len(file) = l /\ Len(q) = n
  OBVIOUS
<1>b. \A j : B(j) => q[j] = ""
  OBVIOUS
<1>k. ASSUME NEW j \in 1..g PROVE B(j) \/ q[j] \in Names
  <2>1. q[j] \in Segments /\ q[j] # "." /\ q[j] \notin Globs
    <3>1. j \in 1..n
      BY <1>1
    <3> QED BY <3>1, <1>4, <1>g
  <2> DEFINE e == q[j]
  <2>2. e \in Segments /\ e # "." /\ e \notin Globs
    BY <2>1
  <2> HIDE DEF e
  <2>3. e = "" \/ e \in Names
    BY <2>2, Kinds
  <2> QED BY <2>3 DEF e
<1> HIDE DEF n, l, B
<1>7. 0 \notin bad
  BY <1>2, <1>3, <1>5
<1>8. ASSUME NEW m \in 1..g, m - 1 \notin bad PROVE m \notin bad
  <2>1. m \in 1..n /\ m - 1 \in 0..g /\ m - 1 \in 0..n /\ m \in 0..n /\ m - 1 # n
    BY <1>1
  <2>2. \A t \in cuts[m - 1] : out[m - 1] = SubSeq(file, 1, t) /\ (m - 1 # 0 => t # 0)
    BY <1>8, <2>1
  <2> SUFFICES ASSUME ~ (m = n /\ B(m)), NEW t \in cuts[m]
               PROVE  out[m] = SubSeq(file, 1, t) /\ (m # 0 => t # 0)
    OBVIOUS
  <2>3. cuts[m] = {u \in 0..l : \E from \in cuts[m - 1] : Between(q[m], file, from, u)}
    BY <1>2, <2>1
  <2>4. PICK from \in cuts[m - 1] : Between(q[m], file, from, t)
    BY <2>3
  <2>5. t \in 0..l /\ from \in 0..l
    BY <1>2, <2>1, <2>3
  <2>6. out[m - 1] = SubSeq(file, 1, from) /\ (m - 1 # 0 => from # 0)
    BY <2>2
  <2>7. out[m] = IF m \in 2..n - 1 /\ B(m) THEN out[m - 1] ELSE Append(out[m - 1], q[m])
    BY <1>3, <2>1
  <2> DEFINE e == q[m]
  <2>8. /\ e = "" => t = from
        /\ e \in Names => t = from + 1 /\ file[t] = e
    <3>1. e \in Segments /\ e \notin Globs
      BY <1>4, <2>1, <1>g
    <3>2. Between(e, file, from, t) /\ t \in 0..Len(file) /\ from \in 0..Len(file)
      BY <1>n, <2>4, <2>5
    <3> HIDE DEF e
    <3>4. PlainCut(e, file, from, t)
      BY <3>1, <3>2 DEF PlainCut
    <3>3. Advances(e, file, from, t)
      BY <3>4, BetweenIs
    <3> QED BY <3>3 DEF Advances
  <2>9. CASE B(m)
    <3>1. m # 1 /\ m # n
      BY <1>4, <2>9
    <3>2. m \in 2..n - 1 /\ m - 1 # 0
      <4> HIDE DEF e
      <4> QED BY <2>1, <3>1, <1>1
    <3>3. out[m] = out[m - 1] /\ t = from
      BY <2>7, <2>8, <2>9, <3>2, <1>b
    <3> QED BY <2>6, <3>2, <3>3
  <2>10. CASE ~ B(m)
    <3>1. e \in Names
      BY <2>10, <1>k
    <3> HIDE DEF e
    <3>2. t = from + 1 /\ file[t] = e
      BY <2>8, <3>1
    <3>a. out[m] = Append(out[m - 1], e)
      BY <2>7, <2>10 DEF e
    <3>3. out[m] = Append(SubSeq(file, 1, from), file[from + 1])
      BY <2>6, <3>2, <3>a
    <3>4. SubSeq(file, 1, from + 1) = Append(SubSeq(file, 1, from), file[from + 1])
      BY <1>6, <2>5, <3>2
    <3>5. from + 1 # 0
      BY <2>5
    <3> QED BY <3>2, <3>3, <3>4, <3>5
  <2> QED BY <2>9, <2>10
<1>9. bad \in SUBSET (0..g)
  OBVIOUS
<1> HIDE DEF bad, Match
<1>10. bad = {}
  BY <1>1, <1>7, <1>8, <1>9, FirstFailure
<1>11. \A i \in 0..g : Match(i)
  BY <1>10 DEF bad
<1> QED BY <1>11, <1>n DEF Match, B, Matching

\* What is kept before the first glob: the first names of the file, and a blank
\* behind them where the path ends in a slash.
Fronting(s, file, to) ==
  \/ s = SubSeq(file, 1, to)
  \/ to # 0 /\ s = Append(SubSeq(file, 1, to), "")

LEMMA FrontIs ==
  ASSUME PatternAssumption, NEW file \in Seq(Names), NEW q \in Seq(Segments), NEW out, NEW cuts,
         Facing(q, file, out, cuts),
         NEW g, NoGlobs(q, g)
  PROVE  \E to \in 0..Len(file) : Fronting(out[g], file, to)
<1> DEFINE n == Len(q)
           l == Len(file)
           B(i) == q[i] = ""
<1>0. q # <<>> /\ q[1] # ""
  BY DEF Facing, Relative
<1>N. n \in Nat /\ (q # <<>> => n # 0)
  OBVIOUS
<1>1. n \in Nat /\ n # 0 /\ ~ B(1)
  BY <1>0, <1>N
<1>g. g \in 0..n
  BY DEF NoGlobs
<1>c. cuts \in [0..n -> SUBSET (0..l)] /\ \A i \in 0..n : cuts[i] # {}
  BY DEF Facing, Cutting
<1>m. \A i \in 0..g : i # n \/ ~ B(i) =>
         \A to \in cuts[i] : out[i] = SubSeq(file, 1, to) /\ (i # 0 => to # 0)
  <2>1. Matching(q, file, out, cuts, g)
    BY FrontMatches
  <2> QED BY <2>1 DEF n, B, Matching
<1>k. \A i \in 1..n : out[i] = IF i \in 2..n - 1 /\ B(i) THEN out[i - 1]
                               ELSE Append(out[i - 1], q[i])
  BY DEF Facing, Collapsing
<1> HIDE DEF n, l, B
<1>2. CASE g # n \/ ~ B(g)
  <2>1. PICK to \in cuts[g] : TRUE
    BY <1>g, <1>c
  <2>2. g \in 0..g
    BY <1>1, <1>g
  <2>3. out[g] = SubSeq(file, 1, to)
    BY <1>2, <2>1, <2>2, <1>m
  <2>4. to \in 0..l
    BY <1>g, <1>c, <2>1
  <2> QED BY <2>3, <2>4 DEF Fronting, l
<1>3. CASE g = n /\ B(g)
  <2>2. g # 0 /\ g # 1
    BY <1>1, <1>3
  <2>3. g - 1 \in 0..g /\ g - 1 \in 0..n /\ g - 1 # n /\ g - 1 # 0 /\ g \in 1..n
        /\ g \notin 2..n - 1
    BY <1>1, <1>3, <2>2
  <2>4. PICK to \in cuts[g - 1] : TRUE
    BY <1>c, <2>3
  <2>5. out[g - 1] = SubSeq(file, 1, to) /\ to # 0
    BY <1>m, <2>3, <2>4
  <2>6. to \in 0..l
    BY <1>c, <2>3, <2>4
  <2>7. out[g] = Append(out[g - 1], "")
    <3>1. out[g] = Append(out[g - 1], q[g])
      BY <2>3, <1>k
    <3> QED BY <3>1, <1>3 DEF B
  <2> QED BY <2>5, <2>6, <2>7 DEF Fronting, l
<1> QED BY <1>2, <1>3

\* The last of n segments that is not blank.
LastNamed(path, n, e) ==
  /\ Len(path) = n /\ e \in 1..n /\ path[e] # ""
  /\ \A i \in e + 1..n : path[i] = ""

LEMMA TrimIs ==
  ASSUME NEW path, NEW n \in Nat, NEW e, LastNamed(path, n, e)
  PROVE  TrimEnd(path) = SubSeq(path, 1, e)
<1> DEFINE Named(i) == path[i] # ""
           full == {1} \cup {i \in 1..n : Named(i)}
           m == Max(full)
<1>e. e \in 1..n /\ Named(e) /\ \A i \in e + 1..n : ~ Named(i)
  BY DEF LastNamed
<1>t. TrimEnd(path) = SubSeq(path, 1, m)
  BY DEF TrimEnd, LastNamed
<1> HIDE DEF Named
<1>l. e \in Nat /\ 1 <= e /\ e <= n
  BY <1>e
<1>0. 1 \in 1..n
  BY <1>l
<1>s. \A i \in full : i \in 1..n /\ (i = 1 \/ Named(i))
  BY <1>0
<1>1. full \in SUBSET (0..n) /\ full # {} /\ e \in full
  BY <1>s, <1>e
<1> HIDE DEF full
<1>2. m \in full /\ \A y \in full : y <= m
  BY <1>1, GreatestIs
<1> HIDE DEF m
<1>3. e <= m /\ m \in 1..n
  BY <1>1, <1>2, <1>s
<1>4. ~ (e < m)
  <2> SUFFICES ASSUME e < m PROVE FALSE
    OBVIOUS
  <2>1. m \in e + 1..n /\ m # 1
    BY <1>3, <1>l
  <2> QED BY <2>1, <1>2, <1>s, <1>e
<1>5. m = e
  BY <1>3, <1>4, <1>l
<1> QED BY <1>t, <1>5

LEMMA TrimFront ==
  ASSUME PatternAssumption, NEW file \in Seq(Names), NEW to \in 0..Len(file), NEW s,
         Fronting(s, file, to), s # <<>>
  PROVE  TrimEnd(s) = SubSeq(file, 1, to)
<1> DEFINE f == SubSeq(file, 1, to)
           blank == ""
<1>0. SubSeq(file, 1, 0) = <<>>
  BY SubSeqEmpty
<1>1. to # 0
  BY <1>0 DEF Fronting
<1>2. f \in Seq(Names) /\ Len(f) = to /\ to \in 1..to /\ f[to] \in Names /\ to \in Nat
      /\ \A i \in 1..to : f[i] \in Names
  BY <1>1
<1>5. to \in Nat /\ 1 <= to
  BY <1>1
<1>3. f[to] # blank
  BY <1>2, Kinds
<1>4. SubSeq(f, 1, to) = f
  BY <1>2, SubSeqFull
<1>f. s = f \/ s = Append(f, blank)
  BY DEF Fronting
<1>n. \A n, e : LastNamed(s, n, e) <=>
        /\ Len(s) = n /\ e \in 1..n /\ s[e] # blank
        /\ \A i \in e + 1..n : s[i] = blank
  BY DEF LastNamed
<1> HIDE DEF f, blank
<1>6. CASE s = f
  <2>1. \A i \in to + 1..to : s[i] = blank
    BY <1>5
  <2>2. LastNamed(s, to, to)
    BY <1>2, <1>3, <1>6, <1>n, <2>1
  <2>3. TrimEnd(s) = SubSeq(s, 1, to)
    BY <1>5, <2>2, TrimIs
  <2> QED BY <1>4, <1>6, <2>3 DEF f
<1>7. CASE s = Append(f, blank)
  <2>0. f \in Seq(Names \cup {blank}) /\ blank \in Names \cup {blank}
    BY <1>2, SeqMonotonic
  <2>1. Len(s) = to + 1 /\ s[to + 1] = blank /\ \A i \in 1..to : s[i] = f[i]
    BY <2>0, <1>2, <1>7, AppendProperties
  <2>2. \A i \in to + 1..to + 1 : s[i] = blank
    <3>1. \A i \in to + 1..to + 1 : i = to + 1
      BY <1>5
    <3> QED BY <3>1, <2>1
  <2>a. to \in 1..to + 1 /\ to + 1 \in Nat
    BY <1>5
  <2>b. s[to] = f[to]
    BY <2>1, <1>2
  <2>3. LastNamed(s, to + 1, to)
    BY <2>1, <2>2, <2>a, <2>b, <1>3, <1>n
  <2>4. TrimEnd(s) = SubSeq(s, 1, to)
    BY <2>a, <2>3, TrimIs
  <2>5. SubSeq(s, 1, to) = f
    <3>1. \A i \in 1..to : s[i] \in Names
      BY <2>1, <1>2
    <3>2. /\ SubSeq(s, 1, to) \in Seq(Names) /\ Len(SubSeq(s, 1, to)) = to
          /\ \A i \in 1..to : SubSeq(s, 1, to)[i] = s[i]
      BY <3>1, <1>2
    <3> QED BY <3>2, <2>1, <1>2, SeqEqual
  <2> QED BY <2>4, <2>5 DEF f
<1> QED BY <1>6, <1>7, <1>f

\* A path that begins with another one.
Begins(t, s) == Len(s) <= Len(t) /\ \A j \in 1..Len(s) : t[j] = s[j]

LEMMA BeginsAppend ==
  ASSUME NEW S, NEW t \in Seq(S), NEW s \in Seq(S), NEW e \in S, Begins(t, s)
  PROVE  Begins(Append(t, e), s)
<1>1. Len(s) \in Nat /\ Len(t) \in Nat /\ Len(s) <= Len(t) /\ \A j \in 1..Len(s) : t[j] = s[j]
  BY DEF Begins
<1>2. Len(Append(t, e)) = Len(t) + 1 /\ \A j \in 1..Len(t) : Append(t, e)[j] = t[j]
  BY AppendProperties
<1>3. \A j \in 1..Len(s) : j \in 1..Len(t)
  BY <1>1
<1> QED BY <1>1, <1>2, <1>3 DEF Begins

\* What is kept stays in front of what is kept later.
LEMMA CollapsingGrows ==
  ASSUME NEW path \in Seq(Segments), NEW out, Collapsing(out, path),
         NEW g \in 0..Len(path)
  PROVE  Begins(out[Len(path)], out[g])
<1> DEFINE n == Len(path)
           d == n - g
           bad == {m \in 0..d : ~ Begins(out[g + m], out[g])}
<1>1. n \in Nat /\ d \in Nat /\ g \in Nat /\ g <= n /\ d = n - g /\ g + d = n
  OBVIOUS
<1>2. out \in [0..n -> Seq(Segments)]
  BY DEF Collapsing
<1>3. \A i \in 1..n : out[i] = IF i \in 2..n - 1 /\ path[i] = "" THEN out[i - 1]
                               ELSE Append(out[i - 1], path[i])
  BY DEF Collapsing
<1>4. \A i \in 1..n : path[i] \in Segments
  OBVIOUS
<1> HIDE DEF n, d
<1>5. 0 \notin bad
  <2>1. g + 0 = g
    BY <1>1
  <2> QED BY <2>1, <1>1, <1>2 DEF Begins
<1>6. ASSUME NEW m \in 1..d, m - 1 \notin bad PROVE m \notin bad
  <2>1. g + m \in 1..n /\ (g + m) - 1 = g + (m - 1) /\ g + (m - 1) \in 0..n /\ m - 1 \in 0..d
        /\ g \in 0..n
    BY <1>1
  <2>2. Begins(out[g + (m - 1)], out[g])
    BY <1>6, <2>1
  <2>3. /\ out[g + (m - 1)] \in Seq(Segments) /\ out[g] \in Seq(Segments)
        /\ path[g + m] \in Segments
    BY <1>2, <1>4, <2>1
  <2>4. \/ out[g + m] = out[g + (m - 1)]
        \/ out[g + m] = Append(out[g + (m - 1)], path[g + m])
    BY <1>3, <2>1
  <2>5. Begins(Append(out[g + (m - 1)], path[g + m]), out[g])
    BY <2>2, <2>3, BeginsAppend
  <2>6. Begins(out[g + m], out[g])
    BY <2>2, <2>4, <2>5
  <2> QED BY <2>6
<1>7. bad \in SUBSET (0..d)
  OBVIOUS
<1> HIDE DEF bad
<1>8. bad = {}
  BY <1>1, <1>5, <1>6, <1>7, FirstFailure
<1>9. d \in 0..d
  BY <1>1
<1>10. Begins(out[g + d], out[g])
  BY <1>8, <1>9 DEF bad
<1> QED BY <1>1, <1>10 DEF n

\* The literal part ends before the first glob.
LEMMA LiteralIs ==
  ASSUME NEW path, NEW n \in Nat, Len(path) = n
  PROVE  /\ (\A i \in 1..n : path[i] \notin Globs) =>
              Literal(path) = SubSeq(path, 1, n)
         /\ \A g \in 1..n :
              path[g] \in Globs /\ (\A i \in 1..g - 1 : path[i] \notin Globs) =>
                Literal(path) = SubSeq(path, 1, g - 1)
<1> DEFINE Glob(i) == path[i] \in Globs
           globs == {i \in 1..n : Glob(i)}
           ends == globs \cup {n + 1}
           m == Min(ends)
<1>2. Literal(path) = SubSeq(path, 1, m - 1)
  BY DEF Literal
<1> HIDE DEF Glob
<1>1. ends \in SUBSET Nat /\ ends # {} /\ n + 1 \in ends
  OBVIOUS
<1>a. \A i \in 1..n : Glob(i) => i \in ends
  OBVIOUS
<1>3. \A i \in ends : i = n + 1 \/ (i \in 1..n /\ Glob(i))
  OBVIOUS
<1> HIDE DEF ends
<1>4. m \in ends /\ \A y \in ends : m <= y
  BY <1>1, LeastIs
<1>m. m \in Nat
  BY <1>1, <1>4
<1> HIDE DEF m
<1>5. ASSUME \A i \in 1..n : ~ Glob(i)
      PROVE  m - 1 = n
  BY <1>1, <1>3, <1>4, <1>5
<1>6. ASSUME NEW g \in 1..n, Glob(g), \A i \in 1..g - 1 : ~ Glob(i)
      PROVE  m = g
  <2>1. m <= g /\ g \in Nat /\ g <= n
    BY <1>a, <1>4, <1>6
  <2>2. m \in 1..n /\ Glob(m)
    BY <1>m, <1>3, <1>4, <2>1
  <2>3. ~ (m < g)
    <3> SUFFICES ASSUME m < g PROVE FALSE
      OBVIOUS
    <3>1. m \in 1..g - 1
      BY <2>1, <2>2
    <3> QED BY <1>6, <2>2, <3>1
  <2> QED BY <1>m, <2>1, <2>3
<1> QED BY <1>2, <1>5, <1>6 DEF Glob

\* g segments stand before the first glob.
UpToGlob(q, g) == NoGlobs(q, g) /\ (g = Len(q) \/ q[g + 1] \in Globs)

NoBlankGlob == "" \notin Globs

GlobFree(s) == \A i \in 1..Len(s) : s[i] \notin Globs

\* Collapsing keeps the literal part together, up to the first glob.
LEMMA LiteralOfCollapse ==
  ASSUME NEW q \in Seq(Segments), NEW out, Collapsing(out, q), NEW g, UpToGlob(q, g),
         NoBlankGlob, GlobFree(out[g])
  PROVE  Literal(out[Len(q)]) = out[g]
<1> DEFINE n == Len(q)
           c == out[n]
           s == out[g]
           l == Len(c)
           m == Len(s)
<1>0. n \in Nat /\ \A i \in 1..n : q[i] \in Segments
  OBVIOUS
<1>g. g \in 0..n /\ (g = n \/ q[g + 1] \in Globs)
  BY DEF UpToGlob, NoGlobs
<1>2. /\ out \in [0..n -> Seq(Segments)]
      /\ \A i \in 1..n : out[i] = IF i \in 2..n - 1 /\ q[i] = "" THEN out[i - 1]
                                  ELSE Append(out[i - 1], q[i])
  BY DEF Collapsing
<1>b. g \in 0..n => Begins(c, s)
  BY CollapsingGrows
<1>b2. g + 1 \in 0..n => Begins(c, out[g + 1])
  BY CollapsingGrows
<1>r. Literal(out[Len(q)]) = Literal(c)
  OBVIOUS
<1> HIDE DEF n
<1>z. n \in 0..n
  BY <1>0
<1>3. c \in Seq(Segments) /\ s \in Seq(Segments)
  BY <1>g, <1>2, <1>z
<1>4. Len(c) = l /\ Len(s) = m /\ \A i \in 1..m : s[i] \notin Globs
  BY DEF GlobFree
<1>6. ASSUME g # n
      PROVE  /\ g + 1 \in 0..n
             /\ out[g + 1] = Append(s, q[g + 1]) /\ q[g + 1] \in Segments /\ q[g + 1] \in Globs
  <2>1. g + 1 \in 1..n /\ g + 1 \in 0..n /\ (g + 1) - 1 = g
    BY <1>0, <1>g, <1>6
  <2>2. q[g + 1] \in Globs /\ q[g + 1] # ""
    BY <1>g, <1>6 DEF NoBlankGlob
  <2> QED BY <1>0, <1>2, <2>1, <2>2
<1>5. g = n => c = s
  OBVIOUS
<1> HIDE DEF c, s
<1>7. l \in Nat /\ m \in Nat /\ SubSeq(s, 1, m) = s
  BY <1>3, SubSeqFull
<1> HIDE DEF l, m
<1>8. CASE g = n
  <2>1. Literal(s) = SubSeq(s, 1, m)
    BY <1>4, <1>7, LiteralIs
  <2> QED BY <1>5, <1>7, <1>8, <2>1, <1>r DEF s
<1>9. CASE g # n
  <2> DEFINE e == q[g + 1]
             t == out[g + 1]
  <2>1. t = Append(s, e) /\ e \in Segments /\ e \in Globs /\ Begins(c, t)
    BY <1>6, <1>9, <1>b2
  <2> HIDE DEF e, t
  <2>2. Len(t) = m + 1 /\ t[m + 1] = e /\ \A i \in 1..m : t[i] = s[i]
    BY <1>3, <1>4, <2>1, AppendProperties
  <2>3. m + 1 <= l /\ \A i \in 1..m + 1 : c[i] = t[i]
    BY <1>4, <2>1, <2>2 DEF Begins
  <2>4. m + 1 \in 1..m + 1 /\ (\A i \in 1..m : i \in 1..m + 1) /\ (m + 1) - 1 = m
    BY <1>7
  <2>5. c[m + 1] \in Globs /\ \A i \in 1..m : c[i] = s[i]
    BY <2>1, <2>2, <2>3, <2>4
  <2>6. \A i \in 1..m : c[i] \notin Globs
    BY <1>4, <2>5
  <2>7. m + 1 \in 1..l
    BY <1>7, <2>3
  <2>8. Literal(c) = SubSeq(c, 1, (m + 1) - 1)
    BY <1>4, <1>7, <2>4, <2>5, <2>6, <2>7, LiteralIs
  <2>9. SubSeq(c, 1, m) = s
    <3>1. \A i \in 1..m : s[i] \in Segments
      BY <1>3, <1>4, ElementOfSeq
    <3>2. \A i \in 1..m : c[i] \in Segments
      BY <2>5, <3>1
    <3>n. 1 \in Int /\ m \in Int
      BY <1>7
    <3>3. /\ SubSeq(c, 1, m) \in Seq(Segments)
          /\ Len(SubSeq(c, 1, m)) = IF 1 <= m THEN m - 1 + 1 ELSE 0
          /\ \A i \in 1..m - 1 + 1 : SubSeq(c, 1, m)[i] = c[1 + i - 1]
      BY <3>2, <3>n, SubSeqProperties
    <3>4. Len(SubSeq(c, 1, m)) = m /\ \A i \in 1..m : SubSeq(c, 1, m)[i] = c[i]
      BY <3>3, <1>7
    <3> QED BY <3>3, <3>4, <1>3, <1>4, <2>5, SeqEqual
  <2> QED BY <2>4, <2>8, <2>9, <1>r DEF s
<1> QED BY <1>8, <1>9

\* The first glob of a path.
LEMMA FirstGlob ==
  ASSUME NEW q \in Seq(Segments)
  PROVE  \E g : UpToGlob(q, g)
<1> DEFINE n == Len(q)
           ends == {i \in 1..n + 1 : i = n + 1 \/ q[i] \in Globs}
           m == Min(ends)
<1>1. n \in Nat
  OBVIOUS
<1>n. n = Len(q)
  OBVIOUS
<1> HIDE DEF n
<1>2. ends \in SUBSET Nat /\ n + 1 \in ends
  BY <1>1
<1>3. \A i \in 1..n + 1 : i \in ends <=> (i = n + 1 \/ q[i] \in Globs)
  OBVIOUS
<1>e. ends \in SUBSET (1..n + 1) /\ ends # {}
  BY <1>2
<1> HIDE DEF ends
<1>4. m \in ends /\ \A y \in ends : m <= y
  BY <1>2, <1>e, LeastIs
<1> HIDE DEF m
<1>5. m \in 1..n + 1 /\ (m = n + 1 \/ q[m] \in Globs)
  BY <1>3, <1>4, <1>e
<1>6. m - 1 \in 0..n /\ (m - 1) + 1 = m /\ (m = n + 1 => m - 1 = n)
  BY <1>1, <1>5
<1>7. ASSUME NEW i \in 1..m - 1 PROVE q[i] \notin Globs
  <2>1. i \in 1..n + 1 /\ ~ (m <= i)
    BY <1>1, <1>5
  <2> QED BY <2>1, <1>3, <1>4
<1>8. NoGlobs(q, m - 1)
  BY <1>6, <1>7, <1>n DEF NoGlobs
<1>9. m - 1 = Len(q) \/ q[(m - 1) + 1] \in Globs
  BY <1>5, <1>6, <1>n
<1> QED BY <1>8, <1>9 DEF UpToGlob

\* The first names of a file.
LEMMA StartOf ==
  ASSUME NEW S, NEW file \in Seq(S), NEW to \in 0..Len(file)
  PROVE  SubSeq(file, 1, to) \in Seq(S)
OBVIOUS

\* The prefix of a pattern is empty or the first names of every file it covers.
LEMMA PrefixIs ==
  ASSUME PatternAssumption, NEW p \in Seq(Segments), p # <<>>, InFront(p),
         NEW file \in Seq(Names), file \in Covered(p)
  PROVE  Empty(glob_prefix(p)) \/
         \E to \in 0..Len(file) : glob_prefix(p) = SubSeq(file, 1, to)
<1> DEFINE q == StripHere(p)
<1>1. q \in Seq(Segments) /\ Len(q) >= 1
  BY Stripped
<1>2. q # <<>> /\ q[1] # "" /\ \A i \in 1..Len(q) : q[i] # "."
  <2>1. PICK k \in 1..Len(p) :
           /\ StripHere(p) = SubSeq(p, k, Len(p))
           /\ \A i \in 1..k - 1 : p[i] = "."
           /\ p[k] # "." \/ k = Len(p)
    BY StripIs
  <2> DEFINE n == Len(p)
  <2>2. /\ n \in Nat /\ k \in 1..n /\ Len(q) = n - (k - 1)
        /\ \A i \in 1..Len(q) : q[i] = p[k - 1 + i]
    BY <2>1
  <2>3. \A i \in 1..n : p[i] = "." =>
           (\A j \in 1..i : p[j] = ".") /\ i < n /\ p[i + 1] # ""
    BY DEF InFront
  <2>s. p[1] # ""
    BY DEF Covered
  <2>e. q # <<>>
    BY <1>1
  <2> HIDE DEF q, n
  <2>4. ASSUME NEW i \in 1..Len(q), q[i] = "." PROVE FALSE
    <3>1. k - 1 + i \in 1..n /\ p[k - 1 + i] = "." /\ k \in 1..k - 1 + i
      BY <2>2, <2>4
    <3>2. p[k] = "." /\ k < n
      BY <2>2, <2>3, <3>1
    <3> QED BY <2>1, <3>2 DEF n
  <2>5. q[1] = p[k] /\ p[k] # ""
    <3>1. q[1] = p[k]
      BY <1>1, <2>2
    <3>2. CASE k = 1
      BY <2>s, <3>1, <3>2
    <3>3. CASE k # 1
      <4>1. k - 1 \in 1..n /\ p[k - 1] = "." /\ k - 1 + 1 = k
        BY <2>1, <2>2, <3>3
      <4> QED BY <2>3, <3>1, <4>1
    <3> QED BY <3>2, <3>3
  <2> QED BY <2>e, <2>4, <2>5
<1>3. PICK cuts : Cutting(cuts, q, file) /\ \A i \in 0..Len(q) : cuts[i] # {}
  <2>1. Covers(p, file)
    BY DEF Covered
  <2> QED BY <2>1, CutsStripped
<1>n. normalize_path(p) = Collapse(q)
  BY DEF normalize_path
<1> HIDE DEF q
<1>4. PICK out : Collapsing(out, q) /\ Collapse(q) = out[Len(q)]
  BY <1>1, CollapseIs
<1>5. Facing(q, file, out, cuts)
  BY <1>2, <1>3, <1>4 DEF Facing, Relative
<1>6. PICK g : UpToGlob(q, g)
  BY <1>1, FirstGlob
<1>7. PICK to \in 0..Len(file) : Fronting(out[g], file, to)
  BY <1>1, <1>5, <1>6, FrontIs DEF UpToGlob
<1> DEFINE s == out[g]
<1>8. GlobFree(s)
  <2> DEFINE f == SubSeq(file, 1, to)
  <2>1. f \in Seq(Names)
    BY StartOf
  <2>2. s = f \/ s = Append(f, "")
    BY <1>7 DEF Fronting
  <2>3. f \in Seq(Names \cup {""})
    BY <2>1, SeqMonotonic
  <2> HIDE DEF f, s
  <2>a. "" \in Names \cup {""}
    OBVIOUS
  <2>b. Append(f, "") \in Seq(Names \cup {""})
    BY <2>3, <2>a, AppendProperties
  <2>4. s \in Seq(Names \cup {""})
    BY <2>2, <2>3, <2>b
  <2>5. \A i \in 1..Len(s) : s[i] \in Names \cup {""}
    BY <2>4, ElementOfSeq
  <2> QED BY <2>5, Kinds DEF GlobFree
<1>9. Literal(Collapse(q)) = s
  <2>1. NoBlankGlob
    BY Kinds DEF NoBlankGlob
  <2>2. Literal(out[Len(q)]) = out[g]
    BY <1>1, <1>4, <1>6, <1>8, <2>1, LiteralOfCollapse
  <2> QED BY <1>4, <2>2
<1>10. glob_prefix(p) = IF s = <<>> THEN <<"">> ELSE TrimEnd(s)
  BY <1>n, <1>9 DEF glob_prefix
<1> HIDE DEF s
<1>11. CASE s = <<>>
  BY <1>10, <1>11 DEF Empty
<1>12. CASE s # <<>>
  <2>1. TrimEnd(s) = SubSeq(file, 1, to)
    BY <1>7, <1>12, TrimFront DEF s
  <2> QED BY <1>7, <1>10, <1>12, <2>1
<1> QED BY <1>11, <1>12

\* Two starts of the same file.
LEMMA PrefixesOfOne ==
  ASSUME NEW file \in Seq(Names), NEW a \in 0..Len(file), NEW b \in 0..Len(file), a <= b
  PROVE  IsPrefix(SubSeq(file, 1, a), SubSeq(file, 1, b))
<1> DEFINE s == SubSeq(file, 1, a)
           t == SubSeq(file, 1, b)
<1>1. s \in Seq(Names) /\ t \in Seq(Names) /\ Len(s) = a /\ Len(t) = b /\ a \in Nat /\ b \in Nat
  OBVIOUS
<1>2. \A i \in 1..a : s[i] = t[i] /\ t[i] \in Names
  OBVIOUS
<1>3. SubSeq(s, 1, a) = s
  BY <1>1, SubSeqFull
<1> HIDE DEF s, t
<1>4. /\ SubSeq(t, 1, a) \in Seq(Names) /\ Len(SubSeq(t, 1, a)) = a
      /\ \A i \in 1..a : SubSeq(t, 1, a)[i] = t[i]
  BY <1>1, <1>2
<1>5. SubSeq(t, 1, a) = s
  BY <1>1, <1>2, <1>4, SeqEqual
<1>6. IsPrefix(s, t)
  BY <1>1, <1>3, <1>5 DEF IsPrefix
<1> QED BY <1>6 DEF s, t

\* Patterns that cover a common file overlap.
LEMMA CommonFileOverlaps ==
  ASSUME PatternAssumption, NEW p \in Seq(Segments), p # <<>>, InFront(p),
         NEW r \in Seq(Segments), r # <<>>, InFront(r),
         Covered(p) \cap Covered(r) # {}
  PROVE  paths_overlap(p, r)
<1>1. PICK file \in Covered(p) \cap Covered(r) : TRUE
  OBVIOUS
<1>2. file \in Files
  BY <1>1 DEF Covered
<1>3. file \in Seq(Names)
  <2>1. PICK m \in 1..MaxLen : file \in [1..m -> Names]
    BY <1>2 DEF Files
  <2>a. MaxLen \in Nat
    BY DEF PatternAssumption
  <2>2. m \in Nat
    BY <2>1, <2>a
  <2> QED BY <2>1, <2>2, SeqDef
<1>4. file \in Covered(p) /\ file \in Covered(r)
  BY <1>1
<1> DEFINE x == glob_prefix(p)
           y == glob_prefix(r)
<1>5. Empty(x) \/ \E to \in 0..Len(file) : x = SubSeq(file, 1, to)
  BY <1>3, <1>4, PrefixIs
<1>6. Empty(y) \/ \E to \in 0..Len(file) : y = SubSeq(file, 1, to)
  BY <1>3, <1>4, PrefixIs
<1>d. paths_overlap(p, r) <=> (Empty(x) \/ Empty(y) \/ IsPrefix(x, y) \/ IsPrefix(y, x))
  BY DEF paths_overlap
<1> HIDE DEF x, y
<1>7. CASE Empty(x) \/ Empty(y)
  BY <1>7, <1>d
<1>8. CASE ~ (Empty(x) \/ Empty(y))
  <2>1. PICK a \in 0..Len(file) : x = SubSeq(file, 1, a)
    BY <1>5, <1>8
  <2>2. PICK b \in 0..Len(file) : y = SubSeq(file, 1, b)
    BY <1>6, <1>8
  <2>3. a <= b \/ b <= a
    BY <1>3
  <2>4. IsPrefix(x, y) \/ IsPrefix(y, x)
    BY <1>3, <2>1, <2>2, <2>3, PrefixesOfOne
  <2> QED BY <2>4, <1>d
<1> QED BY <1>7, <1>8

\* A path of names is its own prefix.
LEMMA PlainPrefix ==
  ASSUME PatternAssumption, NEW path \in Seq(Names), path # <<>>
  PROVE  glob_prefix(path) = path /\ ~ Empty(path)
<1> DEFINE n == Len(path)
           blank == ""
           here == "."
<1>1. n \in Nat /\ n # 0 /\ \A i \in 1..n : path[i] \in Names
  OBVIOUS
<1>2. path \in Seq(Segments)
  BY SeqMonotonic DEF Segments
<1>3. \A s \in Names : s # blank /\ s # here /\ s \notin Globs
  BY Kinds
<1>a. NoneBlankWithin(path) <=> \A i \in 2..n - 1 : path[i] # blank
  BY DEF NoneBlankWithin
<1>b. path[1] # here => path[1] # "." \/ Len(path) = 1
  OBVIOUS
<1>c. \A e : LastNamed(path, n, e) <=>
        /\ e \in 1..n /\ path[e] # blank
        /\ \A i \in e + 1..n : path[i] = blank
  BY DEF LastNamed
<1>s. SubSeq(path, 1, n) = path /\ Len(path) = n
  BY SubSeqFull
<1> HIDE DEF n, blank, here
<1>4. path[1] \in Names /\ path[n] \in Names /\ 1 \in 1..n /\ n \in 1..n
  <2>1. 1 \in 1..n /\ n \in 1..n
    BY <1>1
  <2> QED BY <1>1, <2>1
<1>5. StripHere(path) = path
  <2>1. path[1] # here
    BY <1>3, <1>4
  <2> QED BY <1>2, <1>b, <2>1, StripStays
<1>6. Collapse(path) = path
  <2>1. \A i \in 2..n - 1 : i \in 1..n
    BY <1>1
  <2>2. NoneBlankWithin(path)
    BY <1>1, <1>3, <1>a, <2>1
  <2> QED BY <1>2, <2>2, CollapseStays
<1>7. Literal(path) = path
  <2>1. \A i \in 1..n : path[i] \notin Globs
    BY <1>1, <1>3
  <2>2. Literal(path) = SubSeq(path, 1, n)
    BY <1>1, <1>s, <2>1, LiteralIs
  <2> QED BY <1>s, <2>2
<1>8. TrimEnd(path) = path
  <2>1. \A i \in n + 1..n : path[i] = blank
    BY <1>1
  <2>2. LastNamed(path, n, n)
    BY <1>3, <1>4, <1>c, <2>1
  <2>3. TrimEnd(path) = SubSeq(path, 1, n)
    BY <1>1, <2>2, TrimIs
  <2> QED BY <1>s, <2>3
<1>9. glob_prefix(path) = path
  <2>1. normalize_path(path) = path
    BY <1>5, <1>6 DEF normalize_path
  <2> QED BY <1>7, <1>8, <2>1 DEF glob_prefix
<1>10. ~ Empty(path)
  <2>1. path # <<blank>>
    <3> SUFFICES ASSUME path = <<blank>> PROVE FALSE
      OBVIOUS
    <3>1. path[1] = blank
      OBVIOUS
    <3> QED BY <3>1, <1>3, <1>4
  <2> QED BY <2>1 DEF Empty, blank
<1> QED BY <1>9, <1>10

\* Paths of names that are not below each other do not overlap.
LEMMA PlainPathsApart ==
  ASSUME PatternAssumption, NEW p \in Seq(Names), p # <<>>, NEW r \in Seq(Names), r # <<>>,
         paths_overlap(p, r)
  PROVE  IsPrefix(p, r) \/ IsPrefix(r, p)
<1>1. glob_prefix(p) = p /\ ~ Empty(p) /\ glob_prefix(r) = r /\ ~ Empty(r)
  BY PlainPrefix
<1> QED BY <1>1 DEF paths_overlap

LEMMA OverlapsBothWays ==
  ASSUME NEW p, NEW r
  PROVE  paths_overlap(p, r) <=> paths_overlap(r, p)
BY DEF paths_overlap

LEMMA NamesOnly ==
  ASSUME NEW S, NEW path \in Seq(S), ToSet(path) \subseteq Names
  PROVE  path \in Seq(Names)
<1>1. path \in [1..Len(path) -> S] /\ Len(path) \in Nat /\ DOMAIN path = 1..Len(path)
  BY LenProperties
<1>2. \A i \in 1..Len(path) : path[i] \in Names
  BY <1>1 DEF ToSet
<1>3. path \in [1..Len(path) -> Names]
  BY <1>1, <1>2
<1> QED BY <1>1, <1>3, SeqDef

\* The two patterns are paths of segments.
PatternsTyped == one \in Seq(Segments) /\ two \in Seq(Segments)

LEMMA OneSegmentMore ==
  ASSUME PatternsTyped, [TypeSegment]_patternVars
  PROVE  PatternsTyped'
<1>1. CASE TypeSegment
  <2>1. PICK s \in Segments :
           \/ one' = Append(one, s) /\ two' = two
           \/ two' = Append(two, s) /\ one' = one
    BY <1>1 DEF TypeSegment
  <2>2. Append(one, s) \in Seq(Segments) /\ Append(two, s) \in Seq(Segments)
    BY AppendProperties DEF PatternsTyped
  <2> QED BY <2>1, <2>2 DEF PatternsTyped
<1>2. CASE UNCHANGED patternVars
  BY <1>2 DEF PatternsTyped, patternVars
<1> QED BY <1>1, <1>2

LEMMA SoundPatterns ==
  ASSUME PatternAssumption, PatternsTyped
  PROVE  OverlapSound
<1>1. Accepted => one # <<>> /\ two # <<>>
  BY DEF Accepted, Blank
<1>2. one \in Seq(Segments) /\ two \in Seq(Segments)
  BY DEF PatternsTyped
<1>3. SharedFilesOverlap
  <2> SUFFICES ASSUME Accepted, InFront(one), InFront(two), ~ paths_overlap(one, two),
                      Covered(one) \cap Covered(two) # {}
               PROVE  FALSE
    BY DEF SharedFilesOverlap, Conservative
  <2> QED BY <1>1, <1>2, CommonFileOverlaps
<1>4. Symmetric
  BY OverlapsBothWays DEF Symmetric
<1>5. PlainApart
  <2> SUFFICES ASSUME Accepted, ToSet(one) \cup ToSet(two) \subseteq Names,
                      ~ IsPrefix(one, two), ~ IsPrefix(two, one), paths_overlap(one, two)
               PROVE  FALSE
    BY DEF PlainApart
  <2>1. one \in Seq(Names) /\ two \in Seq(Names)
    BY <1>2, NamesOnly
  <2> QED BY <1>1, <2>1, PlainPathsApart
<1>6. NormalStays
  BY <1>1, <1>2, NormalizingStays DEF NormalStays
<1> QED BY <1>3, <1>4, <1>5, <1>6 DEF OverlapSound

\* Two patterns that cover a common file overlap, in either order; plain paths
\* that are not below each other do not; a normalised path is normal: for all
\* names, globs and patterns of any length.
THEOREM OverlapIsSound == PatternAssumption => (PatternSpec => []OverlapSound)
<1> SUFFICES ASSUME PatternAssumption PROVE PatternSpec => []OverlapSound
  OBVIOUS
<1>1. PatternInit => PatternsTyped
  BY DEF PatternInit, PatternsTyped
<1>2. PatternsTyped /\ [TypeSegment]_patternVars => PatternsTyped'
  BY OneSegmentMore
<1>3. PatternsTyped => OverlapSound
  BY SoundPatterns
<1> QED BY <1>1, <1>2, <1>3, PTL DEF PatternSpec

\* The ledger on real patterns.  Its paths are the patterns of tasks and leases
\* as they were typed, accepted and with "." in front only; validate_paths
\* stores them normalised, and stored patterns are what is compared.
RealPatterns ==
  /\ \A p \in Paths : p \in Seq(Segments) /\ ~ Blank(p) /\ InFront(p)
  /\ \A p, q \in Paths : <<p, q>> \in Overlap <=>
       paths_overlap(normalize_path(p), normalize_path(q))

\* Storing a pattern changes no answer.
LEMMA StoredOverlap ==
  ASSUME PatternAssumption, NEW p \in Seq(Segments), p # <<>>,
         NEW q \in Seq(Segments), q # <<>>
  PROVE  paths_overlap(normalize_path(p), normalize_path(q)) <=> paths_overlap(p, q)
<1>1. /\ normalize_path(normalize_path(p)) = normalize_path(p)
      /\ normalize_path(normalize_path(q)) = normalize_path(q)
  BY NormalizingStays
<1>2. /\ glob_prefix(normalize_path(p)) = glob_prefix(p)
      /\ glob_prefix(normalize_path(q)) = glob_prefix(q)
  BY <1>1 DEF glob_prefix
<1> QED BY <1>2 DEF paths_overlap

\* What the assumption on Overlap asks of the relation, paths_overlap has.
LEMMA RealOverlap ==
  ASSUME NEW p, NEW q
  PROVE  paths_overlap(p, p) /\ (paths_overlap(p, q) => paths_overlap(q, p))
BY DEF paths_overlap, IsPrefix

\* No file is covered by the leases of two tasks that share a project.
FilesApart(o) ==
  \A l, m \in o.leases : l.task # m.task /\ ShareScope(o, m.task, l.task) =>
    \A p \in l.paths, q \in m.paths : Covered(p) \cap Covered(q) = {}

LEMMA ExclusiveFilesApart ==
  ASSUME PatternAssumption, RealPatterns, NEW o, LedgerType(o), Exclusive(o, o.leases)
  PROVE  FilesApart(o)
<1> SUFFICES ASSUME NEW l \in o.leases, NEW m \in o.leases,
                    l.task # m.task, ShareScope(o, m.task, l.task),
                    NEW p \in l.paths, NEW q \in m.paths, Covered(p) \cap Covered(q) # {}
             PROVE  FALSE
  BY DEF FilesApart
<1>1. p \in Paths /\ q \in Paths
  BY DEF LedgerType, Lease
<1>2. /\ p \in Seq(Segments) /\ p # <<>> /\ InFront(p)
      /\ q \in Seq(Segments) /\ q # <<>> /\ InFront(q)
  BY <1>1 DEF RealPatterns, Blank
<1>3. paths_overlap(p, q)
  BY <1>2, CommonFileOverlaps
<1>4. PathsOverlap(l.paths, m.paths)
  <2>1. paths_overlap(normalize_path(p), normalize_path(q))
    BY <1>2, <1>3, StoredOverlap
  <2> QED BY <1>1, <2>1 DEF RealPatterns, PathsOverlap
<1>5. Conflicts(o, l, m.task, m.paths)
  BY <1>4 DEF Conflicts
<1> QED BY <1>5 DEF Exclusive

\* Two workers never hold leases on the same file: whatever the tasks declare,
\* the leases of two tasks that share a project cover no common file, in memory
\* and in the snapshot a restart reads.
THEOREM LeasedFilesApart ==
  PatternAssumption /\ RealPatterns => (Spec => [](FilesApart(orch) /\ FilesApart(disk)))
<1> SUFFICES ASSUME PatternAssumption, RealPatterns
             PROVE  Spec => [](FilesApart(orch) /\ FilesApart(disk))
  OBVIOUS
<1>1. TypeOK /\ LeaseExclusive => FilesApart(orch) /\ FilesApart(disk)
  BY ExclusiveFilesApart DEF TypeOK, LeaseExclusive
<1> QED BY <1>1, TypeCorrect, LeasesExclude, PTL
=============================================================================
