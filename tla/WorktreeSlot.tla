---------------------------- MODULE WorktreeSlot ----------------------------
(***************************************************************************)
(* The one worktree provider slot of the server (app/mod.rs, worktree.rs). *)
(*                                                                         *)
(* A module may create and remove Git worktrees.  Its command runs off the *)
(* event loop, one at a time: the request that needs it prepares a job,    *)
(* is parked, and is REPLAYED when the job has finished; the replay finds  *)
(* the result in `ready_worktree_provider` and takes it.  API calls, the   *)
(* new-worktree prompt, deferred automation runs and the sidebar's delete  *)
(* share the slot, and between admission and replay the user, the          *)
(* operator and Git go on.                                                 *)
(*                                                                         *)
(* A tree is a checkout of one branch of one repository.  `app` holds the  *)
(* server's memory, `checkouts` the disk, `jobs` the background jobs that  *)
(* have not been applied.  The event loop runs one handler at a time; a    *)
(* handler is an operator from a world [disk, app, jobs] to the set of     *)
(* worlds it may leave.                                                    *)
(***************************************************************************)
EXTENDS Naturals, FiniteSets, Functions

CONSTANTS Trees,        \* checkouts, each of the branch of the same name
          Spaces,       \* workspace ids
          Tasks,        \* ORCH tasks in worktree mode
          Runs,         \* the tasks that belong to a pending automation run
          BranchOf,     \* the branch (tree) a task works on
          Calls,        \* API requests
          Providers,    \* subset of {"module", "git"}: what the configuration may say
          Existing,     \* trees that exist before the server starts
          SlotEdits,    \* bound: automation changes made by others
          MaxPrompts,   \* bound: times the prompt is opened
          MaxOpens,     \* bound: trees the user opens by hand
          MaxDeletes,   \* bound: deletions confirmed in the sidebar
          MaxMoves,     \* bound: these four together
          Nil, Prompt

\* The result of a provider command, and a deletion that has been confirmed.
Created(t, made)   == [kind |-> "create", tree |-> t, made |-> made]
Removed(t)         == [kind |-> "remove", tree |-> t, made |-> FALSE]
Deletion(t, known) == [tree |-> t, resolved |-> known]

\* What the constants stand for.
SlotAssumption ==
  /\ Runs \subseteq Tasks
  /\ BranchOf \in [Tasks -> Trees]
  /\ Existing \subseteq Trees
  /\ Providers \subseteq {"module", "git"} /\ Providers # {}
  /\ Calls \cap Runs = {} /\ Calls \cap Spaces = {} /\ Runs \cap Spaces = {}
  /\ Prompt \notin Calls \cup Runs \cup Spaces
  /\ Nil \notin Trees
  /\ \A t \in Trees, flag \in BOOLEAN :
       Nil \notin {Created(t, flag), Removed(t), Deletion(t, flag)}
  /\ \A bound \in {SlotEdits, MaxPrompts, MaxOpens, MaxDeletes, MaxMoves} : bound \in Nat

VARIABLES checkouts, \* [Trees -> {"none", "made", "kept"}]; made: not yet taken over
          app,       \* the server's memory
          jobs,      \* background jobs, running or waiting to be applied
          call,      \* the API requests
          spent      \* the bounded moves of the user

slotVars == <<checkouts, app, jobs, call, spent>>

World == [disk |-> checkouts, app |-> app, jobs |-> jobs]

Becomes(w) == checkouts' = w.disk /\ app' = w.app /\ jobs' = w.jobs

NoPrompt == [open |-> FALSE, tree |-> Nil, waiting |-> FALSE]

SlotInit ==
  /\ checkouts = [t \in Trees |-> IF t \in Existing THEN "kept" ELSE "none"]
  /\ app = [inflight |-> FALSE, ready |-> Nil,
            open |-> [t \in Trees |-> {}], busy |-> {},
            task |-> [k \in Tasks |-> [status |-> "queued", place |-> Nil]],
            run |-> [r \in Runs |-> "none"],
            saving |-> FALSE,
            deleting |-> [s \in Spaces |-> Nil],
            prompt |-> NoPrompt]
  /\ jobs = {}
  /\ call = [c \in Calls |-> [kind |-> "idle", tree |-> Nil, force |-> FALSE]]
  /\ spent = [edits |-> 0, prompts |-> 0, opens |-> 0, deletes |-> 0]

MaySpend(move, bound) ==
  /\ spent[move] < bound
  /\ spent.edits + spent.prompts + spent.opens + spent.deletes < MaxMoves

\* An open is free of that bound where it matters, beside a deletion.
MayOpen ==
  \/ MaySpend("opens", MaxOpens)
  \/ spent.opens < MaxOpens /\ \E s \in Spaces : app.deleting[s] # Nil

-----------------------------------------------------------------------------
(* Workspaces.                                                             *)

UsedSpaces(a) ==
  UNION Range(a.open) \cup {s \in Spaces : a.deleting[s] # Nil}

FreeSpaces(a) == Spaces \ UsedSpaces(a)

\* PendingWorktreeDelete::contains.  An unresolved entry knows its path as it
\* is spelled, so it does not recognise an alias of the checkout.
DeletePending(a, t, alias) ==
  \E s \in Spaces : /\ a.deleting[s] # Nil
                    /\ a.deleting[s].tree = t
                    /\ a.deleting[s].resolved \/ ~alias

\* create_workspace_at: refused while the tree is being deleted, and when the
\* shell does not start there.
OpenAt(w, t, alias) ==
  LET refused == [world |-> w, ok |-> FALSE, space |-> Nil]
  IN  {refused} \cup
      IF DeletePending(w.app, t, alias) \/ w.disk[t] = "none"
      THEN {}
      ELSE {[world |-> [w EXCEPT !.app.open[t] = @ \cup {s}],
             ok |-> TRUE, space |-> s] : s \in FreeSpaces(w.app)}

CloseAll(w, t) ==
  [w EXCEPT !.app.open[t] = {}, !.app.busy = @ \ w.app.open[t]]

CloseSpace(w, t, s) ==
  [w EXCEPT !.app.open[t] = @ \ {s}, !.app.busy = @ \ {s}]

\* A request took the tree over: a workspace is open on it.
Keep(w, t) == [w EXCEPT !.disk[t] = "kept"]

-----------------------------------------------------------------------------
(* The slot.                                                               *)

\* CreatedWorktree::matches.
Matches(ready, t) == ready # Nil /\ ready.kind = "create" /\ ready.tree = t

\* Force removal of a tree that this creation made (worktree_created).
Cleanup(w, result) ==
  IF result.kind = "create" /\ result.made
  THEN [w EXCEPT !.disk[result.tree] = "none"]
  ELSE w

Discard(w) ==
  IF w.app.ready = Nil
  THEN w
  ELSE Cleanup([w EXCEPT !.app.ready = Nil], w.app.ready)

\* create_worktree_with_context: the world, what the caller reads, and the tree,
\* whether it is a new one and the workspace it was opened in.
Answer(w, says, t) ==
  [world |-> w, says |-> says, tree |-> t, made |-> FALSE, space |-> Nil]

CreateByGit(w, t) ==
  IF w.disk[t] # "none"
  THEN {Answer(w, "failed", t)}                \* the branch is checked out already
  ELSE {[Answer(o.world, "opened", t) EXCEPT !.made = TRUE, !.space = o.space]
          : o \in OpenAt([w EXCEPT !.disk[t] = "made"], t, FALSE)}

\* The caller is parked, or refused while the provider works for another.
ByModule(w, t) ==
  {Answer(w, IF w.app.inflight THEN "failed" ELSE "pending", t)}

CreateFromResult(w, result) ==
  LET taken == [w EXCEPT !.app.ready = Nil]
      t     == result.tree
  IN  {IF o.ok
       THEN [Answer(o.world, "opened", t) EXCEPT !.made = result.made,
                                                 !.space = o.space]
       ELSE Answer(Cleanup(taken, result), "failed", t) : o \in OpenAt(taken, t, FALSE)}

CreateTree(w, t) ==
  IF Matches(w.app.ready, t)  THEN CreateFromResult(w, w.app.ready)
  ELSE IF w.app.ready # Nil  THEN {Answer(Discard(w), "failed", t)}
  ELSE (IF "module" \in Providers THEN ByModule(w, t) ELSE {})
       \cup (IF "git" \in Providers THEN CreateByGit(w, t) ELSE {})

Job(owner, kind, t, slot, force, others) ==
  [owner |-> owner, kind |-> kind, tree |-> t, slot |-> slot, force |-> force,
   others |-> others, done |-> FALSE, result |-> Nil]

\* submit_parallel: refused while eight jobs are unapplied, whoever owns them.
Submit(w, j) ==
  {[world |-> w, ok |-> FALSE],
   [world |-> [w EXCEPT !.jobs = @ \cup {j}], ok |-> TRUE]}

\* schedule_pending_worktree_provider_after.
Schedule(w, owner, kind, t, force) ==
  {IF o.ok THEN [o EXCEPT !.world.app.inflight = TRUE] ELSE o
     : o \in Submit(w, Job(owner, kind, t, TRUE, force, FALSE))}

-----------------------------------------------------------------------------
(* Tasks and automation runs that need a tree.                             *)

\* rollback_task_start for a tree that was prepared and not committed.
Rollback(a) ==
  LET closed == IF a.space = Nil THEN a.world ELSE CloseSpace(a.world, a.tree, a.space)
  IN  IF a.made THEN [closed EXCEPT !.disk[a.tree] = "none"] ELSE closed

Bind(w, k, t) == [w EXCEPT !.app.task[k] = [status |-> "running", place |-> t]]

StartedTask(w, k, t) == [world |-> Bind(w, k, t), says |-> "started"]
Failed(w)            == [world |-> w, says |-> "failed"]

\* The new tree is open and the launch may still fail, or its pane did not start.
Launch(a, k) ==
  IF a.space = Nil THEN {Failed(Rollback(a))}
  ELSE {StartedTask(Keep(a.world, a.tree), k, a.tree), Failed(Rollback(a))}

\* start_task_worktree when the branch is checked out already.
LaunchThere(w, k, t) ==
  IF w.app.open[t] # {}
  THEN {StartedTask(w, k, t), Failed(w)}
  ELSE UNION {IF o.ok THEN {StartedTask(o.world, k, t), Failed(w)} ELSE {Failed(w)}
                : o \in OpenAt(w, t, FALSE)}

\* task_start_impl in worktree mode.
StartTask(w, k) ==
  LET t == BranchOf[k]
  IN  IF w.app.task[k].status # "queued" THEN {Failed(w)}
      ELSE IF ~Matches(w.app.ready, t) /\ w.disk[t] # "none"
      THEN LaunchThere(w, k, t)
      ELSE UNION {IF a.says = "opened" THEN Launch(a, k)
                  ELSE {[world |-> a.world, says |-> a.says]} : a \in CreateTree(w, t)}

EndRun(w, r, status) ==
  [w EXCEPT !.app.run[r] = status, !.app.saving = TRUE]

\* The failed start of a run fails its task, whoever holds it by now.
FailRun(w, r) ==
  EndRun([w EXCEPT !.app.task[r].status = "failed"], r, "failed")

\* start_automation_run for a run whose task exists.
StartRun(w, r) ==
  IF w.app.saving \/ w.app.run[r] # "pending" \/ w.app.inflight
  THEN {w}
  ELSE UNION {
    CASE a.says = "pending" ->
           {IF o.ok THEN o.world ELSE FailRun(o.world, r)
              : o \in Schedule(a.world, r, "create", BranchOf[r], FALSE)}
      [] a.says = "started" -> {EndRun(a.world, r, "running")}
      [] OTHER -> {FailRun(a.world, r)}
    : a \in StartTask(w, r)}

\* start_pending_automation_runs: the first one started or parked blocks the rest.
StartPending(w) ==
  LET pending == {r \in Runs : w.app.run[r] = "pending"}
  IN  IF pending = {} THEN {w} ELSE UNION {StartRun(w, r) : r \in pending}

-----------------------------------------------------------------------------
(* Requests of the API.                                                    *)

\* worktree_remove_blockers.
InUse(w, t) ==
  \/ w.app.open[t] \cap w.app.busy # {}
  \/ \E k \in Tasks : w.app.task[k].place = t /\ w.app.task[k].status # "done"

Gone(w, t) == CloseAll([w EXCEPT !.disk[t] = "none"], t)

\* remove_worktree_explicit.
RemoveTree(w, t, force) ==
  LET failed == Answer(w, "failed", t)
  IN  IF w.app.ready = Removed(t)
      THEN {Answer([w EXCEPT !.app.ready = Nil], "opened", t)}
      ELSE IF ~force /\ InUse(w, t) THEN {failed}
      ELSE IF w.app.ready # Nil THEN {Answer(Discard(w), "failed", t)}
      ELSE IF w.disk[t] = "none" THEN {failed}
      ELSE (IF "module" \in Providers THEN ByModule(w, t) ELSE {})
           \cup (IF "git" \in Providers
                 THEN {failed, Answer(Gone(w, t), "opened", t)} ELSE {})

\* What handle_api does with the request: worktree.create, worktree.remove, and
\* task.next with start, which picks the next ready task again when replayed.
Handle(w, request) ==
  CASE request.kind = "create" ->
         {IF a.says = "opened" THEN [a EXCEPT !.world = Keep(@, a.tree)] ELSE a
            : a \in CreateTree(w, request.tree)}
    [] request.kind = "remove" -> RemoveTree(w, request.tree, request.force)
    [] request.kind = "next" ->
         LET queued == {k \in Tasks : w.app.task[k].status = "queued"}
         IN  IF queued = {} THEN {Answer(w, "failed", Nil)}
             ELSE UNION {{Answer(a.world, a.says, BranchOf[k]) : a \in StartTask(w, k)}
                           : k \in queued}

IdleCall(c) == call[c].kind = "idle"

\* Requests that are parked behind a job keep "waiting"; the others are answered.
Request(c, request) ==
  /\ IdleCall(c)
  /\ \E a \in Handle(World, request) :
       \/ /\ a.says # "pending"
          /\ Becomes(a.world)
          /\ call' = [call EXCEPT ![c] = [request EXCEPT !.kind = "answered"]]
       \/ /\ a.says = "pending"
          /\ LET kind == IF request.kind = "remove" THEN "remove" ELSE "create"
             IN  \E o \in Schedule(a.world, c, kind, a.tree, request.force) :
                   /\ Becomes(o.world)
                   /\ call' = [call EXCEPT ![c] =
                        IF o.ok THEN request ELSE [request EXCEPT !.kind = "answered"]]
  /\ UNCHANGED spent

Create(c, t) == Request(c, [kind |-> "create", tree |-> t, force |-> FALSE])

AskRemove(c, t, force) == Request(c, [kind |-> "remove", tree |-> t, force |-> force])

NextTask(c) == Request(c, [kind |-> "next", tree |-> Nil, force |-> FALSE])

\* The replay of a parked request: a creation may meet a stale if_revision or a
\* workspace that is gone; its leftover result is discarded.  A removal closes
\* what was open in the tree.
ReplayCall(w, c) ==
  IF call[c].kind = "remove"
  THEN {CloseAll(a.world, call[c].tree) : a \in Handle(w, call[c])}
  ELSE {Discard(w)} \cup {Discard(a.world) : a \in Handle(w, call[c])}

-----------------------------------------------------------------------------
(* The new-worktree prompt.                                                *)

SetPrompt(w, prompt) == [w EXCEPT !.app.prompt = prompt]

Waiting(w, waiting) == [w EXCEPT !.app.prompt.waiting = waiting]

OpenPrompt(t) ==
  /\ ~app.prompt.open
  /\ MaySpend("prompts", MaxPrompts)
  /\ app' = [app EXCEPT !.prompt = [open |-> TRUE, tree |-> t, waiting |-> FALSE]]
  /\ spent' = [spent EXCEPT !.prompts = @ + 1]
  /\ UNCHANGED <<checkouts, jobs, call>>

\* Enter.  While "creating..." is shown and the slot is busy, keys but Esc are
\* ignored; another error leaves the prompt open.
EnterPrompt ==
  /\ app.prompt.open
  /\ ~(app.inflight /\ app.prompt.waiting)
  /\ \E a \in CreateTree(World, app.prompt.tree) :
       \/ /\ a.says = "opened"
          /\ Becomes(SetPrompt(Keep(a.world, a.tree), [app.prompt EXCEPT !.open = FALSE]))
       \/ /\ a.says = "failed"
          /\ Becomes(Waiting(a.world, FALSE))
       \/ /\ a.says = "pending"
          /\ \E o \in Schedule(a.world, Prompt, "create", a.tree, FALSE) :
               Becomes(Waiting(o.world, o.ok))
  /\ UNCHANGED <<call, spent>>

\* Esc, or a click outside.
CancelPrompt ==
  /\ app.prompt.open
  /\ app' = [app EXCEPT !.prompt.open = FALSE, !.prompt.waiting = FALSE]
  /\ UNCHANGED <<checkouts, jobs, call, spent>>

\* The completion recognises its prompt by repository and branch.
StillPending(w, j) == w.app.prompt.open /\ w.app.prompt.tree = j.tree

\* A cancelled prompt whose finished tree is left alone.
ReplayPromptKeeps(w, j) ==
  IF ~StillPending(w, j) THEN {[w EXCEPT !.app.ready = Nil]}
  ELSE IF j.result = Nil THEN {Waiting(w, FALSE)}
  ELSE {IF a.says = "opened"
        THEN SetPrompt(Keep(a.world, a.tree), [w.app.prompt EXCEPT !.open = FALSE,
                                                                   !.waiting = FALSE])
        ELSE Waiting(Discard(a.world), FALSE) : a \in CreateTree(w, j.tree)}

ReplayPrompt(w, j) ==
  IF ~StillPending(w, j) THEN {Discard(w)}
  ELSE IF j.result = Nil THEN {Waiting(w, FALSE)}
  ELSE {IF a.says = "opened"
        THEN SetPrompt(Keep(a.world, a.tree), [w.app.prompt EXCEPT !.open = FALSE,
                                                                   !.waiting = FALSE])
        ELSE Waiting(Discard(a.world), FALSE) : a \in CreateTree(w, j.tree)}

-----------------------------------------------------------------------------
(* Deleting a worktree from the sidebar.                                   *)

\* finish_worktree_delete.
FinishDelete(w, s) == [w EXCEPT !.app.deleting[s] = Nil]

\* other_worktree_paths, as far as they lie in the tree.
Others(a, t, s) == a.open[t] \ {s} # {}

\* confirm_worktree_delete: the other paths are read now and compared off the loop.
ConfirmDelete(s, t) ==
  /\ s \in app.open[t]
  /\ app.deleting[s] = Nil
  /\ MaySpend("deletes", MaxDeletes)
  /\ \E o \in Submit([World EXCEPT !.app.deleting[s] = Deletion(t, FALSE)],
                     Job(s, "check", t, FALSE, TRUE, Others(app, t, s))) :
       Becomes(IF o.ok THEN o.world ELSE FinishDelete(o.world, s))
  /\ spent' = [spent EXCEPT !.deletes = @ + 1]
  /\ UNCHANGED call

\* The removal is queued, then the workspace is closed and the job let go.
StartRemoval(w, s, t) ==
  LET closed(o) == IF o.ok THEN CloseSpace(o.world, t, s) ELSE FinishDelete(o.world, s)
  IN  (IF "module" \notin Providers THEN {}
       ELSE IF w.app.inflight THEN {FinishDelete(w, s)}
       ELSE {closed(o) : o \in Schedule(w, s, "remove", t, TRUE)})
      \cup {closed(o) : o \in Submit(w, Job(s, "remove", t, FALSE, TRUE, FALSE))}

\* continue_worktree_delete, after the checks off the loop.
ContinueDelete(w, j) ==
  LET s == j.owner
      t == j.tree
      resolved == [w EXCEPT !.app.deleting[s].resolved = TRUE]
  IN  IF j.result = Nil \/ s \notin w.app.open[t]
      THEN {FinishDelete(w, s)}
      ELSE IF Others(w.app, t, s) THEN {FinishDelete(resolved, s)}
      ELSE StartRemoval(resolved, s, t)

\* The removal of the sidebar takes the provider's result and is finished.
ReplayDelete(w, j) ==
  IF j.slot /\ j.result # Nil
  THEN {FinishDelete(a.world, j.owner) : a \in RemoveTree(w, j.tree, TRUE)}
  ELSE {FinishDelete(w, j.owner)}

-----------------------------------------------------------------------------
(* Jobs off the event loop.                                                *)

Finished(j, result) ==
  jobs' = (jobs \ {j}) \cup {[j EXCEPT !.done = TRUE, !.result = result]}

\* A creation: the provider may make the tree, return the one that is there,
\* fail, or fail and leave a tree that the error names and nobody touches.
RunCreate(j) ==
  \/ /\ checkouts[j.tree] = "none"
     /\ \/ /\ checkouts' = [checkouts EXCEPT ![j.tree] = "made"]
           /\ Finished(j, Created(j.tree, TRUE))
        \/ /\ checkouts' = [checkouts EXCEPT ![j.tree] = "kept"]
           /\ Finished(j, Nil)
  \/ /\ checkouts[j.tree] # "none"
     /\ Finished(j, Created(j.tree, FALSE))
     /\ UNCHANGED checkouts
  \/ Finished(j, Nil) /\ UNCHANGED checkouts

\* A removal is judged by what is on disk, whatever the command says.
RunRemove(j) ==
  \/ /\ checkouts[j.tree] # "none"
     /\ checkouts' = [checkouts EXCEPT ![j.tree] = "none"]
     /\ Finished(j, Removed(j.tree))
  \/ Finished(j, Nil) /\ UNCHANGED checkouts

\* The checks before a deletion.
RunCheck(j) ==
  \/ /\ ~j.others /\ checkouts[j.tree] # "none"
     /\ Finished(j, Removed(j.tree))
     /\ UNCHANGED checkouts
  \/ Finished(j, Nil) /\ UNCHANGED checkouts

RunJob(j) ==
  /\ ~j.done
  /\ \/ j.kind = "create" /\ RunCreate(j)
     \/ j.kind = "remove" /\ RunRemove(j)
     \/ j.kind = "check"  /\ RunCheck(j)
  /\ UNCHANGED <<app, call, spent>>

\* A replayed run starts if it still may; the result is discarded if it did not.
ReplayRun(w, j) ==
  IF j.result = Nil THEN {FailRun(w, j.owner)}
  ELSE {Discard(x) : x \in StartRun(w, j.owner)}

Replay(w, j) ==
  CASE j.owner \in Calls  ->
         IF j.result = Nil THEN {w} ELSE ReplayCall(w, j.owner)
    [] j.owner = Prompt   -> ReplayPrompt(w, j)
    [] j.owner \in Runs   -> ReplayRun(w, j)
    [] j.owner \in Spaces -> ReplayDelete(w, j)

\* The completion of a provider job empties the slot, hands the result to the
\* request that asked for it and lets the next automation run have the slot.
SlotFreed(w, j) ==
  [w EXCEPT !.jobs = @ \ {j}, !.app.inflight = FALSE, !.app.ready = j.result]

\* Runs that wait for the slot are left waiting.
ApplyOnly(j) ==
  LET freed == SlotFreed(World, j)
      left  == [World EXCEPT !.jobs = @ \ {j}]
  IN  IF j.kind = "check" THEN ContinueDelete(left, j)
      ELSE IF ~j.slot     THEN ReplayDelete(left, j)
      ELSE Replay(freed, j)

Apply(j) ==
  LET freed == SlotFreed(World, j)
      left  == [World EXCEPT !.jobs = @ \ {j}]
  IN  IF j.kind = "check" THEN ContinueDelete(left, j)
      ELSE IF ~j.slot     THEN ReplayDelete(left, j)
      ELSE UNION {StartPending(w) : w \in Replay(freed, j)}

CompleteJob(j) ==
  /\ j.done
  /\ \E w \in Apply(j) : Becomes(w)
  /\ call' = IF j.owner \in Calls
             THEN [call EXCEPT ![j.owner].kind = "answered"] ELSE call
  /\ UNCHANGED spent

-----------------------------------------------------------------------------
(* The user, the agents and the automation ledger.                         *)

\* Open Worktree, worktree.open and resuming a session.
OpenTree(t, alias) ==
  /\ MayOpen
  /\ \E o \in OpenAt(World, t, alias) : o.ok /\ Becomes(o.world)
  /\ spent' = [spent EXCEPT !.opens = @ + 1]
  /\ UNCHANGED call

CloseWorkspace(s, t) ==
  /\ s \in app.open[t]
  /\ Becomes(CloseSpace(World, t, s))
  /\ UNCHANGED <<call, spent>>

\* An agent starts or stops working in a workspace.
Work(s, t) ==
  /\ s \in app.open[t]
  /\ app' = [app EXCEPT !.busy = (@ \ {s}) \cup ({s} \ @)]
  /\ UNCHANGED <<checkouts, jobs, call, spent>>

\* An operator takes a queued task, or a worker finishes one.
ClaimTask(k) ==
  /\ app.task[k].status = "queued"
  /\ app' = [app EXCEPT !.task[k].status = "claimed"]
  /\ UNCHANGED <<checkouts, jobs, call, spent>>

FinishTask(k) ==
  /\ app.task[k].status \in {"running", "claimed"}
  /\ app' = [app EXCEPT !.task[k].status = "done"]
  /\ UNCHANGED <<checkouts, jobs, call, spent>>

\* Another change of the automation ledger, and the checkpoint that saves it.
EditAutomation ==
  /\ MaySpend("edits", SlotEdits)
  /\ app' = [app EXCEPT !.saving = TRUE]
  /\ spent' = [spent EXCEPT !.edits = @ + 1]
  /\ UNCHANGED <<checkouts, jobs, call>>

Saved ==
  /\ app.saving
  /\ \E w \in StartPending([World EXCEPT !.app.saving = FALSE]) : Becomes(w)
  /\ UNCHANGED <<call, spent>>

\* automation.run: the run is saved before it starts.
RequestRun(r) ==
  /\ app.run[r] = "none"
  /\ app' = [app EXCEPT !.run[r] = "pending", !.saving = TRUE]
  /\ UNCHANGED <<checkouts, jobs, call, spent>>

Background ==
  \/ \E j \in jobs : RunJob(j) \/ CompleteJob(j)
  \/ Saved

User ==
  \/ \E t \in Trees : OpenPrompt(t) \/ \E alias \in BOOLEAN : OpenTree(t, alias)
  \/ EnterPrompt \/ CancelPrompt \/ EditAutomation
  \/ \E s \in Spaces, t \in Trees :
       ConfirmDelete(s, t) \/ CloseWorkspace(s, t) \/ Work(s, t)
  \/ \E k \in Tasks : ClaimTask(k) \/ FinishTask(k)
  \/ \E r \in Runs : RequestRun(r)
  \/ \E c \in Calls :
       \/ NextTask(c)
       \/ \E t \in Trees : Create(c, t) \/ \E force \in BOOLEAN : AskRemove(c, t, force)

SlotNext == Background \/ User

SlotSpec == SlotInit /\ [][SlotNext]_slotVars

\* Provider commands and Git probes have threads of their own and time limits;
\* the request in the slot does not hold up the others.  Their completions and the
\* answer of the checkpoint are events of the loop.
SlotFairness ==
  /\ \A slot \in BOOLEAN :
       /\ WF_slotVars(\E j \in jobs : j.slot = slot /\ RunJob(j))
       /\ WF_slotVars(\E j \in jobs : j.slot = slot /\ CompleteJob(j))
  /\ WF_slotVars(Saved)

FairSlotSpec == SlotSpec /\ SlotFairness

-----------------------------------------------------------------------------
(* Properties.                                                             *)

\* The shape of the state.
SlotTypeOK ==
  /\ checkouts \in [Trees -> {"none", "made", "kept"}]
  /\ app.inflight \in BOOLEAN /\ app.saving \in BOOLEAN
  /\ app.ready = Nil \/ app.ready.tree \in Trees
  /\ app.open \in [Trees -> SUBSET Spaces]
  /\ app.busy \subseteq UNION Range(app.open)
  /\ \A k \in Tasks :
       /\ app.task[k].status \in {"queued", "claimed", "running", "done", "failed"}
       /\ app.task[k].place \in Trees \cup {Nil}
  /\ app.run \in [Runs -> {"none", "pending", "running", "failed"}]
  /\ \A j \in jobs : /\ j.kind \in {"create", "remove", "check"}
                     /\ j.owner \in Calls \cup Runs \cup Spaces \cup {Prompt}

SlotJobs == {j \in jobs : j.slot}

\* The provider handles one request at a time (worktrees.mdx), and between two
\* handlers the slot is either free and empty or owned by exactly one job: a
\* flag left set blocks every creation, a result left behind fails the next one.
SlotClean ==
  /\ Cardinality(SlotJobs) <= 1
  /\ app.inflight <=> SlotJobs # {}
  /\ app.ready = Nil

\* A tree that the provider made is opened for the request, removed again, or
\* belongs to a completion that has not been applied: a cancelled, refused or
\* overtaken request leaves no checkout behind that nobody was told of.
NoOrphanTree ==
  \A t \in Trees : checkouts[t] = "made" =>
    \E j \in SlotJobs : j.done /\ j.result = Created(t, TRUE)

\* A task works in the tree of its own branch, also when task.next picked another
\* task while the tree was being made.
OwnTree == \A k \in Tasks : app.task[k].place \in {Nil, BranchOf[k]}

\* Once the sidebar's deletion of a tree has started, no workspace is open there
\* until it has finished: what was opened during the checks cancels it.
DeletedNotOpen ==
  \A j \in jobs : j.owner \in Spaces /\ j.kind = "remove" => app.open[j.tree] = {}

\* When the provider's setting is changed while the creation of a tree waits to be
\* applied, the tree can be removed and made again before it is.
Overtaken(t) ==
  /\ Providers = {"module", "git"}
  /\ \E j \in SlotJobs : j.done /\ j.result = Created(t, TRUE)

\* Clean-up after a failed or cancelled creation never removes a tree that was
\* there before it, or that its request has taken over; only a removal does.
KeptOnlyRemoved ==
  [][\A t \in Trees : checkouts[t] = "kept" /\ checkouts'[t] = "none" =>
       \/ \E j \in jobs : j.kind = "remove" /\ j.tree = t /\ ~j.done
       \/ \E c \in Calls : IdleCall(c) /\ call'[c].tree = t
       \/ Overtaken(t)]_slotVars

\* A run that waits for the slot gets it when the slot is free again, whoever
\* had it, and is started or failed.
WaitingRunStarts == \A r \in Runs : app.run[r] = "pending" ~> app.run[r] # "pending"

\* Confirmed deletions end, so that their trees may be opened again.
DeletionEnds ==
  (\E s \in Spaces : app.deleting[s] # Nil) ~> (\A s \in Spaces : app.deleting[s] = Nil)

\* Between two handlers the slot is clean, no tree is orphaned, every task is in its
\* own tree and nobody in one that is being deleted; and no tree in use is lost.
SlotSafe ==
  /\ [](SlotTypeOK /\ SlotClean /\ NoOrphanTree /\ OwnTree /\ DeletedNotOpen)
  /\ KeptOnlyRemoved

\* Whoever waits for the slot gets on, and so does a deletion.
SlotLive == WaitingRunStarts /\ DeletionEnds
=============================================================================
