# luvus: TLA+ models, checks and proofs

luvus is a terminal multiplexer with a detached server that also runs coding agents: it keeps
a ledger of tasks, leases file paths to the workers that hold them, gates and integrates their
branches, starts scheduled agents from durable automation definitions, streams panes and events
to clients, and follows other servers over SSH. This directory holds the TLA+ development of
that server. Each module models one protocol of it; most of them have their own hazards
(threads beside the event loop, files written one after the other, processes that race to
start), and the modules meet where one component relies on what another promises.

Paths below are relative to the repository root (`src/…` is the Rust source).

## 1. Inventory

The server is one `App` value on one loop (`src/app/mod.rs`, `src/ipc/server.rs`). Everything
that changes it is a handler that runs to its end on that loop: an API request, a key, an event
sent back by a worker thread, a timer tick. Threads own PTYs, Git jobs, gate commands, sockets
and file writes; they talk to the loop by messages and a few shared flags. So a handler is
atomic with respect to other handlers, and what can go wrong is between handlers: a job that
outlives the state it was started for, a file written before or after the state it records, a
flag that a thread sets while a handler clears it, a restart. Around the server there are
processes (commands, other servers of the same user, remote owners) that share only files and
sockets with it.

| Component | State | Operations | Hard behaviour | What makes it correct | Module |
|---|---|---|---|---|---|
| **Orchestration ledger** (`src/orch/mod.rs`) | tasks, leases, rollback targets, id counters; `orch.json` | add, claim, next, status, retry, merge begin/finish, delete, release, leases, load, save | leases granted through several doors; best-effort saves; late project bindings | overlapping leases never coexist; one integration at a time with a known way back; attempts never reused | `OrchState` |
| **Orchestration handlers** (`src/app/board.rs`, `src/app/dispatch/orchestration.rs`) | gates in flight, integration job, live panes | `task.*`, `lease.*`, completions, closing panes, startup | late gate results; dying panes; stale pane ids | owners are live; a gate decides only its own attempt; no worker unprotected after a restart | `OrchLedger` |
| **Worker handshake** (`src/orch/worker.rs`, `src/automation/worker.rs`) | staged launch per pane, runner processes | stage, type, claim; wait, take, launch, report, settle | a runner that starts before its claim; reports after the task moved on | one agent per start, after the claim; a report changes only its own attempt | `WorkerHandshake` |
| **Worktree provider slot** (`src/worktree.rs`, `src/app/mod.rs`) | one job slot, parked requests, results to be taken | create, open, delete through a module; deferred task starts | replays, cancelled prompts, trees visible before their completion | a tree is used by who asked for it or removed; nobody works in a tree that is deleted | `WorktreeSlot` |
| **Automation** (`src/automation/mod.rs`, `src/app/automation.rs`) | definitions, runs; `automations.json` | request, retry, collect due, start pending, sync with tasks, reconcile | two ledgers on disk, written one after the other | an occurrence is launched at most once, alone, and ends | `ScheduledRuns` |
| **Prompts to live agents** (`src/app/automation.rs`) | runs bound to a terminal or conversation, dispatch intents | deliver, save intent, submit, expire, rebind | the agent gets busy, closes or moves while the intent is saved | a prompt is submitted once, to the right terminal, after its intent is on disk | `ActiveDelivery` |
| **Automation checkpoint** (`src/app/automation_persistence.rs`) | revisions, one save in flight, ≤ 64 waiters | persist, wait, complete, retry, shutdown flush | revisions that overtake a save; failed saves; full queues | nobody is told "saved" before it is | `AutomationCheckpoint`, `DurableAck` |
| **Schedule arithmetic** (`src/automation/schedule.rs`) | deadline of a definition | first, next, newest occurrence, preview | clock changes, sleeps, misfires | the deadline is the next meant occurrence | `Schedule` |
| **Path overlap** (`src/orch/mod.rs`) | none | `glob_prefix`, `normalize_path`, `paths_overlap` | wildcards, empty segments, `.` | patterns with a common file overlap | `PathOverlap` |
| **Settings** (`src/app/config_persistence.rs`, `src/config.rs`, `src/app/settings.rs`) | settings, baseline, explicit choices, one shared file | change, save, reload, theme removal, final save | several servers and one file; reloads overtaken by saves | no change forgotten, nobody else's taken back | `ConfigPersistence` |
| **Event bus** (`src/ipc/api.rs`) | replay window, bounded subscriber queues | publish, subscribe from a cursor, wait, resync | slow subscribers, eviction, flags read without the mutex | no wanted event passed over without a notice | `EventStream`, `EventBus` |
| **Frames** (`src/ipc/server.rs`, `src/ipc/client.rs`) | damage, retained buffers, client baselines, one frame per writer | render pass, patch, resize, hide, input | output during a pass; slow writers; resizes that cross frames | what a client shows is the base of its next diff; everyone ends up current | `FrameDelivery` |
| **Pane output** (`src/terminal/pty.rs`, `src/app/backend.rs`, `src/app/dispatch/agent_workflow.rs`) | content revision, announcement flag, parked waits, streams | announce, handle, re-arm, wait, publish, exit | the reader runs between the steps of a handler; exit and output in any order | coalesced output is always fetched; a wait that holds is answered | `PaneOutput` |
| **Remote follower** (`src/app/remote/events.rs`, `src/app/remote.rs`) | watcher thread, its generation, snapshot, subscription | snapshot, subscribe, drain, retry, refresh | restarting owners, messages of old watchers | the shown topology becomes the owner's | `RemoteFollower` |
| **Server processes** (`src/ipc/server.rs`, `src/main.rs`, `src/session.rs`) | startup lock, sockets, snapshot, pids | start, attach with recovery, stop, restart, delete | races of commands; crashes that leave sockets; slow and hung servers | one server per name; the next one continues the last | `ServerLifecycle` |

The rest is not modelled; `PROJECT.json` lists it with the reason, and section 7 sums up. Under
`hazards`, `PROJECT.json` names every place of this code where something hard to test can go
wrong, with the property that would catch it.

## 2. Modules

```
OrchState         ledger operators
  └ OrchLedger    handlers, jobs, restart
      └ OrchLedgerProofs, with WorktreeSlot, PathOverlap  (TLAPS)
      └ MCLeases    + PathOverlap          run orch_leases
      └ MCOrchLedger                       run late_gate
          └ MCOrchJobs  + Schedule         run orch_jobs

DurableAck  ⇐ AutomationCheckpoint         └ AutomationCheckpointProofs (TLAPS)
EventStream ⇐ EventBus                     └ EventBusProofs (TLAPS)
  └ MCStreams + RemoteFollower (reads an EventStream)                  run streams
WorkerHandshake, ScheduledRuns             └ WorkerProofs (TLAPS)
  └ MCWorkers + WorktreeSlot                                           run workers
PaneOutput, FrameDelivery                  └ OutputProofs (TLAPS)
ActiveDelivery                             └ ActiveDeliveryProofs (TLAPS)
ServerLifecycle, RemoteFollower            └ SessionProofs (TLAPS)
ConfigPersistence                          └ ConfigPersistenceProofs (TLAPS)
```

`A ⇐ B`: B implements A (`INSTANCE`, checked by TLC as a `PROPERTY` and proved). Where
no run is named, a module `M` has a module `MCM` with the sets its configuration uses. Operators that a
comment introduces as a wrong variant (they stand just before the definition they vary) show
that a property notices a bug; nothing else refers to them. A proof module may hold the theorems of
two or three modules; to make that possible, some definitions of `WorkerHandshake`, `PaneOutput`,
`RemoteFollower`, `WorktreeSlot` and `PathOverlap` carry the component's name (`HandshakeSpec`, `PaneSpec`,
`FollowerSpec`, `SlotSpec`, `PatternSpec`).

`MCLeases`, `MCOrchJobs`, `MCStreams` and `MCWorkers` check two or three systems in one run. They
extend one module or two, take the others as instances, and a variable `part`, chosen by the initial
state and constant afterwards, says which of them runs; the others keep their initial states. The
properties of an instance appear there under their own names.

How the modules meet. `OrchState` takes from `PathOverlap` the relation `Overlap`: in `MCLeases` it is
the one `paths_overlap` computes, so that the leases of the ledger speak of files (theorem `LeasedFilesApart`).
`ScheduledRuns` and `ActiveDelivery` use checkpoints as `AutomationCheckpoint` proves them: what
is acknowledged is on disk; there a checkpoint is a change that no snapshot holds and one
snapshot in flight. `ScheduledRuns` reduces tasks to what `OrchLedger` guarantees of them;
`WorkerHandshake` and `WorktreeSlot` refine its `TaskStart` in the two directions in which it is
not atomic in the code: the runner that runs beside the handler, and the worktree that is
provided before it. `RemoteFollower` sees the owner's bus as `EventStream`. `FrameDelivery`
takes from `PaneOutput` that announced output is handled.

### `OrchState`: the ledger

A ledger is one record `[tasks, leases, nextTask, mergePrevious]`, as `OrchState` is one struct
that the code clones, saves and replaces. Each method is an operator from a ledger to a ledger;
a method that can reject is a pair `CanX`/`X`. A retry, for instance, builds a candidate ledger,
saves it and only then replaces the live one, and in the model it is the same expression.

What is kept of a task is what another method reads: status, assignee, dependencies, paths,
whether it has a gate, its project, whether a schedule owns it, the worker mode, the place the
current attempt runs in (`worktree`, `workspace` or none), the attempt, whether the attempt was
ever started, whether its last context report was above the compaction threshold. Titles,
prompts, notes, outputs, times and the archive of earlier attempts are left out.

Abstractions, each named where it is made:

- `Overlap` and `SameProject` are relations given as constants. The assumptions name only what
  the code guarantees: reflexive and symmetric. `same_project` compares ids *or* roots, so it is
  not assumed transitive; neither is overlap.
- Lease ids: the code numbers leases for ever. Only that live leases have different ids matters,
  so `FreeLeaseId` takes an unused one and the state space stays finite.
- `reconcile_leases` keeps saved leases greedily in their saved order. Leases are a set here, so
  `Reconciled` allows every maximal exclusive choice within the cap: all orders at once.

### `OrchLedger`: handlers, threads, disk, restart

| Variable | Code |
|---|---|
| `orch` | `App.orch` |
| `disk` | `orch.json`, the same kind of value |
| `panes`, `lastPane` | live panes with their workspace's project; `PaneId::alloc` |
| `gates` | `App.task_gates_inflight`: attempt and cancel flag of the gate of each task |
| `job` | the integration job off the loop, with the status it was reserved from |
| `boot` | position in the startup sequence; 0 while requests are served |
| `faults`, `crashes` | bounds on failed saves and restarts |

Every action is one whole handler, with its saves:

- `Commit(o)` is `save()`: the live ledger becomes `o`; the write may fail and leave the old file.
  `CommitTwice` is a handler that saves, goes on and saves again. `CommitOrReject(o)` is
  `try_save()` of a candidate: on failure nothing changes. `LeaveUnsaved(o)` is a handler that
  returns an error after it already changed the live ledger, as a rejected `task.claim` or
  `lease.acquire` does (the project stays bound), and `task.update` with a note it refuses.
- `TaskStart` takes the pane it starts in: a new one, or the live pane of the task's place.
- `LaunchGate` and `TaskMerge` start a thread; `GateFinished` and `MergeFinished` are its message,
  any number of handlers later. `gates[id].worker` is the one field the code does not have: the
  claimant at launch, so that a property can compare it with the claimant at the end.
- `Restart` may happen in any state, also during startup: threads and panes are gone, the ledger
  is read from `disk`, interrupted integrations go back (`recover_interrupted_merges`), the
  restored session has some panes under new ids, assignees are rebound and leases filtered
  (`orch_reconcile`). `RecoverLeases` is the loop over live workers, one step per task,
  `SaveReconciled` its save, and `FinishBoot` is `reconcile_automations`: scheduled workers of the
  previous lifetime fail. No request is served before.

### `AutomationCheckpoint` and `DurableAck`

`revision`, `saved`, `inflight`, `retry` and `waiters` are the fields of `AutomationPersistence`;
`others` are the jobs of other features in the same bounded worker queue. The worker's `Write` and
the loop's `Complete` are different steps, with crashes between them; a completion answers its
waiters one by one (`Callback`). The ledger is the set of changes in it. `DurableAck` is the
promise: `accepted`, `durable`, `answer`; the refinement maps `durable` to what a restart would
read.

### `ScheduledRuns`

Two ledgers and two files: `ledger`/`autoDisk` go through checkpoints, `orch`/`orchDisk` are written
at once and at best effort. `Collect` is `collect_due` with the save it asks for, `Request` and the
`Task…` actions are the API calls with `sync_automation_task` in them, `CompleteOk` starts what is
queued once its checkpoint is written, `Restart` is both loads and `reconcile_automations`.
`launches` is history, `edits`, `faults`, `lost` and `crashes` count towards the bounds. A manual
run asked for at the very second an occurrence is due hides that occurrence (only retries count as
different); deleting definitions is left out.

### `ActiveDelivery`

Definitions whose target is an agent that runs already. `pane` is the terminal that hosts the
conversation (every spawn a new number), `route` is `active_target_states`, `waiter` the run whose
dispatch intent is being saved. Process-bound definitions (`Identity = FALSE`) name a terminal;
durable ones follow the native conversation. Note that every change of a route or of readiness
marks the ledger dirty, and a launch waits for a clean one: a route that flaps for ever starves
all launches. `NoLostWakeup` therefore speaks of routes that settle.

### `WorktreeSlot`

`app` is the server's memory (the slot, parked requests, `ready_worktree_provider`, open
workspaces, prompts, deletions in flight, deferred task starts), `checkouts` the disk, `jobs` the
background jobs. Handlers are operators from a world to the set of worlds they may leave, because
a replay runs the same handler again inside the completion. A tree, its branch and its path are
one; the provider of the configuration may change between any two requests (`Providers`), so that the
module's slot and Git at once are both there; Git's cleanup always succeeds; the effect on tasks of closing workspaces is `OrchLedger`'s.

### `WorkerHandshake`

One task; each start has a pane of its own. `loop` is the start whose handler the event loop is
in: until `Commit`, calls of runners wait, but the shell and the file system do not. `runner` is
the phase of the runner process in each pane, `staged` the launch records on disk, `typed` the
commands in the shell. `Lose` is a runner's call that fails in transport. Pane ids used again and
hand-made claims are left out.

### `Schedule`

`Create`, `SetEnabled`, `CollectDue` and `Restart` of one definition over integer time, with the
arithmetic of `schedule.rs` as operators. A zone has one transition. The reference is what the
guide says a trigger means (`Meant…`), defined by sets of instants and not by search. Conversions
of the time library are external. A time zone database that changes between a save and a restart
is not modelled; `skip` judges the oldest missed deadline, as the code does.

### `PathOverlap`

Patterns as sequences of segments; someone types two of them, and `SharedFilesOverlap` compares
the code's answer with the files both cover. The reference follows a file along a pattern: `Cuts` are
the places where it can be cut after each segment, and `**` may take any number of names. It reads the
pattern as it was typed and uses nothing of the code's normalization. Loops of the code
over characters are closed forms or recursive functions, so that it can be proved about.

### `ConfigPersistence`

`app` holds the settings, the baseline, explicit choices, pending reloads and removals; `jobs`
and `done` are the worker's queue and its completions; `Elsewhere` is another server of the same
user that merges single fields under the file lock. `known`, `owed`, `touched`, `app.fresh` and
`app.named` are history. `Over` lays a patch on a configuration or on another patch. The code's
queue takes 8 jobs and reloads; here it takes 1 of each.

### `EventStream` and `EventBus`

`EventStream` is the promise: from its cursor a client learns of the events it wants, none passed
over, until it takes a new snapshot. In `EventBus` everything under the bus mutex is one step,
but for the two stores by which `publish_event` ends a slow subscriber, because its threads read
those flags without the mutex. A queue is the set of sequence numbers in it. The eviction by bytes
is a nondeterministic further eviction. `Oversized` are the events that may be longer than the whole
window; those are not retained.

### `RemoteFollower`

`phase` is the position of the watcher thread of the current generation; messages of an older one
stay in `inbox`. `owner` counts the restarts of the followed server, whose stream is
`EventStream`'s. `budget` bounds failures and refreshes.

### `PaneOutput`

The reader thread (`Produce`, `Announce`, `EndOfFile`) runs between the steps (`todo`) of the
handlers of the loop. `flag` is `data_pending`, which means both "announced" and "not published";
`published` is the revision of the last `terminal.output_ready`. Text that has been shown stays
shown. `FrameDelivery`'s `announced` is the abstraction of this wake-up.

### `FrameDelivery`

Rows and interface are version numbers. `RenderRequest`'s causes are `request`; a pass takes its
damage when it starts (`StartPass`), renders client by client (`RenderNext`) while output goes on,
and acknowledges at the end (`EndPass`). `slot` is the frame behind `frame_pending`, `writing` the
one being written, `screen` what the client has painted. Whole-session clients and projections
differ: projections start hidden, are never foreground and never patched. Private and scoped
frames, graphics and the cursor are left out.

### `ServerLifecycle`

`server` holds for each process its phase in `run` (launched, waiting for the lock, locked, each
socket reclaimed and bound, restoring, running, hung, saving, dead), the lock file it opened, the
session in memory, the launcher that owns it and the stop requests queued at it; `path` is the
process behind each socket file, dead or alive, `dir` the session directory (a new one has a new
lock file), `cmd` the program counter of each command. Sessions are version numbers (`work`,
`disk`). Short probes may fail whenever time could have passed, long ones only when the server
does not answer; a server that is saving ends before a wait for it gives up (2 s against 2.5 s and
more); the backlog of a socket keeps a request for a server that does not read yet. Unix only.

## 3. What the runs check

All configurations give constants their values only; the sets are in the `MC` modules.
`CHECK_DEADLOCK FALSE` is stated because the bounds stop the models, where a server would go on.
A property with parts is the conjunction of the definitions named in its rows, one part per
question; every invariant group also has the type invariant of its module.

| Run | Property | Part | What it says |
|---|---|---|---|
| `orch_leases` | `LeaseExclusive` |  | tasks of related projects never hold overlapping leases, in memory or on disk |
|  | `OwnersLive` |  | no task and no lease belongs to a pane that is gone |
|  | `RestartProtects` |  | after startup, a running worker with a live pane holds leases on all its paths, or is visibly blocked |
|  | `OverlapSound` | `SharedFilesOverlap`, `Symmetric` | patterns with a common file overlap, in either order, if `.` stands only in front with one slash after it (`InFront`) |
|  |  | `PlainApart`, `NormalStays` | different plain paths do not; normalizing twice changes nothing |
| `orch_jobs` | `TypeOK` |  | types, and that the task an integration reports on exists |
|  | `MergeReservation` |  | one task is merging at most; it is the one with a rollback target, and the one the running job reports on |
|  | `GateFence` |  | a gate that was not cancelled belongs to the attempt its task is on |
|  | `AttemptsNeverRepeat` |  | attempt numbers never go back, across failed saves and restarts |
|  | `DependentsPinAttempt` |  | the dependencies of started work stay on their attempt |
|  | `IntegrationSettles` |  | merged stays merged; an integration ends merged, blocked or where it came from, also after a crash |
|  | `ScheduledNotRequeued` |  | a launched scheduled task is never made runnable again by a closing pane or a restart |
|  | `DefinitionRight` | `NeverAgain`, `DeadlineIsNext` | no occurrence of a definition runs twice; the deadline is the next meant one |
|  |  | `PreviewIsMeant`, `NewestOnly` | the preview lists what is meant; a sleep makes one run, of the newest |
|  |  | `LedgerLoads` | the ledger passes its own validation at a restart |
| `workers` | `SlotSafe` | `SlotClean`, `NoOrphanTree` | a free slot leaves no result behind; a created tree is used or removed |
|  |  | `OwnTree`, `KeptOnlyRemoved` | a task works in its own tree; only what a deletion asked for is removed (but see the proof, section 5, for a provider changed meanwhile) |
|  |  | `DeletedNotOpen` | nothing is open in a tree whose deletion has started |
|  | `SlotLive` | `WaitingRunStarts`, `DeletionEnds` | a run that waits for the slot is started or failed; a deletion ends |
|  | `StartSafe` | `OneAgentPerStart`, `AgentAfterCommit` | a start runs one agent, after the server has recorded it, however often its command is repeated |
|  | `LateReportHarmless` |  | the failure report of a start leaves a task alone that another agent works on |
|  | `RunningHasAgent` |  | a recorded start gets its agent or does not stay running, and a scheduled agent that exits does not leave its task running, unless a runner's call was lost |
| `scheduled` | `RunsSafe` | `LaunchedOnce`, `LiveRunHasWork` | an occurrence is launched once, unless a save of its task was lost or the task deleted; a run that counts as live has a task or is waiting for one |
|  |  | `ProvenanceHolds` | both files agree on what a task is for |
|  | `LaunchesRight` | `DurableBeforeLaunch`, `LaunchAlone` | both files know a task before its worker starts, and it starts beside no other of its definition |
|  | `RunsLive` | `QueuedStarts`, `DueCollected` | a queued run starts when the way is free; a due occurrence becomes a run |
| `delivery` | `DeliverySafe` | `PromptOnce` | a prompt is submitted once in a server lifetime |
|  | `PromptsRight` | `IntentFirst`, `RightAgent` | it is submitted after its intent is on disk, to the terminal it was meant for |
|  |  | `OverIsOver` | a run that has ended stays ended |
|  | `DeliveryLive` | `NoLostWakeup`, `IntentResolved` | a run whose agent stays ready is tried; a saved intent is acted upon or given up |
| `checkpoint` | `CheckpointSafe` | `AckDurable`, `SettledIsDurable` | what was answered ok is on disk; with no save pending, memory and disk agree |
|  |  | `QueueHasRoom`, `StopSavesAll` | no call is refused after it changed the ledger; an orderly stop saves everything |
|  | `Acknowledged` |  | the checkpoints implement `DurableAck` |
|  | `CheckpointLive` | `EveryCallAnswered`, `RetriedUntilSaved` | every call is answered; every change reaches the disk |
| `settings` | `SettingsSafe` | `NothingForgotten` | each change is on disk or still owed |
|  | `WritesRight` | `OnlyOwnFields`, `ReloadKeepsUnsaved` | a write changes only what this server changed; a reload keeps what is not saved yet |
|  |  | `RemovalAfterSave` | a theme's files are deleted after the fallback is on disk |
|  | `SettingsLive` | `EventuallySaved`, `EveryReloadAnswered` | changes are saved and reloads answered, with one shared permit and a failed write |
| `streams` | `ImplementsStream` |  | the bus implements `EventStream` |
|  | `BusSafe` | `NothingLost`, `EndIsExplained` | what a client wants is on its way to it; a stream ends only after what came before the lost event |
|  |  | `NoticeIsAhead` | a resync notice names a sequence at or past everything that was lost |
|  | `BusLive` | `Delivered`, `PlaceReturned` | what a client wants reaches it or its connection ends; its place is given back |
|  | `FollowerSafe` | `EventsAsk`, `OwnerFence` | no event is taken without a snapshot after it; another owner needs another watcher |
|  |  | `ReaderJoined`, `LiveWatcherKept` | no reader outlives its subscription; a replaced watcher takes nothing away |
|  | `FollowerLive` | `EventuallyFollows`, `EventShown` | the shown topology becomes the owner's; the next topology event of a restarted owner is shown |
| `frames` | `FrameSafe` | `BaselineHolds` | what a client has, with what is on its way, is the base of its next diff |
|  |  | `RetainedFresh` | rows left out of a patch are unchanged or still reported as damaged |
|  | `EventuallyCurrent` |  | every visible client ends up showing the last output, as long as something wakes the loop |
| `pane` | `PaneSafe` | `TailOwed` | somebody comes for coalesced output |
|  | `PaneLive` | `EventuallyStreamed`, `WaitsAnswered` | a stream ends up at the last revision; a wait whose condition holds is answered |
| `lifecycle` | `ServerSafe` | `OneServer` | one server process has the session |
|  |  | `WorkContinues` | unless a server ended without its final save (a kill, a crash, a save that fails or is late), the next one goes on with everything |
|  |  | `StopIsDown` | a stop or restart that reports success has ended the server it spoke to, unless a deletion took its sockets from under it |
|  | `ServerLive` | `SuccessLasts`, `LaunchSettles` | when all attaches and restarts report success, a server stays; every launched server gets the startup lock or ends |
| `late_gate` | `LateGateCompletesNothing` |  | violated: see section 4 |

`TypeOK` of `ServerLifecycle` says besides that no finished command leaves a process it owns.

### Bounds, and why they suffice

- **Orchestration.** Two tasks: every property relates at most two (a dependency and its
  dependent, two holders of overlapping paths, two candidates for the integration slot). Two panes
  where ownership matters (one that dies and one that takes over). Two attempts: what a retry must
  not disturb is one attempt old. One restart, at any point including during startup, and one
  failed save: a property about memory and disk needs one step in which they part. In
  `orch_leases` one task has no project and panes belong to two unrelated ones, so that conflicts
  appear and disappear with late bindings, and two leases reach the cap; its three paths are two
  globs that overlap and one that does not.
- **Checkpoints, runs, prompts.** Three waiters and one other job fill both queues; two faults
  allow a failed retry. Two occurrences of one definition, one that runs and one behind it, with two
  operator calls (a task is finished and then merged, or changed and then deleted), one save of
  either file that fails and one crash. Two terminals: the one meant and the one the conversation moves
  to.
- **Slot and handshake.** Two trees, two tasks, one call, one prompt, one deletion: every pair of
  features that can want the slot at once. Two starts of one task: one that is late and one that
  runs.
- **Schedule and paths.** Units of a day are coarse, but a gap, a fold and the largest
  representable time are reached; all triggers with small anchors. Every pair of patterns of up to
  three segments over two names (one a prefix of the other), three globs, `.` and the empty segment.
- **Settings.** One preference and one ordinary field, two changes, one reload, one other write,
  one failure, one shutdown or crash, a queue of one, so that each of its limits is met.
- **Bus, follower, panes, frames.** A channel and a window of one are overflown by three events, of
  which the last may be too long to retain. Two events and one restart of the owner let its new
  sequence reach the old one. Two revisions: one announced, one coalesced. Two clients and two rows:
  a patch that leaves a row out while another client still needs it.
- **Processes.** Two commands race; three server processes: the one that is there and a
  replacement by each command.

The theorems below remove the bounds for the invariants they cover.

### Fairness

Liveness is stated under weak fairness of what runs by itself, and only of that: worker threads
run the job they were given, the event loop handles what is in its queue and its timers fire,
processes run on. Nothing makes an operator, a caller or an agent act, storage recover or a module
succeed. Strong fairness appears where a step competes for the loop: `Tick` and `Rearm` of
`PaneOutput` and `StartPass`, `HandleOutput` and `HandleResize` of `FrameDelivery` are due again
and again while other work of the loop takes their turn; `WaitUnmatched` of `EventBus` because the
deadline of a wait passes however often it polls; `Lock` of `ServerLifecycle` because the kernel
gives a free lock to one of those who wait. `frames` assumes besides that something else wakes
the loop again and again (`BusySpec`), as the detection of a working agent does: without it a
client that is refused the last frame stays stale (section 4). Bounded edits, faults and refreshes
are part of the runs: an operator who never stops is not. Where one run holds several systems, an
action's fairness is asked for in the part that runs.

## 4. What the code does not do

The run `late_gate` expects a violation of what the guide says about gates (`findings` quotes it): a
claim without a worktree closes its pane while its gate runs, the task is queued again but its gate
is not cancelled, and the late pass completes the next claimant's work.

Other disagreements between the code and its documentation were met while modelling. The models
have the behaviour as the code has it; the properties hold in spite of it, because they speak of
less, or exclude it in the way named in brackets.

- `task.update` sets a gated task to `done` without its gate (`docs/guides/orchestration.mdx`: the
  gate "must pass before the task can merge"). [no property says otherwise]
- A retry keeps the worker mode, so that a later plain claim that loses its pane stays `claimed` with
  no owner (comment of `orch_unbind_pane`). [no property says otherwise]
- A runner whose call is lost before it launches leaves without a report, and a scheduled runner
  reads the status and settles the task in two calls, so that a review in between is overwritten
  (`src/orch/worker.rs`, `src/automation/worker.rs`). [`RunningHasAgent` allows a lost call]
- A tree in use is removed when its user came after the check that precedes the provider's job;
  the tree of a cancelled creation is removed without a check; a prompt opened again is completed by
  the first creation of the same branch. [`DeletedNotOpen` speaks of deletions from the sidebar, which
  look again; `KeptOnlyRemoved` of trees that a request has taken over]
- A provider that is changed from a module to Git while a tree that the module made waits for its
  completion: the tree may be removed and made again through Git, and the completion's clean-up, which
  goes by the path, removes the new one by force. [`KeptOnlyRemoved`: `Overtaken`]
- A run stays live when its task is deleted in review; a lost save of `orch.json` before a crash
  launches an occurrence twice, and so does a crash after a launched task was put back in the queue
  and deleted, if no checkpoint came in between; a run that failed in memory only is launched after
  a restart. [`LiveRunHasWork` allows the first, `LaunchedOnce` speaks of saves that succeed and
  tasks that are not deleted]
- A restart submits a durable definition's prompt a second time. [`PromptOnce` is per server lifetime
  for those]
- A gap that ends at midnight makes the automation ledger fail its own validation. [`MCOrchJobs`: gaps
  at midday]
- `paths_overlap` is called conservative in its comment, and misses patterns with `.` and `..`: a lease on `.`
  does not conflict with one on a file, nor `a/./b` with `a/b`, nor `.//a` with `a`, because `./` is
  stripped in front only, and before `//` is collapsed (`src/orch/mod.rs:1335-1340`). Two workers of a
  project can then hold leases on one file. TLC finds such a pair, `.` and a name, in three states when
  `Conservative` is checked in place of `SharedFilesOverlap`. [`SharedFilesOverlap`: `InFront`, for
  patterns without `.` or with `./` in front and no second slash after it; `..` is not modelled]
- A final save that fails or takes more than two seconds is reported on the server's terminal only: the
  server exits as after any stop, the command that asked for the stop succeeds, and the next server goes on
  from an earlier save. [`WorkContinues`: `unsaved`]
- A reload that was read before a save takes it back; a preference rewrites the other preferences; a
  late rollback of a theme removal replaces a newer choice. [`ReloadKeepsUnsaved` speaks of unsaved
  changes, `OnlyOwnFields` allows the second]
- A slow subscriber can end without its notice; an event too long to retain lets the replay floor
  move back. [`EndIsExplained` asks for the loss and not for the notice, `NothingLost` and
  `EventStream` leave that event out]
- An owner that restarts between snapshot and subscription is followed without being shown until
  its next topology event. [`EventuallyFollows` speaks of owners that stay, `EventShown` of the others]
- A write to a pane clears the flag of its last output; a parked wait fails although its text was
  there when the pane exits. [`Undisturbed`; `WaitsAnswered` takes any answer]
- A client that is refused the last frame stays stale until something wakes the loop. [`BusySpec`]
- Attaching again kills a server that restores slowly; deleting a session while it starts makes two
  servers of one name possible; a stop decided for a hung server reaches its replacement.
  [`OneServer` and `WorkContinues` end with a deletion; `WorkContinues` and `SuccessLasts` exclude
  kills and faults]

## 5. What is proved

For all values of the constants that satisfy the named assumptions.

**Orchestration** (`OverlapAssumption`, `ProjectAssumption`, `LimitAssumption`, `BoundsAssumption`):

- `TypeCorrect == Spec => []TypeOK`. `TypeOK` is inductive. The one conjunct that is more than a type
  is `Ids(o) \subseteq 1..o.nextTask`: ids in use were handed out, which is why a new task never
  replaces one. The step lemma has one step per action; each cites a lemma
  saying that the operator it applies keeps `LedgerType`.
- `LeasesExclude == Spec => []LeaseExclusive`. Inductive together with `TypeOK`. The argument: an
  operator *narrows* a ledger (`Narrows`) when it adds no lease and makes no task conflict
  with more tasks than before; a narrowed ledger is still exclusive (`NarrowsExclusive`), and
  narrowing is transitive. Almost every handler narrows. That binding a project late narrows is the
  point worth proving: a task without a project conflicts with everyone, so giving it one only
  removes conflicts. The three that add or change leases are shown directly: `Acquire`,
  `BindTaskPaths` (for `task.start` and startup recovery; it adds only declared paths that were
  checked against every lease), and the choice at restart, exclusive by its definition.
  `LeaseExclusive` speaks of the disk too because a restart makes the disk's ledger the live one.

- `IntegrationReserved == Spec => []MergeReservation`. Inductive together with `TypeOK`, once stated as
  `Reserved(ledger, job)`. Nearly every handler `Keeps` the reservation: it neither puts a task into
  `merging`, nor takes one out, nor touches its rollback target. The guards are what makes that true
  (`task.update` refuses a merging task, a merging task cannot be claimed, retried, released or
  deleted, closing a pane interrupts only other statuses). `BeginMergeReserves` and
  `FinishMergeFrees` are the two ends; at a restart `RestartLedger` shows that the loaded ledger has no
  merging task left, as the job is gone. A consequence in the model: `MergeFinished` always finds its reservation;
  the branch of the code that ignores a completion without one is never taken.

- Who owns what, and which attempt it is: `OwnersAreLive`, `GatesFenced`,
  `AttemptsOnlyGrow`, `DependentsStayPinned`, `ScheduledStaysOut` and `RestartsProtect`. Most
  handlers are *orderly* (`Orderly`): they hand out no id, start no attempt, give nothing to a pane
  that is not live, and leave no fenced gate of another attempt. `NextOrderly` proves that once for
  every action but `TaskAdd`, `TaskRetry`, `TaskDelete` and `Restart`, which each theorem then looks
  at itself.
  - Attempts: the snapshot may miss tasks, because saves fail, but the tasks it has are on the attempt
    they have in memory (`Agree`). That holds because a retry is saved before it is made, and because
    ids only grow; it is what keeps a restart from an older snapshot from going back. Of the
    dependencies of started work, `CanRetry` says that nobody retries them.
  - `ScheduledStaysOut` needs that a task with a place runs in the mode it was started in (`Placed`),
    in memory and on disk: `orch_unbind_pane` and the load queue by mode, and only a place says that
    a task was launched.
  - `RestartsProtect` follows the startup loop: every task before `boot` is protected or visibly
    blocked (`RecoveryInv`), and leases granted to a later task take none from an earlier one.
- `IntegrationsEnd == Spec => IntegrationSettles`. A step `Stays` when it
  keeps every integrated and integrating task as it is; all do but a deletion, a completion and a
  restart. For the restart the invariant `SnapshotKnows` is needed: while no save has failed, the
  file has every such task with its status and its way back, as each handler that integrates or
  reserves saves at its end.

**Server lifecycle** (`SessionProofs`, `LifecycleAssumption`): `OneServerPerSession`
(`Spec => []ServerSafe`), for any number of servers and commands and any plan of theirs. The startup
lock alone does not give it: a server holds the lock only until it is ready. What carries over is
`Places` (a server that has a session is behind both socket files) and `Claims` (whoever passed the
check under the lock, and holds it, claims sockets that nobody alive is behind); with one
lock file, `Locks` makes the claimant unique. All of that is said of a session that was never deleted,
because a deletion takes the lock file too, and a second server may then start beside the first.
`Works` puts the work on disk whenever no server serves. For `StopIsDown`, `StopsEnd` follows a stop
from its success on: finding no listener while its target is still bound would contradict `Places`
(`GoneEnds`). For `TypeOK`'s last conjunct, `Owners`: who owns a live server is still launching it.
TLC checked the inductive invariant with three commands and three servers before the proof.
The attempt corrected the property: `StopIsDown` used to be said of deleted sessions too, and with
three commands (a deletion, a start and a stop) that is false in 17 steps. `session delete` checks that
nobody listens and removes the directory later; a server that starts in between loses its socket
files, and a stop that was waiting for it then takes it for gone.

**Checkpoints** (`AutomationCheckpointProofs`, `CheckpointAssumption`): `CheckpointsAreSafe` (from
`AcksAreDurable`, `SettledMeansDurable`, `StopsSave` and `RoomForEveryWaiter`) and `Implements`
(`Spec => Acknowledged`, the refinement of `DurableAck`). The inductive invariant says what each
revision stands for: `saved` is a revision whose changes are on disk; the snapshot in flight holds
everything up to its revision; a waiter's change is in every snapshot of its revision or later.
Acknowledging at `saved >= required` is then right whatever overtook what. `RoomForEveryWaiter`
holds because a call is refused before it changes anything.

**Event bus** (`EventBusProofs`, `BusAssumption`): `BusTypeCorrect`, `BusIsSafe` and
`BusImplementsStream`, for events of any length: one that is longer than the window is never owed to
anybody (`Due`). The invariant `IInv` is per client: what it wants past its cursor is in its backlog,
its queue or its hand, or its subscription was found full and will be ended; the publisher's mutex
(`full`) keeps others from seeing the state between the two stores. The lemma `Untouched` carries it
over every step of another client. How a stream ends needs more (`EndingInv`): the mark of an
overflow is past everything in flight (`Marked`); what the bus had room for is in flight, the large
events included (`Complete`); a queue that was full held something after the fence (`Past`), so
that the mark is past the cursor also for a client that subscribed from the future of the window;
and a connection is served until its subscriber overflows (`Attached`). TLC checked it on small
instances before it was proved.

**Worker handshake** (`WorkerProofs`, `HandshakeAssumption`): `StartsAreSafe` and
`LateReportsAreHarmless`. The launch record is a token
(`Token`): on disk, in the hand of the one runner that renamed it, or spent; so a start launches
once. The runner of a start still in its handler has not got past its wait (`Waiting`), because the
loop that would answer it is busy. A running agent is in the foreground of its pane (`Foreground`):
a runner that reports has none, and the fence lets it report only on the task its own pane owns.

**Pane output** (`OutputProofs`, `PaneAssumption`): `OutputIsOwed`. `TailOwed` is inductive with the
types and `sends \in Nat`: every step that takes one of its four reasons away leaves another, also
when the reader runs between two steps of a handler. `OnceDisturbed` shows that a pane which is
open and undisturbed now has always been so.

**Frames** (`OutputProofs`, `FrameAssumption`): `FramesAreSafe` (`Spec => []FrameSafe`), for any
clients, rows and bounds. The inductive invariant (`FrameInv`) has two halves that disturb each other
only in one operator. Per client (`LinkInv`): what it has painted, with the frame being written and the
frame in its slot applied in order, is the base of its next diff, unless a full frame is due
(`Based`); a refused frame leaves the base ahead of the client and sets exactly that flag. Per row
(`ViewInv`): while nothing is rendered, what a client retains is current or damaged; during a pass the clients
already visited and those still to come differ (`Visited`, `Unvisited`): a client visited may lack only
rows that changed since the capture, which the acknowledgement leaves damaged, because it compares
generations (`Changed`). TLC checked it on 15 million states before it was proved.

**Scheduled workers** (`WorkerProofs`, `RunsAssumption`): `RunsAreSafe` (`Spec => []RunsSafe`) and
`LaunchesAreRight` (`Spec => LaunchesRight`), for any definitions and policies, any number of
occurrences, edits, failed writes, lost saves and restarts. There are five copies of the truth: the ledger, the
snapshot in flight and automations.json, and the tasks in memory and in orch.json. The invariant
(`RunsInv`) says how they follow one another. `BooksHold`: each ledger has an occurrence
once, retries only what has ended, and its links lead to the task that names the run (`BookOK`); a
later ledger has every run of an earlier one (`Follows`); a snapshot that nothing overtook is the
ledger (`Acked`). `TasksHold`: orch.json has every task (`Kept`), and every task's run is in
automations.json, for the same occurrence (`Rooted`): the run is checkpointed before its task exists.
`Worked`: a run that works has a task that is neither queued nor over. And while no save of orch.json
was lost, a launch has left its mark (`LaunchesHeld`): its run is linked in all three ledgers and does
not wait, and its task is bound to a place, or was deleted. That mark is what a restart reads: only an untouched task
without a place goes back to the queue (`NothingRelinks`). Only `CompleteOk` launches, so
`LaunchesAreRight` looks at that step alone. TLC checked the invariant first, exhaustively on
half a million states and by simulation on thirty million.
The attempt corrected the model: the decision of `collect_due` (`DueStatus`) was a `CASE` whose
conditions overlap. TLC takes the first that holds, as the code does, but the language lets
`CASE` take any; it is now a chain of `IF`.

**Settings** (`ConfigPersistenceProofs`, `ConfigAssumption`): `SettingsAreSafe` (`Spec => []SettingsSafe`)
and `WritesAreRight` (`Spec => WritesRight`), for any settings, values, preferences and bounds. The
inductive invariant (`IInv`) says where every change is: what this server got onto the disk is the
baseline, or what the write in flight captured once the worker has written it (`KnownOK`); an
explicit choice that is owed is in the patch that waits, or in a write that has not landed
(`OwedOK`); and what the next write would contain, as the difference from the baseline or from the
capture, is among the fields touched here (`TouchedOK`). A queued or finished save is the one of the
receipt, and there is one at most (`JobsOK`, `DoneOK`); a reload that no change overtook finds
nothing pending (`Overtaken`), which is why taking the file loses nothing. The event loop works on
worlds, so there is one lemma for each function from worlds to worlds (`Moves`, `Steps` and `Rests`
say how much it may change) and one step lemma per action. At a shutdown `FinalOK` keeps what was
captured, and `FinalIsOK` compares it with the receipt's flag: the patch of the write in flight is
composed in only when that write did not land.
The attempt corrected the bookkeeping of the property: `owed` used to keep an explicit choice whose
write had landed if its field was edited during that write; edited back, the field was never written
again and stayed owed, so that with three edits TLC found `NothingForgotten` false although nothing was
lost. `app.named` now tells a choice made during the write from a mere edit.

**Remote sessions** (`SessionProofs`, `FollowerAssumption`): `WatchersFollow`
(`FollowerSpec => FollowerSafe`), for any number of events, failures, refreshes and restarts of the
owner. The watchers run on threads of their own, and messages of replaced ones stay in the
channel, so the inductive invariant (`FollowerInv`) has to say what may still be on its way
(`Posted`: only messages of watchers that were started, about owners that were there). From the
current watcher a failure is the last word (`LastWord`), which is why `WatcherFailed` ends no live
watcher, and it speaks of one owner only (`OneOwner`), which is why the shown topology changes its owner
only with its watcher: `refresh_snapshot` compares with the owner the thread loaded first, and the
thread sends nothing of another one. `ReaderJoined` and `EventsAsk` are inductive beside them: a
reader outlives no subscription, and the event it took is either covered by the snapshot the
thread knows or still pending. TLC checked `FollowerInv` with two restarts, failures and refreshes
(3 million states) before the proof.

**Worktree slot** (`OrchLedgerProofs`, `SlotAssumption`): `SlotIsSafe` (`SlotSpec => SlotSafe`), for any
trees, spaces, tasks, runs and requests. The handlers are operators from worlds to worlds, so the
inductive invariant is said of worlds. `Sound(w, f)` allows one tree `f` that the handler has in its
hand: made or taken from the result, and not yet opened, removed or left. Between two handlers there is no
such tree, and no result lies ready (`SlotInv`). What a handler may do to a world is said once: it `Leads` from one
sound world to another, takes nothing away that was kept but a tree that the ready result had made, and adds no
job of the API; `LeadsBut` excuses the tree of a removal. Those relations compose (`LeadsOn`), so that
there is one lemma per handler, also where a completion replays a request and then starts the
next run. That no tree is orphaned rests on `Orphanless`: a tree that was made and not taken over is
found by its creation's job or by the ready result (`Finds`). That nobody works in a tree being deleted
rests on `Deletes`: a space has one deletion and one job for it, and once the job is a removal its path is
resolved, so that no spelling of it opens.
The attempt corrected the property. TLC found `KeptOnlyRemoved` false with two requests and a provider that
is changed from the module to Git: the module has made a tree and its completion waits; the tree is
removed and made again at the same path through Git, by a request that takes it over; then the
completion is applied, its own request does not open it, and `discard_ready_worktree` removes what is at that
path by force, without looking whether it is still the tree it made. As long as the setting stays, a tree
that is found cannot have been taken over (`Unkept`), and that is what is proved; the exception is named in
the property (`Overtaken`).

**Path patterns** (`OrchLedgerProofs`, `PatternAssumption`): `OverlapIsSound`
(`PatternSpec => []OverlapSound`), for any names and globs and patterns of any length. Everything here is
a recursive function over a sequence, and the library's induction theorems take an operator that no
installed prover can instantiate; so the induction is by the least failure (`FirstFailure`, `StepByStep`), once, and
the lemmas about `Collapse` and `Cuts` use it. `FrontMatches`: before the first glob the names kept by
the prefix are the names of the file before the cut. So the prefix of a pattern is empty or the first
names of every file it covers (`PrefixIs`, which needs `InFront`), and two prefixes of one file are comparable: that is all
`paths_overlap` asks. `NormalizingStays` and `PlainPrefix` are the other two parts.
`RealOverlap` shows that `paths_overlap` is what `OverlapAssumption` asks of the ledger's constant (reflexive and
symmetric), and `LeasedFilesApart` joins both: if the ledger decides by it (`RealPatterns`: its
paths are accepted patterns as they were typed, with `.` only in front and one slash after it; they are stored
normalized, and `StoredOverlap` shows that this changes no answer), then leases of two tasks that share a
project cover no common file, in memory and on disk. That is what a lease is for, and neither component says
it alone. In `MCLeases` `RealPatterns` holds of the paths the run uses.

What these proofs leave out: liveness under fairness, `ENABLED`, and induction over data. No proved
module reaches a `RECURSIVE` operator: only `Schedule` has some, and only TLC checks it.
The proofs of `Next` have one step per action; a property that TLC had not checked on a small
instance was not proved.

## 6. Model-checked only

- All liveness: `SlotLive`, `RunningHasAgent`, `RunsLive`, `DeliveryLive`, `CheckpointLive`, `SettingsLive`,
  `BusLive`, `FollowerLive`, `EventuallyCurrent`, `PaneLive`, `ServerLive`. The prover has no rules for
  fairness here.
- `DefinitionRight`: recursive definitions over time.
- `LateGateCompletesNothing`, which is false. So is `Conservative`, `SharedFilesOverlap` without its
  exception (section 4).

## 7. Not modelled

- Git itself, gate commands, PTYs, the VT parser, SSH, the file system below "a write happens or
  fails": outcomes are nondeterministic choices.
- **Session snapshot**: goes through the same worker as settings and automation; what is left is
  serialization.
- **UHP and Web gateways, pairing**: forward the API and its events one connection at a time;
  sequence numbers and replay are the bus's.
- **Layout tree**: a sequential data structure.
- **Modules**: processes and files of third parties. Their worktree commands are in `WorktreeSlot`.
- **Agent detection**, **search, files, diff, Git views**, **user interface**, **command line,
  update, localisation**: parsing, rendering and read-only views. They make up most of the
  repository's lines and have no protocol of their own.
- Within modelled components: validation of input, idempotency keys and history limits of
  automation; uploads, graphics and private frames of clients; copying between remote owners;
  Windows.
