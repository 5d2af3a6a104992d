------------------------ MODULE AutomationCheckpoint ------------------------
(***************************************************************************)
(* Ordered checkpoints of the automation ledger                            *)
(* (src/src/app/automation_persistence.rs): one immutable snapshot is in    *)
(* flight on the filesystem worker, later changes coalesce behind it, and  *)
(* every caller waits for its own revision.                                *)
(*                                                                         *)
(* The App loop is one thread.  The worker writes the file beside it, so a *)
(* snapshot can be on disk before the App knows, and a crash can fall       *)
(* between the two.  A completion answers its waiters one by one, here in  *)
(* any order; nothing else of the App runs until the last one is answered. *)
(***************************************************************************)
EXTENDS Integers, FiniteSets

CONSTANTS
  Calls,        \* API mutations of the ledger, each awaiting its answer
  Intents,      \* prompts for active agents, each awaiting its dispatch intent
  MaxWaiters,   \* 64 in after_automation_save
  MaxJobs,      \* MAX_JOBS: admitted jobs whose completion is not applied
  MaxOthers,    \* bound: other jobs admitted in a lifetime
  MaxFaults,    \* bound: writes that fail
  MaxCrashes    \* bound: restarts

ASSUME CheckpointAssumption ==
  /\ Calls \cap Intents = {}
  /\ \A i \in Intents : <<i, "outcome">> \notin Calls \cup Intents
  /\ MaxWaiters \in Nat /\ MaxWaiters >= 2
  /\ {MaxJobs, MaxOthers, MaxFaults, MaxCrashes} \subseteq Nat

VARIABLES
  revision, saved,  \* AutomationPersistence.revision, .saved
  inflight,         \* the snapshot being written, or NoSave
  retry,            \* retry_at is set: no save before the backoff has passed
  waiters,          \* AutomationPersistence.waiters
  callbacks,        \* waiters of the completion being applied, or NoCallbacks
  ledger,           \* changes in memory
  disk,             \* changes in automations.json
  answer,           \* what each caller or prompt was told
  others,           \* admitted jobs that are not ours
  used,             \* other jobs admitted so far in this lifetime
  up,               \* FALSE once the server has shut down
  faults, crashes

queue == <<revision, saved, inflight, retry, waiters>>
vars == <<queue, callbacks, ledger, disk, answer, others, used, up, faults, crashes>>

Waiting == Calls \cup Intents

\* A prompt leaves two changes: its intent, then what became of it.
Outcome(i) == <<i, "outcome">>
Changes == Waiting \cup {Outcome(i) : i \in Intents}

NoSave == [revision |-> 0, ledger |-> {}, result |-> "none"]
NoCallbacks == [result |-> "none", ready |-> {}]

Saving == inflight.result # "none"
SavePending == revision # saved

\* The App serves events: up, and no completion is half applied.
Idle == up /\ callbacks = NoCallbacks

Init ==
  /\ revision = 0 /\ saved = 0
  /\ inflight = NoSave
  /\ retry = FALSE
  /\ waiters = {}
  /\ callbacks = NoCallbacks
  /\ ledger = {} /\ disk = {}
  /\ answer = [w \in Waiting |-> "none"]
  /\ others = 0 /\ used = 0
  /\ up = TRUE
  /\ faults = 0 /\ crashes = 0

-----------------------------------------------------------------------------
(* Saving *)

\* IoJobs.submit: our own job holds a permit only while it is in flight.
Room == others < MaxJobs

\* schedule_automation_save, after the changes of the step made the ledger
\* `led` of revision `rev`; `elapsed` tells whether the backoff is over.
ScheduleSave(rev, led, elapsed) ==
  IF Saving \/ rev = saved \/ (retry /\ ~elapsed)
  THEN UNCHANGED <<inflight, retry>>
  ELSE IF Room
  THEN /\ inflight' = [revision |-> rev, ledger |-> led, result |-> "writing"]
       /\ retry' = FALSE
  ELSE retry' = TRUE /\ UNCHANGED inflight

\* persist_automation: a new revision, and a save of it when none is running.
Persist(led, elapsed) ==
  /\ ledger' = led
  /\ revision' = revision + 1
  /\ ScheduleSave(revision + 1, led, elapsed)
  /\ UNCHANGED saved

\* after_automation_save, in a handler that has persisted revision `rev`.
AwaitSave(w, rev) ==
  IF Cardinality(waiters) >= MaxWaiters
  THEN answer' = [answer EXCEPT ![w] = "failed"] /\ UNCHANGED waiters
  ELSE /\ answer' = [answer EXCEPT ![w] = "waiting"]
       /\ waiters' = waiters \cup {[required |-> rev, who |-> w]}

-----------------------------------------------------------------------------
(* Requests *)

\* A caller may try again a call that was refused, or that a restart forgot.
Callable(c) == c \notin ledger /\ answer[c] \notin {"waiting", "ok"}

\* dispatch_inner refuses a mutation while 63 waiters queue, before anything
\* has changed; otherwise the handler persists and parks its reply.
Call(c) ==
  /\ Idle
  /\ Callable(c)
  /\ IF Cardinality(waiters) >= MaxWaiters - 1
     THEN /\ answer' = [answer EXCEPT ![c] = "busy"]
          /\ UNCHANGED <<queue, ledger>>
     ELSE /\ \E elapsed \in BOOLEAN : Persist(ledger \cup {c}, elapsed)
          /\ AwaitSave(c, revision + 1)
  /\ UNCHANGED <<callbacks, disk, others, used, up, faults, crashes>>

\* a repeated call is acknowledged without looking at the disk.
RepeatAtOnce(c) ==
  /\ Idle
  /\ answer[c] \in {"failed", "lost"}
  /\ c \in ledger
  /\ answer' = [answer EXCEPT ![c] = "ok"]
  /\ UNCHANGED <<queue, ledger, callbacks, disk, others, used, up, faults, crashes>>

\* The caller repeats a call whose answer was an error or was lost, with the
\* same idempotency key: nothing changes, yet the reply waits like the first.
Repeat(c) ==
  /\ Idle
  /\ answer[c] \in {"failed", "lost"}
  /\ c \in ledger
  /\ Cardinality(waiters) < MaxWaiters - 1
  /\ IF SavePending
     THEN AwaitSave(c, revision)
     ELSE answer' = [answer EXCEPT ![c] = "ok"] /\ UNCHANGED waiters
  /\ UNCHANGED <<revision, saved, inflight, retry, ledger>>
  /\ UNCHANGED <<callbacks, disk, others, used, up, faults, crashes>>

\* deliver_active_agent_run saves the intent.  It runs only when nothing waits
\* for a save, so the wait queue cannot be full.
Prompt(i) ==
  /\ Idle
  /\ i \notin ledger
  /\ ~SavePending
  /\ \E elapsed \in BOOLEAN : Persist(ledger \cup {i}, elapsed)
  /\ AwaitSave(i, revision + 1)
  /\ UNCHANGED <<callbacks, disk, others, used, up, faults, crashes>>

\* the backoff of a failed or refused save never ends.
SaveTickBackingOff ==
  /\ Idle
  /\ ScheduleSave(revision, ledger, FALSE)
  /\ UNCHANGED <<revision, saved, waiters, ledger>>
  /\ UNCHANGED <<callbacks, disk, answer, others, used, up, faults, crashes>>

\* The server's tick (detect_tick, Some(retry_at) as a wake-up): saves what is
\* pending once the backoff is over.
SaveTick ==
  /\ Idle
  /\ ScheduleSave(revision, ledger, TRUE)
  /\ UNCHANGED <<revision, saved, waiters, ledger>>
  /\ UNCHANGED <<callbacks, disk, answer, others, used, up, faults, crashes>>

-----------------------------------------------------------------------------
(* The filesystem worker *)

\* The file is replaced atomically; an error may still follow the rename (the
\* directory could not be synced), so a failed save may have reached the disk.
Write ==
  /\ inflight.result = "writing"
  /\ \/ /\ disk' = inflight.ledger
        /\ inflight' = [inflight EXCEPT !.result = "ok"]
        /\ faults' = faults
     \/ /\ faults < MaxFaults
        /\ faults' = faults + 1
        /\ disk' \in {disk, inflight.ledger}
        /\ inflight' = [inflight EXCEPT !.result = "error"]
  /\ UNCHANGED <<revision, saved, retry, waiters>>
  /\ UNCHANGED <<callbacks, ledger, answer, others, used, up, crashes>>

\* Other jobs of the App share the permits.
OtherJob ==
  /\ Idle
  /\ used < MaxOthers
  /\ others + (IF Saving THEN 1 ELSE 0) < MaxJobs
  /\ others' = others + 1
  /\ used' = used + 1
  /\ UNCHANGED <<queue, callbacks, ledger, disk, answer, up, faults, crashes>>

OtherDone ==
  /\ Idle
  /\ others > 0
  /\ others' = others - 1
  /\ UNCHANGED <<queue, callbacks, ledger, disk, answer, used, up, faults, crashes>>

-----------------------------------------------------------------------------
(* Completion *)

\* The waiters a completion answers: all of them when the save failed.
Answered ==
  IF inflight.result = "ok" THEN {w \in waiters : w.required <= inflight.revision} ELSE waiters

\* A failed save also fails every occurrence still waiting for its launch, a
\* change of its own when there was one.
Unsaved ==
  /\ retry' = TRUE
  /\ revision' \in {revision, revision + 1}
  /\ UNCHANGED saved

Saved(rev) == saved' = rev /\ retry' = FALSE /\ UNCHANGED revision

\* The completion of the save, up to its waiters.
CompleteWith(ready, settled) ==
  /\ Idle
  /\ inflight.result \in {"ok", "error"}
  /\ callbacks' = [result |-> inflight.result, ready |-> ready]
  /\ waiters' = waiters \ ready
  /\ settled
  /\ inflight' = NoSave
  /\ UNCHANGED <<ledger, disk, answer, others, used, up, faults, crashes>>

\* every waiter is answered, also those that came after the snapshot.
CompleteAll ==
  CompleteWith(waiters, IF inflight.result = "ok" THEN Saved(inflight.revision) ELSE Unsaved)

Complete ==
  CompleteWith(Answered, IF inflight.result = "ok" THEN Saved(inflight.revision) ELSE Unsaved)

\* One waiter of the completion: a caller gets its reply, a prompt is
\* submitted (or given up) and its outcome persisted.
Callback ==
  /\ up
  /\ \E w \in callbacks.ready :
       /\ answer' = [answer EXCEPT ![w.who] = IF callbacks.result = "ok" THEN "ok" ELSE "failed"]
       /\ callbacks' = [callbacks EXCEPT !.ready = @ \ {w}]
       /\ IF w.who \in Intents THEN Persist(ledger \cup {Outcome(w.who)}, FALSE)
          ELSE UNCHANGED <<revision, saved, inflight, retry, ledger>>
  /\ UNCHANGED <<waiters, disk, others, used, up, faults, crashes>>

\* The end of the completion: save again what changed meanwhile.
Settle ==
  /\ up
  /\ callbacks # NoCallbacks /\ callbacks.ready = {}
  /\ callbacks' = NoCallbacks
  /\ ScheduleSave(revision, ledger, FALSE)
  /\ UNCHANGED <<revision, saved, waiters, ledger>>
  /\ UNCHANGED <<disk, answer, others, used, up, faults, crashes>>

-----------------------------------------------------------------------------
(* Stop and restart *)

LoseCallers ==
  answer' = [w \in Waiting |-> IF answer[w] = "waiting" THEN "lost" ELSE answer[w]]

\* finish_session_persistence: the worker drains what it was given and then
\* writes the ledger of the last moment.  Storage that fails, or is too slow
\* for the deadline, may leave any of the three.
Stop ==
  /\ Idle
  /\ up' = FALSE
  /\ LoseCallers
  /\ \/ /\ disk' = IF SavePending THEN ledger ELSE disk
        /\ faults' = faults
     \/ /\ faults < MaxFaults
        /\ faults' = faults + 1
        /\ disk' \in {disk, ledger} \cup (IF Saving THEN {inflight.ledger} ELSE {})
  /\ inflight' = NoSave
  /\ UNCHANGED <<revision, saved, retry, waiters, callbacks, ledger, others, used, crashes>>

\* The server starts again, after a stop or a crash.
Restart ==
  /\ crashes < MaxCrashes
  /\ crashes' = crashes + 1
  /\ up' = TRUE
  /\ ledger' = disk
  /\ LoseCallers
  /\ revision' = 0 /\ saved' = 0
  /\ inflight' = NoSave
  /\ retry' = FALSE
  /\ waiters' = {}
  /\ callbacks' = NoCallbacks
  /\ others' = 0 /\ used' = 0
  /\ UNCHANGED <<disk, faults>>

Next ==
  \/ \E c \in Calls : Call(c) \/ Repeat(c)
  \/ \E i \in Intents : Prompt(i)
  \/ SaveTick \/ Write \/ OtherJob \/ OtherDone
  \/ Complete \/ Callback \/ Settle
  \/ Stop \/ Restart

\* The worker thread runs what it is given; the event loop applies its
\* completions and ticks.  Nothing makes a caller call, an operator stop the
\* server, or storage fail.
Fairness ==
  /\ WF_vars(Write) /\ WF_vars(OtherDone)
  /\ WF_vars(Complete) /\ WF_vars(Callback) /\ WF_vars(Settle)
  /\ WF_vars(SaveTick)

Spec == Init /\ [][Next]_vars /\ Fairness

-----------------------------------------------------------------------------
(* Properties *)

Snapshots == [revision : Nat, ledger : SUBSET Changes, result : {"none", "writing", "ok", "error"}]
Waiters == [required : Nat, who : Waiting]

\* Every variable keeps its type.
TypeOK ==
  /\ revision \in Nat /\ saved \in Nat
  /\ inflight \in Snapshots
  /\ retry \in BOOLEAN
  /\ waiters \subseteq Waiters
  /\ callbacks \in [result : {"none", "ok", "error"}, ready : SUBSET Waiters]
  /\ ledger \subseteq Changes /\ disk \subseteq Changes
  /\ answer \in [Waiting -> {"none", "busy", "waiting", "ok", "failed", "lost"}]
  /\ {others, used, faults, crashes} \subseteq Nat
  /\ up \in BOOLEAN

\* A call answered "ok", and a prompt that was submitted, is on disk: no crash
\* takes an acknowledged mutation back, or the intent of a delivered prompt.
AckDurable == \A w \in Waiting : answer[w] = "ok" => w \in disk

\* Nothing pending means memory and disk agree: start_pending_automation_runs
\* and tick_automations launch work on that word.
SettledIsDurable == up /\ ~SavePending => ledger = disk

\* The wait queue has room whenever after_automation_save runs: a call is
\* refused before it changes anything, never after.
QueueHasRoom == Cardinality(waiters) < MaxWaiters

\* Shutdown drains accepted writes and makes a final checkpoint: unless storage
\* fails, a stop leaves nothing behind, also what changed after the snapshot in
\* flight was taken.
StopSavesAll == [][up /\ ~up' /\ faults' = faults => disk' = ledger]_vars

\* Whoever waits for a checkpoint is answered, whatever storage does, however
\* full the job queue is, and whatever else is changed meanwhile.
EveryCallAnswered == \A w \in Waiting : answer[w] = "waiting" ~> answer[w] # "waiting"

\* A change whose save failed is saved by a later one, without the help of
\* another request, unless the server goes down first.
RetriedUntilSaved == \A x \in Changes : x \in ledger ~> (x \in disk \/ x \notin ledger \/ ~up)

\* What callers see is the abstract DurableAck.
Abstract == INSTANCE DurableAck WITH
  accepted <- ledger \cap Calls,
  durable <- disk \cap Calls,
  answer <- [c \in Calls |-> answer[c]]

Acknowledged == Abstract!Spec

\* What was acknowledged is on disk, with nothing pending memory and disk agree,
\* no call is refused after it changed the ledger, and an orderly stop saves it.
CheckpointSafe ==
  [](TypeOK /\ AckDurable /\ SettledIsDurable /\ QueueHasRoom) /\ StopSavesAll

\* Every call is answered and every change reaches the disk.
CheckpointLive == EveryCallAnswered /\ RetriedUntilSaved
=============================================================================
