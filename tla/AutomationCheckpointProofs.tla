--------------------- MODULE AutomationCheckpointProofs ---------------------
(***************************************************************************)
(* Proofs about AutomationCheckpoint, for any number of calls, prompts,    *)
(* failed writes and restarts.                                             *)
(*                                                                         *)
(* The inductive invariant says what every snapshot in flight contains:    *)
(* more than the disk, less than memory, and the change of every waiter    *)
(* its revision covers.                                                    *)
(***************************************************************************)
EXTENDS AutomationCheckpoint, FiniteSetTheorems, TLAPS

\* The disk lags behind memory, and by nothing when no revision is pending.
DiskBehind ==
  /\ disk \subseteq ledger
  /\ saved <= revision
  /\ saved = revision => ledger = disk

\* A snapshot in flight lies between the disk and memory.
SnapshotBetween ==
  Saving =>
    /\ saved < inflight.revision /\ inflight.revision <= revision
    /\ disk \subseteq inflight.ledger /\ inflight.ledger \subseteq ledger
    /\ inflight.revision = revision => inflight.ledger = ledger
    /\ inflight.result = "ok" => disk = inflight.ledger

\* What a waiter waits for is in memory, and in every snapshot that covers it.
WaiterCovered ==
  \A w \in waiters :
    /\ saved < w.required /\ w.required <= revision
    /\ w.who \in ledger
    /\ Saving /\ w.required <= inflight.revision => w.who \in inflight.ledger

\* The waiters of a successful completion are on disk.
ReadyDurable == callbacks.result = "ok" => \A w \in callbacks.ready : w.who \in disk

IInv ==
  /\ TypeOK
  /\ DiskBehind /\ SnapshotBetween /\ WaiterCovered /\ ReadyDurable
  /\ AckDurable

USE DEF Saving, SavePending

LEMMA InitIInv == Init => IInv
<1> SUFFICES ASSUME Init PROVE IInv
  OBVIOUS
<1>1. TypeOK
  <2>1. inflight \in Snapshots
    BY DEF Init, NoSave, Snapshots
  <2>2. answer \in [Waiting -> {"none", "busy", "waiting", "ok", "failed", "lost"}]
    BY DEF Init
  <2>3. callbacks \in [result : {"none", "ok", "error"}, ready : SUBSET Waiters]
    BY DEF Init, NoCallbacks
  <2>4. retry \in BOOLEAN /\ up \in BOOLEAN
    BY DEF Init
  <2>5. revision \in Nat /\ saved \in Nat /\ {others, used, faults, crashes} \subseteq Nat
    BY DEF Init
  <2>6. ledger \subseteq Changes /\ disk \subseteq Changes /\ waiters \subseteq Waiters
    BY DEF Init
  <2> QED BY <2>1, <2>2, <2>3, <2>4, <2>5, <2>6, Zenon DEF TypeOK
<1>2. DiskBehind /\ SnapshotBetween /\ WaiterCovered
  BY DEF Init, NoSave, DiskBehind, SnapshotBetween, WaiterCovered
<1>3. ReadyDurable /\ AckDurable
  BY DEF Init, NoCallbacks, ReadyDurable, AckDurable
<1> QED BY <1>1, <1>2, <1>3 DEF IInv

\* A save that is scheduled takes a snapshot of the current ledger.
LEMMA ScheduleSaveShape ==
  ASSUME IInv,
         NEW rev \in Nat, NEW led \in SUBSET Changes, NEW elapsed \in BOOLEAN,
         ScheduleSave(rev, led, elapsed)
  PROVE  /\ retry' \in BOOLEAN
         /\ inflight' \in Snapshots
         /\ \/ inflight' = inflight
            \/ ~Saving /\ rev # saved /\ inflight' = [revision |-> rev, ledger |-> led, result |-> "writing"]
<1>1. retry \in BOOLEAN /\ inflight \in Snapshots
  BY DEF IInv, TypeOK
<1>2. CASE Saving \/ rev = saved \/ (retry /\ ~elapsed)
  BY <1>1, <1>2 DEF ScheduleSave
<1>3. CASE ~(Saving \/ rev = saved \/ (retry /\ ~elapsed)) /\ Room
  <2>1. inflight' = [revision |-> rev, ledger |-> led, result |-> "writing"] /\ retry' = FALSE
    BY <1>3 DEF ScheduleSave
  <2>2. inflight' \in Snapshots
    BY <2>1 DEF Snapshots
  <2> QED BY <2>1, <2>2, <1>3
<1>4. CASE ~(Saving \/ rev = saved \/ (retry /\ ~elapsed)) /\ ~Room
  BY <1>1, <1>4 DEF ScheduleSave
<1> QED BY <1>2, <1>3, <1>4

\* The invariant survives a change of the ledger, whoever makes it.
LEMMA PersistIInv ==
  ASSUME IInv,
         NEW led \in SUBSET Changes, NEW elapsed \in BOOLEAN,
         ledger \subseteq led,
         Persist(led, elapsed),
         UNCHANGED disk
  PROVE  /\ retry' \in BOOLEAN /\ revision' \in Nat /\ saved' \in Nat
         /\ inflight' \in Snapshots /\ ledger' \in SUBSET Changes
         /\ revision' = revision + 1
         /\ DiskBehind' /\ SnapshotBetween'
         /\ \A w \in Waiters :
              saved < w.required /\ w.required <= revision + 1 /\ w.who \in led
              /\ (Saving /\ w.required <= inflight.revision => w.who \in inflight.ledger)
              => (Saving' /\ w.required <= inflight'.revision => w.who \in inflight'.ledger)
<1>1. revision + 1 \in Nat BY DEF IInv, TypeOK
<1>2. /\ ledger' = led /\ revision' = revision + 1 /\ saved' = saved
      /\ ScheduleSave(revision + 1, led, elapsed)
  BY DEF Persist
<1>3. /\ retry' \in BOOLEAN
      /\ inflight' \in Snapshots
      /\ \/ inflight' = inflight
         \/ ~Saving /\ revision + 1 # saved
            /\ inflight' = [revision |-> revision + 1, ledger |-> led, result |-> "writing"]
  BY <1>1, <1>2, ScheduleSaveShape
<1>4. revision \in Nat /\ saved \in Nat /\ inflight \in Snapshots /\ saved <= revision
  BY DEF IInv, TypeOK, DiskBehind
<1>5. DiskBehind'
  BY <1>2, <1>4 DEF IInv, DiskBehind
<1>6. SnapshotBetween'
  <2>1. CASE inflight' = inflight
    BY <2>1, <1>2, <1>4 DEF IInv, SnapshotBetween, DiskBehind, Snapshots
  <2>2. CASE inflight' = [revision |-> revision + 1, ledger |-> led, result |-> "writing"]
    BY <2>2, <1>2, <1>4 DEF IInv, SnapshotBetween, DiskBehind
  <2> QED BY <1>3, <2>1, <2>2
<1>7. ASSUME NEW w \in Waiters,
             saved < w.required, w.required <= revision + 1, w.who \in led,
             Saving /\ w.required <= inflight.revision => w.who \in inflight.ledger,
             Saving', w.required <= inflight'.revision
      PROVE  w.who \in inflight'.ledger
  BY <1>3, <1>7
<1> QED BY <1>2, <1>3, <1>4, <1>5, <1>6, <1>7

-----------------------------------------------------------------------------
(* The steps *)

LEMMA AnswerType ==
  ASSUME TypeOK,
         NEW w \in Waiting, NEW a \in {"busy", "waiting", "ok", "failed", "lost"},
         answer' = [answer EXCEPT ![w] = a]
  PROVE  answer' \in [Waiting -> {"none", "busy", "waiting", "ok", "failed", "lost"}]
  BY DEF TypeOK

\* A waiter that is added waits for a change that is in memory.
LEMMA AwaitSaveIInv ==
  ASSUME IInv,
         NEW w \in Waiting, NEW rev \in Nat,
         AwaitSave(w, rev)
  PROVE  /\ waiters' \subseteq Waiters
         /\ answer' \in [Waiting -> {"none", "busy", "waiting", "ok", "failed", "lost"}]
         /\ \A v \in waiters' : v \in waiters \/ (v.required = rev /\ v.who = w)
         /\ \A v \in Waiting : answer'[v] = "ok" => answer[v] = "ok"
<1>1. waiters \subseteq Waiters /\ TypeOK
  BY DEF IInv, TypeOK
<1>2. CASE Cardinality(waiters) >= MaxWaiters
  <2>1. answer' = [answer EXCEPT ![w] = "failed"] /\ waiters' = waiters
    BY <1>2 DEF AwaitSave
  <2> QED BY <1>1, <2>1, AnswerType DEF TypeOK
<1>3. CASE ~(Cardinality(waiters) >= MaxWaiters)
  <2>1. answer' = [answer EXCEPT ![w] = "waiting"]
        /\ waiters' = waiters \cup {[required |-> rev, who |-> w]}
    BY <1>3 DEF AwaitSave
  <2>2. [required |-> rev, who |-> w] \in Waiters
    BY DEF Waiters
  <2> QED BY <1>1, <2>1, <2>2, AnswerType DEF TypeOK
<1> QED BY <1>2, <1>3

\* A new change whose author waits for it: Call and Prompt.
LEMMA AwaitedIInv ==
  ASSUME IInv,
         NEW w \in Waiting, NEW elapsed \in BOOLEAN,
         Persist(ledger \cup {w}, elapsed),
         AwaitSave(w, revision + 1),
         UNCHANGED <<callbacks, disk, others, used, up, faults, crashes>>
  PROVE  IInv'
<1> DEFINE led == ledger \cup {w}
<1>1. led \in SUBSET Changes /\ ledger \subseteq led
  BY DEF IInv, TypeOK, Changes
<1>2. /\ revision \in Nat /\ saved \in Nat /\ revision + 1 \in Nat /\ saved <= revision
      /\ waiters \subseteq Waiters /\ inflight \in Snapshots
  BY DEF IInv, TypeOK, DiskBehind
<1>3. ledger' = led /\ revision' = revision + 1 /\ saved' = saved /\ UNCHANGED disk
  BY DEF Persist
<1> HIDE DEF led
<1>4. Persist(led, elapsed)
  BY DEF led
<1>5. /\ retry' \in BOOLEAN /\ revision' \in Nat /\ saved' \in Nat
      /\ inflight' \in Snapshots /\ ledger' \in SUBSET Changes
      /\ DiskBehind' /\ SnapshotBetween'
      /\ \A v \in Waiters :
           saved < v.required /\ v.required <= revision + 1 /\ v.who \in led
           /\ (Saving /\ v.required <= inflight.revision => v.who \in inflight.ledger)
           => (Saving' /\ v.required <= inflight'.revision => v.who \in inflight'.ledger)
  BY <1>1, <1>3, <1>4, PersistIInv
<1>6. /\ waiters' \subseteq Waiters
      /\ answer' \in [Waiting -> {"none", "busy", "waiting", "ok", "failed", "lost"}]
      /\ \A v \in waiters' : v \in waiters \/ (v.required = revision + 1 /\ v.who = w)
      /\ \A v \in Waiting : answer'[v] = "ok" => answer[v] = "ok"
  BY <1>2, AwaitSaveIInv
<1>7. TypeOK'
  BY <1>5, <1>6, Zenon DEF IInv, TypeOK
<1>8. WaiterCovered'
  <2> SUFFICES ASSUME NEW v \in waiters'
               PROVE  /\ saved' < v.required /\ v.required <= revision'
                      /\ v.who \in ledger'
                      /\ Saving' /\ v.required <= inflight'.revision => v.who \in inflight'.ledger
    BY DEF WaiterCovered
  <2>1. v \in Waiters /\ v.required \in Nat
    BY <1>6 DEF Waiters
  <2>2. saved < v.required /\ v.required <= revision + 1 /\ v.who \in led
    BY <1>2, <1>6, <2>1 DEF led, IInv, WaiterCovered
  <2>3. Saving /\ v.required <= inflight.revision => v.who \in inflight.ledger
    <3>1. CASE v \in waiters
      BY <3>1 DEF IInv, WaiterCovered
    <3>2. CASE v.required = revision + 1
      BY <3>2, <1>2 DEF IInv, SnapshotBetween, Snapshots
    <3> QED BY <1>6, <3>1, <3>2
  <2> QED BY <1>3, <1>5, <2>1, <2>2, <2>3
<1>9. ReadyDurable' /\ AckDurable'
  BY <1>6 DEF IInv, ReadyDurable, AckDurable
<1> QED BY <1>5, <1>7, <1>8, <1>9 DEF IInv

LEMMA CallIInv == ASSUME IInv, NEW c \in Calls, Call(c) PROVE IInv'
<1>1. c \in Waiting
  BY DEF Waiting
<1>2. CASE Cardinality(waiters) >= MaxWaiters - 1
  <2>1. answer' = [answer EXCEPT ![c] = "busy"]
        /\ UNCHANGED <<queue, callbacks, ledger, disk, others, used, up, faults, crashes>>
    BY <1>2 DEF Call
  <2>2. TypeOK'
    BY <1>1, <2>1, AnswerType, Zenon DEF IInv, TypeOK, queue
  <2>3. AckDurable'
    BY <1>1, <2>1 DEF IInv, AckDurable, TypeOK
  <2>4. DiskBehind' /\ SnapshotBetween' /\ WaiterCovered' /\ ReadyDurable'
    BY <2>1 DEF IInv, DiskBehind, SnapshotBetween, WaiterCovered, ReadyDurable, queue
  <2> QED BY <2>2, <2>3, <2>4 DEF IInv
<1>3. CASE ~(Cardinality(waiters) >= MaxWaiters - 1)
  BY <1>1, <1>3, AwaitedIInv DEF Call
<1> QED BY <1>2, <1>3

LEMMA PromptIInv == ASSUME IInv, NEW i \in Intents, Prompt(i) PROVE IInv'
<1>1. i \in Waiting
  BY DEF Waiting
<1> QED BY <1>1, AwaitedIInv DEF Prompt

LEMMA RepeatIInv == ASSUME IInv, NEW c \in Calls, Repeat(c) PROVE IInv'
<1>1. c \in Waiting /\ c \in ledger /\ revision \in Nat /\ inflight \in Snapshots
      /\ waiters \subseteq Waiters
  BY DEF Waiting, Repeat, IInv, TypeOK
<1>2. UNCHANGED <<revision, saved, inflight, retry, ledger, callbacks, disk, others, used, up, faults, crashes>>
  BY DEF Repeat
<1>3. DiskBehind' /\ SnapshotBetween'
  BY <1>2 DEF IInv, DiskBehind, SnapshotBetween
<1>4. CASE SavePending
  <2>1. AwaitSave(c, revision)
    BY <1>4 DEF Repeat
  <2>2. /\ waiters' \subseteq Waiters
        /\ answer' \in [Waiting -> {"none", "busy", "waiting", "ok", "failed", "lost"}]
        /\ \A v \in waiters' : v \in waiters \/ (v.required = revision /\ v.who = c)
        /\ \A v \in Waiting : answer'[v] = "ok" => answer[v] = "ok"
    BY <1>1, <2>1, AwaitSaveIInv
  <2>3. TypeOK'
    BY <1>2, <2>2, Zenon DEF IInv, TypeOK
  <2>4. WaiterCovered'
    <3> SUFFICES ASSUME NEW v \in waiters'
                 PROVE  /\ saved < v.required /\ v.required <= revision
                        /\ v.who \in ledger
                        /\ Saving /\ v.required <= inflight.revision => v.who \in inflight.ledger
      BY <1>2 DEF WaiterCovered
    <3>1. CASE v \in waiters
      BY <3>1 DEF IInv, WaiterCovered
    <3>2. CASE v.required = revision /\ v.who = c
      <4>1. saved < revision
        BY <1>4 DEF IInv, TypeOK, DiskBehind
      <4>2. Saving /\ revision <= inflight.revision => inflight.ledger = ledger
        BY <1>1 DEF IInv, SnapshotBetween, Snapshots
      <4> QED BY <1>1, <3>2, <4>1, <4>2
    <3> QED BY <2>2, <3>1, <3>2
  <2>5. ReadyDurable' /\ AckDurable'
    BY <1>2, <2>2 DEF IInv, ReadyDurable, AckDurable
  <2> QED BY <1>3, <2>3, <2>4, <2>5 DEF IInv
<1>5. CASE ~SavePending
  <2>1. answer' = [answer EXCEPT ![c] = "ok"] /\ waiters' = waiters
    BY <1>5 DEF Repeat
  <2>2. c \in disk
    BY <1>1, <1>5 DEF IInv, DiskBehind
  <2>3. TypeOK'
    BY <1>1, <1>2, <2>1, AnswerType, Zenon DEF IInv, TypeOK
  <2>4. AckDurable'
    BY <1>1, <1>2, <2>1, <2>2 DEF IInv, AckDurable, TypeOK
  <2>5. WaiterCovered' /\ ReadyDurable'
    BY <1>2, <2>1 DEF IInv, WaiterCovered, ReadyDurable
  <2> QED BY <1>3, <2>3, <2>4, <2>5 DEF IInv
<1> QED BY <1>4, <1>5

\* Saving what is pending: SaveTick and Settle.
LEMMA ScheduleIInv ==
  ASSUME IInv, NEW elapsed \in BOOLEAN,
         ScheduleSave(revision, ledger, elapsed),
         callbacks' \in {callbacks, NoCallbacks},
         UNCHANGED <<revision, saved, waiters, ledger, disk, answer, others, used, up, faults, crashes>>
  PROVE  IInv'
<1>1. /\ revision \in Nat /\ saved \in Nat /\ inflight \in Snapshots /\ saved <= revision
      /\ ledger \in SUBSET Changes /\ waiters \subseteq Waiters
  BY DEF IInv, TypeOK, DiskBehind
<1>2. /\ retry' \in BOOLEAN
      /\ inflight' \in Snapshots
      /\ \/ inflight' = inflight
         \/ ~Saving /\ revision # saved
            /\ inflight' = [revision |-> revision, ledger |-> ledger, result |-> "writing"]
  BY <1>1, ScheduleSaveShape
<1>3. callbacks' \in [result : {"none", "ok", "error"}, ready : SUBSET Waiters]
  BY DEF IInv, TypeOK, NoCallbacks
<1>4. TypeOK'
  BY <1>2, <1>3, Zenon DEF IInv, TypeOK
<1>5. DiskBehind' /\ AckDurable'
  BY DEF IInv, DiskBehind, AckDurable
<1>6. SnapshotBetween'
  BY <1>1, <1>2 DEF IInv, DiskBehind, SnapshotBetween
<1>7. WaiterCovered'
  BY <1>2 DEF IInv, WaiterCovered
<1>8. ReadyDurable'
  BY DEF IInv, ReadyDurable, NoCallbacks
<1> QED BY <1>4, <1>5, <1>6, <1>7, <1>8 DEF IInv

LEMMA SaveTickIInv == ASSUME IInv, SaveTick PROVE IInv'
  BY ScheduleIInv DEF SaveTick

LEMMA SettleIInv == ASSUME IInv, Settle PROVE IInv'
  BY ScheduleIInv DEF Settle

LEMMA WriteIInv == ASSUME IInv, Write PROVE IInv'
<1>1. inflight \in Snapshots /\ inflight.result = "writing" /\ Saving
      /\ ledger \subseteq Changes /\ revision \in Nat /\ saved \in Nat
      /\ UNCHANGED <<revision, saved, retry, waiters, callbacks, ledger, answer, others, used, up, crashes>>
  BY DEF IInv, TypeOK, Write
<1>2. disk' \in {disk, inflight.ledger}
  BY DEF Write
<1>3. \E r \in {"ok", "error"} :
        inflight' = [inflight EXCEPT !.result = r] /\ (r = "ok" => disk' = inflight.ledger)
  BY DEF Write
<1>4. /\ inflight' \in Snapshots /\ Saving'
      /\ inflight'.revision = inflight.revision /\ inflight'.ledger = inflight.ledger
      /\ inflight'.result = "ok" => disk' = inflight.ledger
  BY <1>1, <1>3 DEF Snapshots
<1>5. faults \in Nat /\ faults' \in Nat
  BY DEF IInv, TypeOK, Write
<1>6. /\ saved < inflight.revision /\ inflight.revision <= revision
      /\ disk \subseteq inflight.ledger /\ inflight.ledger \subseteq ledger
      /\ inflight.revision = revision => inflight.ledger = ledger
  BY <1>1 DEF IInv, SnapshotBetween
<1>7. disk \subseteq disk' /\ disk' \subseteq inflight.ledger /\ disk' \subseteq ledger
  BY <1>2, <1>6
<1>8. TypeOK'
  <2>1. {others', used', faults', crashes'} \subseteq Nat
    BY <1>1, <1>5 DEF IInv, TypeOK
  <2>2. disk' \subseteq Changes
    BY <1>1, <1>7
  <2> QED BY <1>1, <1>4, <2>1, <2>2, Zenon DEF IInv, TypeOK
<1>9. DiskBehind'
  BY <1>1, <1>6, <1>7 DEF Snapshots, IInv, DiskBehind
<1>10. SnapshotBetween'
  BY <1>1, <1>4, <1>6, <1>7 DEF SnapshotBetween
<1>11. WaiterCovered'
  BY <1>1, <1>4 DEF IInv, WaiterCovered
<1>12. ReadyDurable' /\ AckDurable'
  BY <1>1, <1>7 DEF IInv, ReadyDurable, AckDurable
<1> QED BY <1>8, <1>9, <1>10, <1>11, <1>12 DEF IInv

LEMMA OtherIInv == ASSUME IInv, OtherJob \/ OtherDone PROVE IInv'
<1>1. UNCHANGED <<queue, callbacks, ledger, disk, answer, up, faults, crashes>>
  BY DEF OtherJob, OtherDone
<1>2. others' \in Nat /\ used' \in Nat
  BY DEF IInv, TypeOK, OtherJob, OtherDone
<1>3. {others', used', faults', crashes'} \subseteq Nat
  BY <1>1, <1>2 DEF IInv, TypeOK
<1>4. TypeOK'
  BY <1>1, <1>3, Zenon DEF IInv, TypeOK, queue
<1>5. DiskBehind' /\ SnapshotBetween' /\ WaiterCovered' /\ ReadyDurable' /\ AckDurable'
  BY <1>1 DEF IInv, DiskBehind, SnapshotBetween, WaiterCovered, ReadyDurable, AckDurable, queue
<1> QED BY <1>4, <1>5 DEF IInv

LEMMA CompleteIInv == ASSUME IInv, Complete PROVE IInv'
<1> DEFINE ready == Answered
<1>1. /\ inflight \in Snapshots /\ Saving /\ inflight.result \in {"ok", "error"}
      /\ revision \in Nat /\ saved \in Nat /\ waiters \subseteq Waiters
      /\ ready \subseteq waiters
  BY DEF IInv, TypeOK, Complete, CompleteWith, Answered
<1>2. /\ callbacks' = [result |-> inflight.result, ready |-> ready]
      /\ waiters' = waiters \ ready
      /\ inflight' = NoSave
      /\ UNCHANGED <<ledger, disk, answer, others, used, up, faults, crashes>>
  BY DEF Complete, CompleteWith
<1>3. ~Saving' /\ inflight' \in Snapshots
  BY <1>2 DEF NoSave, Snapshots
<1>4. callbacks' \in [result : {"none", "ok", "error"}, ready : SUBSET Waiters]
  BY <1>1, <1>2
<1>5. /\ saved < inflight.revision /\ inflight.revision <= revision
      /\ inflight.revision = revision => inflight.ledger = ledger
      /\ inflight.result = "ok" => disk = inflight.ledger
      /\ disk \subseteq ledger
  BY <1>1 DEF IInv, SnapshotBetween, DiskBehind
<1>6. CASE inflight.result = "ok"
  <2>1. saved' = inflight.revision /\ retry' = FALSE /\ revision' = revision
    BY <1>6 DEF Complete, CompleteWith, Saved
  <2>2. ready = {w \in waiters : w.required <= inflight.revision}
    BY <1>6 DEF Answered
  <2>3. TypeOK'
    <3>1. saved' \in Nat /\ revision' \in Nat /\ retry' \in BOOLEAN
      BY <1>1, <2>1 DEF Snapshots
    <3> QED BY <1>1, <1>2, <1>3, <1>4, <3>1, Zenon DEF IInv, TypeOK
  <2>4. DiskBehind' /\ SnapshotBetween'
    BY <1>2, <1>3, <1>5, <1>6, <2>1 DEF DiskBehind, SnapshotBetween
  <2>5. WaiterCovered'
    <3> SUFFICES ASSUME NEW w \in waiters'
                 PROVE  saved' < w.required /\ w.required <= revision' /\ w.who \in ledger'
      BY <1>3 DEF WaiterCovered
    <3>1. w \in waiters /\ ~(w.required <= inflight.revision) /\ w.required \in Nat
      BY <1>1, <1>2, <2>2 DEF Waiters
    <3> QED BY <1>1, <1>2, <2>1, <3>1 DEF IInv, WaiterCovered, Snapshots
  <2>6. ReadyDurable'
    BY <1>1, <1>2, <1>5, <1>6, <2>2 DEF IInv, WaiterCovered, ReadyDurable
  <2>7. AckDurable'
    BY <1>2 DEF IInv, AckDurable
  <2> QED BY <2>3, <2>4, <2>5, <2>6, <2>7 DEF IInv
<1>7. CASE inflight.result = "error"
  <2>1. saved' = saved /\ retry' = TRUE /\ revision' \in {revision, revision + 1}
    BY <1>7 DEF Complete, CompleteWith, Unsaved
  <2>2. ready = waiters /\ waiters' = {}
    BY <1>2, <1>7 DEF Answered
  <2>3. TypeOK'
    <3>1. saved' \in Nat /\ revision' \in Nat /\ retry' \in BOOLEAN
      BY <1>1, <2>1
    <3> QED BY <1>1, <1>2, <1>3, <1>4, <3>1, Zenon DEF IInv, TypeOK
  <2>4. DiskBehind'
    BY <1>1, <1>2, <1>5, <2>1 DEF DiskBehind, Snapshots
  <2>5. SnapshotBetween' /\ WaiterCovered'
    BY <1>3, <2>2 DEF SnapshotBetween, WaiterCovered
  <2>6. ReadyDurable' /\ AckDurable'
    BY <1>2, <1>7 DEF IInv, ReadyDurable, AckDurable
  <2> QED BY <2>3, <2>4, <2>5, <2>6 DEF IInv
<1> QED BY <1>1, <1>6, <1>7

LEMMA CallbackIInv == ASSUME IInv, Callback PROVE IInv'
<1>1. PICK w \in callbacks.ready :
        /\ answer' = [answer EXCEPT ![w.who] = IF callbacks.result = "ok" THEN "ok" ELSE "failed"]
        /\ callbacks' = [callbacks EXCEPT !.ready = @ \ {w}]
        /\ IF w.who \in Intents THEN Persist(ledger \cup {Outcome(w.who)}, FALSE)
           ELSE UNCHANGED <<revision, saved, inflight, retry, ledger>>
  BY DEF Callback
<1>2. UNCHANGED <<waiters, disk, others, used, up, faults, crashes>>
  BY DEF Callback
<1>3. /\ w \in Waiters /\ w.who \in Waiting
      /\ callbacks \in [result : {"none", "ok", "error"}, ready : SUBSET Waiters]
      /\ waiters \subseteq Waiters /\ ledger \subseteq Changes
      /\ revision \in Nat /\ saved \in Nat
  BY DEF IInv, TypeOK, Waiters
<1>4. /\ callbacks' \in [result : {"none", "ok", "error"}, ready : SUBSET Waiters]
      /\ callbacks'.result = callbacks.result
      /\ callbacks'.ready \subseteq callbacks.ready
  BY <1>1, <1>3
<1>5. answer' \in [Waiting -> {"none", "busy", "waiting", "ok", "failed", "lost"}]
  BY <1>1, <1>3, AnswerType DEF IInv
<1>6. ReadyDurable'
  BY <1>2, <1>4 DEF IInv, ReadyDurable
<1>7. AckDurable'
  <2>1. ASSUME NEW v \in Waiting, answer'[v] = "ok" PROVE v \in disk
    <3>1. CASE v = w.who
      <4>1. callbacks.result = "ok"
        BY <1>1, <1>3, <2>1, <3>1 DEF IInv, TypeOK
      <4> QED BY <3>1, <4>1 DEF IInv, ReadyDurable
    <3>2. CASE v # w.who
      BY <1>1, <1>3, <2>1, <3>2 DEF IInv, TypeOK, AckDurable
    <3> QED BY <3>1, <3>2
  <2> QED BY <1>2, <2>1 DEF AckDurable
<1>8. CASE w.who \in Intents
  <2> DEFINE led == ledger \cup {Outcome(w.who)}
  <2>1. led \in SUBSET Changes /\ ledger \subseteq led
    BY <1>3, <1>8 DEF Changes
  <2>2. ledger' = led /\ revision' = revision + 1 /\ saved' = saved
    BY <1>1, <1>8 DEF Persist
  <2>3. Persist(led, FALSE)
    BY <1>1, <1>8
  <2> HIDE DEF led
  <2>4. /\ retry' \in BOOLEAN /\ revision' \in Nat /\ saved' \in Nat
        /\ inflight' \in Snapshots /\ ledger' \in SUBSET Changes
        /\ DiskBehind' /\ SnapshotBetween'
        /\ \A v \in Waiters :
             saved < v.required /\ v.required <= revision + 1 /\ v.who \in led
             /\ (Saving /\ v.required <= inflight.revision => v.who \in inflight.ledger)
             => (Saving' /\ v.required <= inflight'.revision => v.who \in inflight'.ledger)
    BY <1>2, <2>1, <2>3, PersistIInv
  <2>5. TypeOK'
    BY <1>2, <1>4, <1>5, <2>4, Zenon DEF IInv, TypeOK
  <2>6. WaiterCovered'
    <3> SUFFICES ASSUME NEW v \in waiters
                 PROVE  /\ saved' < v.required /\ v.required <= revision'
                        /\ v.who \in ledger'
                        /\ Saving' /\ v.required <= inflight'.revision => v.who \in inflight'.ledger
      BY <1>2 DEF WaiterCovered
    <3>1. /\ v \in Waiters /\ v.required \in Nat
          /\ saved < v.required /\ v.required <= revision /\ v.who \in ledger
          /\ Saving /\ v.required <= inflight.revision => v.who \in inflight.ledger
      BY <1>3 DEF IInv, WaiterCovered, Waiters
    <3>2. v.required <= revision + 1 /\ v.who \in led
      BY <1>3, <2>1, <3>1
    <3> QED BY <2>2, <2>4, <3>1, <3>2
  <2> QED BY <1>6, <1>7, <2>4, <2>5, <2>6 DEF IInv
<1>9. CASE w.who \notin Intents
  <2>1. UNCHANGED <<revision, saved, inflight, retry, ledger>>
    BY <1>1, <1>9
  <2>2. TypeOK'
    BY <1>2, <1>4, <1>5, <2>1, Zenon DEF IInv, TypeOK
  <2>3. DiskBehind' /\ SnapshotBetween' /\ WaiterCovered'
    BY <1>2, <2>1 DEF IInv, DiskBehind, SnapshotBetween, WaiterCovered
  <2> QED BY <1>6, <1>7, <2>2, <2>3 DEF IInv
<1> QED BY <1>8, <1>9

LEMMA LoseCallersType ==
  ASSUME TypeOK, LoseCallers
  PROVE  /\ answer' \in [Waiting -> {"none", "busy", "waiting", "ok", "failed", "lost"}]
         /\ \A w \in Waiting : answer'[w] = "ok" => answer[w] = "ok"
  BY DEF TypeOK, LoseCallers

LEMMA StopIInv == ASSUME IInv, Stop PROVE IInv'
<1>1. /\ inflight' = NoSave /\ LoseCallers /\ up' = FALSE /\ TypeOK
      /\ UNCHANGED <<revision, saved, retry, waiters, callbacks, ledger, others, used, crashes>>
  BY DEF Stop, IInv
<1>2. disk' \in {disk, ledger} \cup (IF Saving THEN {inflight.ledger} ELSE {})
  BY DEF Stop
<1>3. faults' \in Nat /\ revision \in Nat /\ saved \in Nat /\ inflight \in Snapshots /\ ledger \subseteq Changes
  BY DEF Stop, IInv, TypeOK
<1>4. disk \subseteq disk' /\ disk' \subseteq ledger
  BY <1>2 DEF IInv, DiskBehind, SnapshotBetween
<1>5. ~Saving' /\ inflight' \in Snapshots
  BY <1>1 DEF NoSave, Snapshots
<1>6. TypeOK'
  <2>1. {others', used', faults', crashes'} \subseteq Nat
    BY <1>1, <1>3 DEF TypeOK
  <2>2. disk' \subseteq Changes /\ up' \in BOOLEAN
    BY <1>1, <1>3, <1>4
  <2> QED BY <1>1, <1>5, <2>1, <2>2, LoseCallersType, Zenon DEF TypeOK
<1>7. DiskBehind'
  BY <1>1, <1>4 DEF IInv, DiskBehind
<1>8. SnapshotBetween' /\ WaiterCovered'
  BY <1>1, <1>5 DEF IInv, SnapshotBetween, WaiterCovered
<1>9. ReadyDurable' /\ AckDurable'
  BY <1>1, <1>4, LoseCallersType DEF IInv, ReadyDurable, AckDurable
<1> QED BY <1>6, <1>7, <1>8, <1>9 DEF IInv

LEMMA RestartIInv == ASSUME IInv, Restart PROVE IInv'
<1>1. /\ crashes' = crashes + 1 /\ up' = TRUE /\ ledger' = disk /\ LoseCallers /\ TypeOK
      /\ revision' = 0 /\ saved' = 0 /\ inflight' = NoSave /\ retry' = FALSE
      /\ waiters' = {} /\ callbacks' = NoCallbacks /\ others' = 0 /\ used' = 0
      /\ UNCHANGED <<disk, faults>>
  BY DEF Restart, IInv
<1>2. ~Saving' /\ inflight' \in Snapshots
  BY <1>1 DEF NoSave, Snapshots
<1>3. TypeOK'
  <2>1. {others', used', faults', crashes'} \subseteq Nat
    BY <1>1 DEF TypeOK
  <2>2. callbacks' \in [result : {"none", "ok", "error"}, ready : SUBSET Waiters]
    BY <1>1 DEF NoCallbacks
  <2>3. revision' \in Nat /\ saved' \in Nat
    BY <1>1
  <2>4. up' \in BOOLEAN /\ retry' \in BOOLEAN
    BY <1>1
  <2>5. ledger' \subseteq Changes /\ disk' \subseteq Changes /\ waiters' \subseteq Waiters
    BY <1>1 DEF TypeOK
  <2> QED BY <1>1, <1>2, <2>1, <2>2, <2>3, <2>4, <2>5, LoseCallersType, Zenon DEF TypeOK
<1>4. DiskBehind'
  BY <1>1 DEF DiskBehind
<1>5. SnapshotBetween' /\ WaiterCovered'
  BY <1>1, <1>2 DEF SnapshotBetween, WaiterCovered
<1>6. ReadyDurable' /\ AckDurable'
  BY <1>1, LoseCallersType DEF IInv, NoCallbacks, ReadyDurable, AckDurable
<1> QED BY <1>3, <1>4, <1>5, <1>6 DEF IInv

LEMMA NextIInv == IInv /\ [Next]_vars => IInv'
<1> SUFFICES ASSUME IInv, [Next]_vars PROVE IInv'
  OBVIOUS
<1>1. ASSUME NEW c \in Calls, Call(c) \/ Repeat(c) PROVE IInv'
  BY <1>1, CallIInv, RepeatIInv
<1>2. ASSUME NEW i \in Intents, Prompt(i) PROVE IInv'
  BY <1>2, PromptIInv
<1>3. CASE UNCHANGED vars
  <2>1. TypeOK'
    BY <1>3, Zenon DEF IInv, TypeOK, vars, queue
  <2>2. DiskBehind' /\ SnapshotBetween' /\ WaiterCovered' /\ ReadyDurable' /\ AckDurable'
    BY <1>3 DEF IInv, DiskBehind, SnapshotBetween, WaiterCovered, ReadyDurable, AckDurable, vars, queue
  <2> QED BY <2>1, <2>2 DEF IInv
<1> QED
  BY <1>1, <1>2, <1>3, SaveTickIInv, WriteIInv, OtherIInv, CompleteIInv, CallbackIInv, SettleIInv,
     StopIInv, RestartIInv DEF Next

LEMMA Invariance == Spec => []IInv
<1>1. Init => IInv
  BY InitIInv
<1>2. IInv /\ [Next]_vars => IInv'
  BY NextIInv
<1> QED BY <1>1, <1>2, PTL DEF Spec

\* What was answered "ok" is on disk in every reachable state, for any number of
\* callers, failed writes and restarts (persist_automation, after_automation_save).
THEOREM AcksAreDurable == Spec => []AckDurable
<1>1. IInv => AckDurable
  BY DEF IInv
<1> QED BY <1>1, Invariance, PTL

\* Whenever the server may launch work, the ledger it launches from is on disk
\* (automation_save_pending, start_pending_automation_runs).
THEOREM SettledMeansDurable == Spec => []SettledIsDurable
<1>1. IInv => SettledIsDurable
  BY DEF IInv, DiskBehind, SettledIsDurable
<1> QED BY <1>1, Invariance, PTL

\* Unless storage fails, a stop leaves the whole ledger on disk
\* (finish_session_persistence).
THEOREM StopsSave == Spec => StopSavesAll
<1>1. IInv /\ [Next]_vars => (up /\ ~up' /\ faults' = faults => disk' = ledger)
  <2> SUFFICES ASSUME IInv, [Next]_vars, up, ~up', faults' = faults
               PROVE  disk' = ledger
    OBVIOUS
  <2>1. Stop
    BY DEF Next, vars, queue, Call, Repeat, Prompt, SaveTick, Write, OtherJob, OtherDone,
           Complete, CompleteWith, Callback, Settle, Restart
  <2>2. faults \in Nat
    BY DEF IInv, TypeOK
  <2>3. disk' = IF SavePending THEN ledger ELSE disk
    BY <2>1, <2>2 DEF Stop
  <2> QED BY <2>3 DEF IInv, DiskBehind
<1>2. IInv /\ [Next]_vars => [up /\ ~up' /\ faults' = faults => disk' = ledger]_vars
  BY <1>1
<1> QED BY <1>2, Invariance, PTL DEF Spec, StopSavesAll

-----------------------------------------------------------------------------
(* The wait queue *)

RoomInv == IsFiniteSet(waiters) /\ QueueHasRoom

LEMMA AwaitSaveRoom ==
  ASSUME RoomInv, Cardinality(waiters) < MaxWaiters - 1,
         NEW w, NEW rev, AwaitSave(w, rev)
  PROVE  RoomInv'
<1>1. Cardinality(waiters) \in Nat /\ MaxWaiters \in Nat
  BY FS_CardinalityType, CheckpointAssumption DEF RoomInv
<1>2. waiters' = waiters \cup {[required |-> rev, who |-> w]}
  BY <1>1 DEF AwaitSave
<1>3. IsFiniteSet(waiters') /\ Cardinality(waiters') <= Cardinality(waiters) + 1
  BY <1>1, <1>2, FS_AddElement DEF RoomInv
<1>4. Cardinality(waiters') \in Nat
  BY <1>3, FS_CardinalityType
<1> QED BY <1>1, <1>3, <1>4 DEF RoomInv, QueueHasRoom

LEMMA NextRoom == IInv /\ RoomInv /\ [Next]_vars => RoomInv'
<1> SUFFICES ASSUME IInv, RoomInv, [Next]_vars PROVE RoomInv'
  OBVIOUS
<1>0. Cardinality(waiters) \in Nat /\ MaxWaiters \in Nat /\ MaxWaiters >= 2
  BY FS_CardinalityType, CheckpointAssumption DEF RoomInv
<1>1. CASE waiters' = waiters
  BY <1>1 DEF RoomInv, QueueHasRoom
<1>2. CASE waiters' \subseteq waiters
  <2>1. IsFiniteSet(waiters') /\ Cardinality(waiters') <= Cardinality(waiters)
    BY <1>2, FS_Subset DEF RoomInv
  <2>2. Cardinality(waiters') \in Nat
    BY <2>1, FS_CardinalityType
  <2> QED BY <1>0, <2>1, <2>2 DEF RoomInv, QueueHasRoom
<1>3. ASSUME NEW c \in Calls, Call(c) PROVE RoomInv'
  <2>1. CASE Cardinality(waiters) >= MaxWaiters - 1
    BY <1>1, <1>3, <2>1 DEF Call, queue
  <2>2. CASE ~(Cardinality(waiters) >= MaxWaiters - 1)
    BY <1>0, <1>3, <2>2, AwaitSaveRoom DEF Call
  <2> QED BY <2>1, <2>2
<1>4. ASSUME NEW c \in Calls, Repeat(c) PROVE RoomInv'
  BY <1>0, <1>1, <1>4, AwaitSaveRoom DEF Repeat
<1>5. ASSUME NEW i \in Intents, Prompt(i) PROVE RoomInv'
  <2>1. waiters = {}
    <3>1. saved = revision /\ revision \in Nat
      BY <1>5 DEF Prompt, IInv, TypeOK
    <3>2. \A w \in waiters : w.required \in Nat /\ saved < w.required /\ w.required <= revision
      BY DEF IInv, TypeOK, WaiterCovered, Waiters
    <3> QED BY <3>1, <3>2
  <2>2. Cardinality(waiters) < MaxWaiters - 1
    BY <1>0, <2>1, FS_EmptySet
  <2> QED BY <1>5, <2>2, AwaitSaveRoom DEF Prompt
<1>6. CASE Complete
  BY <1>2, <1>6 DEF Complete, CompleteWith
<1>7. CASE Restart
  BY <1>2, <1>7 DEF Restart
<1>8. CASE SaveTick \/ Write \/ OtherJob \/ OtherDone \/ Callback \/ Settle \/ Stop \/ UNCHANGED vars
  BY <1>1, <1>8 DEF SaveTick, Write, OtherJob, OtherDone, Callback, Settle, Stop, vars, queue
<1> QED BY <1>3, <1>4, <1>5, <1>6, <1>7, <1>8 DEF Next

\* after_automation_save always finds room: calls are refused by dispatch_inner,
\* before they change anything, and a prompt waits for the queue to be empty.
THEOREM RoomForEveryWaiter == Spec => []QueueHasRoom
<1>1. Init => RoomInv
  BY FS_EmptySet, CheckpointAssumption DEF Init, RoomInv, QueueHasRoom
<1>2. IInv /\ RoomInv /\ [Next]_vars => RoomInv'
  BY NextRoom
<1>3. RoomInv => QueueHasRoom
  BY DEF RoomInv
<1> QED BY <1>1, <1>2, <1>3, Invariance, PTL DEF Spec

\* All the safety of the checkpoints: what was acknowledged is on disk, with
\* nothing pending memory and disk agree, no call is refused after it changed
\* the ledger, and an orderly stop saves what is left.
THEOREM CheckpointsAreSafe == Spec => CheckpointSafe
<1>1. Spec => []IInv
  BY Invariance
<1>2. IInv => TypeOK
  BY DEF IInv
<1> QED
  BY <1>1, <1>2, AcksAreDurable, SettledMeansDurable, RoomForEveryWaiter, StopsSave, PTL
     DEF CheckpointSafe

-----------------------------------------------------------------------------
(* Refinement of DurableAck *)

AbsVars == <<ledger \cap Calls, disk \cap Calls, [c \in Calls |-> answer[c]]>>

\* Nothing a caller can see changes.
Unseen ==
  /\ ledger' \cap Calls = ledger \cap Calls
  /\ disk' \cap Calls = disk \cap Calls
  /\ \A c \in Calls : answer'[c] = answer[c]

LEMMA UnseenStutters == Unseen => UNCHANGED AbsVars
  BY DEF Unseen, AbsVars

LEMMA TellCall ==
  ASSUME TypeOK, NEW c \in Calls, NEW a, answer' = [answer EXCEPT ![c] = a]
  PROVE  [d \in Calls |-> answer'[d]] = [[d \in Calls |-> answer[d]] EXCEPT ![c] = a]
  BY DEF TypeOK, Waiting

\* The change of a prompt is none of the calls'.
LEMMA IntentsApart ==
  /\ \A i \in Intents : i \notin Calls
  /\ \A i \in Intents : Outcome(i) \notin Calls
  BY CheckpointAssumption DEF Outcome

LEMMA AwaitSaveTells ==
  ASSUME NEW w, NEW rev, AwaitSave(w, rev), Cardinality(waiters) < MaxWaiters, RoomInv
  PROVE  answer' = [answer EXCEPT ![w] = "waiting"]
<1>1. Cardinality(waiters) \in Nat /\ MaxWaiters \in Nat
  BY FS_CardinalityType, CheckpointAssumption DEF RoomInv
<1> QED BY <1>1 DEF AwaitSave

LEMMA CallRefines ==
  ASSUME IInv, RoomInv, NEW c \in Calls, Call(c)
  PROVE  Abstract!Accept(c) \/ Abstract!Refuse(c)
<1>0. TypeOK /\ answer[c] \notin {"waiting", "ok"}
  BY DEF IInv, Call, Callable
<1>a. [d \in Calls |-> answer[d]][c] = answer[c]
  OBVIOUS
<1>1. CASE Cardinality(waiters) >= MaxWaiters - 1
  <2>1. answer' = [answer EXCEPT ![c] = "busy"] /\ ledger' = ledger /\ disk' = disk
    BY <1>1 DEF Call
  <2>2. [d \in Calls |-> answer'[d]] = [[d \in Calls |-> answer[d]] EXCEPT ![c] = "busy"]
    BY <1>0, <2>1, TellCall
  <2> QED BY <1>0, <1>a, <2>1, <2>2 DEF Abstract!Refuse, Abstract!Tell
<1>2. CASE ~(Cardinality(waiters) >= MaxWaiters - 1)
  <2>1. ledger' = ledger \cup {c} /\ disk' = disk /\ AwaitSave(c, revision + 1)
    BY <1>2 DEF Call, Persist
  <2>2. answer' = [answer EXCEPT ![c] = "waiting"]
    BY <2>1, AwaitSaveTells DEF RoomInv, QueueHasRoom
  <2>3. [d \in Calls |-> answer'[d]] = [[d \in Calls |-> answer[d]] EXCEPT ![c] = "waiting"]
    BY <1>0, <2>2, TellCall
  <2>4. ledger' \cap Calls = (ledger \cap Calls) \cup {c}
    BY <2>1
  <2> QED BY <1>0, <1>a, <2>1, <2>3, <2>4 DEF Abstract!Accept, Abstract!Tell
<1> QED BY <1>1, <1>2

LEMMA RepeatRefines ==
  ASSUME IInv, RoomInv, NEW c \in Calls, Repeat(c)
  PROVE  Abstract!Accept(c) \/ Abstract!Acknowledge(c)
<1>0. TypeOK /\ answer[c] \in {"failed", "lost"} /\ c \in ledger /\ ledger' = ledger /\ disk' = disk
  BY DEF IInv, Repeat
<1>a. [d \in Calls |-> answer[d]][c] = answer[c]
  OBVIOUS
<1>b. ledger' \cap Calls = (ledger \cap Calls) \cup {c}
  BY <1>0
<1>1. CASE SavePending
  <2>1. AwaitSave(c, revision)
    BY <1>1 DEF Repeat
  <2>2. answer' = [answer EXCEPT ![c] = "waiting"]
    BY <2>1, AwaitSaveTells DEF RoomInv, QueueHasRoom
  <2>3. [d \in Calls |-> answer'[d]] = [[d \in Calls |-> answer[d]] EXCEPT ![c] = "waiting"]
    BY <1>0, <2>2, TellCall
  <2> QED BY <1>0, <1>a, <1>b, <2>3 DEF Abstract!Accept, Abstract!Tell
<1>2. CASE ~SavePending
  <2>1. answer' = [answer EXCEPT ![c] = "ok"]
    BY <1>2 DEF Repeat
  <2>2. [d \in Calls |-> answer'[d]] = [[d \in Calls |-> answer[d]] EXCEPT ![c] = "ok"]
    BY <1>0, <2>1, TellCall
  <2>3. c \in disk \cap Calls
    BY <1>0, <1>2 DEF IInv, DiskBehind
  <2> QED BY <1>0, <2>2, <2>3 DEF Abstract!Acknowledge, Abstract!Tell
<1> QED BY <1>1, <1>2

\* A prompt, and its outcome, are invisible to the callers of the API.
LEMMA PromptUnseen == ASSUME IInv, RoomInv, NEW i \in Intents, Prompt(i) PROVE Unseen
<1>1. ledger' = ledger \cup {i} /\ disk' = disk /\ AwaitSave(i, revision + 1)
  BY DEF Prompt, Persist
<1>2. answer' = [answer EXCEPT ![i] = "waiting"]
  BY <1>1, AwaitSaveTells DEF RoomInv, QueueHasRoom
<1> QED BY <1>1, <1>2, IntentsApart DEF Unseen, IInv, TypeOK, Waiting

\* Every waiter is a caller that waits, and each waits once.
OneWaiterEach ==
  up => LET all == waiters \cup callbacks.ready
        IN  /\ \A w \in all : answer[w.who] = "waiting"
            /\ \A w, v \in all : w.who = v.who => w = v
            /\ waiters \cap callbacks.ready = {}

LEMMA AwaitSaveOnce ==
  ASSUME IInv, OneWaiterEach, up, up' = up, callbacks = NoCallbacks, callbacks' = callbacks,
         NEW w \in Waiting, NEW rev, \A v \in waiters : v.who # w,
         AwaitSave(w, rev)
  PROVE  OneWaiterEach'
<1>1. /\ callbacks.ready = {} /\ TypeOK /\ waiters \subseteq Waiters
      /\ \A v \in waiters : v.who \in Waiting /\ v.who # w /\ answer[v.who] = "waiting"
      /\ \A u, v \in waiters : u.who = v.who => u = v
  BY DEF OneWaiterEach, NoCallbacks, IInv, TypeOK, Waiters
<1>2. CASE Cardinality(waiters) >= MaxWaiters
  BY <1>1, <1>2 DEF AwaitSave, OneWaiterEach, TypeOK
<1>3. CASE ~(Cardinality(waiters) >= MaxWaiters)
  <2> DEFINE new == [required |-> rev, who |-> w]
  <2>1. waiters' = waiters \cup {new} /\ new.who = w /\ answer' = [answer EXCEPT ![w] = "waiting"]
    BY <1>3 DEF AwaitSave
  <2> HIDE DEF new
  <2>2. answer'[w] = "waiting" /\ \A v \in waiters : answer'[v.who] = "waiting"
    BY <1>1, <2>1 DEF TypeOK
  <2> QED BY <1>1, <2>1, <2>2 DEF OneWaiterEach
<1> QED BY <1>2, <1>3

LEMMA NextOnce == IInv /\ OneWaiterEach /\ [Next]_vars => OneWaiterEach'
<1> SUFFICES ASSUME IInv, OneWaiterEach, [Next]_vars PROVE OneWaiterEach'
  OBVIOUS
<1>1. CASE UNCHANGED <<waiters, answer, up>> /\ callbacks' \in {callbacks, NoCallbacks}
  BY <1>1 DEF OneWaiterEach, NoCallbacks
<1>2. ASSUME NEW c \in Calls, Call(c) PROVE OneWaiterEach'
  <2>1. CASE Cardinality(waiters) >= MaxWaiters - 1
    <3>1. /\ answer' = [answer EXCEPT ![c] = "busy"] /\ answer[c] # "waiting"
          /\ UNCHANGED <<waiters, callbacks, up>>
      BY <1>2, <2>1 DEF Call, Callable, queue
    <3>2. TypeOK /\ \A w \in waiters \cup callbacks.ready : w.who \in Waiting
      BY DEF IInv, TypeOK, Waiters
    <3> QED BY <3>1, <3>2 DEF OneWaiterEach, TypeOK
  <2>2. CASE ~(Cardinality(waiters) >= MaxWaiters - 1)
    <3>1. \A v \in waiters : v.who # c
      BY <1>2 DEF Call, Callable, Idle, OneWaiterEach
    <3> QED BY <1>2, <2>2, <3>1, AwaitSaveOnce DEF Call, Idle, Waiting
  <2> QED BY <2>1, <2>2
<1>3. ASSUME NEW c \in Calls, Repeat(c) PROVE OneWaiterEach'
  <2>1. CASE SavePending
    <3>1. \A v \in waiters : v.who # c
      BY <1>3 DEF Repeat, Idle, OneWaiterEach
    <3> QED BY <1>3, <2>1, <3>1, AwaitSaveOnce DEF Repeat, Idle, Waiting
  <2>2. CASE ~SavePending
    <3>1. /\ answer' = [answer EXCEPT ![c] = "ok"] /\ answer[c] # "waiting"
          /\ UNCHANGED <<waiters, callbacks, up>>
      BY <1>3, <2>2 DEF Repeat
    <3>2. TypeOK /\ \A w \in waiters \cup callbacks.ready : w.who \in Waiting
      BY DEF IInv, TypeOK, Waiters
    <3> QED BY <3>1, <3>2 DEF OneWaiterEach, TypeOK
  <2> QED BY <2>1, <2>2
<1>4. ASSUME NEW i \in Intents, Prompt(i) PROVE OneWaiterEach'
  <2>1. \A v \in waiters : v.who # i
    BY <1>4 DEF Prompt, IInv, WaiterCovered
  <2> QED BY <1>4, <2>1, AwaitSaveOnce DEF Prompt, Idle, Waiting
<1>5. CASE Complete
  <2>1. /\ callbacks'.ready = Answered /\ waiters' = waiters \ Answered
        /\ Answered \subseteq waiters /\ UNCHANGED <<answer, up>>
    BY <1>5 DEF Complete, CompleteWith, Answered
  <2> QED BY <2>1 DEF OneWaiterEach
<1>6. CASE Callback
  <2>1. PICK w \in callbacks.ready :
          /\ answer' = [answer EXCEPT ![w.who] = IF callbacks.result = "ok" THEN "ok" ELSE "failed"]
          /\ callbacks' = [callbacks EXCEPT !.ready = @ \ {w}]
    BY <1>6 DEF Callback
  <2>2. UNCHANGED <<waiters, up>>
    BY <1>6 DEF Callback
  <2>3. callbacks'.ready = callbacks.ready \ {w}
    BY <2>1 DEF IInv, TypeOK
  <2>4. /\ TypeOK /\ up
        /\ \A v \in waiters \cup callbacks.ready : v.who \in Waiting
        /\ waiters \cap callbacks.ready = {}
    BY <1>6 DEF IInv, TypeOK, Waiters, Callback, OneWaiterEach
  <2> QED BY <2>1, <2>2, <2>3, <2>4 DEF OneWaiterEach, TypeOK
<1>7. CASE Stop
  BY <1>7 DEF Stop, OneWaiterEach
<1>8. CASE Restart
  BY <1>8 DEF Restart, OneWaiterEach, NoCallbacks
<1>9. CASE SaveTick \/ Write \/ OtherJob \/ OtherDone \/ Settle \/ UNCHANGED vars
  BY <1>1, <1>9 DEF SaveTick, Write, OtherJob, OtherDone, Settle, vars, queue
<1> QED BY <1>2, <1>3, <1>4, <1>5, <1>6, <1>7, <1>8, <1>9 DEF Next

LEMMA CallbackRefines ==
  ASSUME IInv, OneWaiterEach, Callback
  PROVE  Unseen \/ \E c \in Calls : Abstract!Acknowledge(c) \/ Abstract!Fail(c)
<1>1. PICK w \in callbacks.ready :
        /\ answer' = [answer EXCEPT ![w.who] = IF callbacks.result = "ok" THEN "ok" ELSE "failed"]
        /\ IF w.who \in Intents THEN Persist(ledger \cup {Outcome(w.who)}, FALSE)
           ELSE UNCHANGED <<revision, saved, inflight, retry, ledger>>
  BY DEF Callback
<1>2. up /\ disk' = disk /\ TypeOK /\ w.who \in Waiting
  BY DEF Callback, IInv, TypeOK, Waiters
<1>3. CASE w.who \in Intents
  <2>1. ledger' = ledger \cup {Outcome(w.who)}
    BY <1>1, <1>3 DEF Persist
  <2>2. \A c \in Calls : answer'[c] = answer[c]
    BY <1>1, <1>2, <1>3, IntentsApart DEF TypeOK, Waiting
  <2> QED BY <1>2, <1>3, <2>1, <2>2, IntentsApart DEF Unseen
<1>4. CASE w.who \notin Intents
  <2> DEFINE c == w.who
  <2>1. c \in Calls /\ ledger' = ledger /\ answer[c] = "waiting"
    BY <1>1, <1>2, <1>4 DEF Waiting, OneWaiterEach
  <2> HIDE DEF c
  <2>2. [d \in Calls |-> answer[d]][c] = "waiting"
    BY <2>1
  <2>3. CASE callbacks.result = "ok"
    <3>1. answer' = [answer EXCEPT ![c] = "ok"]
      BY <1>1, <2>3 DEF c
    <3>2. [d \in Calls |-> answer'[d]] = [[d \in Calls |-> answer[d]] EXCEPT ![c] = "ok"]
      BY <1>2, <2>1, <3>1, TellCall
    <3>3. c \in disk \cap Calls
      BY <2>1, <2>3 DEF c, IInv, ReadyDurable
    <3>4. Abstract!Acknowledge(c)
      BY <1>2, <2>1, <3>2, <3>3 DEF Abstract!Acknowledge, Abstract!Tell
    <3> QED BY <2>1, <3>4
  <2>4. CASE callbacks.result # "ok"
    <3>1. answer' = [answer EXCEPT ![c] = "failed"]
      BY <1>1, <2>4 DEF c
    <3>2. [d \in Calls |-> answer'[d]] = [[d \in Calls |-> answer[d]] EXCEPT ![c] = "failed"]
      BY <1>2, <2>1, <3>1, TellCall
    <3>3. Abstract!Fail(c)
      BY <1>2, <2>1, <2>2, <3>2 DEF Abstract!Fail, Abstract!Tell
    <3> QED BY <2>1, <3>3
  <2> QED BY <2>3, <2>4
<1> QED BY <1>3, <1>4

LEMMA WriteRefines == ASSUME IInv, Write PROVE Abstract!Save
<1>1. disk' \in {disk, inflight.ledger} /\ ledger' = ledger /\ answer' = answer
      /\ Saving
  BY DEF Write
<1>2. disk \subseteq disk' /\ disk' \subseteq ledger
  BY <1>1 DEF IInv, DiskBehind, SnapshotBetween
<1>3. disk' \cap Calls \in SUBSET (ledger \cap Calls)
      /\ disk' \cap Calls = (disk \cap Calls) \cup (disk' \cap Calls)
  BY <1>2
<1> QED BY <1>1, <1>3 DEF Abstract!Save

LEMMA LoseCallersRefines ==
  ASSUME TypeOK, LoseCallers
  PROVE  Abstract!LoseCallers
  BY DEF LoseCallers, Abstract!LoseCallers, Waiting

LEMMA StopRefines == ASSUME IInv, Stop PROVE Abstract!Stop
<1>1. disk' \in {disk, ledger} \cup (IF Saving THEN {inflight.ledger} ELSE {})
      /\ ledger' = ledger /\ LoseCallers /\ TypeOK
  BY DEF Stop, IInv
<1>2. disk \subseteq disk' /\ disk' \subseteq ledger
  BY <1>1 DEF IInv, DiskBehind, SnapshotBetween
<1>3. disk' \cap Calls \in SUBSET (ledger \cap Calls)
      /\ disk' \cap Calls = (disk \cap Calls) \cup (disk' \cap Calls)
  BY <1>2
<1> QED BY <1>1, <1>3, LoseCallersRefines DEF Abstract!Stop

LEMMA RestartRefines == ASSUME IInv, Restart PROVE Abstract!Restart
<1>1. ledger' = disk /\ disk' = disk /\ LoseCallers /\ TypeOK
  BY DEF Restart, IInv
<1> QED BY <1>1, LoseCallersRefines DEF Abstract!Restart

LEMMA NextRefines ==
  ASSUME IInv, RoomInv, OneWaiterEach, [Next]_vars
  PROVE  [Abstract!Next]_AbsVars
<1>1. ASSUME NEW c \in Calls, Call(c) \/ Repeat(c) PROVE Abstract!Next
  BY <1>1, CallRefines, RepeatRefines DEF Abstract!Next
<1>2. ASSUME NEW i \in Intents, Prompt(i) PROVE UNCHANGED AbsVars
  BY <1>2, PromptUnseen, UnseenStutters
<1>3. CASE Callback
  BY <1>3, CallbackRefines, UnseenStutters DEF Abstract!Next
<1>4. CASE Write \/ Stop \/ Restart
  BY <1>4, WriteRefines, StopRefines, RestartRefines DEF Abstract!Next
<1>5. CASE SaveTick \/ OtherJob \/ OtherDone \/ Complete \/ Settle \/ UNCHANGED vars
  <2>1. Unseen
    BY <1>5 DEF Unseen, SaveTick, OtherJob, OtherDone, Complete, CompleteWith, Settle, vars
  <2> QED BY <2>1, UnseenStutters
<1> QED BY <1>1, <1>2, <1>3, <1>4, <1>5 DEF Next

\* The checkpoints implement DurableAck: whatever the queue, the worker, storage
\* and restarts do, callers see an acknowledged ledger that never goes back.
THEOREM Implements == Spec => Acknowledged
<1>1. Init => Abstract!Init
  <2> SUFFICES ASSUME Init PROVE Abstract!Init
    OBVIOUS
  <2>1. [c \in Calls |-> answer[c]] = [c \in Calls |-> "none"]
    BY DEF Init, Waiting
  <2> QED BY <2>1 DEF Init, Abstract!Init
<1>2. Init => RoomInv /\ OneWaiterEach
  BY FS_EmptySet, CheckpointAssumption DEF Init, RoomInv, QueueHasRoom, OneWaiterEach, NoCallbacks
<1>3. IInv /\ RoomInv /\ OneWaiterEach /\ [Next]_vars => RoomInv' /\ OneWaiterEach'
  BY NextRoom, NextOnce
<1>4. IInv /\ RoomInv /\ OneWaiterEach /\ [Next]_vars => [Abstract!Next]_AbsVars
  BY NextRefines
<1>5. Acknowledged <=> Abstract!Init /\ [][Abstract!Next]_AbsVars
  BY DEF Acknowledged, Abstract!Spec, AbsVars
<1> QED BY <1>1, <1>2, <1>3, <1>4, <1>5, Invariance, PTL DEF Spec
=============================================================================
