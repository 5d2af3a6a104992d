------------------------- MODULE ConfigPersistence -------------------------
(***************************************************************************)
(* The settings of one named server and the file it shares with the others *)
(* (app/config_persistence.rs, config.rs, app/settings.rs).                *)
(*                                                                         *)
(* A change of a setting applies at once and is saved by the I/O worker:   *)
(* one write in flight, later changes coalesce behind it, a failure backs  *)
(* off and keeps the intent.  A write is the difference between what this  *)
(* server last saved (the baseline) and what it wants, plus the settings   *)
(* that were chosen EXPLICITLY, merged under a lock into the newest file.  *)
(* Reloads and theme removals wait for the writes; a shutdown follows them *)
(* with a final one.                                                       *)
(*                                                                         *)
(* A field is a leaf of the JSON object.  The other named servers are the  *)
(* action Elsewhere: they merge single fields under the same lock.  known, *)
(* owed, touched, app.fresh and app.named are history, for the properties  *)
(* only: what this server has got onto the disk, the explicit choices and  *)
(* the changes it has not, the fields changed and those named explicitly   *)
(* since the last capture.                                                 *)
(***************************************************************************)
EXTENDS Naturals, Sequences, FiniteSets

CONSTANTS Fields,         \* settings
          Values,
          Preferences,    \* the settings that a theme choice writes together
          Theme,          \* the one of them that names the theme
          Custom, Bundled,  \* an installed theme and the one to fall back to
          Reloads,        \* server.reload_config requests
          MaxReloads,     \* requests that may wait for a save (8 in the code)
          MaxJobs,        \* permits of the I/O worker (8 in the code)
          MaxEdits, MaxElsewhere, MaxFailures, MaxOthers, MaxRemovals,
          MaxStarts,      \* bounds on users, other servers and the disk
          MaxMoves        \* bound: all of these together

ASSUME ConfigAssumption ==
  /\ Theme \in Preferences /\ Preferences \subseteq Fields
  /\ {Custom, Bundled} \subseteq Values /\ Custom # Bundled
  /\ MaxJobs \in Nat \ {0} /\ MaxReloads \in Nat
  /\ \A bound \in {MaxEdits, MaxElsewhere, MaxFailures, MaxOthers,
                   MaxRemovals, MaxStarts, MaxMoves} : bound \in Nat

VARIABLES disk,       \* the shared configuration file
          mode,       \* "on", "closing" (the final write is queued) or "off"
          app,        \* the settings state of the server
          jobs,       \* the queue of the I/O worker
          done,       \* its completions that the event loop has not applied
          others,     \* permits that other features hold
          saved,      \* the flag that the worker shares with the write receipt
          asked,      \* reload requests
          uninstall,  \* the thread that removes the custom theme
          final,      \* what the shutdown captured, and its outcome
          known, owed, touched,
          used        \* the bounded moves

vars == <<disk, mode, app, jobs, done, others, saved, asked, uninstall,
          final, known, owed, touched, used>>

memory  == <<app, jobs, saved, asked, uninstall>>
history == <<known, owed, touched>>
idle    == <<others, uninstall, final>>

Configs == [Fields -> Values]
Patches == UNION {[dom -> Values] : dom \in SUBSET Fields}
NoPatch == [f \in {} |-> Bundled]
NoReceipt == [some |-> FALSE, desired |-> NoPatch, explicit |-> NoPatch]
NoFinal == [config |-> NoPatch, base |-> NoPatch, failed |-> NoPatch,
            explicit |-> NoPatch, receipt |-> NoReceipt, ok |-> FALSE]

(* What the event loop works on; `held` are the permits out of its reach. *)
World == [app |-> app, jobs |-> jobs, saved |-> saved, asked |-> asked,
          uninstall |-> uninstall, held |-> Len(done) + others]

Commit(w) == /\ app' = w.app /\ jobs' = w.jobs /\ saved' = w.saved
             /\ asked' = w.asked /\ uninstall' = w.uninstall

-----------------------------------------------------------------------------
(* Patches and the write. *)

(* The fields of a patch replace those of the object under it.             *)
Over(patch, object) ==
  [f \in DOMAIN patch \cup DOMAIN object |->
     IF f \in DOMAIN patch THEN patch[f] ELSE object[f]]

Only(f, v) == [g \in {f} |-> v]

DiffersFrom(base, desired) ==
  [f \in {g \in Fields : base[g] # desired[g]} |-> desired[f]]

(* An explicit patch yields to later changes of the same settings. *)
Refresh(patch, previous, desired) ==
  [f \in DOMAIN patch |->
     IF previous[f] = desired[f] THEN patch[f] ELSE desired[f]]

Written(base, desired, explicit) ==
  Over(explicit, DiffersFrom(base, desired))

Start(config, installed) ==
  [config |-> config, baseline |-> config, dirty |-> FALSE,
   inflight |-> FALSE, retry |-> FALSE, explicit |-> NoPatch, epoch |-> 0,
   revision |-> 0, receipt |-> NoReceipt, waiting |-> {},
   fresh |-> {}, named |-> {},
   removal |-> "none", restore |-> FALSE, installed |-> installed]

Pending(a) == a.inflight \/ a.dirty

(* A completion counts until it is applied. *)
HasPermit(w) == Len(w.jobs) + w.held < MaxJobs

(* The settings are captured for a write. *)
Captured(a) ==
  [a EXCEPT !.inflight = TRUE, !.dirty = FALSE, !.explicit = NoPatch,
            !.fresh = {}, !.named = {},
            !.receipt = [some |-> TRUE, desired |-> a.config,
                         explicit |-> a.explicit]]

(* Capture the settings and queue the write; a full queue is tried later. *)
Schedule(w) ==
  LET a == w.app
  IN  IF a.inflight \/ ~a.dirty \/ a.retry THEN w
      ELSE IF ~HasPermit(w) THEN [w EXCEPT !.app.retry = TRUE]
      ELSE [w EXCEPT
              !.app = Captured(a),
              !.saved = FALSE,
              !.jobs = Append(@, [kind |-> "save", base |-> a.baseline,
                                  desired |-> a.config,
                                  explicit |-> a.explicit,
                                  epoch |-> a.epoch])]

(* A change of the settings, with the fields it names explicitly. *)
Changed(a, config, patch) ==
  [a EXCEPT !.config = config, !.revision = @ + 1, !.dirty = TRUE,
            !.explicit = Over(patch, Refresh(@, a.config, config)),
            !.named = @ \cup DOMAIN patch,
            !.fresh = @ \cup DOMAIN patch
                        \cup DOMAIN DiffersFrom(a.config, config)]

Change(w, config, patch) ==
  Schedule([w EXCEPT !.app = Changed(w.app, config, patch)])

(* Select a theme or another preference: all of them are explicit, and only *)
(* the choice of a theme fences the rollback of a removal.                  *)
Prefer(w, choice) ==
  LET config == Over(choice, w.app.config)
  IN  Change([w EXCEPT !.app.restore = @ /\ Theme \notin DOMAIN choice],
             config, [f \in Preferences |-> config[f]])

(* The file was loaded: nothing is owed to it. *)
Loaded(a, config) ==
  [a EXCEPT !.config = config, !.baseline = config, !.epoch = @ + 1,
            !.revision = @ + 1, !.dirty = FALSE, !.explicit = NoPatch,
            !.retry = FALSE]

Reset(w, config) == [w EXCEPT !.app = Loaded(w.app, config)]

Answer(w, ids) ==
  [w EXCEPT !.asked = [r \in Reloads |-> IF r \in ids
                                         THEN [state |-> "answered",
                                               config |-> NoPatch]
                                         ELSE @[r]]]

Reread(w) ==
  [w EXCEPT !.app.waiting = {},
            !.jobs = Append(@, [kind |-> "reload", ids |-> w.app.waiting,
                                revision |-> w.app.revision])]

(* A failed save or a full queue drops the requests without an answer. *)
FlushReloadsSilent(w, ok) ==
  IF w.app.waiting = {} \/ (ok /\ Pending(w.app)) THEN w
  ELSE IF ok /\ HasPermit(w) THEN Reread(w)
  ELSE [w EXCEPT !.app.waiting = {}]

(* Reloads that waited read the file again once everything is saved. *)
FlushReloads(w, ok) ==
  IF w.app.waiting = {} \/ (ok /\ Pending(w.app)) THEN w
  ELSE IF ok /\ HasPermit(w) THEN Reread(w)
  ELSE [Answer(w, w.app.waiting) EXCEPT !.app.waiting = {}]

(* A removal that failed gives the theme back, unless another was chosen. *)
FinishRemoval(w, removed) ==
  LET left  == [w.app EXCEPT !.removal = "none", !.restore = FALSE,
                             !.installed = @ /\ ~removed]
      ended == [w EXCEPT !.app = left, !.uninstall = "idle"]
  IN  IF ~removed /\ w.app.restore THEN Prefer(ended, Only(Theme, Custom))
      ELSE ended

StartRemoval(w, ok) ==
  IF ~ok \/ w.app.config[Theme] = Custom THEN FinishRemoval(w, FALSE)
  ELSE [w EXCEPT !.app.removal = "running", !.uninstall = "running"]

(* A removal waits like a reload, and is called off when the save failed or *)
(* the theme was chosen again.                                              *)
FlushRemovals(w, ok) ==
  IF w.app.removal # "deferred" \/ (ok /\ Pending(w.app)) THEN w
  ELSE StartRemoval(w, ok)

(* Remove the custom theme; the active one gives way to the bundled first. *)
RequestRemoval(w) ==
  LET fallback == IF w.app.config[Theme] = Custom
                  THEN [Prefer(w, Only(Theme, Bundled)) EXCEPT
                          !.app.restore = TRUE]
                  ELSE w
  IN  FlushRemovals([fallback EXCEPT !.app.removal = "deferred"], TRUE)

-----------------------------------------------------------------------------
Init ==
  /\ disk \in Configs
  /\ mode = "on"
  /\ app = Start(disk, TRUE)
  /\ jobs = <<>> /\ done = <<>> /\ others = 0 /\ saved = FALSE
  /\ asked = [r \in Reloads |-> [state |-> "idle", config |-> NoPatch]]
  /\ uninstall = "idle"
  /\ final = NoFinal
  /\ known = disk /\ owed = {} /\ touched = {}
  /\ used = [edits |-> 0, elsewhere |-> 0, failures |-> 0, others |-> 0,
             removals |-> 0, starts |-> 0]

Spend(what) ==
  /\ used.edits + used.elsewhere + used.failures + used.others
       + used.removals + used.starts < MaxMoves
  /\ used' = [used EXCEPT ![what] = @ + 1]

(* The event loop: a user, a client or a timer.                            *)

(* An ordinary toggle of the interface: no explicit patch.                 *)
Edit(f, v) ==
  /\ mode = "on" /\ used.edits < MaxEdits
  /\ f \notin Preferences /\ v # app.config[f]
  /\ Commit(Change(World, [app.config EXCEPT ![f] = v], NoPatch))
  /\ touched' = touched \cup {f}
  /\ Spend("edits")
  /\ UNCHANGED <<disk, mode, done, others, final, known, owed>>

(* A theme or another preference chosen in the interface.                  *)
Choose(f, v) ==
  /\ mode = "on" /\ used.edits < MaxEdits
  /\ f \in Preferences
  /\ f = Theme \/ v # app.config[f]
  /\ app.installed \/ Over(Only(f, v), app.config)[Theme] # Custom
  /\ Commit(Prefer(World, Only(f, v)))
  /\ owed' = owed \cup {f} /\ touched' = touched \cup {f}
  /\ Spend("edits")
  /\ UNCHANGED <<disk, mode, done, others, final, known>>

(* config.patch: preferences alone are applied like a choice, anything else *)
(* replaces the whole live configuration.                                   *)
ConfigPatch(patch) ==
  LET config == Over(patch, app.config)
  IN  /\ mode = "on" /\ used.edits < MaxEdits
      /\ DOMAIN patch # {}
      /\ app.installed \/ config[Theme] # Custom
      /\ IF DOMAIN patch \subseteq Preferences
         THEN Commit(Prefer(World, patch))
         ELSE Commit(Change(World, config, patch))
      /\ owed' = owed \cup DOMAIN patch
      /\ touched' = touched \cup DOMAIN patch
      /\ Spend("edits")
      /\ UNCHANGED <<disk, mode, done, others, final, known>>

(* The retry time has come; the tick schedules what is dirty.              *)
SaveTick ==
  /\ mode = "on" /\ app.dirty /\ ~app.inflight
  /\ Commit(Schedule([World EXCEPT !.app.retry = FALSE]))
  /\ UNCHANGED <<disk, mode, done, others, final, history, used>>

(* A reload request: its socket thread reads the file, then the event loop *)
(* takes what it read, or defers the request while a save is pending.      *)
ReadForReload(r) ==
  /\ mode = "on" /\ asked[r].state = "idle"
  /\ asked' = [asked EXCEPT ![r] = [state |-> "read", config |-> disk]]
  /\ UNCHANGED <<disk, mode, app, jobs, done, idle, saved, history, used>>

(* An invalid configuration (its theme is not installed) is refused.       *)
TakeReload(w, config, ids) ==
  IF app.installed \/ config[Theme] # Custom
  THEN /\ Commit(Answer(Reset(w, config), ids))
       /\ known' = config /\ owed' = {} /\ touched' = {}
  ELSE Commit(Answer(w, ids)) /\ UNCHANGED history

Defer(w, r) ==
  IF Cardinality(app.waiting) < MaxReloads
  THEN [w EXCEPT !.app.waiting = @ \cup {r},
                 !.asked[r] = [state |-> "deferred", config |-> NoPatch]]
  ELSE Answer(w, {r})

Reload(r) ==
  /\ mode = "on" /\ asked[r].state = "read"
  /\ \/ /\ Pending(app)
        /\ Commit(Defer(World, r))
        /\ UNCHANGED history
     \/ ~Pending(app) /\ TakeReload(World, asked[r].config, {r})
  /\ UNCHANGED <<disk, mode, done, others, final, used>>

(* The custom theme is removed from Settings; a thread of its own checks   *)
(* that the saved theme is another one and deletes the file.               *)
RemoveTheme ==
  /\ mode = "on" /\ used.removals < MaxRemovals
  /\ app.removal = "none" /\ app.installed
  /\ Commit(RequestRemoval(World))
  /\ LET named == IF app.config[Theme] = Custom THEN {Theme} ELSE {}
     IN  owed' = owed \cup named /\ touched' = touched \cup named
  /\ Spend("removals")
  /\ UNCHANGED <<disk, mode, done, others, final, known>>

Uninstall ==
  /\ mode # "off" /\ uninstall = "running"
  /\ uninstall' \in IF disk[Theme] = Custom THEN {"refused"}
                    ELSE {"removed", "refused"}
  /\ UNCHANGED <<disk, mode, app, jobs, done, others, saved, asked, final,
                 history, used>>

(* The theme that a rollback chooses again is this server's own choice.    *)
RolledBack(w) == IF w.app.revision # app.revision THEN {Theme} ELSE {}

ThemeUninstalled ==
  /\ mode = "on" /\ uninstall \in {"removed", "refused"}
  /\ LET w == FinishRemoval(World, uninstall = "removed")
     IN  /\ Commit(w)
         /\ owed' = owed \cup RolledBack(w)
         /\ touched' = touched \cup RolledBack(w)
  /\ UNCHANGED <<disk, mode, done, others, final, known, used>>

-----------------------------------------------------------------------------
(* The I/O worker: one job at a time, in order.                            *)

(* What was changed or named again after the capture is still to be written. *)
Land(written, changed, named) ==
  /\ disk' = Over(written, disk)
  /\ known' = Over(written, known)
  /\ owed' = owed \ (DOMAIN written \ named)
  /\ touched' = touched \ (DOMAIN written \ changed)

(* The file is locked, or cannot be written or read.                       *)
Miss == /\ used.failures < MaxFailures /\ Spend("failures")
        /\ UNCHANGED <<disk, history>>

WriteSave ==
  /\ jobs # <<>> /\ Head(jobs).kind = "save"
  /\ LET job == Head(jobs)
         written == Written(job.base, job.desired, job.explicit)
     IN  \E ok \in BOOLEAN :
           /\ \/ ok /\ Land(written, app.fresh, app.named) /\ UNCHANGED used
              \/ ~ok /\ DOMAIN written # {} /\ Miss
           /\ saved' = ok
           /\ done' = Append(done, [kind |-> "save", ok |-> ok,
                                    desired |-> job.desired,
                                    explicit |-> job.explicit,
                                    epoch |-> job.epoch])
  /\ jobs' = Tail(jobs)
  /\ UNCHANGED <<mode, app, idle, asked>>

ReadReload ==
  /\ jobs # <<>> /\ Head(jobs).kind = "reload"
  /\ \E ok \in BOOLEAN :
       /\ (ok /\ UNCHANGED <<disk, history, used>>) \/ (~ok /\ Miss)
       /\ done' = Append(done, [kind |-> "reload", ok |-> ok, config |-> disk,
                                ids |-> Head(jobs).ids,
                                revision |-> Head(jobs).revision])
  /\ jobs' = Tail(jobs)
  /\ UNCHANGED <<mode, app, idle, saved, asked>>

(* The event loop applies the completions in order.                        *)

(* The world without the oldest completion, whose permit is free again.    *)
Taken == [World EXCEPT !.held = @ - 1]

(* A failure keeps the explicit choices, unless they were changed since.   *)
Settled(a, result, baseline) ==
  LET ended == [a EXCEPT !.inflight = FALSE, !.receipt = NoReceipt]
  IN  IF result.epoch # a.epoch THEN ended
      ELSE IF result.ok
        THEN [ended EXCEPT !.baseline = baseline, !.retry = FALSE]
      ELSE [ended EXCEPT !.dirty = TRUE, !.retry = TRUE,
                         !.explicit =
                               Over(@, Refresh(result.explicit,
                                               result.desired, a.config))]

(* What the server shows now becomes the baseline, saved or not. *)
AcknowledgedNow(a, result) == Settled(a, result, a.config)

(* What was written becomes the baseline.                                  *)
Acknowledged(a, result) == Settled(a, result, result.desired)

ApplySave ==
  /\ mode = "on" /\ done # <<>> /\ Head(done).kind = "save"
  /\ LET result == Head(done)
         settled == Schedule([Taken EXCEPT !.app = Acknowledged(@, result)])
         w == FlushRemovals(FlushReloads(settled, result.ok), result.ok)
     IN  /\ Commit(w)
         /\ owed' = owed \cup RolledBack(w)
         /\ touched' = touched \cup RolledBack(w)
  /\ done' = Tail(done)
  /\ UNCHANGED <<disk, mode, others, final, known, used>>

ApplyReload ==
  /\ mode = "on" /\ done # <<>> /\ Head(done).kind = "reload"
  /\ LET result == Head(done)
         valid  == result.ok /\ result.revision = app.revision
     IN  \/ ~valid /\ Commit(Answer(Taken, result.ids)) /\ UNCHANGED history
         \/ valid /\ TakeReload(Taken, result.config, result.ids)
  /\ done' = Tail(done)
  /\ UNCHANGED <<disk, mode, others, final, used>>

-----------------------------------------------------------------------------
(* Other features of the server and other servers.                         *)

OthersTake ==
  /\ mode = "on" /\ used.others < MaxOthers
  /\ HasPermit(World)
  /\ others' = others + 1
  /\ Spend("others")
  /\ UNCHANGED <<disk, mode, memory, done, final, history>>

OthersRelease ==
  /\ mode = "on" /\ others > 0
  /\ others' = others - 1
  /\ UNCHANGED <<disk, mode, memory, done, final, history, used>>

Elsewhere(f, v) ==
  /\ used.elsewhere < MaxElsewhere
  /\ v # disk[f]
  /\ disk' = [disk EXCEPT ![f] = v]
  /\ Spend("elsewhere")
  /\ UNCHANGED <<mode, memory, done, others, final, history>>

-----------------------------------------------------------------------------
(* Shutdown and restart.                                                   *)

(* The event loop ends: a final write is queued behind the accepted jobs.  *)
Stop ==
  /\ mode = "on"
  /\ mode' = "closing"
  /\ final' = [config |-> app.config, base |-> app.baseline,
               failed |-> Over(app.explicit,
                               Refresh(app.receipt.explicit,
                                       app.receipt.desired, app.config)),
               explicit |-> app.explicit, receipt |-> app.receipt,
               ok |-> FALSE]
  /\ UNCHANGED <<disk, memory, done, others, history, used>>

(* The final write ignores the receipt. *)
FinalWrittenAgain == Written(final.base, final.config, final.failed)

(* The settings still to be written: the receipt of the last write tells   *)
(* whether its fields are saved, also when its completion was not applied. *)
FinalWritten ==
  IF final.receipt.some /\ saved
  THEN Written(final.receipt.desired, final.config, final.explicit)
  ELSE Written(final.base, final.config, final.failed)

FinalWrite ==
  /\ mode = "closing" /\ jobs = <<>>
  /\ mode' = "off"
  /\ \E ok \in BOOLEAN :
       /\ \/ ok /\ Land(FinalWritten, {}, {}) /\ UNCHANGED used
          \/ ~ok /\ DOMAIN FinalWritten # {} /\ Miss
       /\ final' = [final EXCEPT !.ok = ok]
  /\ UNCHANGED <<memory, done, others>>

(* The shutdown deadline of two seconds passes, or the server crashes.     *)
Abandon ==
  /\ mode # "off"
  /\ mode' = "off" /\ jobs' = <<>>
  /\ final' = NoFinal
  /\ UNCHANGED <<disk, app, done, others, saved, asked, uninstall, history,
                 used>>

Restart ==
  /\ mode = "off" /\ used.starts < MaxStarts
  /\ mode' = "on"
  /\ app' = Start(disk, app.installed /\ uninstall # "removed")
  /\ jobs' = <<>> /\ done' = <<>> /\ others' = 0 /\ saved' = FALSE
  /\ asked' = [r \in Reloads |-> [state |-> "idle", config |-> NoPatch]]
  /\ uninstall' = "idle" /\ final' = NoFinal
  /\ known' = disk /\ owed' = {} /\ touched' = {}
  /\ Spend("starts")
  /\ UNCHANGED disk

Worker == WriteSave \/ ReadReload \/ FinalWrite
Loop   == ApplySave \/ ApplyReload
User   == \/ \E f \in Fields, v \in Values : Edit(f, v) \/ Choose(f, v)
          \/ \E patch \in Patches : ConfigPatch(patch)
          \/ \E r \in Reloads : ReadForReload(r)
          \/ RemoveTheme
          \/ \E f \in Fields, v \in Values : Elsewhere(f, v)
          \/ OthersTake

Next == \/ User \/ Worker \/ Loop \/ SaveTick \/ OthersRelease
        \/ Uninstall \/ ThemeUninstalled
        \/ \E r \in Reloads : Reload(r)
        \/ Stop \/ Abandon \/ Restart

Spec == Init /\ [][Next]_vars

(* The worker runs what it was given, the loop applies what comes back and *)
(* its timers fire, and the other features give their permits back.        *)
FairSpec == /\ Spec
            /\ WF_vars(WriteSave \/ ReadReload) /\ WF_vars(Loop)
            /\ WF_vars(SaveTick) /\ WF_vars(OthersRelease)
            /\ WF_vars(Uninstall) /\ WF_vars(ThemeUninstalled)
            /\ \A r \in Reloads : WF_vars(Reload(r))

-----------------------------------------------------------------------------
(* Properties. *)

TypeOK ==
  /\ disk \in Configs /\ known \in Configs
  /\ mode \in {"on", "closing", "off"}
  /\ app.config \in Configs /\ app.baseline \in Configs
  /\ app.explicit \in Patches
  /\ \A flag \in {app.dirty, app.inflight, app.retry, app.restore,
                   app.installed, app.receipt.some, saved} : flag \in BOOLEAN
  /\ app.epoch \in Nat /\ app.revision \in Nat
  /\ app.removal \in {"none", "deferred", "running"}
  /\ app.waiting \subseteq Reloads
  /\ \A r \in Reloads :
       asked[r].state \in {"idle", "read", "deferred", "answered"}
  /\ uninstall \in {"idle", "running", "removed", "refused"}
  /\ app.fresh \cup app.named \cup owed \cup touched \subseteq Fields
  /\ Len(jobs) + Len(done) + others <= MaxJobs

(* "Failures retain intent for a later retry": when nothing is pending any  *)
(* more, what the server shows is what it last got onto the disk, and every *)
(* explicit choice has been written, also one that equals the old value in  *)
(* memory.  The same holds of a shutdown that reports success.              *)
NothingForgotten ==
  (mode = "on" /\ ~Pending(app)) \/ (mode = "off" /\ final.ok)
    => app.config = known /\ owed = {}

(* A write changes only what was changed on this server and has not been    *)
(* saved since: another server's later change of the same field is not      *)
(* replayed, neither by a retry nor by the final write of a shutdown.  (A   *)
(* choice of one preference writes them all.)                               *)
OnlyOwnFields ==
  [][mode' # mode \/ jobs' # jobs
     => \A f \in Fields : disk'[f] # disk[f] =>
          \/ f \in touched
          \/ f \in Preferences /\ touched \cap Preferences # {}]_vars

(* A reload never discards a change that has not been saved.                *)
ReloadKeepsUnsaved ==
  [][app'.epoch > app.epoch => app.config = known /\ owed = {}]_vars

(* A theme is removed only after the fallback from it has been saved: the   *)
(* thread never finds this server's own old selection on the disk.          *)
RemovalAfterSave ==
  [][uninstall' = "running" /\ uninstall # "running"
     => app'.config[Theme] # Custom /\ known[Theme] # Custom]_vars

(* A change is saved, and a reload answered, whatever fails for a while.    *)
EventuallySaved ==
  (mode = "on" /\ Pending(app)) ~> (~Pending(app) \/ mode # "on")

EveryReloadAnswered ==
  \A r \in Reloads :
    (mode = "on" /\ asked[r].state \in {"read", "deferred"})
    ~> (asked[r].state = "answered" \/ mode # "on")

(* Nothing pending means nothing forgotten.                                 *)
SettingsSafe == TypeOK /\ NothingForgotten

(* Writes, reloads and removals take back nobody's change.                  *)
WritesRight == OnlyOwnFields /\ ReloadKeepsUnsaved /\ RemovalAfterSave

(* Changes are saved and reloads answered.                                  *)
SettingsLive == EventuallySaved /\ EveryReloadAnswered
=============================================================================
