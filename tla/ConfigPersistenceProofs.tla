---------------------- MODULE ConfigPersistenceProofs ----------------------
(***************************************************************************)
(* What ConfigPersistence promises of the settings file, for every set of  *)
(* settings, values and preferences and every bound: SettingsSafe (nothing *)
(* pending means nothing forgotten) and WritesRight (a write, a reload and *)
(* a removal take back nobody's change).                                   *)
(*                                                                         *)
(* The inductive invariant says where every change is at any moment: in    *)
(* the baseline, in the write in flight, or in what differs from it, and   *)
(* which of the three the disk has got.  The event loop works on records   *)
(* of its state (worlds), so the invariant is a predicate on a world, and  *)
(* there is one lemma for each function from worlds to worlds.             *)
(***************************************************************************)
EXTENDS ConfigPersistence, TLAPS

-----------------------------------------------------------------------------
(* Types. *)

Receipts == [some : BOOLEAN, desired : Patches, explicit : Patches]

Apps == [config : Configs, baseline : Configs, dirty : BOOLEAN,
         inflight : BOOLEAN, retry : BOOLEAN, explicit : Patches,
         epoch : Nat, revision : Nat, receipt : Receipts,
         waiting : SUBSET Reloads, fresh : SUBSET Fields,
         named : SUBSET Fields, removal : {"none", "deferred", "running"},
         restore : BOOLEAN, installed : BOOLEAN]

SaveJobs   == [kind : {"save"}, base : Configs, desired : Configs,
               explicit : Patches, epoch : Nat]
ReloadJobs == [kind : {"reload"}, ids : SUBSET Reloads, revision : Nat]
Jobs       == SaveJobs \cup ReloadJobs

SaveResults   == [kind : {"save"}, ok : BOOLEAN, desired : Configs,
                  explicit : Patches, epoch : Nat]
ReloadResults == [kind : {"reload"}, ok : BOOLEAN, config : Configs,
                  ids : SUBSET Reloads, revision : Nat]
Results       == SaveResults \cup ReloadResults

Requests == [state : {"idle", "read", "deferred", "answered"},
             config : Configs \cup {NoPatch}]

Removals == {"idle", "running", "removed", "refused"}

Worlds == [app : Apps, jobs : Seq(Jobs), saved : BOOLEAN,
           asked : [Reloads -> Requests], uninstall : Removals, held : Nat]

-----------------------------------------------------------------------------
(* The inductive invariant. *)

(* The fields that a write may change when these were touched: a choice of *)
(* one preference writes them all.                                         *)
Reach(fields) == {f \in Fields : \/ f \in fields
                                 \/ f \in Preferences
                                      /\ fields \cap Preferences # {}}

(* A patch holds the values of a configuration. *)
Agrees(patch, config) == \A f \in DOMAIN patch : patch[f] = config[f]

(* What a write from one configuration to another with this patch writes. *)
Targets(base, desired, patch) ==
  DOMAIN patch \cup {f \in Fields : base[f] # desired[f]}

(* The receipt is that of the write in flight, which took a consistent     *)
(* capture.                                                                *)
ReceiptOK(a) ==
  /\ a.receipt.some = a.inflight
  /\ ~a.inflight => a.receipt = NoReceipt
  /\ a.inflight => /\ a.receipt.desired \in Configs
                   /\ Agrees(a.receipt.explicit, a.receipt.desired)

(* What this server has got onto the disk. *)
KnownOK(a, sv, kn) ==
  kn = IF a.inflight /\ sv THEN a.receipt.desired ELSE a.baseline

(* Without a change since the capture there is nothing to add to it. *)
CleanOK(a) ==
  /\ Agrees(a.explicit, a.config)
  /\ ~a.dirty => /\ DOMAIN a.explicit = {}
                 /\ a.config = IF a.inflight THEN a.receipt.desired
                               ELSE a.baseline

(* An explicit choice is owed until it is written: it is in the patch that *)
(* waits or in the write that has not landed.                              *)
OwedOK(a, sv, ow) ==
  /\ a.named \subseteq DOMAIN a.explicit
  /\ ow \subseteq DOMAIN a.explicit \cup
                  (IF a.inflight /\ ~sv THEN DOMAIN a.receipt.explicit
                   ELSE {})

(* Whatever is still to be written was touched on this server. *)
TouchedOK(a, sv, to) ==
  /\ ~a.inflight => Targets(a.baseline, a.config, a.explicit)
                      \subseteq Reach(to)
  /\ a.inflight =>
       /\ Targets(a.receipt.desired, a.config, a.explicit) \subseteq a.fresh
       /\ a.fresh \subseteq Reach(to \cap a.fresh)
       /\ ~sv => Targets(a.baseline, a.receipt.desired, a.receipt.explicit)
                   \subseteq Reach(to)

AppOK(a, sv, kn, ow, to) ==
  /\ ReceiptOK(a) /\ KnownOK(a, sv, kn) /\ CleanOK(a)
  /\ OwedOK(a, sv, ow) /\ TouchedOK(a, sv, to)

(* A save, queued or done, is the one of the receipt. *)
OfReceipt(item, a) ==
  /\ a.inflight
  /\ item.desired = a.receipt.desired
  /\ item.explicit = a.receipt.explicit
  /\ item.epoch = a.epoch

(* A reload that no change has overtaken finds nothing pending. *)
Overtaken(item, a) ==
  /\ item.revision <= a.revision
  /\ item.revision = a.revision => ~Pending(a)

NoSave(items) == \A i \in 1..Len(items) : items[i].kind = "reload"

SavesOnce(items) ==
  \A i, j \in 1..Len(items) :
    items[i].kind = "save" /\ items[j].kind = "save" => i = j

(* Only one save is queued or done, and the worker's flag belongs to it. *)
JobsOK(js, dn, a, sv) ==
  /\ SavesOnce(js)
  /\ \A i \in 1..Len(js) :
       /\ js[i].kind = "save" => /\ OfReceipt(js[i], a) /\ ~sv
                                 /\ js[i].base = a.baseline
                                 /\ NoSave(dn)
       /\ js[i].kind = "reload" => Overtaken(js[i], a)

DoneOK(dn, a, sv) ==
  /\ SavesOnce(dn)
  /\ \A i \in 1..Len(dn) :
       /\ dn[i].kind = "save" => OfReceipt(dn[i], a) /\ dn[i].ok = sv
       /\ dn[i].kind = "reload" => Overtaken(dn[i], a)

WorldOK(w, dn, kn, ow, to) ==
  /\ AppOK(w.app, w.saved, kn, ow, to)
  /\ JobsOK(w.jobs, dn, w.app, w.saved)
  /\ DoneOK(dn, w.app, w.saved)

(* A request that has read the file holds what it read. *)
AskedOK(as) == \A r \in Reloads : as[r].state = "read"
                                  => as[r].config \in Configs

Fits(w) == Len(w.jobs) + w.held <= MaxJobs

(* The final write captured the settings as they are. *)
FinalOK ==
  final = [config |-> app.config, base |-> app.baseline,
           failed |-> Over(app.explicit,
                           Refresh(app.receipt.explicit,
                                   app.receipt.desired, app.config)),
           explicit |-> app.explicit, receipt |-> app.receipt,
           ok |-> FALSE]

Typed ==
  /\ disk \in Configs /\ known \in Configs
  /\ mode \in {"on", "closing", "off"}
  /\ done \in Seq(Results) /\ others \in Nat
  /\ owed \subseteq Fields /\ touched \subseteq Fields
  /\ app \in Apps /\ jobs \in Seq(Jobs) /\ saved \in BOOLEAN
  /\ asked \in [Reloads -> Requests] /\ uninstall \in Removals
  /\ AskedOK(asked)
  /\ Len(jobs) + Len(done) + others <= MaxJobs

IInv ==
  /\ Typed
  /\ mode # "off" => WorldOK(World, done, known, owed, touched)
  /\ mode = "closing" => FinalOK
  /\ mode = "off" => jobs = <<>>
  /\ mode = "off" /\ final.ok => app.config = known /\ owed = {}

-----------------------------------------------------------------------------
(* Patches. *)

(* A patch is a function of some of the fields.                            *)
LEMMA IsPatch ==
  ASSUME NEW patch \in Patches
  PROVE  /\ DOMAIN patch \subseteq Fields
         /\ \A f \in DOMAIN patch : patch[f] \in Values
         /\ patch \in [DOMAIN patch -> Values]
<1>1. PICK dom \in SUBSET Fields : patch \in [dom -> Values]
  BY DEF Patches
<1>2. DOMAIN patch = dom
  BY <1>1
<1> QED
  BY <1>1, <1>2

(* And every such function is a patch.                                     *)
LEMMA APatch ==
  ASSUME NEW dom \in SUBSET Fields, NEW patch \in [dom -> Values]
  PROVE  patch \in Patches
BY DEF Patches

LEMMA NoPatchIsPatch ==
  NoPatch \in Patches /\ DOMAIN NoPatch = {}
<1>1. NoPatch \in [{} -> Values] /\ DOMAIN NoPatch = {}
  BY DEF NoPatch
<1> QED
  BY <1>1, APatch

LEMMA ConfigIsPatch ==
  ASSUME NEW config \in Configs
  PROVE  config \in Patches /\ DOMAIN config = Fields
<1>1. config \in [Fields -> Values] /\ DOMAIN config = Fields
  BY DEF Configs
<1> QED
  BY <1>1, APatch

(* Patches on patches are patches.                                         *)
LEMMA OverIsPatch ==
  ASSUME NEW patch \in Patches, NEW object \in Patches
  PROVE  /\ Over(patch, object) \in Patches
         /\ DOMAIN Over(patch, object) = DOMAIN patch \cup DOMAIN object
         /\ \A f \in DOMAIN patch : Over(patch, object)[f] = patch[f]
         /\ \A f \in DOMAIN object \ DOMAIN patch :
              Over(patch, object)[f] = object[f]
<1> DEFINE dom == DOMAIN patch \cup DOMAIN object
<1>1. dom \in SUBSET Fields
  BY IsPatch
<1>2. Over(patch, object) \in [dom -> Values]
  BY IsPatch DEF Over
<1>3. Over(patch, object) \in Patches
  BY <1>1, <1>2, APatch
<1> QED
  BY <1>3 DEF Over

(* A patch on top of a configuration is a configuration. *)
LEMMA OverIsConfig ==
  ASSUME NEW patch \in Patches, NEW config \in Configs
  PROVE  /\ Over(patch, config) \in Configs
         /\ \A f \in Fields : Over(patch, config)[f] =
                                IF f \in DOMAIN patch THEN patch[f]
                                ELSE config[f]
<1>1. DOMAIN config = Fields /\ DOMAIN patch \subseteq Fields
  BY IsPatch, ConfigIsPatch
<1>2. Over(patch, config) = [f \in Fields |-> IF f \in DOMAIN patch
                                              THEN patch[f] ELSE config[f]]
  BY <1>1 DEF Over
<1>3. \A f \in Fields : (IF f \in DOMAIN patch THEN patch[f]
                         ELSE config[f]) \in Values
  BY IsPatch DEF Configs
<1> QED
  BY <1>2, <1>3 DEF Configs

LEMMA OnlyIsPatch ==
  ASSUME NEW f \in Fields, NEW v \in Values
  PROVE  Only(f, v) \in Patches /\ DOMAIN Only(f, v) = {f}
           /\ Only(f, v)[f] = v
<1>1. {f} \in SUBSET Fields /\ Only(f, v) \in [{f} -> Values]
  BY DEF Only
<1>2. Only(f, v) \in Patches
  BY <1>1, APatch
<1> QED
  BY <1>2 DEF Only

LEMMA DiffersIsPatch ==
  ASSUME NEW base \in Configs, NEW desired \in Configs
  PROVE  /\ DiffersFrom(base, desired) \in Patches
         /\ DOMAIN DiffersFrom(base, desired) =
              {f \in Fields : base[f] # desired[f]}
         /\ \A f \in DOMAIN DiffersFrom(base, desired) :
              DiffersFrom(base, desired)[f] = desired[f]
<1> DEFINE dom == {f \in Fields : base[f] # desired[f]}
<1>1. dom \in SUBSET Fields
         /\ DiffersFrom(base, desired) \in [dom -> Values]
  BY DEF DiffersFrom, Configs
<1>2. DiffersFrom(base, desired) \in Patches
  BY <1>1, APatch
<1> QED
  BY <1>2 DEF DiffersFrom

(* A refreshed patch has the same fields and the new values. *)
LEMMA RefreshIsPatch ==
  ASSUME NEW patch \in Patches, NEW previous \in Configs,
         NEW desired \in Configs, Agrees(patch, previous)
  PROVE  /\ Refresh(patch, previous, desired) \in Patches
         /\ DOMAIN Refresh(patch, previous, desired) = DOMAIN patch
         /\ Agrees(Refresh(patch, previous, desired), desired)
<1>1. DOMAIN patch \in SUBSET Fields
  BY IsPatch
<1>2. Refresh(patch, previous, desired) \in [DOMAIN patch -> Values]
  BY <1>1, IsPatch DEF Refresh, Configs
<1>3. Refresh(patch, previous, desired) \in Patches
  BY <1>1, <1>2, APatch
<1> QED
  BY <1>3 DEF Refresh, Agrees

(* Patches that agree with a third do so together.                         *)
LEMMA OverAgrees ==
  ASSUME NEW patch \in Patches, NEW object \in Patches, NEW config,
         Agrees(patch, config), Agrees(object, config)
  PROVE  Agrees(Over(patch, object), config)
<1> DEFINE over == Over(patch, object)
<1>1. /\ DOMAIN over = DOMAIN patch \cup DOMAIN object
      /\ \A f \in DOMAIN patch : over[f] = patch[f]
      /\ \A f \in DOMAIN object \ DOMAIN patch : over[f] = object[f]
  BY OverIsPatch
<1> HIDE DEF over
<1>2. \A f \in DOMAIN over : over[f] = config[f]
  <2> SUFFICES ASSUME NEW f \in DOMAIN over
               PROVE  over[f] = config[f]
    OBVIOUS
  <2>1. CASE f \in DOMAIN patch
    <3>1. over[f] = patch[f]
      BY <1>1, <2>1
    <3> QED
      BY <2>1, <3>1 DEF Agrees
  <2>2. CASE f \notin DOMAIN patch
    <3>1. f \in DOMAIN object \ DOMAIN patch
      BY <1>1, <2>2
    <3>2. over[f] = object[f]
      BY <1>1, <3>1
    <3> QED
      BY <3>1, <3>2 DEF Agrees
  <2> QED
    BY <2>1, <2>2
<1> QED
  BY <1>2 DEF Agrees, over

(* What a write contains, and what it makes of the file it started from. *)
LEMMA WrittenIsPatch ==
  ASSUME NEW base \in Configs, NEW desired \in Configs,
         NEW patch \in Patches, Agrees(patch, desired)
  PROVE  /\ Written(base, desired, patch) \in Patches
         /\ DOMAIN Written(base, desired, patch) =
              Targets(base, desired, patch)
         /\ Over(Written(base, desired, patch), base) = desired
<1> DEFINE delta == DiffersFrom(base, desired)
           written == Written(base, desired, patch)
<1>1. /\ delta \in Patches
      /\ DOMAIN delta = {f \in Fields : base[f] # desired[f]}
      /\ Agrees(delta, desired)
  BY DiffersIsPatch DEF Agrees
<1>2. /\ written \in Patches
      /\ DOMAIN written = Targets(base, desired, patch)
  <2>1. written = Over(patch, delta)
    BY DEF Written
  <2>2. Over(patch, delta) \in Patches
    BY <1>1, OverIsPatch
  <2>3. DOMAIN Over(patch, delta) = DOMAIN patch \cup DOMAIN delta
    BY <1>1, OverIsPatch
  <2> QED
    BY <1>1, <2>1, <2>2, <2>3 DEF Targets
<1>3. Agrees(written, desired)
  BY <1>1, OverAgrees DEF Written
<1>4. /\ Over(written, base) \in Configs
      /\ \A f \in Fields : Over(written, base)[f] =
                             IF f \in DOMAIN written THEN written[f]
                             ELSE base[f]
  BY <1>2, OverIsConfig
<1>5. \A f \in Fields : Over(written, base)[f] = desired[f]
  BY <1>2, <1>3, <1>4 DEF Agrees, Targets
<1>6. Over(written, base) = desired
  BY <1>4, <1>5 DEF Configs
<1> QED
  BY <1>2, <1>6

LEMMA ReachGrows ==
  ASSUME NEW x, NEW y, x \subseteq y
  PROVE  Reach(x) \subseteq Reach(y)
BY DEF Reach
-----------------------------------------------------------------------------
(* What the event loop does to the settings state. *)

LEMMA AppFields ==
  ASSUME NEW a \in Apps
  PROVE  /\ a.config \in Configs /\ a.baseline \in Configs
         /\ a.dirty \in BOOLEAN /\ a.inflight \in BOOLEAN
         /\ a.retry \in BOOLEAN /\ a.explicit \in Patches
         /\ a.epoch \in Nat /\ a.revision \in Nat
         /\ a.receipt \in Receipts /\ a.waiting \subseteq Reloads
         /\ a.fresh \subseteq Fields /\ a.named \subseteq Fields
         /\ a.removal \in {"none", "deferred", "running"}
         /\ a.restore \in BOOLEAN /\ a.installed \in BOOLEAN
         /\ a.receipt.some \in BOOLEAN /\ a.receipt.desired \in Patches
         /\ a.receipt.explicit \in Patches
BY DEF Apps, Receipts

LEMMA NoReceiptIsReceipt ==
  NoReceipt \in Receipts
BY NoPatchIsPatch DEF NoReceipt, Receipts

(* The choice of X, one of the changed fields, stands for the others that  *)
(* it changes; O are the explicit ones that are owed.                      *)
LEMMA ChangedIsOK ==
  ASSUME NEW a \in Apps, NEW sv \in BOOLEAN, NEW kn, NEW ow, NEW to,
         AppOK(a, sv, kn, ow, to),
         NEW config \in Configs, NEW patch \in Patches,
         Agrees(patch, config),
         NEW X, X \subseteq Targets(a.config, config, patch),
         Targets(a.config, config, patch) \subseteq Reach(X),
         NEW O, O \subseteq DOMAIN patch
  PROVE  /\ Changed(a, config, patch) \in Apps
         /\ AppOK(Changed(a, config, patch), sv, kn, ow \cup O, to \cup X)
<1> DEFINE b == Changed(a, config, patch)
           later == Refresh(a.explicit, a.config, config)
           diff == DiffersFrom(a.config, config)
<1>1. Agrees(a.explicit, a.config)
  BY DEF AppOK, CleanOK
<1>2. /\ later \in Patches /\ DOMAIN later = DOMAIN a.explicit
      /\ Agrees(later, config)
  BY <1>1, RefreshIsPatch, AppFields
<1>3. /\ Over(patch, later) \in Patches
      /\ DOMAIN Over(patch, later) = DOMAIN patch \cup DOMAIN a.explicit
      /\ Agrees(Over(patch, later), config)
  <2> HIDE DEF later
  <2>1. /\ Over(patch, later) \in Patches
        /\ DOMAIN Over(patch, later) = DOMAIN patch \cup DOMAIN later
    BY <1>2, OverIsPatch
  <2>2. Agrees(Over(patch, later), config)
    BY <1>2, OverAgrees
  <2> QED
    BY <1>2, <2>1, <2>2
<1>4. DOMAIN diff = {f \in Fields : a.config[f] # config[f]}
  BY DiffersIsPatch, AppFields
<1>5. DOMAIN patch \subseteq Fields
  BY IsPatch
<1>6. /\ b.config = config /\ b.baseline = a.baseline /\ b.dirty = TRUE
      /\ b.inflight = a.inflight /\ b.explicit = Over(patch, later)
      /\ b.receipt = a.receipt /\ b.named = a.named \cup DOMAIN patch
      /\ b.fresh = a.fresh \cup Targets(a.config, config, patch)
  BY <1>4, AppFields DEF Changed, Apps, Targets
<1>7. b \in Apps
  <2>1. a.fresh \cup DOMAIN patch \cup DOMAIN diff \subseteq Fields
    BY <1>4, <1>5, AppFields
  <2>2. a.named \cup DOMAIN patch \subseteq Fields /\ a.revision + 1 \in Nat
    BY <1>5, AppFields
  <2> HIDE DEF later, diff
  <2> QED
    BY <1>3, <2>1, <2>2 DEF Changed, Apps, later, diff
<1> HIDE DEF b
<1>8. ReceiptOK(b) /\ KnownOK(b, sv, kn)
  BY <1>6 DEF AppOK, ReceiptOK, KnownOK
<1>9. CleanOK(b)
  BY <1>3, <1>6 DEF CleanOK
<1>10. OwedOK(b, sv, ow \cup O)
  BY <1>3, <1>6 DEF AppOK, OwedOK
<1>11. TouchedOK(b, sv, to \cup X)
  <2>1. Reach(to) \subseteq Reach(to \cup X)
          /\ Reach(X) \subseteq Reach(to \cup X)
    BY ReachGrows
  <2>2. \A base : Targets(base, config, b.explicit)
                    \subseteq Targets(base, a.config, a.explicit)
                              \cup Targets(a.config, config, patch)
    BY <1>3, <1>6 DEF Targets
  <2>3. CASE ~a.inflight
    BY <1>6, <2>1, <2>2, <2>3 DEF AppOK, TouchedOK
  <2>4. CASE a.inflight
    <3>1. Targets(b.receipt.desired, b.config, b.explicit) \subseteq b.fresh
      BY <1>6, <2>2, <2>4 DEF AppOK, TouchedOK
    <3>2. b.fresh \subseteq Reach((to \cup X) \cap b.fresh)
      <4>1. a.fresh \subseteq Reach(to \cap a.fresh)
        BY <2>4 DEF AppOK, TouchedOK
      <4>2. /\ to \cap a.fresh \subseteq (to \cup X) \cap b.fresh
            /\ X \subseteq (to \cup X) \cap b.fresh
        BY <1>6
      <4> QED
        BY <1>6, <4>1, <4>2, ReachGrows
    <3>3. ~sv => Targets(b.baseline, b.receipt.desired, b.receipt.explicit)
                   \subseteq Reach(to \cup X)
      BY <1>6, <2>1, <2>4 DEF AppOK, TouchedOK
    <3> QED
      BY <1>6, <2>4, <3>1, <3>2, <3>3 DEF TouchedOK
  <2> QED
    BY <2>3, <2>4
<1> QED
  BY <1>7, <1>8, <1>9, <1>10, <1>11 DEF AppOK, b

(* A save is captured: what was explicit is in the write that flies.       *)
LEMMA CapturedIsOK ==
  ASSUME NEW a \in Apps, NEW sv \in BOOLEAN, NEW kn, NEW ow, NEW to,
         AppOK(a, sv, kn, ow, to), ~a.inflight
  PROVE  /\ Captured(a) \in Apps
         /\ AppOK(Captured(a), FALSE, kn, ow, to)
<1> DEFINE b == Captured(a)
<1>1. /\ b.config = a.config /\ b.baseline = a.baseline /\ b.dirty = FALSE
      /\ b.inflight = TRUE /\ b.explicit = NoPatch /\ b.fresh = {}
      /\ b.named = {}
      /\ b.receipt.some = TRUE /\ b.receipt.desired = a.config
      /\ b.receipt.explicit = a.explicit
  BY DEF Captured, Apps
<1>2. b \in Apps
  <2>1. [some |-> TRUE, desired |-> a.config, explicit |-> a.explicit]
          \in Receipts
    BY AppFields, ConfigIsPatch DEF Receipts
  <2> QED
    BY <2>1, NoPatchIsPatch DEF Captured, Apps
<1> HIDE DEF b
<1>3. ReceiptOK(b)
  BY <1>1, AppFields DEF AppOK, ReceiptOK, CleanOK
<1>4. KnownOK(b, FALSE, kn)
  BY <1>1 DEF AppOK, KnownOK
<1>5. CleanOK(b)
  BY <1>1, NoPatchIsPatch DEF CleanOK, Agrees
<1>6. OwedOK(b, FALSE, ow)
  BY <1>1, NoPatchIsPatch DEF AppOK, OwedOK
<1>7. TouchedOK(b, FALSE, to)
  BY <1>1, NoPatchIsPatch DEF AppOK, TouchedOK, Targets
<1> QED
  BY <1>2, <1>3, <1>4, <1>5, <1>6, <1>7 DEF AppOK, b
(* The write in flight lands. *)
LEMMA LandedIsOK ==
  ASSUME NEW a \in Apps, NEW kn, NEW ow, NEW to,
         AppOK(a, FALSE, kn, ow, to), a.inflight,
         NEW written,
         written = Written(a.baseline, a.receipt.desired, a.receipt.explicit)
  PROVE  /\ AppOK(a, TRUE, Over(written, kn),
                  ow \ (DOMAIN written \ a.named),
                  to \ (DOMAIN written \ a.fresh))
         /\ written \in Patches
         /\ DOMAIN written \subseteq Reach(to)
<1>1. /\ a.receipt.desired \in Configs
      /\ Agrees(a.receipt.explicit, a.receipt.desired)
      /\ kn = a.baseline
  BY DEF AppOK, ReceiptOK, KnownOK
<1>2. /\ written \in Patches
      /\ DOMAIN written = Targets(a.baseline, a.receipt.desired,
                                  a.receipt.explicit)
      /\ Over(written, a.baseline) = a.receipt.desired
  BY <1>1, AppFields, WrittenIsPatch
<1>3. DOMAIN written \subseteq Reach(to)
  BY <1>2 DEF AppOK, TouchedOK
<1>4. KnownOK(a, TRUE, Over(written, kn))
  BY <1>1, <1>2 DEF KnownOK
<1>5. OwedOK(a, TRUE, ow \ (DOMAIN written \ a.named))
  <2>1. DOMAIN a.receipt.explicit \subseteq DOMAIN written
    BY <1>2 DEF Targets
  <2> QED
    BY <2>1 DEF AppOK, OwedOK
<1>6. TouchedOK(a, TRUE, to \ (DOMAIN written \ a.fresh))
  <2>1. (to \ (DOMAIN written \ a.fresh)) \cap a.fresh = to \cap a.fresh
    OBVIOUS
  <2> QED
    BY <2>1 DEF AppOK, TouchedOK
<1> QED
  BY <1>2, <1>3, <1>4, <1>5, <1>6 DEF AppOK

(* Its completion is applied: a success is the new baseline, a failure is   *)
(* kept for the next write.                                                 *)
LEMMA SettledIsOK ==
  ASSUME NEW a \in Apps, NEW sv \in BOOLEAN, NEW kn, NEW ow, NEW to,
         AppOK(a, sv, kn, ow, to),
         NEW result, OfReceipt(result, a), result.ok = sv
  PROVE  /\ Acknowledged(a, result) \in Apps
         /\ AppOK(Acknowledged(a, result), sv, kn, ow, to)
         /\ ~Acknowledged(a, result).inflight
         /\ Acknowledged(a, result).config = a.config
         /\ Acknowledged(a, result).epoch = a.epoch
         /\ Acknowledged(a, result).revision = a.revision
         /\ Acknowledged(a, result).waiting = a.waiting
<1> DEFINE b == Acknowledged(a, result)
           failed == Refresh(a.receipt.explicit, a.receipt.desired, a.config)
<1>1. /\ a.inflight /\ a.receipt.desired \in Configs
      /\ Agrees(a.receipt.explicit, a.receipt.desired)
      /\ a.receipt.explicit \in Patches
      /\ Agrees(a.explicit, a.config)
      /\ result.desired = a.receipt.desired
      /\ result.explicit = a.receipt.explicit /\ result.epoch = a.epoch
  BY AppFields DEF AppOK, ReceiptOK, OfReceipt, CleanOK
<1>2. CASE sv
  <2>1. b = [a EXCEPT !.inflight = FALSE, !.receipt = NoReceipt,
                      !.baseline = a.receipt.desired, !.retry = FALSE]
    BY <1>1, <1>2 DEF Acknowledged, Settled, Apps
  <2>2. b \in Apps
    BY <1>1, <2>1, NoReceiptIsReceipt DEF Apps
  <2>3. /\ b.config = a.config /\ b.baseline = a.receipt.desired
        /\ b.dirty = a.dirty /\ b.inflight = FALSE
        /\ b.explicit = a.explicit /\ b.named = a.named
        /\ b.fresh = a.fresh /\ b.receipt = NoReceipt
        /\ b.epoch = a.epoch /\ b.revision = a.revision
        /\ b.waiting = a.waiting
    BY <2>1 DEF Apps
  <2> HIDE DEF b
  <2>4. ReceiptOK(b) /\ KnownOK(b, sv, kn)
    <3>1. NoReceipt.some = FALSE
      BY DEF NoReceipt
    <3>2. kn = a.receipt.desired
      BY <1>1, <1>2 DEF AppOK, KnownOK
    <3> QED
      BY <1>1, <2>3, <3>1, <3>2 DEF ReceiptOK, KnownOK
  <2>5. CleanOK(b)
    BY <1>1, <2>3 DEF AppOK, CleanOK
  <2>6. OwedOK(b, sv, ow)
    BY <1>1, <1>2, <2>3 DEF AppOK, OwedOK
  <2>7. TouchedOK(b, sv, to)
    <3>1. Reach(to \cap a.fresh) \subseteq Reach(to)
      BY ReachGrows
    <3> QED
      BY <1>1, <2>3, <3>1 DEF AppOK, TouchedOK
  <2> QED
    BY <2>2, <2>3, <2>4, <2>5, <2>6, <2>7 DEF AppOK, b
<1>3. CASE ~sv
  <2>1. b = [a EXCEPT !.inflight = FALSE, !.receipt = NoReceipt,
                      !.dirty = TRUE, !.retry = TRUE,
                      !.explicit = Over(a.explicit, failed)]
    BY <1>1, <1>3 DEF Acknowledged, Settled, Apps
  <2>2. /\ failed \in Patches
        /\ DOMAIN failed = DOMAIN a.receipt.explicit
        /\ Agrees(failed, a.config)
    BY <1>1, AppFields, RefreshIsPatch
  <2> HIDE DEF failed
  <2>3. /\ Over(a.explicit, failed) \in Patches
        /\ DOMAIN Over(a.explicit, failed) =
             DOMAIN a.explicit \cup DOMAIN failed
        /\ Agrees(Over(a.explicit, failed), a.config)
    <3>1. /\ Over(a.explicit, failed) \in Patches
          /\ DOMAIN Over(a.explicit, failed) =
               DOMAIN a.explicit \cup DOMAIN failed
      BY <2>2, AppFields, OverIsPatch
    <3>2. Agrees(Over(a.explicit, failed), a.config)
      BY <1>1, <2>2, AppFields, OverAgrees
    <3> QED
      BY <3>1, <3>2
  <2>4. b \in Apps
    BY <2>1, <2>3, NoReceiptIsReceipt DEF Apps
  <2>5. /\ b.config = a.config /\ b.baseline = a.baseline
        /\ b.dirty = TRUE /\ b.inflight = FALSE
        /\ b.explicit = Over(a.explicit, failed) /\ b.named = a.named
        /\ b.fresh = a.fresh /\ b.receipt = NoReceipt
        /\ b.epoch = a.epoch /\ b.revision = a.revision
        /\ b.waiting = a.waiting
    BY <2>1 DEF Apps
  <2> HIDE DEF b
  <2>6. ReceiptOK(b) /\ KnownOK(b, sv, kn)
    <3>1. NoReceipt.some = FALSE
      BY DEF NoReceipt
    <3>2. kn = a.baseline
      BY <1>1, <1>3 DEF AppOK, KnownOK
    <3> QED
      BY <1>1, <2>5, <3>1, <3>2 DEF ReceiptOK, KnownOK
  <2>7. CleanOK(b)
    BY <2>3, <2>5 DEF CleanOK
  <2>8. OwedOK(b, sv, ow)
    BY <1>1, <1>3, <2>2, <2>3, <2>5 DEF AppOK, OwedOK
  <2>9. TouchedOK(b, sv, to)
    <3>1. Reach(to \cap a.fresh) \subseteq Reach(to)
      BY ReachGrows
    <3>2. Targets(b.baseline, b.config, b.explicit) \subseteq
            Targets(a.baseline, a.receipt.desired, a.receipt.explicit)
            \cup Targets(a.receipt.desired, a.config, a.explicit)
      BY <2>2, <2>3, <2>5 DEF Targets
    <3> QED
      BY <1>1, <1>3, <2>5, <3>1, <3>2 DEF AppOK, TouchedOK
  <2> QED
    BY <2>4, <2>5, <2>6, <2>7, <2>8, <2>9 DEF AppOK, b
<1> QED
  BY <1>2, <1>3

(* With nothing pending the disk has everything. *)
LEMMA NothingPending ==
  ASSUME NEW a \in Apps, NEW sv \in BOOLEAN, NEW kn, NEW ow, NEW to,
         AppOK(a, sv, kn, ow, to), ~Pending(a)
  PROVE  a.config = kn /\ a.config = a.baseline /\ ow = {}
BY AppFields DEF AppOK, Pending, KnownOK, CleanOK, OwedOK

(* The loaded file replaces the settings. *)
LEMMA LoadedIsOK ==
  ASSUME NEW a \in Apps, NEW sv \in BOOLEAN, NEW kn, NEW ow, NEW to,
         AppOK(a, sv, kn, ow, to), ~Pending(a), NEW config \in Configs
  PROVE  /\ Loaded(a, config) \in Apps
         /\ AppOK(Loaded(a, config), sv, config, {}, {})
<1> DEFINE b == Loaded(a, config)
<1>1. a.inflight = FALSE /\ a.dirty = FALSE /\ a.named = {}
  BY AppFields DEF AppOK, Pending, CleanOK, OwedOK
<1>2. b \in Apps
  <2>1. a.epoch + 1 \in Nat /\ a.revision + 1 \in Nat
    BY AppFields
  <2> QED
    BY <2>1, NoPatchIsPatch DEF Loaded, Apps
<1>3. /\ b.config = config /\ b.baseline = config /\ b.dirty = FALSE
      /\ b.inflight = FALSE /\ b.explicit = NoPatch /\ b.named = {}
      /\ b.receipt = a.receipt
  BY <1>1 DEF Loaded, Apps
<1> HIDE DEF b
<1>4. ReceiptOK(b) /\ KnownOK(b, sv, config)
  BY <1>1, <1>3 DEF AppOK, ReceiptOK, KnownOK
<1>5. CleanOK(b)
  BY <1>3, NoPatchIsPatch DEF CleanOK, Agrees
<1>6. OwedOK(b, sv, {})
  BY <1>3 DEF OwedOK
<1>7. TouchedOK(b, sv, {})
  BY <1>3, NoPatchIsPatch DEF TouchedOK, Targets
<1> QED
  BY <1>2, <1>4, <1>5, <1>6, <1>7 DEF AppOK, b
(* The final write of a shutdown writes all that is missing and nothing     *)
(* else.                                                                    *)
LEMMA FinalIsOK ==
  ASSUME NEW a \in Apps, NEW sv \in BOOLEAN, NEW kn, NEW ow, NEW to,
         AppOK(a, sv, kn, ow, to), NEW failed,
         failed = Over(a.explicit, Refresh(a.receipt.explicit,
                                           a.receipt.desired, a.config)),
         NEW written,
         written = IF a.receipt.some /\ sv
                   THEN Written(a.receipt.desired, a.config, a.explicit)
                   ELSE Written(a.baseline, a.config, failed)
  PROVE  /\ written \in Patches
         /\ Over(written, kn) = a.config
         /\ ow \subseteq DOMAIN written
         /\ DOMAIN written \subseteq Reach(to)
<1> DEFINE last == Refresh(a.receipt.explicit, a.receipt.desired, a.config)
<1>1. /\ a.receipt.some = a.inflight /\ Agrees(a.explicit, a.config)
      /\ a.config \in Configs /\ a.baseline \in Configs
      /\ a.explicit \in Patches /\ a.inflight \in BOOLEAN
      /\ a.receipt.explicit \in Patches
  BY AppFields DEF AppOK, ReceiptOK, CleanOK
<1>2. Reach(to \cap a.fresh) \subseteq Reach(to)
  BY ReachGrows
<1>3. CASE a.inflight /\ sv
  <2>1. a.receipt.desired \in Configs
          /\ written = Written(a.receipt.desired, a.config, a.explicit)
    BY <1>1, <1>3 DEF AppOK, ReceiptOK
  <2>2. /\ written \in Patches
        /\ DOMAIN written = Targets(a.receipt.desired, a.config, a.explicit)
        /\ Over(written, a.receipt.desired) = a.config
    BY <1>1, <2>1, WrittenIsPatch
  <2>3. kn = a.receipt.desired /\ ow \subseteq DOMAIN a.explicit
    BY <1>3 DEF AppOK, KnownOK, OwedOK
  <2>4. DOMAIN written \subseteq Reach(to)
    BY <1>2, <1>3, <2>2 DEF AppOK, TouchedOK
  <2> QED
    BY <2>2, <2>3, <2>4 DEF Targets
<1>4. CASE ~(a.inflight /\ sv)
  <2>1. /\ last \in Patches /\ DOMAIN last = DOMAIN a.receipt.explicit
        /\ Agrees(last, a.config)
    <3>1. CASE a.inflight
      BY <1>1, <3>1, RefreshIsPatch DEF AppOK, ReceiptOK
    <3>2. CASE ~a.inflight
      <4>1. a.receipt.explicit = NoPatch
        BY <3>2 DEF AppOK, ReceiptOK, NoReceipt
      <4>2. DOMAIN last = {} /\ last \in [{} -> Values]
        BY <4>1, NoPatchIsPatch DEF Refresh
      <4>3. last \in Patches
        BY <4>2, APatch
      <4> HIDE DEF last
      <4> QED
        BY <4>1, <4>2, <4>3, NoPatchIsPatch DEF Agrees
    <3> QED
      BY <1>1, <3>1, <3>2
  <2>2. failed = Over(a.explicit, last)
    OBVIOUS
  <2> HIDE DEF last
  <2>3. /\ failed \in Patches
        /\ DOMAIN failed = DOMAIN a.explicit \cup DOMAIN a.receipt.explicit
    <3>1. /\ Over(a.explicit, last) \in Patches
          /\ DOMAIN Over(a.explicit, last) =
               DOMAIN a.explicit \cup DOMAIN last
      BY <1>1, <2>1, OverIsPatch
    <3> QED
      BY <2>1, <2>2, <3>1
  <2>4. Agrees(failed, a.config)
    BY <1>1, <2>1, <2>2, OverAgrees
  <2>5. written = Written(a.baseline, a.config, failed)
    BY <1>1, <1>4
  <2>6. /\ written \in Patches
        /\ DOMAIN written = Targets(a.baseline, a.config, failed)
        /\ Over(written, a.baseline) = a.config
    BY <1>1, <2>3, <2>4, <2>5, WrittenIsPatch
  <2>7. kn = a.baseline
    BY <1>4 DEF AppOK, KnownOK
  <2>8. ow \subseteq DOMAIN failed
    BY <2>3 DEF AppOK, OwedOK
  <2>9. DOMAIN written \subseteq Reach(to)
    <3>1. CASE a.inflight
      <4>1. DOMAIN written \subseteq
              Targets(a.baseline, a.receipt.desired, a.receipt.explicit)
              \cup Targets(a.receipt.desired, a.config, a.explicit)
        BY <2>3, <2>6 DEF Targets
      <4> QED
        BY <1>2, <1>4, <3>1, <4>1 DEF AppOK, TouchedOK
    <3>2. CASE ~a.inflight
      <4>1. DOMAIN a.receipt.explicit = {}
        BY <3>2, NoPatchIsPatch DEF AppOK, ReceiptOK, NoReceipt
      <4>2. DOMAIN written = Targets(a.baseline, a.config, a.explicit)
        BY <2>3, <2>6, <4>1 DEF Targets
      <4> QED
        BY <3>2, <4>2 DEF AppOK, TouchedOK
    <3> QED
      BY <1>1, <3>1, <3>2
  <2> QED
    BY <2>6, <2>7, <2>8, <2>9 DEF Targets
<1> QED
  BY <1>3, <1>4
-----------------------------------------------------------------------------
(* The queue of the worker and its completions. *)

(* Entries of a queue with one more at its end, or one less at its head.   *)
LEMMA AppendIndex ==
  ASSUME NEW S, NEW seq \in Seq(S), NEW x \in S
  PROVE  /\ Append(seq, x) \in Seq(S)
         /\ Len(Append(seq, x)) = Len(seq) + 1
         /\ \A i \in 1..Len(Append(seq, x)) :
              \/ i \in 1..Len(seq) /\ Append(seq, x)[i] = seq[i]
              \/ i = Len(seq) + 1 /\ Append(seq, x)[i] = x
OBVIOUS

LEMMA TailIndex ==
  ASSUME NEW S, NEW seq \in Seq(S), seq # <<>>
  PROVE  /\ Tail(seq) \in Seq(S) /\ Head(seq) \in S
         /\ Len(seq) \in Nat /\ Len(seq) > 0 /\ Head(seq) = seq[1]
         /\ Len(Tail(seq)) = Len(seq) - 1
         /\ \A i \in 1..Len(Tail(seq)) :
              /\ i + 1 \in 1..Len(seq) /\ i + 1 # 1
              /\ Tail(seq)[i] = seq[i + 1]
OBVIOUS

(* Every job and every result is of one of two kinds.                      *)
LEMMA JobKinds ==
  /\ \A j \in Jobs : \/ j.kind = "save" /\ j \in SaveJobs
                     \/ j.kind = "reload" /\ j \in ReloadJobs
  /\ \A r \in Results : \/ r.kind = "save" /\ r \in SaveResults
                        \/ r.kind = "reload" /\ r \in ReloadResults
BY DEF Jobs, SaveJobs, ReloadJobs, Results, SaveResults, ReloadResults

LEMMA ItemKinds ==
  ASSUME NEW js \in Seq(Jobs), NEW dn \in Seq(Results)
  PROVE  /\ \A i \in 1..Len(js) :
              /\ js[i].kind \in {"save", "reload"}
              /\ js[i].kind = "save" => js[i] \in SaveJobs
              /\ js[i].kind = "reload" => js[i].revision \in Nat
         /\ \A i \in 1..Len(dn) :
              /\ dn[i].kind \in {"save", "reload"}
              /\ dn[i].kind = "save" => dn[i] \in SaveResults
              /\ dn[i].kind = "reload" => dn[i].revision \in Nat
<1>1. \A i \in 1..Len(js) : js[i] \in Jobs
  OBVIOUS
<1>2. \A i \in 1..Len(dn) : dn[i] \in Results
  OBVIOUS
<1>3. \A j \in ReloadJobs : j.revision \in Nat
  BY DEF ReloadJobs
<1>4. \A r \in ReloadResults : r.revision \in Nat
  BY DEF ReloadResults
<1> QED
  BY <1>1, <1>2, <1>3, <1>4, JobKinds

(* Without a write in flight there is no save to find. *)
LEMMA NoSaves ==
  ASSUME NEW js \in Seq(Jobs), NEW dn \in Seq(Results), NEW a, NEW sv,
         JobsOK(js, dn, a, sv), DoneOK(dn, a, sv), ~a.inflight
  PROVE  NoSave(js) /\ NoSave(dn)
BY ItemKinds DEF JobsOK, DoneOK, OfReceipt, NoSave

(* So all jobs and results are then reloads.                               *)
LEMMA OnlyReloads ==
  ASSUME NEW js, NEW dn, NEW a, NEW sv, NoSave(js), NoSave(dn),
         \A i \in 1..Len(js) : Overtaken(js[i], a),
         \A i \in 1..Len(dn) : Overtaken(dn[i], a)
  PROVE  JobsOK(js, dn, a, sv) /\ DoneOK(dn, a, sv)
BY DEF JobsOK, DoneOK, NoSave, SavesOnce

(* A change of the settings overtakes the reloads that were queued.        *)
LEMMA ItemsAgain ==
  ASSUME NEW js \in Seq(Jobs), NEW dn \in Seq(Results),
         NEW a \in Apps, NEW b \in Apps, NEW sv,
         JobsOK(js, dn, a, sv), DoneOK(dn, a, sv),
         b.inflight = a.inflight, b.receipt = a.receipt,
         b.baseline = a.baseline, b.epoch = a.epoch,
         \/ b.revision = a.revision /\ (Pending(b) => Pending(a))
         \/ b.revision = a.revision + 1
  PROVE  JobsOK(js, dn, b, sv) /\ DoneOK(dn, b, sv)
<1>1. a.revision \in Nat
  BY AppFields
<1>2. \A item : item.revision \in Nat /\ Overtaken(item, a)
                => Overtaken(item, b)
  BY <1>1 DEF Overtaken
<1>3. \A item : OfReceipt(item, a) => OfReceipt(item, b)
  BY DEF OfReceipt
<1>4. JobsOK(js, dn, b, sv)
  BY <1>2, <1>3, ItemKinds DEF JobsOK
<1>5. DoneOK(dn, b, sv)
  BY <1>2, <1>3, ItemKinds DEF DoneOK
<1> QED
  BY <1>4, <1>5

-----------------------------------------------------------------------------
(* Worlds. *)

LEMMA WorldFields ==
  ASSUME NEW w \in Worlds
  PROVE  /\ w.app \in Apps /\ w.jobs \in Seq(Jobs) /\ w.saved \in BOOLEAN
         /\ w.asked \in [Reloads -> Requests] /\ w.uninstall \in Removals
         /\ w.held \in Nat /\ Len(w.jobs) \in Nat
<1>1. w.jobs \in Seq(Jobs)
  BY DEF Worlds
<1>2. Len(w.jobs) \in Nat
  BY <1>1
<1> QED
  BY <1>2 DEF Worlds

(* What every function of the event loop keeps true. *)
Sound(w, dn, kn, ow, to) ==
  /\ w \in Worlds
  /\ WorldOK(w, dn, kn, ow, to)
  /\ Fits(w)
  /\ AskedOK(w.asked)

(* What saves, reloads and removals have to do with. *)
SameSettings(a, b) ==
  /\ b.config = a.config /\ b.baseline = a.baseline
  /\ b.dirty = a.dirty /\ b.inflight = a.inflight
  /\ b.explicit = a.explicit /\ b.epoch = a.epoch
  /\ b.revision = a.revision /\ b.receipt = a.receipt
  /\ b.fresh = a.fresh /\ b.named = a.named

(* Worlds that agree on what the invariant reads both satisfy it.          *)
LEMMA SamePending ==
  ASSUME NEW a, NEW b, SameSettings(a, b)
  PROVE  Pending(b) <=> Pending(a)
BY DEF SameSettings, Pending

LEMMA AppAgain ==
  ASSUME NEW a, NEW b, SameSettings(a, b), NEW sv, NEW kn, NEW ow, NEW to,
         AppOK(a, sv, kn, ow, to)
  PROVE  AppOK(b, sv, kn, ow, to)
<1>1. ReceiptOK(b) /\ KnownOK(b, sv, kn) /\ CleanOK(b)
  BY DEF SameSettings, AppOK, ReceiptOK, KnownOK, CleanOK
<1>2. OwedOK(b, sv, ow)
  BY DEF SameSettings, AppOK, OwedOK
<1>3. TouchedOK(b, sv, to)
  BY DEF SameSettings, AppOK, TouchedOK
<1> QED
  BY <1>1, <1>2, <1>3 DEF AppOK

LEMMA WorldAgain ==
  ASSUME NEW w \in Worlds, NEW v \in Worlds, NEW dn \in Seq(Results),
         NEW kn, NEW ow, NEW to, WorldOK(w, dn, kn, ow, to),
         SameSettings(w.app, v.app), v.jobs = w.jobs, v.saved = w.saved
  PROVE  WorldOK(v, dn, kn, ow, to)
<1>1. w.app \in Apps /\ v.app \in Apps /\ w.jobs \in Seq(Jobs)
  BY WorldFields
<1>2. AppOK(v.app, v.saved, kn, ow, to)
  BY AppAgain DEF WorldOK
<1>3. /\ v.app.inflight = w.app.inflight /\ v.app.receipt = w.app.receipt
      /\ v.app.baseline = w.app.baseline /\ v.app.epoch = w.app.epoch
      /\ v.app.revision = w.app.revision
      /\ Pending(v.app) => Pending(w.app)
  BY SamePending DEF SameSettings
<1>4. JobsOK(w.jobs, dn, w.app, w.saved) /\ DoneOK(dn, w.app, w.saved)
  BY DEF WorldOK
<1>5. JobsOK(w.jobs, dn, v.app, w.saved) /\ DoneOK(dn, v.app, w.saved)
  BY <1>1, <1>3, <1>4, ItemsAgain
<1> QED
  BY <1>2, <1>5 DEF WorldOK
(* A save is queued, or put off because the worker is full. *)
LEMMA ScheduleIsSound ==
  ASSUME NEW w, NEW dn \in Seq(Results), NEW kn, NEW ow, NEW to,
         Sound(w, dn, kn, ow, to)
  PROVE  /\ Sound(Schedule(w), dn, kn, ow, to)
         /\ Schedule(w).held = w.held /\ Schedule(w).asked = w.asked
         /\ Schedule(w).uninstall = w.uninstall
         /\ Schedule(w).app.config = w.app.config
         /\ Schedule(w).app.epoch = w.app.epoch
         /\ Schedule(w).app.revision = w.app.revision
         /\ Pending(Schedule(w).app) <=> Pending(w.app)
<1> DEFINE a == w.app
           v == Schedule(w)
<1>1. w \in Worlds /\ WorldOK(w, dn, kn, ow, to) /\ Fits(w)
        /\ AskedOK(w.asked)
  BY DEF Sound
<1>2. a \in Apps /\ w.jobs \in Seq(Jobs) /\ w.saved \in BOOLEAN
        /\ w.held \in Nat
  BY <1>1, WorldFields
<1>3. CASE a.inflight \/ ~a.dirty \/ a.retry
  <2>1. v = w
    BY <1>3 DEF Schedule
  <2> QED
    BY <2>1
<1>4. CASE ~(a.inflight \/ ~a.dirty \/ a.retry) /\ ~HasPermit(w)
  <2>1. v = [w EXCEPT !.app.retry = TRUE]
    BY <1>4 DEF Schedule
  <2>2. /\ v.app = [a EXCEPT !.retry = TRUE] /\ v.jobs = w.jobs
        /\ v.saved = w.saved /\ v.asked = w.asked /\ v.held = w.held
        /\ v.uninstall = w.uninstall
    BY <1>1, <2>1 DEF Worlds
  <2>3. v.app \in Apps /\ SameSettings(a, v.app)
    BY <1>2, <2>2 DEF Apps, SameSettings
  <2>4. v \in Worlds
    BY <1>1, <2>1, <2>2, <2>3 DEF Worlds
  <2> HIDE DEF v
  <2>5. WorldOK(v, dn, kn, ow, to)
    BY <1>1, <2>2, <2>3, <2>4, WorldAgain
  <2>6. Pending(v.app) <=> Pending(a)
    BY <2>3, SamePending
  <2>7. v.app.config = a.config /\ v.app.epoch = a.epoch
          /\ v.app.revision = a.revision
    BY <2>3 DEF SameSettings
  <2>8. Fits(v)
    BY <1>1, <2>2 DEF Fits
  <2> QED
    BY <1>1, <2>2, <2>4, <2>5, <2>6, <2>7, <2>8 DEF Sound, v
<1>5. CASE ~(a.inflight \/ ~a.dirty \/ a.retry) /\ HasPermit(w)
  <2> DEFINE job == [kind |-> "save", base |-> a.baseline,
                     desired |-> a.config, explicit |-> a.explicit,
                     epoch |-> a.epoch]
             b == Captured(a)
  <2>1. ~a.inflight /\ a.dirty
    BY <1>5
  <2>2. v = [w EXCEPT !.app = b, !.saved = FALSE,
                      !.jobs = Append(w.jobs, job)]
    BY <1>1, <1>5 DEF Schedule, Worlds
  <2>3. b \in Apps /\ AppOK(b, FALSE, kn, ow, to)
    BY <1>1, <1>2, <2>1, CapturedIsOK DEF WorldOK
  <2>4. job \in SaveJobs
    BY <1>2, AppFields DEF SaveJobs
  <2>5. job \in Jobs
    BY <2>4 DEF Jobs
  <2>6. /\ b.inflight = TRUE /\ b.dirty = FALSE /\ b.config = a.config
        /\ b.baseline = a.baseline
        /\ b.epoch = a.epoch /\ b.revision = a.revision
        /\ b.receipt = [some |-> TRUE, desired |-> a.config,
                        explicit |-> a.explicit]
    BY <1>2 DEF Captured, Apps
  <2>7. OfReceipt(job, b) /\ job.base = b.baseline /\ job.kind = "save"
    BY <2>6 DEF OfReceipt
  <2> HIDE DEF b, job
  <2>8. /\ v.app = b /\ v.saved = FALSE /\ v.jobs = Append(w.jobs, job)
        /\ v.asked = w.asked /\ v.held = w.held
        /\ v.uninstall = w.uninstall
    BY <1>1, <2>2 DEF Worlds
  <2>9. /\ Append(w.jobs, job) \in Seq(Jobs)
        /\ Len(Append(w.jobs, job)) = Len(w.jobs) + 1
        /\ \A i \in 1..Len(Append(w.jobs, job)) :
             \/ i \in 1..Len(w.jobs) /\ Append(w.jobs, job)[i] = w.jobs[i]
             \/ i = Len(w.jobs) + 1 /\ Append(w.jobs, job)[i] = job
    BY <1>2, <2>5, AppendIndex
  <2>10. v \in Worlds
    BY <1>1, <2>2, <2>3, <2>9 DEF Worlds
  <2> HIDE DEF v
  <2>11. NoSave(w.jobs) /\ NoSave(dn)
    BY <1>1, <1>2, <2>1, NoSaves DEF WorldOK
  <2>12. \A item : Overtaken(item, a) => Overtaken(item, b)
    BY <2>1, <2>6 DEF Overtaken, Pending
  <2>13. JobsOK(v.jobs, dn, b, FALSE)
    <3>1. \A i \in 1..Len(v.jobs) :
            /\ v.jobs[i].kind = "save" => /\ i = Len(w.jobs) + 1
                                          /\ v.jobs[i] = job
            /\ v.jobs[i].kind = "reload" => Overtaken(v.jobs[i], b)
      <4> SUFFICES ASSUME NEW i \in 1..Len(v.jobs)
                   PROVE  /\ v.jobs[i].kind = "save" =>
                               i = Len(w.jobs) + 1 /\ v.jobs[i] = job
                          /\ v.jobs[i].kind = "reload" =>
                               Overtaken(v.jobs[i], b)
        OBVIOUS
      <4>1. CASE i \in 1..Len(w.jobs) /\ v.jobs[i] = w.jobs[i]
        BY <1>1, <2>11, <2>12, <4>1 DEF NoSave, WorldOK, JobsOK
      <4>2. CASE i = Len(w.jobs) + 1 /\ v.jobs[i] = job
        BY <2>7, <4>2
      <4> QED
        BY <2>8, <2>9, <4>1, <4>2
    <3> QED
      BY <2>7, <2>11, <3>1 DEF JobsOK, SavesOnce
  <2>14. DoneOK(dn, b, FALSE)
    BY <1>1, <2>11, <2>12 DEF NoSave, WorldOK, DoneOK
  <2>15. WorldOK(v, dn, kn, ow, to)
    BY <2>3, <2>8, <2>13, <2>14 DEF WorldOK
  <2>16. Fits(v)
    <3>1. Len(w.jobs) \in Nat /\ MaxJobs \in Nat
      BY <1>1, WorldFields, ConfigAssumption
    <3>2. Len(w.jobs) + w.held < MaxJobs
      BY <1>5 DEF HasPermit
    <3>3. Len(w.jobs) + 1 + w.held <= MaxJobs
      BY <1>2, <3>1, <3>2
    <3> QED
      BY <2>8, <2>9, <3>3 DEF Fits
  <2>17. Pending(b) /\ Pending(a)
    BY <2>1, <2>6 DEF Pending
  <2> QED
    BY <1>1, <2>6, <2>8, <2>10, <2>15, <2>16, <2>17 DEF Sound, v
<1> QED
  BY <1>3, <1>4, <1>5

(* A change leads from w to v, a world with this configuration. *)
Moves(w, v, config, dn, kn, ow, to) ==
  /\ Sound(v, dn, kn, ow, to)
  /\ v.held = w.held /\ v.uninstall = w.uninstall
  /\ v.app.config = config
  /\ v.app.epoch = w.app.epoch
  /\ v.app.revision = w.app.revision + 1
  /\ Pending(v.app)

(* A change of some fields, and the save that follows.                     *)
LEMMA ChangeIsSound ==
  ASSUME NEW w, NEW dn \in Seq(Results), NEW kn, NEW ow, NEW to,
         Sound(w, dn, kn, ow, to),
         NEW config \in Configs, NEW patch \in Patches,
         Agrees(patch, config),
         NEW X, X \subseteq Targets(w.app.config, config, patch),
         Targets(w.app.config, config, patch) \subseteq Reach(X),
         NEW O, O \subseteq DOMAIN patch
  PROVE  Moves(w, Change(w, config, patch), config,
               dn, kn, ow \cup O, to \cup X)
<1> DEFINE a == w.app
           b == Changed(a, config, patch)
           u == [w EXCEPT !.app = b]
<1>1. w \in Worlds /\ WorldOK(w, dn, kn, ow, to) /\ Fits(w)
        /\ AskedOK(w.asked)
  BY DEF Sound
<1>2. a \in Apps /\ w.jobs \in Seq(Jobs) /\ w.saved \in BOOLEAN
  BY <1>1, WorldFields
<1>3. Change(w, config, patch) = Schedule(u)
  BY DEF Change
<1>4. b \in Apps /\ AppOK(b, w.saved, kn, ow \cup O, to \cup X)
  BY <1>1, <1>2, ChangedIsOK DEF WorldOK
<1>5. /\ b.inflight = a.inflight /\ b.receipt = a.receipt
      /\ b.baseline = a.baseline /\ b.epoch = a.epoch
      /\ b.revision = a.revision + 1 /\ b.config = config /\ b.dirty = TRUE
  BY <1>2 DEF Changed, Apps
<1> HIDE DEF b
<1>6. /\ u \in Worlds /\ u.app = b /\ u.jobs = w.jobs /\ u.saved = w.saved
      /\ u.asked = w.asked /\ u.held = w.held /\ u.uninstall = w.uninstall
  BY <1>1, <1>4 DEF Worlds
<1>7. JobsOK(w.jobs, dn, b, w.saved) /\ DoneOK(dn, b, w.saved)
  BY <1>1, <1>2, <1>4, <1>5, ItemsAgain DEF WorldOK
<1> HIDE DEF u
<1>8. Sound(u, dn, kn, ow \cup O, to \cup X)
  BY <1>1, <1>4, <1>6, <1>7 DEF Sound, WorldOK, Fits
<1>9. Pending(b)
  BY <1>5 DEF Pending
<1> QED
  BY <1>3, <1>5, <1>6, <1>8, <1>9, ScheduleIsSound DEF Moves
(* A world that differs in nothing that matters is sound too. *)
LEMMA SoundAgain ==
  ASSUME NEW w, NEW v \in Worlds, NEW dn \in Seq(Results), NEW kn, NEW ow,
         NEW to, Sound(w, dn, kn, ow, to),
         SameSettings(w.app, v.app), v.jobs = w.jobs, v.saved = w.saved,
         v.held = w.held, AskedOK(v.asked)
  PROVE  Sound(v, dn, kn, ow, to)
<1>1. w \in Worlds /\ WorldOK(w, dn, kn, ow, to) /\ Fits(w)
  BY DEF Sound
<1>2. WorldOK(v, dn, kn, ow, to)
  BY <1>1, WorldAgain
<1> QED
  BY <1>1, <1>2 DEF Sound, Fits

(* A choice of some preferences writes them all. *)
LEMMA PreferIsSound ==
  ASSUME NEW w, NEW dn \in Seq(Results), NEW kn, NEW ow, NEW to,
         Sound(w, dn, kn, ow, to),
         NEW choice \in Patches, DOMAIN choice \subseteq Preferences,
         DOMAIN choice # {},
         NEW X, X \subseteq Preferences, X # {}
  PROVE  Moves(w, Prefer(w, choice), Over(choice, w.app.config),
               dn, kn, ow \cup X, to \cup X)
<1> DEFINE config == Over(choice, w.app.config)
           patch  == [f \in Preferences |-> config[f]]
           rest   == w.app.restore /\ Theme \notin DOMAIN choice
           u      == [w EXCEPT !.app.restore = rest]
<1>1. w \in Worlds /\ AskedOK(w.asked)
  BY DEF Sound
<1>2. w.app \in Apps /\ w.app.config \in Configs
  BY <1>1, WorldFields, AppFields
<1>3. Prefer(w, choice) = Change(u, config, patch)
  BY DEF Prefer
<1>4. /\ config \in Configs
      /\ \A f \in Fields : config[f] = IF f \in DOMAIN choice THEN choice[f]
                                       ELSE w.app.config[f]
  BY <1>2, OverIsConfig
<1>5. rest \in BOOLEAN
  OBVIOUS
<1> HIDE DEF config, rest
<1>6. u.app = [w.app EXCEPT !.restore = rest]
  BY <1>1 DEF Worlds
<1>7. u.app \in Apps /\ SameSettings(w.app, u.app)
  BY <1>2, <1>5, <1>6 DEF Apps, SameSettings
<1>8. /\ u \in Worlds /\ u.jobs = w.jobs /\ u.saved = w.saved
      /\ u.asked = w.asked /\ u.held = w.held /\ u.uninstall = w.uninstall
  BY <1>1, <1>6, <1>7 DEF Worlds
<1> HIDE DEF u
<1>9. Sound(u, dn, kn, ow, to)
  BY <1>1, <1>7, <1>8, SoundAgain
<1>10. /\ patch \in Patches /\ DOMAIN patch = Preferences
       /\ Agrees(patch, config)
  <2>1. Preferences \in SUBSET Fields /\ patch \in [Preferences -> Values]
    BY <1>4, ConfigAssumption DEF Configs
  <2>2. patch \in Patches
    BY <2>1, APatch
  <2> QED
    BY <2>2 DEF Agrees
<1> HIDE DEF patch
<1>11. u.app.config = w.app.config /\ u.app.epoch = w.app.epoch
         /\ u.app.revision = w.app.revision
  BY <1>7 DEF SameSettings
<1>12. Targets(u.app.config, config, patch) = Preferences
  BY <1>4, <1>10, <1>11, ConfigAssumption DEF Targets
<1>13. Preferences \subseteq Reach(X)
  BY ConfigAssumption DEF Reach
<1>14. Moves(u, Change(u, config, patch), config,
             dn, kn, ow \cup X, to \cup X)
  <2>1. /\ X \subseteq Targets(u.app.config, config, patch)
        /\ Targets(u.app.config, config, patch) \subseteq Reach(X)
        /\ X \subseteq DOMAIN patch
        /\ config \in Configs /\ patch \in Patches /\ Agrees(patch, config)
    BY <1>4, <1>10, <1>12, <1>13
  <2> QED
    BY <1>9, <2>1, ChangeIsSound
<1> QED
  BY <1>3, <1>8, <1>11, <1>14 DEF config, Moves

(* Answering requests touches no setting.                                  *)
LEMMA AnswerIsSound ==
  ASSUME NEW w, NEW dn \in Seq(Results), NEW kn, NEW ow, NEW to,
         Sound(w, dn, kn, ow, to), NEW ids
  PROVE  /\ Sound(Answer(w, ids), dn, kn, ow, to)
         /\ Answer(w, ids).app = w.app /\ Answer(w, ids).jobs = w.jobs
         /\ Answer(w, ids).saved = w.saved
         /\ Answer(w, ids).held = w.held
         /\ Answer(w, ids).uninstall = w.uninstall
<1> DEFINE answered == [state |-> "answered", config |-> NoPatch]
           as == [r \in Reloads |-> IF r \in ids THEN answered
                                    ELSE w.asked[r]]
           v == Answer(w, ids)
<1>1. w \in Worlds /\ AskedOK(w.asked)
  BY DEF Sound
<1>2. v = [w EXCEPT !.asked = as]
  BY DEF Answer
<1>3. answered \in Requests /\ answered.state = "answered"
  BY DEF Requests
<1> HIDE DEF answered
<1>4. as \in [Reloads -> Requests]
  BY <1>1, <1>3, WorldFields
<1>5. AskedOK(as)
  BY <1>1, <1>3 DEF AskedOK
<1> HIDE DEF as
<1>6. /\ v \in Worlds /\ v.app = w.app /\ v.jobs = w.jobs
      /\ v.saved = w.saved /\ v.asked = as /\ v.held = w.held
      /\ v.uninstall = w.uninstall
  BY <1>1, <1>2, <1>4 DEF Worlds
<1> HIDE DEF v
<1>7. SameSettings(w.app, v.app)
  BY <1>6 DEF SameSettings
<1>8. Sound(v, dn, kn, ow, to)
  BY <1>5, <1>6, <1>7, SoundAgain
<1> QED
  BY <1>6, <1>8 DEF v

(* The file replaces the settings when nothing is pending. *)
LEMMA ResetIsSound ==
  ASSUME NEW w, NEW dn \in Seq(Results), NEW kn, NEW ow, NEW to,
         Sound(w, dn, kn, ow, to), ~Pending(w.app), NEW config \in Configs
  PROVE  /\ Sound(Reset(w, config), dn, config, {}, {})
         /\ Reset(w, config).held = w.held
         /\ Reset(w, config).uninstall = w.uninstall
<1> DEFINE a == w.app
           b == Loaded(a, config)
           v == Reset(w, config)
<1>1. w \in Worlds /\ WorldOK(w, dn, kn, ow, to) /\ Fits(w)
        /\ AskedOK(w.asked)
  BY DEF Sound
<1>2. a \in Apps /\ w.jobs \in Seq(Jobs) /\ w.saved \in BOOLEAN
  BY <1>1, WorldFields
<1>3. b \in Apps /\ AppOK(b, w.saved, config, {}, {})
  BY <1>1, <1>2, LoadedIsOK DEF WorldOK
<1>4. b.revision = a.revision + 1 /\ ~a.inflight
  BY <1>2 DEF Loaded, Apps, Pending
<1>5. v = [w EXCEPT !.app = b]
  BY DEF Reset
<1> HIDE DEF b
<1>6. /\ v \in Worlds /\ v.app = b /\ v.jobs = w.jobs /\ v.saved = w.saved
      /\ v.asked = w.asked /\ v.held = w.held /\ v.uninstall = w.uninstall
  BY <1>1, <1>3, <1>5 DEF Worlds
<1> HIDE DEF v
<1>7. NoSave(w.jobs) /\ NoSave(dn)
  BY <1>1, <1>2, <1>4, NoSaves DEF WorldOK
<1>8. a.revision \in Nat
  BY <1>2, AppFields
<1>9. \A item : item.revision \in Nat /\ Overtaken(item, a)
                => Overtaken(item, b)
  BY <1>4, <1>8 DEF Overtaken
<1>10. /\ \A i \in 1..Len(w.jobs) : Overtaken(w.jobs[i], b)
       /\ \A i \in 1..Len(dn) : Overtaken(dn[i], b)
  BY <1>1, <1>2, <1>7, <1>9, ItemKinds DEF WorldOK, JobsOK, DoneOK, NoSave
<1>11. JobsOK(w.jobs, dn, b, w.saved) /\ DoneOK(dn, b, w.saved)
  BY <1>7, <1>10, OnlyReloads
<1> QED
  BY <1>1, <1>3, <1>6, <1>11 DEF Sound, WorldOK, Fits, v

(* Waiting reloads are queued again, once nothing is pending. *)
LEMMA FlushReloadsIsSound ==
  ASSUME NEW w, NEW dn \in Seq(Results), NEW kn, NEW ow, NEW to,
         Sound(w, dn, kn, ow, to), NEW ok \in BOOLEAN
  PROVE  /\ Sound(FlushReloads(w, ok), dn, kn, ow, to)
         /\ SameSettings(w.app, FlushReloads(w, ok).app)
         /\ FlushReloads(w, ok).held = w.held
         /\ FlushReloads(w, ok).uninstall = w.uninstall
<1> DEFINE v == FlushReloads(w, ok)
<1>1. w \in Worlds /\ WorldOK(w, dn, kn, ow, to) /\ Fits(w)
        /\ AskedOK(w.asked)
  BY DEF Sound
<1>2. w.app \in Apps /\ w.jobs \in Seq(Jobs) /\ w.saved \in BOOLEAN
        /\ w.held \in Nat /\ Len(w.jobs) \in Nat
  BY <1>1, WorldFields
<1>3. CASE w.app.waiting = {} \/ (ok /\ Pending(w.app))
  <2>1. v = w
    BY <1>3 DEF FlushReloads
  <2> QED
    BY <2>1 DEF SameSettings
<1>4. CASE ~(w.app.waiting = {} \/ (ok /\ Pending(w.app)))
             /\ ok /\ HasPermit(w)
  <2> DEFINE job == [kind |-> "reload", ids |-> w.app.waiting,
                     revision |-> w.app.revision]
             b == [w.app EXCEPT !.waiting = {}]
  <2>1. v = [w EXCEPT !.app.waiting = {}, !.jobs = Append(w.jobs, job)]
    BY <1>4 DEF FlushReloads, Reread
  <2>2. b \in Apps /\ SameSettings(w.app, b)
    BY <1>2 DEF Apps, SameSettings
  <2>3. job \in Jobs
    BY <1>2, AppFields DEF Jobs, ReloadJobs
  <2>4. ~Pending(b) /\ b.revision = w.app.revision /\ ~b.inflight
    BY <1>4, <2>2, SamePending DEF SameSettings, Pending
  <2>5. Overtaken(job, b) /\ job.kind = "reload"
    BY <1>2, <2>4, AppFields DEF Overtaken
  <2> HIDE DEF job
  <2>6. /\ Append(w.jobs, job) \in Seq(Jobs)
        /\ Len(Append(w.jobs, job)) = Len(w.jobs) + 1
        /\ \A i \in 1..Len(Append(w.jobs, job)) :
             \/ i \in 1..Len(w.jobs) /\ Append(w.jobs, job)[i] = w.jobs[i]
             \/ i = Len(w.jobs) + 1 /\ Append(w.jobs, job)[i] = job
    BY <1>2, <2>3, AppendIndex
  <2>7. /\ v.app = b /\ v.jobs = Append(w.jobs, job) /\ v.saved = w.saved
        /\ v.asked = w.asked /\ v.held = w.held
        /\ v.uninstall = w.uninstall
    BY <1>1, <2>1 DEF Worlds
  <2> HIDE DEF b
  <2>8. v \in Worlds
    <3>1. v = [app |-> b, jobs |-> Append(w.jobs, job), saved |-> w.saved,
               asked |-> w.asked, uninstall |-> w.uninstall,
               held |-> w.held]
      BY <1>1, <2>1, <2>7 DEF Worlds
    <3> HIDE DEF v
    <3> QED
      BY <1>1, <2>2, <2>6, <3>1, WorldFields DEF Worlds
  <2> HIDE DEF v
  <2>9. AppOK(b, w.saved, kn, ow, to)
    BY <1>1, <2>2, AppAgain DEF WorldOK
  <2>10. NoSave(w.jobs) /\ NoSave(dn)
    BY <1>1, <1>2, <1>4, NoSaves DEF WorldOK, Pending
  <2>11. JobsOK(w.jobs, dn, b, w.saved) /\ DoneOK(dn, b, w.saved)
    <3>1. /\ b.inflight = w.app.inflight /\ b.receipt = w.app.receipt
          /\ b.baseline = w.app.baseline /\ b.epoch = w.app.epoch
          /\ b.revision = w.app.revision
          /\ Pending(b) => Pending(w.app)
      BY <2>2, <2>4 DEF SameSettings
    <3> QED
      BY <1>1, <1>2, <2>2, <3>1, ItemsAgain DEF WorldOK
  <2>12. \A i \in 1..Len(v.jobs) : /\ v.jobs[i].kind = "reload"
                                   /\ Overtaken(v.jobs[i], b)
    BY <2>5, <2>6, <2>7, <2>10, <2>11 DEF NoSave, JobsOK
  <2>13. \A i \in 1..Len(dn) : Overtaken(dn[i], b)
    BY <2>10, <2>11 DEF NoSave, DoneOK
  <2>14. JobsOK(v.jobs, dn, b, v.saved) /\ DoneOK(dn, b, v.saved)
    <3>1. NoSave(v.jobs)
      BY <2>12 DEF NoSave
    <3> QED
      BY <2>10, <2>12, <2>13, <3>1, OnlyReloads
  <2>15. Fits(v)
    <3>1. Len(w.jobs) + 1 + w.held <= MaxJobs
      <4>1. Len(w.jobs) \in Nat /\ w.held \in Nat /\ MaxJobs \in Nat
        BY <1>2, ConfigAssumption
      <4> QED BY <1>4, <4>1 DEF HasPermit
    <3>2. Len(v.jobs) = Len(w.jobs) + 1 /\ v.held = w.held
      BY <2>6, <2>7
    <3> QED
      BY <3>1, <3>2 DEF Fits
  <2> QED
    BY <1>1, <2>2, <2>7, <2>8, <2>9, <2>14, <2>15 DEF Sound, WorldOK, v
<1>5. CASE ~(w.app.waiting = {} \/ (ok /\ Pending(w.app)))
             /\ ~(ok /\ HasPermit(w))
  <2> DEFINE u == Answer(w, w.app.waiting)
  <2>1. v = [u EXCEPT !.app.waiting = {}]
    BY <1>5 DEF FlushReloads
  <2>2. /\ Sound(u, dn, kn, ow, to) /\ u.app = w.app /\ u.jobs = w.jobs
        /\ u.saved = w.saved /\ u.held = w.held
        /\ u.uninstall = w.uninstall
    BY AnswerIsSound
  <2> HIDE DEF u
  <2>3. u \in Worlds /\ AskedOK(u.asked)
    BY <2>2 DEF Sound
  <2>4. /\ v.app = [w.app EXCEPT !.waiting = {}] /\ v.jobs = u.jobs
        /\ v.saved = u.saved /\ v.asked = u.asked /\ v.held = u.held
        /\ v.uninstall = u.uninstall
    BY <2>1, <2>2, <2>3 DEF Worlds
  <2>5. v.app \in Apps /\ SameSettings(w.app, v.app)
    BY <1>2, <2>4 DEF Apps, SameSettings
  <2>6. v \in Worlds
    BY <2>1, <2>3, <2>4, <2>5 DEF Worlds
  <2> HIDE DEF v
  <2>7. Sound(v, dn, kn, ow, to)
    BY <2>2, <2>3, <2>4, <2>5, <2>6, SoundAgain
  <2> QED
    BY <2>2, <2>4, <2>5, <2>7 DEF v
<1> QED
  BY <1>3, <1>4, <1>5
-----------------------------------------------------------------------------
(* The removal of the custom theme. *)

(* The theme that a failed removal chooses again. *)
Restored(w, v) == IF v.app.revision # w.app.revision THEN {Theme} ELSE {}

(* The thread that removes the theme starts only when another is saved. *)
SafeStart(w, v, kn) ==
  v.uninstall = "running" /\ w.uninstall # "running"
    => v.app.config[Theme] # Custom /\ kn[Theme] # Custom

Steps(w, v, dn, kn, ow, to) ==
  /\ Sound(v, dn, kn, ow, to)
  /\ v.held = w.held /\ v.app.epoch = w.app.epoch
  /\ SafeStart(w, v, kn)

Rolls(w, v, dn, kn, ow, to) ==
  Steps(w, v, dn, kn, ow \cup Restored(w, v), to \cup Restored(w, v))

(* The theme is a field, and the fallback is a value.                      *)
LEMMA ThemeFacts ==
  /\ Theme \in Preferences /\ Theme \in Fields
  /\ Custom \in Values /\ Bundled \in Values /\ Custom # Bundled
BY ConfigAssumption

(* The removal of a theme ends.                                            *)
LEMMA FinishRemovalIsSound ==
  ASSUME NEW w, NEW dn \in Seq(Results), NEW kn, NEW ow, NEW to,
         Sound(w, dn, kn, ow, to), NEW removed \in BOOLEAN
  PROVE  /\ Rolls(w, FinishRemoval(w, removed), dn, kn, ow, to)
         /\ FinishRemoval(w, removed).uninstall = "idle"
<1> DEFINE inst == w.app.installed /\ ~removed
           left == [w.app EXCEPT !.removal = "none", !.restore = FALSE,
                                 !.installed = inst]
           ended == [w EXCEPT !.app = left, !.uninstall = "idle"]
           v == FinishRemoval(w, removed)
<1>1. w \in Worlds /\ AskedOK(w.asked)
  BY DEF Sound
<1>2. w.app \in Apps
  BY <1>1, WorldFields
<1>3. v = IF ~removed /\ w.app.restore
          THEN Prefer(ended, Only(Theme, Custom)) ELSE ended
  BY DEF FinishRemoval
<1>4. inst \in BOOLEAN
  OBVIOUS
<1> HIDE DEF inst
<1>5. left \in Apps /\ SameSettings(w.app, left)
  BY <1>2, <1>4 DEF Apps, SameSettings
<1> HIDE DEF left
<1>6. /\ ended \in Worlds /\ ended.app = left /\ ended.jobs = w.jobs
      /\ ended.saved = w.saved /\ ended.asked = w.asked
      /\ ended.held = w.held /\ ended.uninstall = "idle"
  BY <1>1, <1>5 DEF Worlds, Removals
<1> HIDE DEF ended, v
<1>7. Sound(ended, dn, kn, ow, to)
  BY <1>1, <1>5, <1>6, SoundAgain
<1>8. /\ ended.app.epoch = w.app.epoch
      /\ ended.app.revision = w.app.revision
      /\ w.app.revision \in Nat
  BY <1>2, <1>5, <1>6, AppFields DEF SameSettings
<1>9. CASE ~removed /\ w.app.restore
  <2>1. /\ Only(Theme, Custom) \in Patches
        /\ DOMAIN Only(Theme, Custom) = {Theme}
    BY ThemeFacts, OnlyIsPatch
  <2>2. Moves(ended, v, Over(Only(Theme, Custom), ended.app.config),
              dn, kn, ow \cup {Theme}, to \cup {Theme})
    <3>1. /\ DOMAIN Only(Theme, Custom) \subseteq Preferences
          /\ DOMAIN Only(Theme, Custom) # {}
          /\ {Theme} \subseteq Preferences /\ {Theme} # {}
      BY <2>1, ThemeFacts
    <3>2. v = Prefer(ended, Only(Theme, Custom))
      BY <1>3, <1>9
    <3> QED
      BY <1>7, <2>1, <3>1, <3>2, PreferIsSound
  <2>3. v.app.revision # w.app.revision
    BY <1>8, <2>2 DEF Moves
  <2> QED
    BY <1>6, <1>8, <2>2, <2>3 DEF Moves, Rolls, Steps, Restored,
        SafeStart, v
<1>10. CASE ~(~removed /\ w.app.restore)
  <2>1. v = ended
    BY <1>3, <1>10
  <2>2. Restored(w, v) = {}
    BY <1>8, <2>1 DEF Restored
  <2>3. ow \cup Restored(w, v) = ow /\ to \cup Restored(w, v) = to
    BY <2>2
  <2> QED
    BY <1>6, <1>7, <1>8, <2>1, <2>3 DEF Rolls, Steps, SafeStart, v
<1> QED
  BY <1>9, <1>10

(* Nothing changes in what is to be saved. *)
LEMMA RollsAgain ==
  ASSUME NEW w, NEW v, NEW dn, NEW kn, NEW ow, NEW to,
         Sound(v, dn, kn, ow, to), v.held = w.held,
         SameSettings(w.app, v.app), SafeStart(w, v, kn)
  PROVE  Rolls(w, v, dn, kn, ow, to) /\ v.app.revision = w.app.revision
<1>1. v.app.revision = w.app.revision /\ v.app.epoch = w.app.epoch
  BY DEF SameSettings
<1>2. ow \cup Restored(w, v) = ow /\ to \cup Restored(w, v) = to
  BY <1>1 DEF Restored
<1> QED
  BY <1>1, <1>2 DEF Rolls, Steps

(* A deferred removal starts once the fallback is saved.                   *)
LEMMA FlushRemovalsIsSound ==
  ASSUME NEW w, NEW dn \in Seq(Results), NEW kn, NEW ow, NEW to,
         Sound(w, dn, kn, ow, to), NEW ok \in BOOLEAN
  PROVE  /\ Rolls(w, FlushRemovals(w, ok), dn, kn, ow, to)
         /\ ok /\ w.app.config[Theme] # Custom
              => FlushRemovals(w, ok).app.revision = w.app.revision
<1> DEFINE v == FlushRemovals(w, ok)
<1>1. w \in Worlds /\ WorldOK(w, dn, kn, ow, to) /\ AskedOK(w.asked)
  BY DEF Sound
<1>2. w.app \in Apps /\ w.saved \in BOOLEAN
  BY <1>1, WorldFields
<1>3. CASE w.app.removal # "deferred" \/ (ok /\ Pending(w.app))
  <2>1. v = w
    BY <1>3 DEF FlushRemovals
  <2>2. SameSettings(w.app, w.app) /\ SafeStart(w, w, kn)
    BY DEF SameSettings, SafeStart
  <2> HIDE DEF v
  <2>3. Rolls(w, w, dn, kn, ow, to)
    BY <2>2, RollsAgain
  <2> QED
    BY <2>1, <2>3 DEF v
<1>4. CASE ~(w.app.removal # "deferred" \/ (ok /\ Pending(w.app)))
             /\ (~ok \/ w.app.config[Theme] = Custom)
  <2>1. v = FinishRemoval(w, FALSE)
    BY <1>4 DEF FlushRemovals, StartRemoval
  <2> HIDE DEF v
  <2>2. Rolls(w, v, dn, kn, ow, to)
    BY <2>1, FinishRemovalIsSound
  <2> QED
    BY <1>4, <2>2 DEF v
<1>5. CASE ~(w.app.removal # "deferred" \/ (ok /\ Pending(w.app)))
             /\ ~(~ok \/ w.app.config[Theme] = Custom)
  <2>1. v = [w EXCEPT !.app.removal = "running", !.uninstall = "running"]
    BY <1>5 DEF FlushRemovals, StartRemoval
  <2>2. /\ v.app = [w.app EXCEPT !.removal = "running"]
        /\ v.jobs = w.jobs /\ v.saved = w.saved /\ v.asked = w.asked
        /\ v.held = w.held /\ v.uninstall = "running"
    BY <1>1, <2>1 DEF Worlds
  <2>3. v.app \in Apps /\ SameSettings(w.app, v.app)
    BY <1>2, <2>2 DEF Apps, SameSettings
  <2>4. v \in Worlds
    <3>1. v = [app |-> v.app, jobs |-> w.jobs, saved |-> w.saved,
               asked |-> w.asked, uninstall |-> "running",
               held |-> w.held]
      BY <1>1, <2>1, <2>2 DEF Worlds
    <3> HIDE DEF v
    <3> QED
      BY <1>1, <2>3, <3>1, WorldFields DEF Worlds, Removals
  <2> HIDE DEF v
  <2>5. Sound(v, dn, kn, ow, to)
    BY <1>1, <2>2, <2>3, <2>4, SoundAgain
  <2>6. w.app.config = kn
    BY <1>1, <1>2, <1>5, NothingPending DEF WorldOK
  <2>7. SafeStart(w, v, kn)
    BY <1>5, <2>3, <2>6 DEF SafeStart, SameSettings
  <2>8. Rolls(w, v, dn, kn, ow, to) /\ v.app.revision = w.app.revision
    BY <2>2, <2>3, <2>5, <2>7, RollsAgain
  <2> QED
    BY <2>8 DEF v
<1> QED
  BY <1>3, <1>4, <1>5

(* The fallback theme is this server's own choice and has to be saved      *)
(* before the removal starts.                                              *)
LEMMA RequestRemovalIsSound ==
  ASSUME NEW w, NEW dn \in Seq(Results), NEW kn, NEW ow, NEW to,
         Sound(w, dn, kn, ow, to),
         NEW own, own = IF w.app.config[Theme] = Custom THEN {Theme} ELSE {}
  PROVE  Steps(w, RequestRemoval(w), dn, kn, ow \cup own, to \cup own)
<1> DEFINE v == RequestRemoval(w)
<1>1. w \in Worlds /\ AskedOK(w.asked)
  BY DEF Sound
<1>2. w.app \in Apps /\ w.app.config \in Configs
  BY <1>1, WorldFields, AppFields
<1>3. CASE w.app.config[Theme] = Custom
  <2> DEFINE p == Prefer(w, Only(Theme, Bundled))
             b == [p.app EXCEPT !.restore = TRUE, !.removal = "deferred"]
             u == [p EXCEPT !.app = b]
  <2>1. /\ v = FlushRemovals([[p EXCEPT !.app.restore = TRUE]
                                EXCEPT !.app.removal = "deferred"], TRUE)
        /\ own = {Theme}
    BY <1>3 DEF RequestRemoval
  <2>2. Moves(w, p, Over(Only(Theme, Bundled), w.app.config),
              dn, kn, ow \cup {Theme}, to \cup {Theme})
    <3>1. /\ Only(Theme, Bundled) \in Patches
          /\ DOMAIN Only(Theme, Bundled) \subseteq Preferences
          /\ DOMAIN Only(Theme, Bundled) # {}
          /\ {Theme} \subseteq Preferences /\ {Theme} # {}
      BY ThemeFacts, OnlyIsPatch
    <3> QED
      BY <3>1, PreferIsSound
  <2> HIDE DEF p
  <2>3. p \in Worlds /\ AskedOK(p.asked)
    BY <2>2 DEF Moves, Sound
  <2>4. p.app \in Apps
    BY <2>3, WorldFields
  <2>5. /\ u.app = b
        /\ u.jobs = p.jobs /\ u.saved = p.saved /\ u.asked = p.asked
        /\ u.held = p.held /\ u.uninstall = p.uninstall
    BY <2>3 DEF Worlds
  <2>6. u.app \in Apps /\ SameSettings(p.app, u.app)
    <3>1. b \in Apps /\ SameSettings(p.app, b)
      BY <2>4 DEF Apps, SameSettings
    <3> HIDE DEF b, u
    <3> QED
      BY <2>5, <3>1
  <2>12. [[p EXCEPT !.app.restore = TRUE]
            EXCEPT !.app.removal = "deferred"] = u
    <3> DEFINE t == [p EXCEPT !.app.restore = TRUE]
    <3>1. t = [p EXCEPT !.app = [p.app EXCEPT !.restore = TRUE]]
      BY <2>3 DEF Worlds
    <3>2. t.app = [p.app EXCEPT !.restore = TRUE]
      BY <2>3 DEF Worlds
    <3>3. [t EXCEPT !.app.removal = "deferred"]
            = [t EXCEPT !.app = [t.app EXCEPT !.removal = "deferred"]]
      OBVIOUS
    <3>4. [t.app EXCEPT !.removal = "deferred"] = b
      BY <2>4, <3>2 DEF Apps
    <3> HIDE DEF b
    <3>5. [t EXCEPT !.app = b] = u
      BY <2>3, <3>1 DEF Worlds
    <3> QED
      BY <3>3, <3>4, <3>5
  <2>7. u \in Worlds
    <3> HIDE DEF b
    <3> QED
      BY <2>3, <2>5, <2>6 DEF Worlds
  <2> HIDE DEF u, b
  <2>8. Sound(u, dn, kn, ow \cup {Theme}, to \cup {Theme})
    BY <2>2, <2>3, <2>5, <2>6, <2>7, SoundAgain DEF Moves
  <2>9. Pending(u.app)
    BY <2>2, <2>6, SamePending DEF Moves
  <2>10. v = u
    BY <2>1, <2>9, <2>12 DEF FlushRemovals
  <2>11. v.held = w.held /\ v.app.epoch = w.app.epoch
           /\ v.uninstall = w.uninstall
    BY <2>2, <2>5, <2>6, <2>10 DEF Moves, SameSettings
  <2> QED
    BY <2>1, <2>8, <2>10, <2>11 DEF Steps, SafeStart
<1>4. CASE w.app.config[Theme] # Custom
  <2> DEFINE u == [w EXCEPT !.app.removal = "deferred"]
  <2>1. v = FlushRemovals(u, TRUE) /\ own = {}
    BY <1>4 DEF RequestRemoval
  <2>2. /\ u.app = [w.app EXCEPT !.removal = "deferred"]
        /\ u.jobs = w.jobs /\ u.saved = w.saved /\ u.asked = w.asked
        /\ u.held = w.held /\ u.uninstall = w.uninstall
    BY <1>1 DEF Worlds
  <2>3. u.app \in Apps /\ SameSettings(w.app, u.app)
    BY <1>2, <2>2 DEF Apps, SameSettings
  <2>4. u \in Worlds
    BY <1>1, <2>2, <2>3 DEF Worlds
  <2> HIDE DEF u, v
  <2>5. Sound(u, dn, kn, ow, to)
    BY <1>1, <2>2, <2>3, <2>4, SoundAgain
  <2>6. /\ u.app.config = w.app.config /\ u.app.epoch = w.app.epoch
        /\ u.app.revision = w.app.revision
    BY <2>3 DEF SameSettings
  <2>7. /\ Rolls(u, v, dn, kn, ow, to)
        /\ v.app.revision = u.app.revision
    <3>1. Rolls(u, FlushRemovals(u, TRUE), dn, kn, ow, to)
      BY <2>5, FlushRemovalsIsSound
    <3>2. FlushRemovals(u, TRUE).app.revision = u.app.revision
      BY <1>4, <2>5, <2>6, FlushRemovalsIsSound
    <3> QED
      BY <2>1, <3>1, <3>2
  <2>8. ow \cup Restored(u, v) = ow \cup own
          /\ to \cup Restored(u, v) = to \cup own
    BY <2>1, <2>7 DEF Restored
  <2> QED
    BY <2>2, <2>6, <2>7, <2>8 DEF Rolls, Steps, SafeStart, v
<1> QED
  BY <1>3, <1>4
-----------------------------------------------------------------------------
(* The actions. *)

(* The actions of WritesRight. *)
OwnFields ==
  mode' # mode \/ jobs' # jobs
    => \A f \in Fields : disk'[f] # disk[f] =>
         \/ f \in touched
         \/ f \in Preferences /\ touched \cap Preferences # {}

KeepsUnsaved == app'.epoch > app.epoch => app.config = known /\ owed = {}

AfterSave == uninstall' = "running" /\ uninstall # "running"
               => app'.config[Theme] # Custom /\ known[Theme] # Custom

Right == OwnFields /\ KeepsUnsaved /\ AfterSave

(* The world of a state that satisfies the invariant is sound.             *)
LEMMA WorldIsSound ==
  ASSUME IInv, mode # "off"
  PROVE  /\ Sound(World, done, known, owed, touched)
         /\ World.app = app /\ World.jobs = jobs /\ World.saved = saved
         /\ World.asked = asked /\ World.uninstall = uninstall
         /\ World.held = Len(done) + others
         /\ done \in Seq(Results) /\ Len(done) \in Nat /\ others \in Nat
<1>1. /\ app \in Apps /\ jobs \in Seq(Jobs) /\ saved \in BOOLEAN
      /\ asked \in [Reloads -> Requests] /\ uninstall \in Removals
      /\ done \in Seq(Results) /\ others \in Nat /\ AskedOK(asked)
      /\ Len(jobs) + Len(done) + others <= MaxJobs
  BY DEF IInv, Typed
<1>2. Len(done) \in Nat /\ Len(jobs) \in Nat /\ MaxJobs \in Nat
  BY <1>1, ConfigAssumption
<1>3. /\ World.app = app /\ World.jobs = jobs /\ World.saved = saved
      /\ World.asked = asked /\ World.uninstall = uninstall
      /\ World.held = Len(done) + others
  BY DEF World
<1>4. World \in Worlds
  BY <1>1, <1>2 DEF World, Worlds
<1>5. WorldOK(World, done, known, owed, touched)
  BY DEF IInv
<1>6. Fits(World)
  BY <1>1, <1>2, <1>3 DEF Fits
<1>7. Sound(World, done, known, owed, touched)
  BY <1>1, <1>3, <1>4, <1>5, <1>6 DEF Sound
<1> QED
  BY <1>1, <1>2, <1>3, <1>7

LEMMA NotGreater ==
  ASSUME NEW m \in Nat, NEW n, n = m
  PROVE  ~(n > m)
OBVIOUS

(* The event loop has led to the world v. *)
LEMMA LoopStep ==
  ASSUME IInv, mode = "on", mode' = mode, disk' = disk,
         NEW v, Commit(v), Sound(v, done', known', owed', touched'),
         v.held = Len(done') + others',
         done' \in Seq(Results), others' \in Nat, known' \in Configs,
         owed' \subseteq Fields, touched' \subseteq Fields,
         v.app.epoch = app.epoch \/ (app.config = known /\ owed = {}),
         SafeStart(World, v, known)
  PROVE  IInv' /\ Right
<1>1. /\ v \in Worlds /\ WorldOK(v, done', known', owed', touched')
      /\ Fits(v) /\ AskedOK(v.asked)
  BY DEF Sound
<1>2. /\ v.app \in Apps /\ v.jobs \in Seq(Jobs) /\ v.saved \in BOOLEAN
      /\ v.asked \in [Reloads -> Requests] /\ v.uninstall \in Removals
      /\ Len(v.jobs) \in Nat /\ Len(done') \in Nat /\ MaxJobs \in Nat
  BY <1>1, WorldFields, ConfigAssumption
<1>3. /\ app' = v.app /\ jobs' = v.jobs /\ saved' = v.saved
      /\ asked' = v.asked /\ uninstall' = v.uninstall
  BY DEF Commit
<1>4. WorldOK(World, done, known, owed, touched)'
  BY <1>1, <1>3 DEF World, WorldOK
<1>5. Len(jobs') + Len(done') + others' <= MaxJobs
  BY <1>1, <1>2, <1>3 DEF Fits
<1>6. Typed'
  BY <1>1, <1>2, <1>3, <1>5 DEF Typed, IInv
<1>7. IInv'
  BY <1>4, <1>6 DEF IInv
<1>8. OwnFields
  BY DEF OwnFields
<1>9. app \in Apps /\ app.epoch \in Nat
  BY AppFields DEF IInv, Typed
<1>10. KeepsUnsaved
  BY <1>3, <1>9, NotGreater DEF KeepsUnsaved
<1>11. AfterSave
  BY <1>3, WorldIsSound DEF AfterSave, SafeStart
<1> QED
  BY <1>7, <1>8, <1>10, <1>11 DEF Right

(* The same for a change of the settings. *)
LEMMA ChangeStep ==
  ASSUME IInv, mode = "on", mode' = mode, disk' = disk, done' = done,
         others' = others, known' = known,
         NEW v, NEW config, Commit(v),
         Moves(World, v, config, done, known, owed', touched'),
         owed' \subseteq Fields, touched' \subseteq Fields
  PROVE  IInv' /\ Right
<1>1. /\ World.app = app /\ World.uninstall = uninstall
      /\ World.held = Len(done) + others
      /\ done \in Seq(Results) /\ others \in Nat
  BY WorldIsSound
<1>2. /\ Sound(v, done', known', owed', touched')
      /\ v.held = Len(done') + others'
      /\ v.app.epoch = app.epoch /\ SafeStart(World, v, known)
  BY <1>1 DEF Moves, SafeStart
<1>3. known \in Configs
  BY DEF IInv, Typed
<1> QED
  BY <1>1, <1>2, <1>3, LoopStep

(* The actions of the user, one by one.                                    *)
LEMMA EditStep ==
  ASSUME IInv, NEW f \in Fields, NEW v \in Values, Edit(f, v)
  PROVE  IInv' /\ Right
<1>1. /\ mode = "on" /\ mode' = mode /\ disk' = disk /\ done' = done
      /\ others' = others /\ known' = known /\ owed' = owed
      /\ touched' = touched \cup {f} /\ v # app.config[f]
  BY DEF Edit
<1>2. /\ Sound(World, done, known, owed, touched) /\ World.app = app
      /\ done \in Seq(Results)
  BY <1>1, WorldIsSound
<1>3. /\ app \in Apps /\ owed \subseteq Fields /\ touched \subseteq Fields
  BY DEF IInv, Typed
<1>4. PICK config : config = [app.config EXCEPT ![f] = v]
  OBVIOUS
<1>5. PICK w : w = Change(World, config, NoPatch)
  OBVIOUS
<1>6. config \in Configs
        /\ {g \in Fields : app.config[g] # config[g]} = {f}
  BY <1>1, <1>3, <1>4, AppFields DEF Configs
<1>7. /\ {f} \subseteq Targets(World.app.config, config, NoPatch)
      /\ Targets(World.app.config, config, NoPatch) \subseteq Reach({f})
      /\ {} \subseteq DOMAIN NoPatch
      /\ NoPatch \in Patches /\ Agrees(NoPatch, config)
  BY <1>2, <1>6, NoPatchIsPatch DEF Targets, Reach, Agrees
<1>8. Moves(World, w, config, done, known, owed \cup {}, touched \cup {f})
  BY <1>2, <1>5, <1>6, <1>7, ChangeIsSound
<1>9. Moves(World, w, config, done, known, owed', touched')
  <2>1. owed \cup {} = owed
    OBVIOUS
  <2> QED
    BY <1>1, <1>8, <2>1
<1>10. Commit(w)
  BY <1>4, <1>5 DEF Edit
<1>11. owed' \subseteq Fields /\ touched' \subseteq Fields
  BY <1>1, <1>3
<1> QED
  BY <1>1, <1>9, <1>10, <1>11, ChangeStep

LEMMA ChooseStep ==
  ASSUME IInv, NEW f \in Fields, NEW v \in Values, Choose(f, v)
  PROVE  IInv' /\ Right
<1>1. /\ mode = "on" /\ mode' = mode /\ disk' = disk /\ done' = done
      /\ others' = others /\ known' = known /\ owed' = owed \cup {f}
      /\ touched' = touched \cup {f} /\ f \in Preferences
  BY DEF Choose
<1>2. /\ Sound(World, done, known, owed, touched) /\ World.app = app
      /\ done \in Seq(Results)
  BY <1>1, WorldIsSound
<1>3. owed \subseteq Fields /\ touched \subseteq Fields
  BY DEF IInv, Typed
<1>4. PICK w : w = Prefer(World, Only(f, v))
  OBVIOUS
<1>5. PICK config : config = Over(Only(f, v), World.app.config)
  OBVIOUS
<1>6. /\ Only(f, v) \in Patches
      /\ DOMAIN Only(f, v) \subseteq Preferences /\ DOMAIN Only(f, v) # {}
      /\ {f} \subseteq Preferences /\ {f} # {}
  BY <1>1, OnlyIsPatch
<1>7. Moves(World, w, config, done, known, owed \cup {f}, touched \cup {f})
  BY <1>2, <1>4, <1>5, <1>6, PreferIsSound
<1>8. Commit(w)
  BY <1>4 DEF Choose
<1> QED
  BY <1>1, <1>3, <1>7, <1>8, ChangeStep

LEMMA ConfigPatchStep ==
  ASSUME IInv, NEW patch \in Patches, ConfigPatch(patch)
  PROVE  IInv' /\ Right
<1> DEFINE X == DOMAIN patch
<1>1. /\ mode = "on" /\ mode' = mode /\ disk' = disk /\ done' = done
      /\ others' = others /\ known' = known /\ owed' = owed \cup X
      /\ touched' = touched \cup X /\ X # {}
  BY DEF ConfigPatch
<1>2. /\ Sound(World, done, known, owed, touched) /\ World.app = app
      /\ done \in Seq(Results)
  BY <1>1, WorldIsSound
<1>3. /\ app \in Apps /\ owed \subseteq Fields /\ touched \subseteq Fields
      /\ X \subseteq Fields
  BY IsPatch DEF IInv, Typed
<1>4. PICK config : config = Over(patch, app.config)
  OBVIOUS
<1>5. CASE X \subseteq Preferences
  <2>1. PICK w : w = Prefer(World, patch)
    OBVIOUS
  <2>2. Moves(World, w, config, done, known, owed \cup X, touched \cup X)
    BY <1>1, <1>2, <1>4, <1>5, <2>1, PreferIsSound
  <2>3. Commit(w)
    BY <1>5, <2>1 DEF ConfigPatch
  <2> QED
    BY <1>1, <1>3, <2>2, <2>3, ChangeStep
<1>6. CASE ~(X \subseteq Preferences)
  <2>1. PICK w : w = Change(World, config, patch)
    OBVIOUS
  <2>2. /\ config \in Configs
        /\ \A f \in Fields : config[f] = IF f \in X THEN patch[f]
                                         ELSE app.config[f]
    BY <1>3, <1>4, AppFields, OverIsConfig
  <2>3. /\ X \subseteq Targets(World.app.config, config, patch)
        /\ Targets(World.app.config, config, patch) \subseteq Reach(X)
        /\ Agrees(patch, config)
    BY <1>2, <1>3, <2>2 DEF Targets, Reach, Agrees
  <2>4. Moves(World, w, config, done, known, owed \cup X, touched \cup X)
    BY <1>2, <2>1, <2>2, <2>3, ChangeIsSound
  <2>5. Commit(w)
    BY <1>4, <1>6, <2>1 DEF ConfigPatch
  <2> QED
    BY <1>1, <1>3, <2>4, <2>5, ChangeStep
<1> QED
  BY <1>5, <1>6
(* The same for a step that leaves the settings as they are. *)
LEMMA SaveTickStep ==
  ASSUME IInv, SaveTick
  PROVE  IInv' /\ Right
<1>1. /\ mode = "on" /\ mode' = mode /\ disk' = disk /\ done' = done
      /\ others' = others /\ known' = known /\ owed' = owed
      /\ touched' = touched
  BY DEF SaveTick, history
<1>2. /\ Sound(World, done, known, owed, touched) /\ World.app = app
      /\ World.uninstall = uninstall /\ World.held = Len(done) + others
      /\ done \in Seq(Results) /\ others \in Nat
  BY <1>1, WorldIsSound
<1>3. /\ known \in Configs /\ owed \subseteq Fields
      /\ touched \subseteq Fields
  BY DEF IInv, Typed
<1>4. PICK w : w = World
  OBVIOUS
<1>5. PICK u : u = [w EXCEPT !.app.retry = FALSE]
  OBVIOUS
<1>6. PICK v : v = Schedule(u)
  OBVIOUS
<1>7. w \in Worlds /\ AskedOK(w.asked) /\ w.app \in Apps
  BY <1>2, <1>4, WorldFields DEF Sound
<1>8. /\ u.app = [w.app EXCEPT !.retry = FALSE] /\ u.jobs = w.jobs
      /\ u.saved = w.saved /\ u.asked = w.asked /\ u.held = w.held
      /\ u.uninstall = w.uninstall
  BY <1>5, <1>7 DEF Worlds
<1>9. u.app \in Apps /\ SameSettings(w.app, u.app)
  BY <1>7, <1>8 DEF Apps, SameSettings
<1>10. u \in Worlds
  BY <1>5, <1>7, <1>8, <1>9 DEF Worlds
<1>11. Sound(u, done, known, owed, touched)
  BY <1>2, <1>4, <1>7, <1>8, <1>9, <1>10, SoundAgain
<1>12. /\ Sound(v, done, known, owed, touched)
       /\ v.held = u.held /\ v.uninstall = u.uninstall
       /\ v.app.epoch = u.app.epoch
  BY <1>2, <1>6, <1>11, ScheduleIsSound
<1>13. Commit(v)
  BY <1>4, <1>5, <1>6 DEF SaveTick
<1>14. v.app.epoch = app.epoch /\ SafeStart(World, v, known)
  BY <1>2, <1>4, <1>8, <1>9, <1>12 DEF SameSettings, SafeStart
<1>15. Sound(v, done', known', owed', touched')
         /\ v.held = Len(done') + others'
  BY <1>1, <1>2, <1>4, <1>8, <1>12
<1> QED
  BY <1>1, <1>2, <1>3, <1>13, <1>14, <1>15, LoopStep

(* A reload request reads the file at once.                                *)
LEMMA ReadForReloadStep ==
  ASSUME IInv, NEW r \in Reloads, ReadForReload(r)
  PROVE  IInv' /\ Right
<1>1. /\ mode = "on" /\ mode' = mode /\ disk' = disk /\ done' = done
      /\ others' = others /\ known' = known /\ owed' = owed
      /\ touched' = touched /\ app' = app /\ jobs' = jobs
      /\ saved' = saved /\ uninstall' = uninstall
      /\ asked' = [asked EXCEPT ![r] = [state |-> "read", config |-> disk]]
  BY DEF ReadForReload, history, idle
<1>2. /\ Sound(World, done, known, owed, touched) /\ World.app = app
      /\ World.uninstall = uninstall /\ World.held = Len(done) + others
      /\ World.asked = asked /\ World.jobs = jobs /\ World.saved = saved
      /\ done \in Seq(Results) /\ others \in Nat
  BY <1>1, WorldIsSound
<1>3. /\ known \in Configs /\ owed \subseteq Fields
      /\ touched \subseteq Fields /\ disk \in Configs
      /\ asked \in [Reloads -> Requests] /\ AskedOK(asked)
  BY DEF IInv, Typed
<1>4. PICK as : as = [asked EXCEPT ![r] = [state |-> "read",
                                           config |-> disk]]
  OBVIOUS
<1>5. as \in [Reloads -> Requests] /\ AskedOK(as)
  <2>1. PICK item : item = [state |-> "read", config |-> disk]
    OBVIOUS
  <2>2. item \in Requests /\ item.config \in Configs
    BY <1>3, <2>1 DEF Requests
  <2> QED
    BY <1>3, <1>4, <2>1, <2>2 DEF AskedOK
<1>6. PICK w : w = World
  OBVIOUS
<1>7. PICK v : v = [w EXCEPT !.asked = as]
  OBVIOUS
<1>8. w \in Worlds
  BY <1>2, <1>6 DEF Sound
<1>9. /\ v \in Worlds /\ v.app = w.app /\ v.jobs = w.jobs
      /\ v.saved = w.saved /\ v.asked = as /\ v.held = w.held
      /\ v.uninstall = w.uninstall
  BY <1>5, <1>7, <1>8 DEF Worlds
<1>10. Sound(v, done, known, owed, touched)
  <2>1. SameSettings(w.app, v.app)
    BY <1>9 DEF SameSettings
  <2> QED
    BY <1>2, <1>5, <1>6, <1>9, <2>1, SoundAgain
<1>11. Commit(v)
  BY <1>1, <1>2, <1>4, <1>6, <1>9 DEF Commit
<1>12. v.app.epoch = app.epoch /\ SafeStart(World, v, known)
  BY <1>2, <1>6, <1>9 DEF SafeStart
<1>13. Sound(v, done', known', owed', touched')
         /\ v.held = Len(done') + others'
  BY <1>1, <1>2, <1>6, <1>9, <1>10
<1> QED
  BY <1>1, <1>2, <1>3, <1>11, <1>12, <1>13, LoopStep

(* The file that a request or the worker has read is taken, or refused.    *)
LEMMA TakeReloadStep ==
  ASSUME IInv, mode = "on", mode' = mode, disk' = disk,
         done' \in Seq(Results), others' \in Nat,
         NEW w, Sound(w, done', known, owed, touched), w.app = app,
         w.uninstall = uninstall, w.held = Len(done') + others',
         ~Pending(app), NEW config \in Configs, NEW ids,
         TakeReload(w, config, ids)
  PROVE  IInv' /\ Right
<1>1. /\ known \in Configs /\ owed \subseteq Fields
      /\ touched \subseteq Fields /\ app \in Apps
      /\ World.uninstall = uninstall
  BY WorldIsSound DEF IInv, Typed
<1>2. CASE app.installed \/ config[Theme] # Custom
  <2>1. PICK u : u = Reset(w, config)
    OBVIOUS
  <2>2. PICK v : v = Answer(u, ids)
    OBVIOUS
  <2>3. /\ Sound(u, done', config, {}, {}) /\ u.held = w.held
        /\ u.uninstall = w.uninstall
    BY <2>1, ResetIsSound
  <2>4. /\ Sound(v, done', config, {}, {}) /\ v.held = u.held
        /\ v.uninstall = u.uninstall
    BY <2>2, <2>3, AnswerIsSound
  <2>5. /\ Commit(v) /\ known' = config /\ owed' = {} /\ touched' = {}
    BY <1>2, <2>1, <2>2 DEF TakeReload
  <2>6. app.config = known /\ owed = {}
    <3>1. AppOK(app, w.saved, known, owed, touched)
            /\ w.saved \in BOOLEAN
      BY WorldFields DEF Sound, WorldOK
    <3> QED
      BY <1>1, <3>1, NothingPending
  <2>7. SafeStart(World, v, known)
    BY <1>1, <2>3, <2>4 DEF SafeStart
  <2>8. /\ Sound(v, done', known', owed', touched')
        /\ v.held = Len(done') + others' /\ known' \in Configs
        /\ owed' \subseteq Fields /\ touched' \subseteq Fields
    BY <2>3, <2>4, <2>5
  <2> QED
    BY <2>5, <2>6, <2>7, <2>8, LoopStep
<1>3. CASE ~(app.installed \/ config[Theme] # Custom)
  <2>1. PICK v : v = Answer(w, ids)
    OBVIOUS
  <2>2. /\ Sound(v, done', known, owed, touched) /\ v.held = w.held
        /\ v.uninstall = w.uninstall /\ v.app = app
    BY <2>1, AnswerIsSound
  <2>3. /\ Commit(v) /\ known' = known /\ owed' = owed
        /\ touched' = touched
    BY <1>3, <2>1 DEF TakeReload, history
  <2>4. SafeStart(World, v, known)
    BY <1>1, <2>2 DEF SafeStart
  <2>5. /\ Sound(v, done', known', owed', touched')
        /\ v.held = Len(done') + others' /\ known' \in Configs
        /\ owed' \subseteq Fields /\ touched' \subseteq Fields
    BY <1>1, <2>2, <2>3
  <2> QED
    BY <2>2, <2>3, <2>4, <2>5, LoopStep
<1> QED
  BY <1>2, <1>3

(* v is the world in which the request r waits. *)
Defers(w, v, r) ==
  v = [w EXCEPT !.app.waiting = @ \cup {r},
                !.asked[r] = [state |-> "deferred", config |-> NoPatch]]

Rests(w, v, dn, kn, ow, to) ==
  /\ Sound(v, dn, kn, ow, to)
  /\ v.held = w.held /\ v.uninstall = w.uninstall
  /\ v.app.epoch = w.app.epoch /\ v.app.revision = w.app.revision

(* It waits for the save that is pending.                                  *)
LEMMA DeferIsSound ==
  ASSUME NEW w, NEW dn \in Seq(Results), NEW kn, NEW ow, NEW to,
         Sound(w, dn, kn, ow, to), NEW r \in Reloads,
         NEW v, Defers(w, v, r)
  PROVE  Rests(w, v, dn, kn, ow, to)
<1>1. w \in Worlds /\ AskedOK(w.asked) /\ w.app \in Apps
        /\ w.asked \in [Reloads -> Requests]
  BY WorldFields DEF Sound
<1>2. PICK item : item = [state |-> "deferred", config |-> NoPatch]
  OBVIOUS
<1>3. item \in Requests /\ item.state = "deferred"
  BY <1>2 DEF Requests
<1>4. PICK b : b = [w.app EXCEPT !.waiting = @ \cup {r}]
  OBVIOUS
<1>5. PICK as : as = [w.asked EXCEPT ![r] = item]
  OBVIOUS
<1>6. v = [w EXCEPT !.app = b, !.asked = as]
  BY <1>1, <1>2, <1>4, <1>5 DEF Worlds, Defers
<1>7. b \in Apps /\ SameSettings(w.app, b)
  <2>1. w.app.waiting \cup {r} \subseteq Reloads
    BY <1>1, AppFields
  <2> QED
    BY <1>1, <1>4, <2>1 DEF Apps, SameSettings
<1>8. as \in [Reloads -> Requests] /\ AskedOK(as)
  BY <1>1, <1>3, <1>5 DEF AskedOK
<1>9. /\ v \in Worlds /\ v.app = b /\ v.jobs = w.jobs
      /\ v.saved = w.saved /\ v.asked = as /\ v.held = w.held
      /\ v.uninstall = w.uninstall
  BY <1>1, <1>6, <1>7, <1>8 DEF Worlds
<1>10. Sound(v, dn, kn, ow, to)
  BY <1>7, <1>8, <1>9, SoundAgain
<1> QED
  BY <1>7, <1>9, <1>10 DEF SameSettings, Rests

(* It is answered, by taking the file or by waiting.                       *)
LEMMA ReloadStep ==
  ASSUME IInv, NEW r \in Reloads, Reload(r)
  PROVE  IInv' /\ Right
<1>1. /\ mode = "on" /\ mode' = mode /\ disk' = disk /\ done' = done
      /\ others' = others /\ asked[r].state = "read"
  BY DEF Reload
<1>2. /\ Sound(World, done, known, owed, touched) /\ World.app = app
      /\ World.uninstall = uninstall /\ World.held = Len(done) + others
      /\ done \in Seq(Results) /\ others \in Nat
  BY <1>1, WorldIsSound
<1>3. /\ known \in Configs /\ owed \subseteq Fields
      /\ touched \subseteq Fields /\ AskedOK(asked)
  BY DEF IInv, Typed
<1>4. PICK w : w = World
  OBVIOUS
<1>5. CASE Pending(app)
  <2>1. Commit(Defer(World, r)) /\ UNCHANGED history
    BY <1>5 DEF Reload
  <2>2. PICK v : v = Defer(w, r)
    OBVIOUS
  <2>3. /\ Sound(v, done, known, owed, touched) /\ v.held = w.held
        /\ v.uninstall = w.uninstall /\ v.app.epoch = w.app.epoch
    <3>1. CASE Cardinality(app.waiting) < MaxReloads
      <4>1. Defers(w, v, r)
        BY <1>2, <1>4, <2>2, <3>1 DEF Defer, Defers
      <4>2. Sound(w, done, known, owed, touched)
        BY <1>2, <1>4
      <4>3. Rests(w, v, done, known, owed, touched)
        BY <1>2, <4>1, <4>2, DeferIsSound
      <4> QED
        BY <4>3 DEF Rests
    <3>2. CASE ~(Cardinality(app.waiting) < MaxReloads)
      <4>1. v = Answer(w, {r})
        BY <2>2, <3>2 DEF Defer
      <4> QED
        BY <1>2, <1>4, <4>1, AnswerIsSound
    <3> QED
      BY <3>1, <3>2
  <2>4. SafeStart(World, v, known) /\ Commit(v)
    BY <1>2, <1>4, <2>1, <2>2, <2>3 DEF SafeStart
  <2>5. /\ Sound(v, done', known', owed', touched')
        /\ v.held = Len(done') + others' /\ v.app.epoch = app.epoch
        /\ done' \in Seq(Results) /\ others' \in Nat /\ known' \in Configs
        /\ owed' \subseteq Fields /\ touched' \subseteq Fields
    BY <1>1, <1>2, <1>3, <1>4, <2>1, <2>3 DEF history
  <2> QED
    BY <1>1, <2>4, <2>5, LoopStep
<1>6. CASE ~Pending(app)
  <2>1. PICK config : config = asked[r].config
    OBVIOUS
  <2>2. TakeReload(w, config, {r})
    BY <1>4, <1>6, <2>1 DEF Reload
  <2>3. config \in Configs
    BY <1>1, <1>3, <2>1 DEF AskedOK
  <2>4. /\ Sound(w, done', known, owed, touched) /\ w.app = app
        /\ w.uninstall = uninstall /\ w.held = Len(done') + others'
        /\ done' \in Seq(Results) /\ others' \in Nat
    BY <1>1, <1>2, <1>4
  <2> QED
    BY <1>1, <1>6, <2>2, <2>3, <2>4, TakeReloadStep
<1> QED
  BY <1>5, <1>6
(* The event loop has led from w, which is the current world but for a     *)
(* completion that was taken, to v.                                        *)
LEMMA SteppedStep ==
  ASSUME IInv, mode = "on", mode' = mode, disk' = disk, known' = known,
         done' \in Seq(Results), others' \in Nat,
         NEW w, w.app = app, w.uninstall = uninstall,
         w.held = Len(done') + others',
         NEW v, Commit(v), Steps(w, v, done', known, owed', touched'),
         owed' \subseteq Fields, touched' \subseteq Fields
  PROVE  IInv' /\ Right
<1>1. World.uninstall = uninstall /\ known \in Configs
  BY WorldIsSound DEF IInv, Typed
<1>2. /\ Sound(v, done', known', owed', touched')
      /\ v.held = Len(done') + others' /\ v.app.epoch = app.epoch
      /\ SafeStart(World, v, known)
  BY <1>1 DEF Steps, SafeStart
<1> QED
  BY <1>1, <1>2, LoopStep

(* The two ends of a theme removal.                                        *)
LEMMA RemoveThemeStep ==
  ASSUME IInv, RemoveTheme
  PROVE  IInv' /\ Right
<1>1. /\ mode = "on" /\ mode' = mode /\ disk' = disk /\ done' = done
      /\ others' = others /\ known' = known /\ Commit(RequestRemoval(World))
  BY DEF RemoveTheme
<1>2. /\ Sound(World, done, known, owed, touched) /\ World.app = app
      /\ World.uninstall = uninstall /\ World.held = Len(done) + others
      /\ done \in Seq(Results) /\ others \in Nat
  BY <1>1, WorldIsSound
<1>3. owed \subseteq Fields /\ touched \subseteq Fields
  BY DEF IInv, Typed
<1>4. PICK own : own = IF app.config[Theme] = Custom THEN {Theme} ELSE {}
  OBVIOUS
<1>5. owed' = owed \cup own /\ touched' = touched \cup own
  BY <1>4 DEF RemoveTheme
<1>6. own \subseteq Fields
  BY <1>4, ThemeFacts
<1>7. PICK w : w = World
  OBVIOUS
<1>8. PICK v : v = RequestRemoval(w)
  OBVIOUS
<1>9. own = IF w.app.config[Theme] = Custom THEN {Theme} ELSE {}
  BY <1>2, <1>4, <1>7
<1>10. Sound(w, done, known, owed, touched)
  BY <1>2, <1>7
<1>11. Steps(w, v, done, known, owed \cup own, touched \cup own)
  BY <1>2, <1>8, <1>9, <1>10, RequestRemovalIsSound
<1>12. Steps(w, v, done', known, owed', touched') /\ Commit(v)
  BY <1>1, <1>5, <1>7, <1>8, <1>11
<1>13. /\ w.app = app /\ w.uninstall = uninstall
       /\ w.held = Len(done') + others'
       /\ done' \in Seq(Results) /\ others' \in Nat
       /\ owed' \subseteq Fields /\ touched' \subseteq Fields
  BY <1>1, <1>2, <1>3, <1>5, <1>6, <1>7
<1> QED
  BY <1>1, <1>12, <1>13, SteppedStep

LEMMA ThemeUninstalledStep ==
  ASSUME IInv, ThemeUninstalled
  PROVE  IInv' /\ Right
<1>1. /\ mode = "on" /\ mode' = mode /\ disk' = disk /\ done' = done
      /\ others' = others /\ known' = known
  BY DEF ThemeUninstalled
<1>2. /\ Sound(World, done, known, owed, touched) /\ World.app = app
      /\ World.uninstall = uninstall /\ World.held = Len(done) + others
      /\ done \in Seq(Results) /\ others \in Nat
  BY <1>1, WorldIsSound
<1>3. owed \subseteq Fields /\ touched \subseteq Fields
  BY DEF IInv, Typed
<1>4. PICK w : w = World
  OBVIOUS
<1>5. PICK removed \in BOOLEAN : removed = (uninstall = "removed")
  OBVIOUS
<1>6. PICK v : v = FinishRemoval(w, removed)
  OBVIOUS
<1>7. /\ Commit(v) /\ owed' = owed \cup RolledBack(v)
      /\ touched' = touched \cup RolledBack(v)
  <2>1. v = FinishRemoval(World, uninstall = "removed")
    BY <1>4, <1>5, <1>6
  <2> QED
    BY <2>1 DEF ThemeUninstalled
<1>8. RolledBack(v) = Restored(w, v) /\ RolledBack(v) \subseteq Fields
  BY <1>2, <1>4, ThemeFacts DEF RolledBack, Restored
<1>9. Rolls(w, v, done, known, owed, touched)
  BY <1>2, <1>4, <1>6, FinishRemovalIsSound
<1>10. Steps(w, v, done', known, owed', touched')
  BY <1>1, <1>7, <1>8, <1>9 DEF Rolls
<1>11. /\ w.app = app /\ w.uninstall = uninstall
       /\ w.held = Len(done') + others'
       /\ done' \in Seq(Results) /\ others' \in Nat
       /\ owed' \subseteq Fields /\ touched' \subseteq Fields
  BY <1>1, <1>2, <1>3, <1>4, <1>7, <1>8
<1> QED
  BY <1>1, <1>7, <1>10, <1>11, SteppedStep

(* The oldest completion is taken from the queue. *)
LEMMA TakenIsSound ==
  ASSUME IInv, mode = "on", done # <<>>
  PROVE  /\ Sound(Taken, Tail(done), known, owed, touched)
         /\ Taken.app = app /\ Taken.jobs = jobs /\ Taken.saved = saved
         /\ Taken.uninstall = uninstall
         /\ Taken.held = Len(Tail(done)) + others
         /\ Tail(done) \in Seq(Results) /\ Head(done) \in Results
         /\ others \in Nat
         /\ Head(done).kind = "save" => /\ OfReceipt(Head(done), app)
                                        /\ Head(done).ok = saved
                                        /\ NoSave(jobs)
                                        /\ NoSave(Tail(done))
         /\ Head(done).kind = "reload" => Overtaken(Head(done), app)
<1>1. /\ Sound(World, done, known, owed, touched) /\ World.app = app
      /\ World.jobs = jobs /\ World.saved = saved /\ World.asked = asked
      /\ World.uninstall = uninstall /\ World.held = Len(done) + others
      /\ done \in Seq(Results) /\ Len(done) \in Nat /\ others \in Nat
  BY WorldIsSound
<1>2. /\ World \in Worlds /\ WorldOK(World, done, known, owed, touched)
      /\ Fits(World) /\ AskedOK(asked) /\ jobs \in Seq(Jobs)
      /\ Len(jobs) \in Nat
  BY <1>1, WorldFields DEF Sound
<1>3. /\ AppOK(app, saved, known, owed, touched)
      /\ JobsOK(jobs, done, app, saved) /\ DoneOK(done, app, saved)
  BY <1>1, <1>2 DEF WorldOK
<1>4. PICK rest : rest = Tail(done)
  OBVIOUS
<1>5. /\ rest \in Seq(Results) /\ Head(done) \in Results
      /\ Len(done) > 0 /\ Head(done) = done[1]
      /\ Len(rest) = Len(done) - 1 /\ Len(rest) \in Nat
      /\ \A i \in 1..Len(rest) : /\ i + 1 \in 1..Len(done) /\ i + 1 # 1
                                 /\ rest[i] = done[i + 1]
  <2>1. Len(rest) \in Nat
    BY <1>1, <1>4, TailIndex
  <2> QED
    BY <1>1, <1>4, <2>1, TailIndex
<1>6. 1 \in 1..Len(done)
  BY <1>1, <1>5
<1>7. DoneOK(rest, app, saved)
  <2>1. SavesOnce(rest)
    <3> SUFFICES ASSUME NEW i \in 1..Len(rest), NEW j \in 1..Len(rest),
                        rest[i].kind = "save", rest[j].kind = "save"
                 PROVE  i = j
      BY DEF SavesOnce
    <3>1. i + 1 \in 1..Len(done) /\ j + 1 \in 1..Len(done)
            /\ done[i + 1].kind = "save" /\ done[j + 1].kind = "save"
      BY <1>5
    <3>2. i + 1 = j + 1
      BY <1>3, <3>1 DEF DoneOK, SavesOnce
    <3> QED
      BY <1>5, <3>2
  <2> QED
    BY <1>3, <1>5, <2>1 DEF DoneOK
<1>8. JobsOK(jobs, rest, app, saved)
  <2>1. NoSave(done) => NoSave(rest)
    BY <1>5 DEF NoSave
  <2> QED
    BY <1>3, <2>1 DEF JobsOK
<1>9. /\ Head(done).kind = "save" => /\ OfReceipt(Head(done), app)
                                     /\ Head(done).ok = saved
      /\ Head(done).kind = "reload" => Overtaken(Head(done), app)
  BY <1>3, <1>5, <1>6 DEF DoneOK
<1>10. ASSUME Head(done).kind = "save"
       PROVE  NoSave(jobs) /\ NoSave(rest)
  <2>1. ~NoSave(done)
    BY <1>5, <1>6, <1>10 DEF NoSave
  <2>2. NoSave(jobs)
    BY <1>1, <1>2, <1>3, <2>1, ItemKinds DEF JobsOK, NoSave
  <2>3. NoSave(rest)
    <3> SUFFICES ASSUME NEW i \in 1..Len(rest)
                 PROVE  rest[i].kind = "reload"
      BY DEF NoSave
    <3>1. i + 1 \in 1..Len(done) /\ i + 1 # 1 /\ rest[i] = done[i + 1]
      BY <1>5
    <3>2. done[i + 1].kind # "save"
      BY <1>3, <1>5, <1>6, <1>10, <3>1 DEF DoneOK, SavesOnce
    <3> QED
      BY <1>1, <3>1, <3>2, ItemKinds, <1>2
  <2> QED
    BY <2>2, <2>3
<1>11. PICK w : w = World
  OBVIOUS
<1>12. PICK v : v = [w EXCEPT !.held = @ - 1]
  OBVIOUS
<1>13. w.held = Len(rest) + others + 1 /\ Len(rest) + others \in Nat
  BY <1>1, <1>5, <1>11
<1>14. w.held - 1 = Len(rest) + others
  BY <1>13
<1>15. /\ v \in Worlds /\ v.app = app /\ v.jobs = jobs /\ v.saved = saved
       /\ v.asked = asked /\ v.uninstall = uninstall
       /\ v.held = Len(rest) + others
  BY <1>1, <1>2, <1>11, <1>12, <1>13, <1>14 DEF Worlds
<1>16. Fits(v)
  BY <1>1, <1>2, <1>5, <1>15, ConfigAssumption DEF Fits
<1>17. WorldOK(v, rest, known, owed, touched)
  BY <1>3, <1>7, <1>8, <1>15 DEF WorldOK
<1>18. Sound(v, rest, known, owed, touched)
  BY <1>2, <1>15, <1>16, <1>17 DEF Sound
<1>19. Taken = v
  BY <1>11, <1>12 DEF Taken
<1> QED
  BY <1>1, <1>4, <1>5, <1>9, <1>10, <1>15, <1>18, <1>19
(* v is the world in which the result of the save is acknowledged. *)
Acknowledges(w, v, result) ==
  v = [w EXCEPT !.app = Acknowledged(@, result)]

(* The completion of a save is applied.                                    *)
LEMMA AcknowledgeIsSound ==
  ASSUME NEW w, NEW dn \in Seq(Results), NEW kn, NEW ow, NEW to,
         Sound(w, dn, kn, ow, to), NEW result, NEW v,
         OfReceipt(result, w.app), result.ok = w.saved,
         NoSave(w.jobs), NoSave(dn), Acknowledges(w, v, result)
  PROVE  Rests(w, v, dn, kn, ow, to)
<1> DEFINE a == w.app
<1>1. w \in Worlds /\ WorldOK(w, dn, kn, ow, to) /\ Fits(w)
        /\ AskedOK(w.asked)
  BY DEF Sound
<1>2. a \in Apps /\ w.jobs \in Seq(Jobs) /\ w.saved \in BOOLEAN
  BY <1>1, WorldFields
<1>3. PICK b : b = Acknowledged(a, result)
  OBVIOUS
<1>4. /\ b \in Apps /\ AppOK(b, w.saved, kn, ow, to)
      /\ b.epoch = a.epoch /\ b.revision = a.revision
  BY <1>1, <1>2, <1>3, SettledIsOK DEF WorldOK
<1>5. v = [w EXCEPT !.app = b]
  BY <1>3 DEF Acknowledges
<1>6. /\ v \in Worlds /\ v.app = b /\ v.jobs = w.jobs /\ v.saved = w.saved
      /\ v.asked = w.asked /\ v.held = w.held /\ v.uninstall = w.uninstall
  BY <1>1, <1>4, <1>5 DEF Worlds
<1>7. Pending(a)
  BY DEF OfReceipt, Pending
<1>8. \A item : Overtaken(item, a) => Overtaken(item, b)
  BY <1>4, <1>7 DEF Overtaken
<1>9. /\ \A i \in 1..Len(w.jobs) : Overtaken(w.jobs[i], b)
      /\ \A i \in 1..Len(dn) : Overtaken(dn[i], b)
  BY <1>1, <1>8 DEF WorldOK, JobsOK, DoneOK, NoSave
<1>10. JobsOK(w.jobs, dn, b, w.saved) /\ DoneOK(dn, b, w.saved)
  BY <1>9, OnlyReloads
<1> QED
  BY <1>1, <1>4, <1>6, <1>10 DEF Sound, WorldOK, Fits, Rests

(* The event loop takes the completion of a save, or of a reload.          *)
LEMMA ApplySaveStep ==
  ASSUME IInv, ApplySave
  PROVE  IInv' /\ Right
<1>1. /\ mode = "on" /\ mode' = mode /\ disk' = disk /\ done # <<>>
      /\ done' = Tail(done) /\ others' = others /\ known' = known
      /\ Head(done).kind = "save"
  BY DEF ApplySave
<1>2. /\ Sound(Taken, Tail(done), known, owed, touched)
      /\ Taken.app = app /\ Taken.jobs = jobs /\ Taken.saved = saved
      /\ Taken.uninstall = uninstall
      /\ Taken.held = Len(Tail(done)) + others
      /\ Tail(done) \in Seq(Results) /\ Head(done) \in Results
      /\ others \in Nat /\ OfReceipt(Head(done), app)
      /\ Head(done).ok = saved /\ NoSave(jobs) /\ NoSave(Tail(done))
  BY <1>1, TakenIsSound
<1>3. owed \subseteq Fields /\ touched \subseteq Fields
      /\ saved \in BOOLEAN
  BY DEF IInv, Typed
<1>4. PICK w : w = Taken
  OBVIOUS
<1>5. PICK rest : rest = Tail(done)
  OBVIOUS
<1>6. PICK result : result = Head(done)
  OBVIOUS
<1>7. PICK u : Acknowledges(w, u, result)
  BY DEF Acknowledges
<1>8. PICK settled : settled = Schedule(u)
  OBVIOUS
<1>9. PICK flushed : flushed = FlushReloads(settled, result.ok)
  OBVIOUS
<1>10. PICK v : v = FlushRemovals(flushed, result.ok)
  OBVIOUS
<1>11. /\ Commit(v) /\ owed' = owed \cup RolledBack(v)
       /\ touched' = touched \cup RolledBack(v)
  <2>1. settled = Schedule([Taken EXCEPT
                              !.app = Acknowledged(@, Head(done))])
    BY <1>4, <1>6, <1>7, <1>8 DEF Acknowledges
  <2>2. v = FlushRemovals(FlushReloads(settled, Head(done).ok),
                          Head(done).ok)
    BY <1>6, <1>9, <1>10
  <2> QED
    BY <2>1, <2>2 DEF ApplySave
<1>12. rest \in Seq(Results) /\ Sound(w, rest, known, owed, touched)
         /\ result.ok = saved
  BY <1>2, <1>4, <1>5, <1>6
<1>13. Rests(w, u, rest, known, owed, touched)
  <2>1. /\ OfReceipt(result, w.app) /\ result.ok = w.saved
        /\ NoSave(w.jobs) /\ NoSave(rest)
    BY <1>2, <1>4, <1>5, <1>6
  <2> QED
    BY <1>7, <1>12, <2>1, AcknowledgeIsSound
<1>14. /\ Sound(settled, rest, known, owed, touched)
       /\ settled.held = u.held /\ settled.uninstall = u.uninstall
       /\ settled.app.epoch = u.app.epoch
       /\ settled.app.revision = u.app.revision
  BY <1>8, <1>12, <1>13, ScheduleIsSound DEF Rests
<1>15. /\ Sound(flushed, rest, known, owed, touched)
       /\ SameSettings(settled.app, flushed.app)
       /\ flushed.held = settled.held
       /\ flushed.uninstall = settled.uninstall
  BY <1>3, <1>9, <1>12, <1>14, FlushReloadsIsSound
<1>16. Rolls(flushed, v, rest, known, owed, touched)
  BY <1>3, <1>10, <1>12, <1>15, FlushRemovalsIsSound
<1>17. /\ flushed.app.revision = app.revision
       /\ flushed.app.epoch = app.epoch
       /\ flushed.held = w.held /\ flushed.uninstall = uninstall
  BY <1>2, <1>4, <1>13, <1>14, <1>15 DEF Rests, SameSettings
<1>18. RolledBack(v) = Restored(flushed, v) /\ RolledBack(v) \subseteq Fields
  BY <1>17, ThemeFacts DEF RolledBack, Restored
<1>19. Steps(flushed, v, rest, known, owed', touched')
  BY <1>11, <1>16, <1>18 DEF Rolls
<1>20. Steps(w, v, done', known, owed', touched')
  <2>1. w.app.epoch = app.epoch /\ w.uninstall = uninstall
    BY <1>2, <1>4
  <2> QED
    BY <1>1, <1>5, <1>17, <1>19, <2>1 DEF Steps, SafeStart
<1>21. /\ w.app = app /\ w.uninstall = uninstall
       /\ w.held = Len(done') + others'
       /\ done' \in Seq(Results) /\ others' \in Nat
       /\ owed' \subseteq Fields /\ touched' \subseteq Fields
  BY <1>1, <1>2, <1>3, <1>4, <1>11, <1>18
<1> QED
  BY <1>1, <1>11, <1>20, <1>21, SteppedStep

LEMMA ApplyReloadStep ==
  ASSUME IInv, ApplyReload
  PROVE  IInv' /\ Right
<1>1. /\ mode = "on" /\ mode' = mode /\ disk' = disk /\ done # <<>>
      /\ done' = Tail(done) /\ others' = others
      /\ Head(done).kind = "reload"
  BY DEF ApplyReload
<1>2. /\ Sound(Taken, Tail(done), known, owed, touched)
      /\ Taken.app = app /\ Taken.uninstall = uninstall
      /\ Taken.held = Len(Tail(done)) + others
      /\ Tail(done) \in Seq(Results) /\ Head(done) \in Results
      /\ others \in Nat /\ Overtaken(Head(done), app)
  BY <1>1, TakenIsSound
<1>3. /\ known \in Configs /\ owed \subseteq Fields
      /\ touched \subseteq Fields
  BY DEF IInv, Typed
<1>4. PICK w : w = Taken
  OBVIOUS
<1>5. PICK result : result = Head(done)
  OBVIOUS
<1>6. result \in ReloadResults
  BY <1>1, <1>2, <1>5, JobKinds
<1>7. PICK config : config = result.config
  OBVIOUS
<1>8. PICK ids : ids = result.ids
  OBVIOUS
<1>9. config \in Configs
  BY <1>6, <1>7 DEF ReloadResults
<1>10. /\ Sound(w, done', known, owed, touched) /\ w.app = app
       /\ w.uninstall = uninstall /\ w.held = Len(done') + others'
       /\ done' \in Seq(Results) /\ others' \in Nat
  BY <1>1, <1>2, <1>4
<1>11. \/ Commit(Answer(Taken, result.ids)) /\ UNCHANGED history
       \/ /\ result.revision = app.revision
          /\ TakeReload(Taken, result.config, result.ids)
  BY <1>5 DEF ApplyReload
<1>12. CASE Commit(Answer(Taken, result.ids)) /\ UNCHANGED history
  <2>1. PICK v : v = Answer(w, ids)
    OBVIOUS
  <2>2. /\ Sound(v, done', known, owed, touched) /\ v.held = w.held
        /\ v.uninstall = w.uninstall /\ v.app = w.app
    BY <1>10, <2>1, AnswerIsSound
  <2>3. Commit(v)
    BY <1>4, <1>8, <1>12, <2>1
  <2>4. /\ known' = known /\ owed' = owed /\ touched' = touched
    BY <1>12 DEF history
  <2>5. Steps(w, v, done', known, owed', touched')
    BY <2>2, <2>4 DEF Steps, SafeStart
  <2> QED
    BY <1>1, <1>3, <1>10, <2>3, <2>4, <2>5, SteppedStep
<1>13. CASE /\ result.revision = app.revision
            /\ TakeReload(Taken, result.config, result.ids)
  <2>1. ~Pending(app)
    BY <1>2, <1>5, <1>13 DEF Overtaken
  <2>2. TakeReload(w, config, ids)
    BY <1>4, <1>7, <1>8, <1>13
  <2> QED
    BY <1>1, <1>9, <1>10, <2>1, <2>2, TakeReloadStep
<1> QED
  BY <1>11, <1>12, <1>13
-----------------------------------------------------------------------------
(* The worker. *)

(* While a server runs its settings satisfy the invariant.                 *)
LEMMA NowOK ==
  ASSUME IInv, mode # "off"
  PROVE  /\ app \in Apps /\ jobs \in Seq(Jobs) /\ done \in Seq(Results)
         /\ AppOK(app, saved, known, owed, touched)
         /\ JobsOK(jobs, done, app, saved) /\ DoneOK(done, app, saved)
<1>1. WorldOK(World, done, known, owed, touched)
  BY DEF IInv
<1> QED
  BY <1>1 DEF WorldOK, World, IInv, Typed

(* The worker takes the oldest job. *)
LEMMA JobIsSound ==
  ASSUME IInv, jobs # <<>>
  PROVE  /\ mode # "off"
         /\ Tail(jobs) \in Seq(Jobs) /\ Head(jobs) \in Jobs
         /\ Len(Tail(jobs)) = Len(jobs) - 1 /\ Len(jobs) \in Nat
         /\ JobsOK(Tail(jobs), done, app, saved)
         /\ Head(jobs).kind = "save" => /\ OfReceipt(Head(jobs), app)
                                        /\ ~saved /\ NoSave(done)
                                        /\ Head(jobs).base = app.baseline
                                        /\ NoSave(Tail(jobs))
         /\ Head(jobs).kind = "reload" => Overtaken(Head(jobs), app)
<1>1. mode # "off"
  BY DEF IInv
<1>2. /\ jobs \in Seq(Jobs) /\ done \in Seq(Results)
      /\ JobsOK(jobs, done, app, saved)
  BY <1>1, NowOK
<1>3. PICK rest : rest = Tail(jobs)
  OBVIOUS
<1>4. /\ rest \in Seq(Jobs) /\ Head(jobs) \in Jobs
      /\ Len(jobs) \in Nat /\ Len(jobs) > 0 /\ Head(jobs) = jobs[1]
      /\ Len(rest) = Len(jobs) - 1
      /\ \A i \in 1..Len(rest) : /\ i + 1 \in 1..Len(jobs) /\ i + 1 # 1
                                 /\ rest[i] = jobs[i + 1]
  BY <1>2, <1>3, TailIndex
<1>5. 1 \in 1..Len(jobs)
  BY <1>4
<1>6. JobsOK(rest, done, app, saved)
  <2>1. SavesOnce(rest)
    <3> SUFFICES ASSUME NEW i \in 1..Len(rest), NEW j \in 1..Len(rest),
                        rest[i].kind = "save", rest[j].kind = "save"
                 PROVE  i = j
      BY DEF SavesOnce
    <3>1. i + 1 \in 1..Len(jobs) /\ j + 1 \in 1..Len(jobs)
            /\ jobs[i + 1].kind = "save" /\ jobs[j + 1].kind = "save"
      BY <1>4
    <3>2. i + 1 = j + 1
      BY <1>2, <3>1 DEF JobsOK, SavesOnce
    <3> QED
      BY <1>4, <3>2
  <2> QED
    BY <1>2, <1>4, <2>1 DEF JobsOK
<1>7. ASSUME Head(jobs).kind = "save"
      PROVE  NoSave(rest)
  <2> SUFFICES ASSUME NEW i \in 1..Len(rest)
               PROVE  rest[i].kind = "reload"
    BY DEF NoSave
  <2>1. i + 1 \in 1..Len(jobs) /\ i + 1 # 1 /\ rest[i] = jobs[i + 1]
    BY <1>4
  <2>2. jobs[i + 1].kind # "save"
    BY <1>2, <1>4, <1>5, <1>7, <2>1 DEF JobsOK, SavesOnce
  <2> QED
    BY <1>2, <2>1, <2>2, ItemKinds
<1> QED
  BY <1>1, <1>2, <1>3, <1>4, <1>5, <1>6, <1>7 DEF JobsOK

(* It has done the job and put the result behind the others. *)
LEMMA WorkerStep ==
  ASSUME IInv, jobs # <<>>, mode' = mode, app' = app, asked' = asked,
         uninstall' = uninstall, others' = others, final' = final,
         jobs' = Tail(jobs), NEW result \in Results,
         done' = Append(done, result), saved' \in BOOLEAN,
         disk' \in Configs, known' \in Configs,
         owed' \subseteq Fields, touched' \subseteq Fields,
         AppOK(app, saved', known', owed', touched'),
         JobsOK(Tail(jobs), done', app, saved'), DoneOK(done', app, saved'),
         OwnFields
  PROVE  IInv' /\ Right
<1>1. /\ mode # "off" /\ Tail(jobs) \in Seq(Jobs)
      /\ Len(Tail(jobs)) = Len(jobs) - 1 /\ Len(jobs) \in Nat
  BY JobIsSound
<1>2. /\ app \in Apps /\ done \in Seq(Results) /\ others \in Nat
      /\ Len(jobs) + Len(done) + others <= MaxJobs
  BY DEF IInv, Typed
<1>3. /\ done' \in Seq(Results) /\ Len(done') = Len(done) + 1
      /\ Len(done) \in Nat
  BY <1>2, AppendIndex
<1>4. Len(jobs') + Len(done') + others' <= MaxJobs
  BY <1>1, <1>2, <1>3, ConfigAssumption
<1>5. Typed'
  BY <1>1, <1>3, <1>4 DEF Typed, IInv
<1>6. WorldOK(World, done, known, owed, touched)'
  BY DEF WorldOK, World
<1>7. FinalOK => FinalOK'
  BY DEF FinalOK
<1>8. IInv'
  BY <1>1, <1>5, <1>6, <1>7 DEF IInv
<1>9. app.epoch \in Nat
  BY <1>2, AppFields
<1>10. KeepsUnsaved /\ AfterSave
  BY <1>9, NotGreater DEF KeepsUnsaved, AfterSave
<1> QED
  BY <1>8, <1>10 DEF Right

(* A patch changes what it contains. *)
LEMMA OverChanges ==
  ASSUME NEW patch \in Patches, NEW config \in Configs, NEW S,
         DOMAIN patch \subseteq Reach(S)
  PROVE  \A f \in Fields : Over(patch, config)[f] # config[f] =>
           f \in S \/ (f \in Preferences /\ S \cap Preferences # {})
<1>1. \A f \in Fields : Over(patch, config)[f] # config[f]
                        => f \in DOMAIN patch
  BY OverIsConfig
<1> QED
  BY <1>1 DEF Reach

(* The worker writes a save to the file.                                   *)
LEMMA WriteSaveStep ==
  ASSUME IInv, WriteSave
  PROVE  IInv' /\ Right
<1>1. PICK job : job = Head(jobs)
  OBVIOUS
<1>2. PICK written : written = Written(job.base, job.desired, job.explicit)
  OBVIOUS
<1>3. PICK ok \in BOOLEAN :
        /\ \/ ok /\ Land(written, app.fresh, app.named)
           \/ ~ok /\ UNCHANGED <<disk, history>>
        /\ saved' = ok
        /\ done' = Append(done, [kind |-> "save", ok |-> ok,
                                 desired |-> job.desired,
                                 explicit |-> job.explicit,
                                 epoch |-> job.epoch])
  BY <1>1, <1>2 DEF WriteSave, Miss
<1>4. PICK result : result = [kind |-> "save", ok |-> ok,
                              desired |-> job.desired,
                              explicit |-> job.explicit,
                              epoch |-> job.epoch]
  OBVIOUS
<1>5. /\ jobs # <<>> /\ job.kind = "save" /\ jobs' = Tail(jobs)
      /\ mode' = mode /\ app' = app /\ asked' = asked
      /\ uninstall' = uninstall /\ others' = others /\ final' = final
      /\ done' = Append(done, result)
  BY <1>1, <1>3, <1>4 DEF WriteSave, idle
<1>6. /\ mode # "off" /\ job \in Jobs /\ OfReceipt(job, app) /\ ~saved
      /\ NoSave(done) /\ job.base = app.baseline /\ NoSave(Tail(jobs))
      /\ JobsOK(Tail(jobs), done, app, saved)
  BY <1>1, <1>5, JobIsSound
<1>7. /\ app \in Apps /\ done \in Seq(Results)
      /\ AppOK(app, saved, known, owed, touched)
      /\ DoneOK(done, app, saved)
  BY <1>6, NowOK
<1>8. /\ disk \in Configs /\ known \in Configs /\ saved \in BOOLEAN
      /\ owed \subseteq Fields /\ touched \subseteq Fields
  BY DEF IInv, Typed
<1>9. job \in SaveJobs
  BY <1>5, <1>6, JobKinds
<1>10. result \in Results
  <2>1. result \in SaveResults
    BY <1>4, <1>9 DEF SaveJobs, SaveResults
  <2> QED
    BY <2>1 DEF Results
<1>11. OfReceipt(result, app) /\ result.ok = ok /\ result.kind = "save"
  BY <1>4, <1>6 DEF OfReceipt
<1>12. /\ AppOK(app, saved', known', owed', touched')
       /\ disk' \in Configs /\ known' \in Configs
       /\ owed' \subseteq Fields /\ touched' \subseteq Fields
       /\ OwnFields
  <2>1. CASE ok
    <3>1. /\ disk' = Over(written, disk) /\ known' = Over(written, known)
          /\ owed' = owed \ (DOMAIN written \ app.named)
          /\ touched' = touched \ (DOMAIN written \ app.fresh)
      BY <1>3, <2>1 DEF Land
    <3>2. written = Written(app.baseline, app.receipt.desired,
                            app.receipt.explicit)
      BY <1>2, <1>6 DEF OfReceipt
    <3>3. AppOK(app, FALSE, known, owed, touched) /\ app.inflight
      <4>1. saved = FALSE
        BY <1>6, <1>8
      <4> QED
        BY <1>6, <1>7, <4>1 DEF OfReceipt
    <3>4. /\ AppOK(app, TRUE, Over(written, known),
                   owed \ (DOMAIN written \ app.named),
                   touched \ (DOMAIN written \ app.fresh))
          /\ written \in Patches /\ DOMAIN written \subseteq Reach(touched)
      BY <1>7, <3>2, <3>3, LandedIsOK
    <3>5. saved' = TRUE
      BY <1>3, <2>1
    <3>6. disk' \in Configs /\ known' \in Configs
      BY <1>8, <3>1, <3>4, OverIsConfig
    <3>7. OwnFields
      BY <1>8, <3>1, <3>4, OverChanges DEF OwnFields
    <3> QED
      BY <1>8, <3>1, <3>4, <3>5, <3>6, <3>7
  <2>2. CASE ~ok
    <3>1. /\ disk' = disk /\ known' = known /\ owed' = owed
          /\ touched' = touched /\ saved' = saved
      BY <1>3, <1>6, <1>8, <2>2 DEF history
    <3>2. OwnFields
      BY <3>1 DEF OwnFields
    <3> QED
      BY <1>7, <1>8, <3>1, <3>2
  <2> QED
    BY <2>1, <2>2
<1>13. /\ Len(done') = Len(done) + 1
       /\ \A i \in 1..Len(done') :
            \/ i \in 1..Len(done) /\ done'[i] = done[i]
            \/ i = Len(done) + 1 /\ done'[i] = result
  BY <1>5, <1>7, <1>10, AppendIndex
<1>14. DoneOK(done', app, saved')
  <2>1. \A i \in 1..Len(done') :
          /\ done'[i].kind = "save" => /\ i = Len(done) + 1
                                       /\ done'[i] = result
          /\ done'[i].kind = "reload" => Overtaken(done'[i], app)
    <3> SUFFICES ASSUME NEW i \in 1..Len(done')
                 PROVE  /\ done'[i].kind = "save" =>
                             i = Len(done) + 1 /\ done'[i] = result
                        /\ done'[i].kind = "reload" =>
                             Overtaken(done'[i], app)
      OBVIOUS
    <3>1. CASE i \in 1..Len(done) /\ done'[i] = done[i]
      BY <1>6, <1>7, <3>1 DEF NoSave, DoneOK
    <3>2. CASE i = Len(done) + 1 /\ done'[i] = result
      BY <1>11, <3>2
    <3> QED
      BY <1>13, <3>1, <3>2
  <2> QED
    BY <1>3, <1>11, <2>1 DEF DoneOK, SavesOnce
<1>15. JobsOK(Tail(jobs), done', app, saved')
  BY <1>6 DEF JobsOK, NoSave
<1>16. saved' \in BOOLEAN
  BY <1>3
<1> QED
  BY <1>5, <1>10, <1>12, <1>14, <1>15, <1>16, WorkerStep

(* It reads the file for a reload.                                         *)
LEMMA ReadReloadStep ==
  ASSUME IInv, ReadReload
  PROVE  IInv' /\ Right
<1>1. PICK job : job = Head(jobs)
  OBVIOUS
<1>2. PICK ok \in BOOLEAN :
        done' = Append(done, [kind |-> "reload", ok |-> ok, config |-> disk,
                              ids |-> job.ids, revision |-> job.revision])
  BY <1>1 DEF ReadReload
<1>3. PICK result : result = [kind |-> "reload", ok |-> ok,
                              config |-> disk, ids |-> job.ids,
                              revision |-> job.revision]
  OBVIOUS
<1>4. /\ jobs # <<>> /\ job.kind = "reload" /\ jobs' = Tail(jobs)
      /\ mode' = mode /\ app' = app /\ asked' = asked
      /\ uninstall' = uninstall /\ others' = others /\ final' = final
      /\ saved' = saved /\ disk' = disk /\ known' = known
      /\ owed' = owed /\ touched' = touched
      /\ done' = Append(done, result)
  BY <1>1, <1>2, <1>3 DEF ReadReload, Miss, idle, history
<1>5. /\ mode # "off" /\ job \in Jobs /\ Overtaken(job, app)
      /\ JobsOK(Tail(jobs), done, app, saved)
  BY <1>1, <1>4, JobIsSound
<1>6. /\ app \in Apps /\ done \in Seq(Results)
      /\ AppOK(app, saved, known, owed, touched)
      /\ DoneOK(done, app, saved)
  BY <1>5, NowOK
<1>7. /\ disk \in Configs /\ known \in Configs /\ saved \in BOOLEAN
      /\ owed \subseteq Fields /\ touched \subseteq Fields
  BY DEF IInv, Typed
<1>8. job \in ReloadJobs
  BY <1>4, <1>5, JobKinds
<1>9. result \in Results
  <2>1. result \in ReloadResults
    BY <1>3, <1>7, <1>8 DEF ReloadJobs, ReloadResults
  <2> QED
    BY <2>1 DEF Results
<1>10. Overtaken(result, app) /\ result.kind = "reload"
  BY <1>3, <1>5 DEF Overtaken
<1>11. /\ Len(done') = Len(done) + 1 /\ Len(done) \in Nat
       /\ \A i \in 1..Len(done') :
            \/ i \in 1..Len(done) /\ done'[i] = done[i]
            \/ i = Len(done) + 1 /\ done'[i] = result
  BY <1>4, <1>6, <1>9, AppendIndex
<1>12. DoneOK(done', app, saved)
  <2>1. SavesOnce(done')
    BY <1>6, <1>10, <1>11 DEF DoneOK, SavesOnce
  <2>2. \A i \in 1..Len(done') :
          /\ done'[i].kind = "save" => /\ OfReceipt(done'[i], app)
                                       /\ done'[i].ok = saved
          /\ done'[i].kind = "reload" => Overtaken(done'[i], app)
    BY <1>6, <1>10, <1>11 DEF DoneOK
  <2> QED
    BY <2>1, <2>2 DEF DoneOK
<1>13. NoSave(done) => NoSave(done')
  BY <1>10, <1>11 DEF NoSave
<1>14. JobsOK(Tail(jobs), done', app, saved)
  BY <1>5, <1>13 DEF JobsOK
<1>15. OwnFields
  BY <1>4 DEF OwnFields
<1> QED
  BY <1>4, <1>6, <1>7, <1>9, <1>12, <1>14, <1>15, WorkerStep
-----------------------------------------------------------------------------
(* Other features, other servers, shutdown and restart. *)

(* Nothing of the settings changes here. *)
LEMMA FrameStep ==
  ASSUME IInv, mode' = mode, app' = app, jobs' = jobs, saved' = saved,
         done' = done, asked' = asked, final' = final, known' = known,
         owed' = owed, touched' = touched, disk' \in Configs,
         uninstall' \in Removals,
         uninstall' = "running" => uninstall = "running",
         others' \in Nat, Len(jobs) + Len(done) + others' <= MaxJobs
  PROVE  IInv' /\ Right
<1>1. Typed'
  BY DEF Typed, IInv
<1>2. WorldOK(World, done, known, owed, touched)
        => WorldOK(World, done, known, owed, touched)'
  BY DEF WorldOK, World
<1>3. FinalOK => FinalOK'
  BY DEF FinalOK
<1>4. IInv'
  BY <1>1, <1>2, <1>3 DEF IInv
<1>5. app.epoch \in Nat
  BY AppFields DEF IInv, Typed
<1>6. OwnFields /\ KeepsUnsaved /\ AfterSave
  BY <1>5, NotGreater DEF OwnFields, KeepsUnsaved, AfterSave
<1> QED
  BY <1>4, <1>6 DEF Right

(* Steps of threads and processes around the settings.                     *)
LEMMA UninstallStep ==
  ASSUME IInv, Uninstall
  PROVE  IInv' /\ Right
<1>1. uninstall' \in {"removed", "refused"}
  BY DEF Uninstall
<1>2. uninstall' \in Removals /\ uninstall' # "running"
  BY <1>1 DEF Removals
<1> QED
  BY <1>2, FrameStep DEF Uninstall, history, IInv, Typed

LEMMA OthersStep ==
  ASSUME IInv, OthersTake \/ OthersRelease
  PROVE  IInv' /\ Right
<1>1. /\ others \in Nat /\ uninstall \in Removals /\ disk \in Configs
      /\ Len(jobs) + Len(done) + others <= MaxJobs
      /\ jobs \in Seq(Jobs) /\ done \in Seq(Results)
  BY DEF IInv, Typed
<1>2. Len(jobs) \in Nat /\ Len(done) \in Nat /\ MaxJobs \in Nat
  BY <1>1, ConfigAssumption
<1>3. /\ mode' = mode /\ app' = app /\ jobs' = jobs /\ saved' = saved
      /\ done' = done /\ asked' = asked /\ final' = final
      /\ known' = known /\ owed' = owed /\ touched' = touched
      /\ disk' = disk /\ uninstall' = uninstall
  BY DEF OthersTake, OthersRelease, memory, history
<1>4. others' \in Nat /\ Len(jobs) + Len(done) + others' <= MaxJobs
  <2>1. CASE OthersTake
    <3>1. Len(jobs) + (Len(done) + others) < MaxJobs
      BY <2>1 DEF OthersTake, HasPermit, World
    <3>2. others' = others + 1
      BY <2>1 DEF OthersTake
    <3> QED
      BY <1>1, <1>2, <3>1, <3>2
  <2>2. CASE OthersRelease
    <3>1. others' = others - 1 /\ others > 0
      BY <2>2 DEF OthersRelease
    <3> QED
      BY <1>1, <1>2, <3>1
  <2> QED
    BY <2>1, <2>2
<1> QED
  BY <1>1, <1>3, <1>4, FrameStep

LEMMA ElsewhereStep ==
  ASSUME IInv, NEW f \in Fields, NEW v \in Values, Elsewhere(f, v)
  PROVE  IInv' /\ Right
<1>1. /\ mode' = mode /\ app' = app /\ jobs' = jobs /\ saved' = saved
      /\ done' = done /\ asked' = asked /\ final' = final
      /\ known' = known /\ owed' = owed /\ touched' = touched
      /\ others' = others /\ uninstall' = uninstall
      /\ disk' = [disk EXCEPT ![f] = v]
  BY DEF Elsewhere, memory, history
<1>2. disk \in Configs /\ uninstall \in Removals /\ others \in Nat
        /\ Len(jobs) + Len(done) + others <= MaxJobs
  BY DEF IInv, Typed
<1>3. disk' \in Configs
  BY <1>1, <1>2 DEF Configs
<1> QED
  BY <1>1, <1>2, <1>3, FrameStep

(* A step that keeps the file and the settings, or restarts them.          *)
LEMMA RightWithoutWrite ==
  ASSUME IInv, disk' = disk, app' = app \/ app'.epoch = 0,
         uninstall' = "running" => uninstall = "running"
  PROVE  Right
<1>1. app.epoch \in Nat
  BY AppFields DEF IInv, Typed
<1>2. ~(app.epoch > app.epoch) /\ ~(0 > app.epoch)
  BY <1>1
<1>3. KeepsUnsaved
  BY <1>2 DEF KeepsUnsaved
<1> QED
  BY <1>3 DEF Right, OwnFields, AfterSave

(* The end of a server.                                                    *)
LEMMA StopStep ==
  ASSUME IInv, Stop
  PROVE  IInv' /\ Right
<1>1. /\ mode = "on" /\ mode' = "closing" /\ app' = app /\ jobs' = jobs
      /\ saved' = saved /\ done' = done /\ asked' = asked
      /\ known' = known /\ owed' = owed /\ touched' = touched
      /\ others' = others /\ uninstall' = uninstall /\ disk' = disk
  BY DEF Stop, memory, history
<1>2. Typed'
  BY <1>1 DEF IInv, Typed
<1>3. WorldOK(World, done, known, owed, touched)
  BY <1>1 DEF IInv
<1>4. WorldOK(World, done, known, owed, touched)'
  BY <1>1, <1>3 DEF WorldOK, World
<1>5. FinalOK'
  BY <1>1 DEF Stop, FinalOK
<1>6. IInv'
  BY <1>1, <1>2, <1>4, <1>5 DEF IInv
<1> QED
  BY <1>1, <1>6, RightWithoutWrite

LEMMA FinalWriteStep ==
  ASSUME IInv, FinalWrite
  PROVE  IInv' /\ Right
<1>1. /\ mode = "closing" /\ mode' = "off" /\ jobs = <<>> /\ jobs' = jobs
      /\ app' = app /\ saved' = saved /\ asked' = asked
      /\ uninstall' = uninstall /\ done' = done /\ others' = others
  BY DEF FinalWrite, memory
<1>2. PICK ok \in BOOLEAN :
        /\ \/ ok /\ Land(FinalWritten, {}, {})
           \/ ~ok /\ UNCHANGED <<disk, history>>
        /\ final' = [final EXCEPT !.ok = ok]
  BY DEF FinalWrite, Miss
<1>3. /\ app \in Apps /\ AppOK(app, saved, known, owed, touched)
      /\ saved \in BOOLEAN /\ disk \in Configs /\ known \in Configs
      /\ owed \subseteq Fields /\ touched \subseteq Fields
  BY <1>1, NowOK DEF IInv, Typed
<1>4. FinalOK
  BY <1>1 DEF IInv
<1>5. PICK failed : failed = Over(app.explicit,
                                  Refresh(app.receipt.explicit,
                                          app.receipt.desired, app.config))
  OBVIOUS
<1>6. PICK written : written = FinalWritten
  OBVIOUS
<1>7. written = IF app.receipt.some /\ saved
                THEN Written(app.receipt.desired, app.config, app.explicit)
                ELSE Written(app.baseline, app.config, failed)
  BY <1>4, <1>5, <1>6 DEF FinalOK, FinalWritten
<1>8. /\ written \in Patches /\ Over(written, known) = app.config
      /\ owed \subseteq DOMAIN written
      /\ DOMAIN written \subseteq Reach(touched)
  BY <1>3, <1>5, <1>7, FinalIsOK
<1>9. final'.ok = ok
  BY <1>2, <1>4 DEF FinalOK
<1>10. /\ disk' \in Configs /\ known' \in Configs
       /\ owed' \subseteq Fields /\ touched' \subseteq Fields
       /\ final'.ok => app'.config = known' /\ owed' = {}
       /\ OwnFields
  <2>1. CASE ok
    <3>1. /\ disk' = Over(written, disk) /\ known' = Over(written, known)
          /\ owed' = owed \ (DOMAIN written \ {})
          /\ touched' = touched \ (DOMAIN written \ {})
      BY <1>2, <1>6, <2>1 DEF Land
    <3>2. disk' \in Configs /\ known' \in Configs
      BY <1>3, <1>8, <3>1, OverIsConfig
    <3>3. OwnFields
      BY <1>3, <1>8, <3>1, OverChanges DEF OwnFields
    <3>4. owed' = {} /\ app'.config = known'
      BY <1>1, <1>8, <3>1
    <3> QED
      BY <1>3, <3>1, <3>2, <3>3, <3>4
  <2>2. CASE ~ok
    <3>1. /\ disk' = disk /\ known' = known /\ owed' = owed
          /\ touched' = touched
      BY <1>2, <2>2 DEF history
    <3> QED
      BY <1>3, <1>9, <2>2, <3>1 DEF OwnFields
  <2> QED
    BY <2>1, <2>2
<1>11. Typed'
  BY <1>1, <1>10 DEF IInv, Typed
<1>12. IInv'
  BY <1>1, <1>10, <1>11 DEF IInv
<1>13. app.epoch \in Nat
  BY <1>3, AppFields
<1>14. KeepsUnsaved /\ AfterSave
  BY <1>1, <1>13, NotGreater DEF KeepsUnsaved, AfterSave
<1> QED
  BY <1>10, <1>12, <1>14 DEF Right

LEMMA AbandonStep ==
  ASSUME IInv, Abandon
  PROVE  IInv' /\ Right
<1>1. /\ mode' = "off" /\ app' = app /\ jobs' = <<>>
      /\ saved' = saved /\ done' = done /\ asked' = asked
      /\ known' = known /\ owed' = owed /\ touched' = touched
      /\ others' = others /\ uninstall' = uninstall /\ disk' = disk
      /\ final' = NoFinal
  BY DEF Abandon, history
<1>2. final'.ok = FALSE
  BY <1>1 DEF NoFinal
<1>3. Len(jobs') + Len(done') + others' <= MaxJobs
  <2>1. /\ Len(jobs) \in Nat /\ Len(done) \in Nat /\ others \in Nat
        /\ Len(jobs) + Len(done) + others <= MaxJobs
    BY DEF IInv, Typed
  <2>2. Len(jobs') = 0
    BY <1>1
  <2> QED
    BY <1>1, <2>1, <2>2, ConfigAssumption
<1>4. Typed'
  BY <1>1, <1>3 DEF IInv, Typed
<1>5. IInv'
  BY <1>1, <1>2, <1>4 DEF IInv
<1> QED
  BY <1>1, <1>5, RightWithoutWrite

(* A server starts from the file with nothing pending.                     *)
LEMMA StartIsOK ==
  ASSUME NEW config \in Configs, NEW installed \in BOOLEAN
  PROVE  /\ Start(config, installed) \in Apps
         /\ AppOK(Start(config, installed), FALSE, config, {}, {})
         /\ Start(config, installed).epoch = 0
<1> DEFINE a == Start(config, installed)
<1>1. a \in Apps
  BY NoPatchIsPatch, NoReceiptIsReceipt DEF Start, Apps
<1>2. /\ a.config = config /\ a.baseline = config /\ a.dirty = FALSE
      /\ a.inflight = FALSE /\ a.explicit = NoPatch /\ a.named = {}
      /\ a.receipt = NoReceipt /\ a.epoch = 0
  BY DEF Start
<1> HIDE DEF a
<1>3. NoReceipt.some = FALSE
  BY DEF NoReceipt
<1>4. ReceiptOK(a) /\ KnownOK(a, FALSE, config)
  BY <1>2, <1>3 DEF ReceiptOK, KnownOK
<1>5. CleanOK(a)
  BY <1>2, NoPatchIsPatch DEF CleanOK, Agrees
<1>6. OwedOK(a, FALSE, {}) /\ TouchedOK(a, FALSE, {})
  BY <1>2, NoPatchIsPatch DEF OwedOK, TouchedOK, Targets
<1> QED
  BY <1>1, <1>2, <1>4, <1>5, <1>6 DEF AppOK, a

(* No request has been read when a server starts. *)
LEMMA NoRequests ==
  ASSUME NEW as,
         as = [r \in Reloads |-> [state |-> "idle", config |-> NoPatch]]
  PROVE  as \in [Reloads -> Requests] /\ AskedOK(as)
<1>1. PICK item : item = [state |-> "idle", config |-> NoPatch]
  OBVIOUS
<1>2. item \in Requests /\ item.state = "idle"
  BY <1>1 DEF Requests
<1>3. as = [r \in Reloads |-> item]
  BY <1>1
<1> QED
  BY <1>2, <1>3 DEF AskedOK

(* Empty queues need no permit.                                            *)
LEMMA NothingQueued ==
  /\ <<>> \in Seq(Jobs) /\ <<>> \in Seq(Results)
  /\ Len(<<>>) + Len(<<>>) + 0 <= MaxJobs
<1>1. MaxJobs \in Nat
  BY ConfigAssumption
<1>2. Len(<<>>) = 0
  OBVIOUS
<1>3. <<>> \in Seq(Jobs) /\ <<>> \in Seq(Results)
  OBVIOUS
<1> QED
  BY <1>1, <1>2, <1>3

LEMMA RestartStep ==
  ASSUME IInv, Restart
  PROVE  IInv' /\ Right
<1>1. /\ mode' = "on" /\ jobs' = <<>> /\ done' = <<>> /\ others' = 0
      /\ saved' = FALSE /\ uninstall' = "idle" /\ known' = disk
      /\ owed' = {} /\ touched' = {} /\ disk' = disk
      /\ asked' = [r \in Reloads |-> [state |-> "idle",
                                      config |-> NoPatch]]
  BY DEF Restart
<1>2. PICK installed \in BOOLEAN :
        app' = Start(disk, installed)
  BY DEF Restart
<1>3. disk \in Configs
  BY DEF IInv, Typed
<1>4. /\ app' \in Apps /\ AppOK(app', FALSE, disk, {}, {})
      /\ app'.epoch = 0
  BY <1>2, <1>3, StartIsOK
<1>5. asked' \in [Reloads -> Requests] /\ AskedOK(asked')
  BY <1>1, NoRequests
<1>6. Typed'
  <2>1. disk' \in Configs /\ known' \in Configs
    BY <1>1, <1>3
  <2>2. /\ jobs' \in Seq(Jobs) /\ done' \in Seq(Results) /\ others' \in Nat
        /\ Len(jobs') + Len(done') + others' <= MaxJobs
    BY <1>1, NothingQueued
  <2>3. /\ mode' \in {"on", "closing", "off"} /\ saved' \in BOOLEAN
        /\ owed' \subseteq Fields /\ touched' \subseteq Fields
        /\ uninstall' \in Removals
    BY <1>1 DEF Removals
  <2> QED
    BY <1>4, <1>5, <2>1, <2>2, <2>3 DEF Typed
<1>7. JobsOK(jobs', done', app', saved') /\ DoneOK(done', app', saved')
  BY <1>1 DEF JobsOK, DoneOK, SavesOnce
<1>8. WorldOK(World, done, known, owed, touched)'
  BY <1>1, <1>4, <1>7 DEF WorldOK, World
<1>9. IInv'
  BY <1>1, <1>6, <1>8 DEF IInv
<1> QED
  BY <1>1, <1>4, <1>9, RightWithoutWrite

(* Initial states satisfy the invariant.                                   *)
LEMMA InitIsOK ==
  ASSUME Init
  PROVE  IInv
<1>1. /\ disk \in Configs /\ mode = "on" /\ app = Start(disk, TRUE)
      /\ jobs = <<>> /\ done = <<>> /\ others = 0 /\ saved = FALSE
      /\ uninstall = "idle" /\ known = disk /\ owed = {} /\ touched = {}
      /\ asked = [r \in Reloads |-> [state |-> "idle", config |-> NoPatch]]
  BY DEF Init
<1>2. app \in Apps /\ AppOK(app, FALSE, disk, {}, {})
  BY <1>1, StartIsOK
<1>3. asked \in [Reloads -> Requests] /\ AskedOK(asked)
  BY <1>1, NoRequests
<1>4. Typed
  <2>1. disk \in Configs /\ known \in Configs
    BY <1>1
  <2>2. /\ jobs \in Seq(Jobs) /\ done \in Seq(Results) /\ others \in Nat
        /\ Len(jobs) + Len(done) + others <= MaxJobs
    BY <1>1, NothingQueued
  <2>3. /\ mode \in {"on", "closing", "off"} /\ saved \in BOOLEAN
        /\ owed \subseteq Fields /\ touched \subseteq Fields
        /\ uninstall \in Removals
    BY <1>1 DEF Removals
  <2> QED
    BY <1>2, <1>3, <2>1, <2>2, <2>3 DEF Typed
<1>5. JobsOK(jobs, done, app, saved) /\ DoneOK(done, app, saved)
  BY <1>1 DEF JobsOK, DoneOK, SavesOnce
<1>6. WorldOK(World, done, known, owed, touched)
  BY <1>1, <1>2, <1>5 DEF WorldOK, World
<1> QED
  BY <1>1, <1>4, <1>6 DEF IInv

-----------------------------------------------------------------------------
(* The theorems. *)

LEMMA NextIsOK ==
  ASSUME IInv, Next
  PROVE  IInv' /\ Right
<1>1. CASE User
  <2>1. CASE \E f \in Fields, v \in Values : Edit(f, v) \/ Choose(f, v)
    BY <2>1, EditStep, ChooseStep
  <2>2. CASE \E patch \in Patches : ConfigPatch(patch)
    BY <2>2, ConfigPatchStep
  <2>3. CASE \E r \in Reloads : ReadForReload(r)
    BY <2>3, ReadForReloadStep
  <2>4. CASE RemoveTheme
    BY <2>4, RemoveThemeStep
  <2>5. CASE \E f \in Fields, v \in Values : Elsewhere(f, v)
    BY <2>5, ElsewhereStep
  <2>6. CASE OthersTake
    BY <2>6, OthersStep
  <2> QED
    BY <1>1, <2>1, <2>2, <2>3, <2>4, <2>5, <2>6 DEF User
<1>2. CASE Worker
  BY <1>2, WriteSaveStep, ReadReloadStep, FinalWriteStep DEF Worker
<1>3. CASE Loop
  BY <1>3, ApplySaveStep, ApplyReloadStep DEF Loop
<1>4. CASE SaveTick
  BY <1>4, SaveTickStep
<1>5. CASE OthersRelease
  BY <1>5, OthersStep
<1>6. CASE Uninstall
  BY <1>6, UninstallStep
<1>7. CASE ThemeUninstalled
  BY <1>7, ThemeUninstalledStep
<1>8. CASE \E r \in Reloads : Reload(r)
  BY <1>8, ReloadStep
<1>9. CASE Stop \/ Abandon \/ Restart
  BY <1>9, StopStep, AbandonStep, RestartStep
<1> QED
  BY <1>1, <1>2, <1>3, <1>4, <1>5, <1>6, <1>7, <1>8, <1>9 DEF Next

(* A stuttering step keeps it.                                             *)
LEMMA StutterIsOK ==
  ASSUME IInv, UNCHANGED vars
  PROVE  IInv'
<1>1. /\ disk' = disk /\ mode' = mode /\ app' = app /\ jobs' = jobs
      /\ done' = done /\ others' = others /\ saved' = saved
      /\ asked' = asked /\ uninstall' = uninstall /\ final' = final
      /\ known' = known /\ owed' = owed /\ touched' = touched
  BY DEF vars
<1>2. Typed'
  BY <1>1 DEF IInv, Typed
<1>3. WorldOK(World, done, known, owed, touched)
        => WorldOK(World, done, known, owed, touched)'
  BY <1>1 DEF WorldOK, World
<1>4. FinalOK => FinalOK'
  BY <1>1 DEF FinalOK
<1> QED
  BY <1>1, <1>2, <1>3, <1>4 DEF IInv

(* It contains what is promised.                                           *)
LEMMA IInvIsSafe ==
  ASSUME IInv
  PROVE  SettingsSafe
<1>1. TypeOK
  <2>1. /\ app \in Apps /\ asked \in [Reloads -> Requests]
        /\ saved \in BOOLEAN /\ uninstall \in Removals
    BY DEF IInv, Typed
  <2>2. /\ app.config \in Configs /\ app.baseline \in Configs
        /\ app.explicit \in Patches /\ app.epoch \in Nat
        /\ app.revision \in Nat /\ app.waiting \subseteq Reloads
        /\ app.removal \in {"none", "deferred", "running"}
        /\ app.fresh \subseteq Fields /\ app.named \subseteq Fields
    BY <2>1, AppFields
  <2>3. \A flag \in {app.dirty, app.inflight, app.retry, app.restore,
                     app.installed, app.receipt.some, saved} :
          flag \in BOOLEAN
    BY <2>1, AppFields
  <2>4. \A r \in Reloads :
          asked[r].state \in {"idle", "read", "deferred", "answered"}
    BY <2>1 DEF Requests
  <2> QED
    BY <2>1, <2>2, <2>3, <2>4 DEF TypeOK, IInv, Typed, Removals
<1>2. NothingForgotten
  <2>1. ASSUME mode = "on", ~Pending(app)
        PROVE  app.config = known /\ owed = {}
    <3>1. /\ app \in Apps /\ saved \in BOOLEAN
          /\ AppOK(app, saved, known, owed, touched)
      BY <2>1, NowOK DEF IInv, Typed
    <3> QED
      BY <2>1, <3>1, NothingPending
  <2> QED
    BY <2>1 DEF NothingForgotten, IInv
<1> QED
  BY <1>1, <1>2 DEF SettingsSafe

(* Once nothing is pending, what the server shows is what it last got onto *)
(* the disk and every explicit choice has been written, whatever failed,   *)
(* was deferred or was changed elsewhere on the way; and so it is when a   *)
(* shutdown reports success.                                               *)
THEOREM SettingsAreSafe == Spec => []SettingsSafe
<1>1. Init => IInv
  BY InitIsOK
<1>2. IInv /\ [Next]_vars => IInv'
  BY NextIsOK, StutterIsOK
<1>3. IInv => SettingsSafe
  BY IInvIsSafe
<1> QED
  BY <1>1, <1>2, <1>3, PTL DEF Spec

(* A write changes only fields that were changed on this server and not    *)
(* saved since, a reload discards no change that was not saved, and a      *)
(* theme is removed only when another one is saved.                        *)
THEOREM WritesAreRight == Spec => WritesRight
<1>1. Init => IInv
  BY InitIsOK
<1>2. IInv /\ [Next]_vars => IInv'
  BY NextIsOK, StutterIsOK
<1>3. IInv /\ [Next]_vars => [OwnFields]_vars
  BY NextIsOK DEF Right
<1>4. IInv /\ [Next]_vars => [KeepsUnsaved]_vars
  BY NextIsOK DEF Right
<1>5. IInv /\ [Next]_vars => [AfterSave]_vars
  BY NextIsOK DEF Right
<1> QED
  BY <1>1, <1>2, <1>3, <1>4, <1>5, PTL
  DEF Spec, WritesRight, OnlyOwnFields, ReloadKeepsUnsaved,
      RemovalAfterSave, OwnFields, KeepsUnsaved, AfterSave
=============================================================================
