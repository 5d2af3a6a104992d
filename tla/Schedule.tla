------------------------------ MODULE Schedule ------------------------------
(***************************************************************************)
(* The occurrences of an automation's trigger                              *)
(* (src/src/automation/schedule.rs) and how one definition goes through    *)
(* them (collect_due, set_enabled and validate_loaded in                   *)
(* src/src/automation/mod.rs).                                             *)
(*                                                                         *)
(* Time is counted in coarse units, Day of them to a day; day 0 is a       *)
(* Thursday, as in Unix time.  A zone has one transition: before the       *)
(* instant `at` its clock is `before` units ahead of UTC, from then on     *)
(* `after`.  The definition's earlier run is always over when the next is  *)
(* due: overlap is ScheduledRuns'.                                         *)
(***************************************************************************)
EXTENDS Integers, FiniteSets, FiniteSetsExt, Sequences

CONSTANTS Day,       \* units in a day
          Triggers,  \* the triggers of the definition
          Policies,  \* subset of {"run_latest", "skip"}
          Grace,     \* misfire_grace_seconds
          Start,     \* the time the server starts
          MaxNow,    \* bound: the time it is watched until
          Naps,      \* bound: times that may pass between two looks at the clock
          MaxTime,   \* the largest representable time (u64::MAX)
          None

-----------------------------------------------------------------------------
(* Local time.                                                             *)

Offset(zone, t) == IF t < zone.at THEN zone.before ELSE zone.after

Date(zone, t) == (t + Offset(zone, t)) \div Day

Weekday(date) == ((date + 3) % 7) + 1

\* A local time that exists twice is the first of the two, one that does not
\* exist is moved forward by the gap.
LocalCandidate(date, zone, second) ==
  LET local == date * Day + second
  IN  IF local - zone.before < zone.at \/ local - zone.after < zone.at
      THEN local - zone.before
      ELSE local - zone.after

Calendar(trigger) == trigger.kind \in {"daily", "weekly"}
Allowed(trigger, date) == trigger.kind = "daily" \/ Weekday(date) \in trigger.days

NextLocal(trigger, notBefore) ==
  LET today == Date(trigger.zone, notBefore)
      On(k) == LocalCandidate(today + k, trigger.zone, trigger.second)
      fits  == {k \in 0..7 : Allowed(trigger, today + k) /\ On(k) >= notBefore}
  IN  IF fits = {} THEN None ELSE On(Min(fits))

Checked(t) == IF t <= MaxTime THEN t ELSE None

-----------------------------------------------------------------------------
(* Occurrences.                                                            *)

FirstAtOrAfter(trigger, notBefore) ==
  CASE trigger.kind = "once" -> IF trigger.at >= notBefore THEN trigger.at ELSE None
    [] trigger.kind = "interval" ->
         IF trigger.every = 0 THEN None
         ELSE IF trigger.anchor >= notBefore THEN trigger.anchor
         ELSE LET steps == (notBefore - trigger.anchor + trigger.every - 1) \div trigger.every
              IN  Checked(trigger.anchor + steps * trigger.every)
    [] Calendar(trigger) -> NextLocal(trigger, notBefore)

NextAfter(trigger, after) ==
  IF after + 1 > MaxTime THEN None ELSE FirstAtOrAfter(trigger, after + 1)

RECURSIVE Newest(_, _, _, _)
Newest(trigger, candidate, latest, at) ==
  IF candidate = None THEN latest
  ELSE IF candidate > at THEN latest
  ELSE Newest(trigger, NextAfter(trigger, candidate), candidate, at)

LatestAtOrBefore(trigger, at) ==
  CASE trigger.kind = "once" -> IF trigger.at <= at THEN trigger.at ELSE None
    [] trigger.kind = "interval" ->
         IF trigger.every = 0 \/ trigger.anchor > at THEN None
         ELSE LET steps == (at - trigger.anchor) \div trigger.every
              IN  Checked(trigger.anchor + steps * trigger.every)
    [] Calendar(trigger) ->
         Newest(trigger, FirstAtOrAfter(trigger, Max({0, at - 8 * Day})), None, at)

RECURSIVE PreviewFrom(_, _, _)
PreviewFrom(trigger, next, limit) ==
  IF next = None \/ limit = 0 THEN <<>>
  ELSE <<next>> \o PreviewFrom(trigger, NextAfter(trigger, next), limit - 1)

Preview(trigger, notBefore, limit) ==
  PreviewFrom(trigger, FirstAtOrAfter(trigger, notBefore), limit)

-----------------------------------------------------------------------------
(* One definition.                                                         *)

VARIABLES def,     \* [trigger, policy, enabled, next], or None while there is none
          now,     \* the clock
          last,    \* the newest run: its occurrence, when it was made, its status
          lost     \* the ledger did not pass its own validation at a restart

vars == <<def, now, last, lost>>

Init == def = None /\ now = Start /\ last = None /\ lost = FALSE

\* automation.create and automation.update: an enabled schedule has a future
Create(trigger, policy) ==
  /\ def = None /\ FirstAtOrAfter(trigger, now) # None
  /\ def' = [trigger |-> trigger, policy |-> policy, enabled |-> TRUE,
             next |-> FirstAtOrAfter(trigger, now)]
  /\ UNCHANGED <<now, last, lost>>

SetEnabled(enabled) ==
  /\ def # None
  /\ enabled => FirstAtOrAfter(def.trigger, now) # None
  /\ def' = [def EXCEPT !.enabled = enabled,
                        !.next = IF enabled THEN FirstAtOrAfter(def.trigger, now) ELSE None]
  /\ UNCHANGED <<now, last, lost>>

Tick ==
  /\ \E nap \in Naps : now + nap <= MaxNow /\ now' = now + nap
  /\ UNCHANGED <<def, last, lost>>

Due == def # None /\ def.enabled /\ def.next <= now

Occurrence ==
  IF def.policy = "run_latest"
  THEN LET latest == LatestAtOrBefore(def.trigger, now)
       IN  IF latest = None THEN def.next ELSE latest
  ELSE def.next

Advanced ==
  LET next == IF def.trigger.kind = "once" THEN None ELSE NextAfter(def.trigger, now)
  IN  [def EXCEPT !.next = next, !.enabled = next # None]

\* An occurrence that is there already is made again.
CollectTwice ==
  /\ Due
  /\ last' = [at |-> Occurrence, made |-> now, again |-> last # None /\ last.at = Occurrence,
              status |-> IF now - Occurrence > Grace /\ def.policy = "skip"
                         THEN "skipped" ELSE "pending"]
  /\ def' = Advanced
  /\ UNCHANGED <<now, lost>>

CollectDue ==
  /\ Due
  /\ last' = IF last # None /\ last.at = Occurrence
             THEN last
             ELSE [at |-> Occurrence, made |-> now, again |-> FALSE,
                   status |-> IF now - Occurrence > Grace /\ def.policy = "skip"
                              THEN "skipped" ELSE "pending"]
  /\ def' = Advanced
  /\ UNCHANGED <<now, lost>>

\* A ledger that does not pass validate_loaded is set aside and every
\* definition with it.
Valid ==
  def # None =>
    /\ (def.enabled <=> def.next # None)
    /\ def.enabled => FirstAtOrAfter(def.trigger, def.next) = def.next

Restart ==
  /\ ~lost
  /\ lost' = ~Valid
  /\ def' = IF Valid THEN def ELSE None
  /\ last' = IF Valid THEN last ELSE None
  /\ UNCHANGED now

Next ==
  \/ \E trigger \in Triggers, policy \in Policies : Create(trigger, policy)
  \/ \E enabled \in BOOLEAN : SetEnabled(enabled)
  \/ Tick \/ CollectDue \/ Restart

Spec == Init /\ [][Next]_vars

-----------------------------------------------------------------------------
(* The reference: what a trigger means, from the guide (automation.mdx,    *)
(* "Triggers").                                                            *)

\* The instants at which the clock of a zone shows a local time.
Shown(zone, local) == {t \in (local - Day)..(local + Day) : t + Offset(zone, t) = local}

\* "a nonexistent local time is shifted forward by the daylight-saving
\* transition gap.  A repeated local time uses its first occurrence."
WallClock(zone, local) ==
  IF Shown(zone, local) # {} THEN Min(Shown(zone, local))
  ELSE Min(Shown(zone, local + zone.after - zone.before))

Meant(trigger, t) ==
  CASE trigger.kind = "once" -> t = trigger.at
    [] trigger.kind = "interval" ->
         t >= trigger.anchor /\ t <= MaxTime /\ (t - trigger.anchor) % trigger.every = 0
    [] Calendar(trigger) ->
         \E date \in (t \div Day - 2)..(t \div Day + 2) :
           Allowed(trigger, date) /\ WallClock(trigger.zone, date * Day + trigger.second) = t

-----------------------------------------------------------------------------
(* Properties.                                                             *)

\* The definition, the clock and the newest run stay within their types.
TypeOK ==
  /\ now \in Start..MaxNow /\ lost \in BOOLEAN
  /\ def = None \/ (def.trigger \in Triggers /\ def.policy \in Policies)
  /\ def = None \/ (def.enabled <=> def.next # None)
  /\ last = None \/ (last.at \in 0..last.made /\ last.made <= now)

\* Nothing the trigger means lies between the last look at the clock and the
\* deadline: an occurrence at this very second is either still to come or it is
\* the one that was just made (or given up for an older one, under skip).
DeadlineIsNext ==
  [][def' # None /\ def' # def /\ def'.enabled =>
       /\ def'.next >= now
       /\ \A t \in now..(def'.next - 1) :
            Meant(def'.trigger, t) => /\ t = now
                                      /\ \/ last' # None /\ last'.at = t
                                         \/ Due /\ def.policy = "skip"]_vars

\* However long the server slept, it makes one run: of the newest occurrence
\* that has passed under run_latest, never of one to come.
NewestOnly ==
  [][last' # last /\ last' # None =>
       /\ Meant(def.trigger, last'.at) /\ last'.at <= now
       /\ def.policy = "run_latest" =>
            ~\E t \in (last'.at + 1)..now : Meant(def.trigger, t)
       /\ def' # None /\ (def'.enabled => def'.next > now)]_vars

\* No occurrence runs twice, although pausing and resuming may arm it again.
NeverAgain == last # None => ~last.again

\* A preview shows the occurrences to come, in order and without a gap.
PreviewIsMeant ==
  def # None =>
    LET shown == Preview(def.trigger, now, 3)
        From(i) == IF i = 1 THEN now ELSE shown[i - 1] + 1
    IN  /\ \A i \in 1..Len(shown) :
             /\ Meant(def.trigger, shown[i]) /\ shown[i] >= From(i)
             /\ ~\E t \in From(i)..(shown[i] - 1) : Meant(def.trigger, t)
        /\ Len(shown) < 3 =>
             ~\E t \in From(Len(shown) + 1)..(now + 8 * Day) : Meant(def.trigger, t)

\* The deadline a definition has given itself passes its own check at the next
\* restart: the definitions survive ("has a next run outside its schedule").
LedgerLoads == ~lost

\* A definition makes the occurrences its trigger means: each once, the newest of
\* those slept through, with a deadline and a preview that skip none and that
\* survive a restart.
DefinitionRight ==
  /\ [](TypeOK /\ NeverAgain /\ PreviewIsMeant /\ LedgerLoads)
  /\ DeadlineIsNext /\ NewestOnly
=============================================================================
