------------------------ MODULE ActiveDeliveryProofs ------------------------
(***************************************************************************)
(* Theorems about ActiveDelivery for every number of definitions, runs,    *)
(* terminals, edits, faults and restarts: a prompt is submitted at most    *)
(* once, only after its intent is on disk, only to the agent it was meant  *)
(* for, and never for a run that has ended.                                *)
(*                                                                         *)
(* What a handler may do to the runs of a ledger is said once, by `Kept`:  *)
(* a run that has ended stays ended, and a run that is bound to a terminal *)
(* either keeps its target or follows a conversation from then on.         *)
(***************************************************************************)
EXTENDS ActiveDelivery, SequenceTheorems, TLAPS

-----------------------------------------------------------------------------
(* Ledgers and what handlers do to them *)

Definitions == [enabled : BOOLEAN, target : Targets]

IsLedger(led) ==
  led \in [defs : [Autos -> Definitions], runs : Seq(Runs)] /\ Len(led.runs) <= MaxRuns

\* What a run of a ledger may become.
Continues(old, new) ==
  /\ old.status \in Finished => new.status = old.status
  /\ new.target.durable \/ new.target = old.target

Kept(old, new) ==
  /\ IsLedger(new)
  /\ Ids(new) = Ids(old)
  /\ \A r \in Ids(old) : Continues(old.runs[r], new.runs[r])

\* No run starts, and those that have started keep their target.
NoneStarts(old, new) ==
  \A r \in Ids(old) : new.runs[r].status = "starting" =>
    old.runs[r].status = "starting" /\ new.runs[r].target = old.runs[r].target

\* No definition points at a terminal that never was.
Within(led, n) == \A a \in Autos : led.defs[a].target.term <= n

\* A run is a record of its fields.
LEMMA RunFields ==
  ASSUME NEW run \in Runs
  PROVE  /\ run.auto \in Autos /\ run.target \in Targets
         /\ run.status \in Live \cup Finished
         /\ run.note \in {"", "unavailable", "unready", "busy", "changed"}
         /\ run.target.term \in 1..MaxTerms /\ run.target.durable \in BOOLEAN
         /\ run = [auto |-> run.auto, target |-> run.target, status |-> run.status, note |-> run.note]
BY DEF Runs, Targets

\* A ledger is its definitions and its runs.
LEMMA LedgerFields ==
  ASSUME NEW led, IsLedger(led)
  PROVE  /\ led = [defs |-> led.defs, runs |-> led.runs]
         /\ led.defs \in [Autos -> Definitions]
         /\ led.runs \in Seq(Runs)
         /\ Len(led.runs) \in 0..MaxRuns
         /\ Ids(led) = 1..Len(led.runs)
         /\ led.runs \in [Ids(led) -> Runs]
         /\ \A r \in Ids(led) : led.runs[r] \in Runs /\ r \in 1..MaxRuns
<1>1. led \in [defs : [Autos -> Definitions], runs : Seq(Runs)]
  BY DEF IsLedger
<1>2. led = [defs |-> led.defs, runs |-> led.runs]
      /\ led.defs \in [Autos -> Definitions] /\ led.runs \in Seq(Runs)
  BY <1>1
<1>3. Len(led.runs) \in Nat /\ DOMAIN led.runs = 1..Len(led.runs) /\ led.runs \in [1..Len(led.runs) -> Runs]
  BY <1>2, LenProperties
<1>4. Len(led.runs) <= MaxRuns /\ MaxRuns \in Nat
  BY DeliveryAssumption DEF IsLedger
<1>. QED
  BY <1>2, <1>3, <1>4 DEF Ids

\* Other definitions and as many other runs make a ledger again.
LEMMA LedgerOf ==
  ASSUME NEW led, IsLedger(led),
         NEW defs \in [Autos -> Definitions], NEW runs \in [Ids(led) -> Runs]
  PROVE  /\ IsLedger([defs |-> defs, runs |-> runs])
         /\ Ids([defs |-> defs, runs |-> runs]) = Ids(led)
<1>1. runs \in [1..Len(led.runs) -> Runs] /\ Len(led.runs) \in Nat /\ Len(led.runs) <= MaxRuns
  BY LedgerFields DEF IsLedger
<1>2. runs \in Seq(Runs)
  BY <1>1, SeqDef
<1>3. Len(runs) = Len(led.runs)
  BY <1>1, <1>2, LenProperties
<1>. QED
  BY <1>1, <1>2, <1>3, LedgerFields DEF IsLedger, Ids

-----------------------------------------------------------------------------
(* The operators of the handlers *)

\* A change that starts no run and points no definition beyond terminal n.
Calm(old, new, n) ==
  /\ Kept(old, new)
  /\ NoneStarts(old, new)
  /\ Within(old, n) => Within(new, n)

\* Changes one after the other are a change.
LEMMA KeptTwice ==
  ASSUME NEW l1, NEW l2, NEW l3, IsLedger(l1), Kept(l1, l2), Kept(l2, l3)
  PROVE  Kept(l1, l3)
<1>1. \A r \in Ids(l1) : Continues(l1.runs[r], l2.runs[r]) /\ Continues(l2.runs[r], l3.runs[r])
  BY DEF Kept
<1>2. \A r \in Ids(l1) : Continues(l1.runs[r], l3.runs[r])
  BY <1>1 DEF Continues
<1>. QED
  BY <1>2 DEF Kept

LEMMA CalmTwice ==
  ASSUME NEW l1, NEW l2, NEW l3, NEW n, IsLedger(l1), Calm(l1, l2, n), Calm(l2, l3, n)
  PROVE  Calm(l1, l3, n)
<1>1. Kept(l1, l3)
  BY KeptTwice DEF Calm
<1>2. Ids(l1) = Ids(l2)
  BY DEF Calm, Kept
<1>3. NoneStarts(l1, l3)
  BY <1>2 DEF Calm, NoneStarts
<1>. QED
  BY <1>1, <1>3 DEF Calm

\* No change is one.
LEMMA CalmIdle ==
  ASSUME NEW led, IsLedger(led), NEW n
  PROVE  Calm(led, led, n)
BY DEF Calm, Kept, NoneStarts, Continues

\* A run in another status.
LEMMA RunInStatus ==
  ASSUME NEW run \in Runs, NEW status \in Live \cup Finished
  PROVE  LET new == [run EXCEPT !.status = status, !.note = ""]
         IN  /\ new \in Runs
             /\ new.auto = run.auto /\ new.target = run.target /\ new.status = status
<1> DEFINE there == [run EXCEPT !.status = status]
           new == [there EXCEPT !.note = ""]
<1>1. there \in Runs /\ there.auto = run.auto /\ there.target = run.target /\ there.status = status
  BY DEF Runs
<1> HIDE DEF there
<1>2. new \in Runs /\ new.auto = there.auto /\ new.target = there.target /\ new.status = there.status
  BY <1>1 DEF Runs
<1>. QED
  BY <1>1, <1>2 DEF there

\* Putting runs into a status changes nothing else.
LEMMA WithRunsResult ==
  ASSUME NEW led, IsLedger(led), NEW rs, NEW status \in Live \cup Finished
  PROVE  LET new == WithRuns(led, rs, status)
         IN  /\ IsLedger(new) /\ Ids(new) = Ids(led) /\ new.defs = led.defs
             /\ \A r \in Ids(led) : /\ new.runs[r].auto = led.runs[r].auto
                                    /\ new.runs[r].target = led.runs[r].target
                                    /\ new.runs[r].status = IF r \in rs THEN status ELSE led.runs[r].status
<1> DEFINE put(r) == [led.runs[r] EXCEPT !.status = status, !.note = ""]
           runs == [r \in Ids(led) |-> IF r \in rs THEN put(r) ELSE led.runs[r]]
<1>1. WithRuns(led, rs, status) = [led EXCEPT !.runs = runs]
  BY DEF WithRuns
<1>2. WithRuns(led, rs, status) = [defs |-> led.defs, runs |-> runs]
  <2> HIDE DEF runs
  <2>. QED
    BY <1>1, LedgerFields
<1>3. \A r \in Ids(led) : /\ put(r) \in Runs /\ put(r).auto = led.runs[r].auto
                          /\ put(r).target = led.runs[r].target /\ put(r).status = status
  BY LedgerFields, RunInStatus
<1> HIDE DEF put
<1>4. \A r \in Ids(led) : /\ runs[r] \in Runs /\ runs[r].auto = led.runs[r].auto
                          /\ runs[r].target = led.runs[r].target
                          /\ runs[r].status = IF r \in rs THEN status ELSE led.runs[r].status
  BY <1>3, LedgerFields
<1>5. runs \in [Ids(led) -> Runs]
  BY <1>4
<1> HIDE DEF runs
<1>6. IsLedger([defs |-> led.defs, runs |-> runs]) /\ Ids([defs |-> led.defs, runs |-> runs]) = Ids(led)
  BY <1>5, LedgerFields, LedgerOf
<1>. QED
  BY <1>2, <1>4, <1>6

\* Runs that have not ended may be put into any status.
LEMMA WithRunsKept ==
  ASSUME NEW led, IsLedger(led), NEW rs, NEW status \in Live \cup Finished, NEW n,
         \A r \in rs \cap Ids(led) : led.runs[r].status \in Live
  PROVE  /\ Kept(led, WithRuns(led, rs, status))
         /\ Within(led, n) => Within(WithRuns(led, rs, status), n)
         /\ status # "starting" => Calm(led, WithRuns(led, rs, status), n)
<1> DEFINE new == WithRuns(led, rs, status)
<1>1. /\ IsLedger(new) /\ Ids(new) = Ids(led) /\ new.defs = led.defs
      /\ \A r \in Ids(led) : /\ new.runs[r].target = led.runs[r].target
                             /\ new.runs[r].status = IF r \in rs THEN status ELSE led.runs[r].status
  BY WithRunsResult
<1> HIDE DEF new
<1>2. \A r \in Ids(led) : Continues(led.runs[r], new.runs[r])
  BY <1>1 DEF Continues, Live, Finished
<1>3. Kept(led, new)
  BY <1>1, <1>2 DEF Kept
<1>4. Within(led, n) => Within(new, n)
  BY <1>1 DEF Within
<1>5. status # "starting" => NoneStarts(led, new)
  BY <1>1 DEF NoneStarts
<1>. QED
  BY <1>3, <1>4, <1>5 DEF new, Calm

\* Other definitions change no run.
LEMMA OtherDefinitions ==
  ASSUME NEW led, IsLedger(led), NEW defs \in [Autos -> Definitions], NEW n,
         Within(led, n) => \A a \in Autos : defs[a].target.term <= n
  PROVE  LET new == [led EXCEPT !.defs = defs]
         IN  /\ Calm(led, new, n)
             /\ IsLedger(new) /\ Ids(new) = Ids(led) /\ new.runs = led.runs /\ new.defs = defs
<1> DEFINE new == [led EXCEPT !.defs = defs]
<1>1. new = [defs |-> defs, runs |-> led.runs]
  BY LedgerFields
<1>2. IsLedger(new) /\ Ids(new) = Ids(led)
  BY <1>1, LedgerFields, LedgerOf
<1>3. new.runs = led.runs /\ new.defs = defs
  BY <1>1
<1> HIDE DEF new
<1>4. Kept(led, new) /\ NoneStarts(led, new) /\ (Within(led, n) => Within(new, n))
  BY <1>2, <1>3 DEF Kept, Continues, NoneStarts, Within
<1>. QED
  BY <1>2, <1>3, <1>4 DEF new, Calm

LEMMA LedgerWithRuns ==
  ASSUME NEW led, IsLedger(led), NEW runs
  PROVE  [led EXCEPT !.runs = runs] = [defs |-> led.defs, runs |-> runs]
BY LedgerFields

\* Other runs change no definition.
LEMMA OtherRuns ==
  ASSUME NEW led, IsLedger(led), NEW runs \in [Ids(led) -> Runs]
  PROVE  LET new == [led EXCEPT !.runs = runs]
         IN  IsLedger(new) /\ Ids(new) = Ids(led) /\ new.runs = runs /\ new.defs = led.defs
<1> DEFINE new == [led EXCEPT !.runs = runs]
<1>1. new = [defs |-> led.defs, runs |-> runs]
  BY LedgerFields
<1>2. IsLedger(new) /\ Ids(new) = Ids(led)
  BY <1>1, LedgerFields, LedgerOf
<1>3. new.runs = runs /\ new.defs = led.defs
  BY <1>1
<1>. QED
  BY <1>2, <1>3

\* A definition, and a run, is a record of its fields.
LEMMA DefinitionFields ==
  ASSUME NEW led, IsLedger(led), NEW a \in Autos
  PROVE  /\ led.defs[a] \in Definitions
         /\ led.defs[a].enabled \in BOOLEAN /\ led.defs[a].target \in Targets
         /\ led.defs[a].target.durable \in BOOLEAN /\ led.defs[a].target.term \in 1..MaxTerms
<1>1. led.defs[a] \in Definitions
  BY LedgerFields
<1>. QED
  BY <1>1 DEF Definitions, Targets

\* Disabling a definition cancels its runs.
LEMMA DisabledCalm ==
  ASSUME NEW led, IsLedger(led), NEW a \in Autos, NEW n
  PROVE  Calm(led, Disabled(led, a), n)
<1> DEFINE mid == WithRuns(led, LiveRuns(led, {a}), "cancelled")
           defs == [mid.defs EXCEPT ![a].enabled = FALSE]
<1>1. IsLedger(mid) /\ mid.defs = led.defs /\ Calm(led, mid, n)
  BY WithRunsResult, WithRunsKept DEF LiveRuns, Live, Finished
<1>2. Disabled(led, a) = [mid EXCEPT !.defs = defs]
  BY DEF Disabled
<1> HIDE DEF mid
<1>3. \A b \in Autos : defs[b] \in Definitions /\ defs[b].target = mid.defs[b].target
  <2>1. [mid.defs[a] EXCEPT !.enabled = FALSE] \in Definitions
        /\ [mid.defs[a] EXCEPT !.enabled = FALSE].target = mid.defs[a].target
    BY <1>1, DefinitionFields DEF Definitions
  <2>2. mid.defs \in [Autos -> Definitions]
    BY <1>1, LedgerFields
  <2>. QED
    BY <2>1, <2>2
<1>4. defs \in [Autos -> Definitions] /\ (Within(mid, n) => \A b \in Autos : defs[b].target.term <= n)
  <2>1. mid.defs \in [Autos -> Definitions]
    BY <1>1, LedgerFields
  <2>. QED
    BY <1>3, <2>1 DEF Within
<1> HIDE DEF defs
<1>5. Calm(mid, Disabled(led, a), n)
  BY <1>1, <1>2, <1>4, OtherDefinitions
<1>. QED
  BY <1>1, <1>5, CalmTwice

\* A run that is given up takes its definition with it.
LEMMA FailedForGoodCalm ==
  ASSUME NEW led, IsLedger(led), NEW r \in Ids(led), led.runs[r].status \in Live, NEW n
  PROVE  Calm(led, FailedForGood(led, r), n)
<1> DEFINE mid == Finish(led, r, "failed")
<1>1. IsLedger(mid) /\ Calm(led, mid, n)
  BY WithRunsResult, WithRunsKept DEF Finish, Live, Finished
<1>2. led.runs[r].auto \in Autos
  BY LedgerFields, RunFields
<1>3. Calm(mid, FailedForGood(led, r), n)
  <2> HIDE DEF mid
  <2>. QED
    BY <1>1, <1>2, DisabledCalm DEF FailedForGood, mid
<1>. QED
  BY <1>1, <1>3, CalmTwice

\* The target of these definitions is gone.
LEMMA ExpiredCalm ==
  ASSUME NEW led, IsLedger(led), NEW as, NEW n
  PROVE  Calm(led, Expired(led, as), n)
<1> DEFINE mid == WithRuns(led, LiveRuns(led, as), "failed")
           at(a) == [led.defs[a] EXCEPT !.enabled = led.defs[a].enabled /\ a \notin as]
           defs == [a \in Autos |-> at(a)]
<1>1. IsLedger(mid) /\ mid.defs = led.defs /\ Calm(led, mid, n)
  <2> DEFINE rs == LiveRuns(led, as)
  <2>1. \A r \in rs \cap Ids(led) : led.runs[r].status \in Live
    BY DEF LiveRuns
  <2>2. "failed" \in Live \cup Finished /\ "failed" # "starting"
    BY DEF Finished
  <2> HIDE DEF rs
  <2>3. LET new == WithRuns(led, rs, "failed")
        IN  IsLedger(new) /\ new.defs = led.defs /\ Calm(led, new, n)
    BY <2>1, <2>2, WithRunsResult, WithRunsKept
  <2>. QED
    BY <2>3 DEF rs
<1>2. Expired(led, as) = [mid EXCEPT !.defs = defs]
  BY DEF Expired
<1>3. \A a \in Autos : at(a) \in Definitions /\ at(a).target = led.defs[a].target
  <2> TAKE a \in Autos
  <2>1. (led.defs[a].enabled /\ a \notin as) \in BOOLEAN
    OBVIOUS
  <2>. QED
    BY <2>1, DefinitionFields DEF Definitions
<1> HIDE DEF mid, at
<1>4. defs \in [Autos -> Definitions] /\ (Within(mid, n) => \A a \in Autos : defs[a].target.term <= n)
  BY <1>1, <1>3 DEF Within
<1> HIDE DEF defs
<1>5. Calm(mid, Expired(led, as), n)
  BY <1>1, <1>2, <1>4, OtherDefinitions
<1>. QED
  BY <1>1, <1>5, CalmTwice

\* A run goes on waiting.
LEMMA WaitsCalm ==
  ASSUME NEW led, IsLedger(led), NEW r \in Ids(led), led.runs[r].status \in Live, NEW n,
         NEW note \in {"", "unavailable", "unready", "busy", "changed"}
  PROVE  Calm(led, Waits(led, r, note), n)
<1> DEFINE held == [led.runs[r] EXCEPT !.status = "pending"]
           mid == [led EXCEPT !.runs = [led.runs EXCEPT ![r] = held]]
           noted == [mid.runs[r] EXCEPT !.note = note]
           new == [mid EXCEPT !.runs = [mid.runs EXCEPT ![r] = noted]]
<1>1. Waits(led, r, note) = new
  BY DEF Waits
<1>2. led.runs \in [Ids(led) -> Runs] /\ led.runs[r] \in Runs
  BY LedgerFields
<1>3. held \in Runs /\ held.target = led.runs[r].target /\ held.status = "pending"
  BY <1>2 DEF Runs, Live
<1> HIDE DEF held
<1>4. /\ IsLedger(mid) /\ Ids(mid) = Ids(led) /\ mid.defs = led.defs
      /\ mid.runs = [led.runs EXCEPT ![r] = held]
  <2>1. [led.runs EXCEPT ![r] = held] \in [Ids(led) -> Runs]
    BY <1>2, <1>3
  <2>. QED
    BY <2>1, OtherRuns
<1> HIDE DEF mid
<1>5. mid.runs[r] = held /\ mid.runs \in [Ids(led) -> Runs]
  BY <1>2, <1>3, <1>4
<1>6. noted \in Runs /\ noted.target = held.target /\ noted.status = "pending"
  BY <1>3, <1>5 DEF Runs
<1> HIDE DEF noted
<1>7. /\ IsLedger(new) /\ Ids(new) = Ids(led) /\ new.defs = led.defs
      /\ new.runs = [mid.runs EXCEPT ![r] = noted]
  <2>1. [mid.runs EXCEPT ![r] = noted] \in [Ids(mid) -> Runs]
    BY <1>4, <1>5, <1>6
  <2>. QED
    BY <2>1, <1>4, OtherRuns
<1> HIDE DEF new
<1>8. \A q \in Ids(led) : new.runs[q] = IF q = r THEN noted ELSE led.runs[q]
  BY <1>2, <1>4, <1>5, <1>7
<1>9. \A q \in Ids(led) : Continues(led.runs[q], new.runs[q])
  BY <1>3, <1>6, <1>8 DEF Continues, Live, Finished
<1>10. NoneStarts(led, new) /\ (Within(led, n) => Within(new, n))
  BY <1>6, <1>7, <1>8 DEF NoneStarts, Within
<1>. QED
  BY <1>1, <1>7, <1>9, <1>10 DEF Calm, Kept

\* A run with another target.
LEMMA RunMoved ==
  ASSUME NEW run \in Runs, NEW target \in Targets
  PROVE  LET new == [run EXCEPT !.target = target]
         IN  new \in Runs /\ new.target = target /\ new.status = run.status
BY DEF Runs

\* A run that waits gets a durable target, a definition any.
LEMMA RetargetedCalm ==
  ASSUME NEW led, IsLedger(led), NEW n,
         NEW defs \in [Autos -> Definitions], \A a \in Autos : defs[a].target.term <= n \/ defs[a] = led.defs[a],
         NEW runs \in [Ids(led) -> Runs],
         \A r \in Ids(led) : \/ runs[r] = led.runs[r]
                             \/ /\ led.runs[r].status = "pending"
                                /\ runs[r].status = "pending" /\ runs[r].target.durable
  PROVE  Calm(led, [led EXCEPT !.defs = defs, !.runs = runs], n)
<1> DEFINE mid == [led EXCEPT !.defs = defs]
           new == [mid EXCEPT !.runs = runs]
<1>1. /\ IsLedger(mid) /\ Ids(mid) = Ids(led) /\ mid.runs = led.runs /\ mid.defs = defs
  <2>1. Within(led, n) => \A a \in Autos : defs[a].target.term <= n
    BY DEF Within
  <2>. QED
    BY <2>1, OtherDefinitions
<1> HIDE DEF mid
<1>2. /\ IsLedger(new) /\ Ids(new) = Ids(led) /\ new.runs = runs /\ new.defs = defs
  BY <1>1, OtherRuns
<1> HIDE DEF new
<1>3. Kept(led, new)
  BY <1>2 DEF Kept, Continues, Finished
<1>4. NoneStarts(led, new)
  BY <1>2 DEF NoneStarts
<1>5. Within(led, n) => Within(new, n)
  BY <1>2 DEF Within
<1>. QED
  BY <1>3, <1>4, <1>5 DEF Calm, new, mid

\* Rebinding a definition moves its waiting runs, if all have to.
LEMMA ReboundCalm ==
  ASSUME NEW led, IsLedger(led), NEW n, NEW a \in Autos,
         NEW term \in 1..MaxTerms, term <= n
  PROVE  Calm(led, Retargeted(led, a, [term |-> term, durable |-> TRUE], TRUE), n)
<1> DEFINE target == [term |-> term, durable |-> TRUE]
           defs == [led.defs EXCEPT ![a].target = target]
           rs == {r \in Ids(led) : led.runs[r].auto = a /\ led.runs[r].status = "pending"}
           runs == [r \in Ids(led) |-> IF r \in rs THEN [led.runs[r] EXCEPT !.target = target] ELSE led.runs[r]]
<1>1. target \in Targets /\ target.durable
  BY DEF Targets
<1>2. \A r \in rs \cap Ids(led) : led.runs[r].status = "pending"
  OBVIOUS
<1>3. defs \in [Autos -> Definitions] /\ \A b \in Autos : defs[b].target.term <= n \/ defs[b] = led.defs[b]
  <2>1. led.defs \in [Autos -> Definitions] /\ led.defs[a] \in Definitions
    BY LedgerFields
  <2>2. [led.defs[a] EXCEPT !.target = target] \in Definitions
        /\ [led.defs[a] EXCEPT !.target = target].target.term = term
    BY <1>1, <2>1 DEF Definitions
  <2>. QED
    BY <2>1, <2>2
<1>4. Retargeted(led, a, target, TRUE) = [led EXCEPT !.defs = defs, !.runs = runs]
  <2>1. runs = [r \in Ids(led) |-> IF /\ led.runs[r].auto = a
                                      /\ led.runs[r].status = "pending"
                                      /\ TRUE \/ led.runs[r].target.durable
                                   THEN [led.runs[r] EXCEPT !.target = target] ELSE led.runs[r]]
    OBVIOUS
  <2>. QED
    BY <2>1 DEF Retargeted
<1>5. /\ runs \in [Ids(led) -> Runs]
      /\ \A r \in Ids(led) : \/ runs[r] = led.runs[r]
                             \/ /\ led.runs[r].status = "pending"
                                /\ runs[r].status = "pending" /\ runs[r].target.durable
  <2> DEFINE moved(r) == [led.runs[r] EXCEPT !.target = target]
  <2>1. \A r \in Ids(led) : /\ moved(r) \in Runs /\ moved(r).target = target
                            /\ moved(r).status = led.runs[r].status
    BY <1>1, LedgerFields, RunMoved
  <2>2. runs = [r \in Ids(led) |-> IF r \in rs THEN moved(r) ELSE led.runs[r]]
    OBVIOUS
  <2>3. \A r \in Ids(led) : led.runs[r] \in Runs
    BY LedgerFields
  <2> HIDE DEF moved, runs, rs, target
  <2>. QED
    BY <1>1, <1>2, <2>1, <2>2, <2>3
<1> HIDE DEF target, defs, rs, runs
<1>6. Calm(led, [led EXCEPT !.defs = defs, !.runs = runs], n)
  BY <1>3, <1>5, RetargetedCalm
<1>. QED
  BY <1>4, <1>6 DEF target

\* A conversation that is proven takes along what follows it.
LEMMA FollowedCalm ==
  ASSUME NEW led, IsLedger(led), NEW n, NEW p,
         Proven(p) => p.term \in 1..MaxTerms /\ p.term <= n
  PROVE  Calm(led, Followed(led, p), n)
<1>1. CASE ~Proven(p)
  BY <1>1, CalmIdle DEF Followed
<1>2. CASE Proven(p)
  <2> DEFINE target == [term |-> p.term, durable |-> TRUE]
             at(a) == [led.defs[a] EXCEPT !.target = target]
             defs == [a \in Autos |-> IF led.defs[a].target.durable THEN at(a) ELSE led.defs[a]]
             rs == {r \in Ids(led) : /\ led.defs[led.runs[r].auto].target.durable
                                     /\ led.runs[r].target.durable
                                     /\ led.runs[r].status = "pending"}
             runs == [r \in Ids(led) |-> IF r \in rs THEN [led.runs[r] EXCEPT !.target = target] ELSE led.runs[r]]
  <2>1. target \in Targets /\ target.durable /\ target.term = p.term
    BY <1>2 DEF Targets
  <2>2. \A r \in rs \cap Ids(led) : led.runs[r].status = "pending"
    OBVIOUS
  <2>3. runs = [r \in Ids(led) |-> IF /\ led.defs[led.runs[r].auto].target.durable
                                      /\ led.runs[r].target.durable
                                      /\ led.runs[r].status = "pending"
                                   THEN [led.runs[r] EXCEPT !.target = target] ELSE led.runs[r]]
    OBVIOUS
  <2>4. Followed(led, p) = [led EXCEPT !.defs = defs, !.runs = runs]
    BY <1>2, <2>3 DEF Followed
  <2> HIDE DEF target, rs
  <2>5. \A a \in Autos : at(a) \in Definitions /\ at(a).target = target
    <3> TAKE a \in Autos
    <3>1. led.defs[a] \in Definitions
      BY LedgerFields
    <3>. QED
      BY <2>1, <3>1 DEF Definitions
  <2> HIDE DEF at
  <2>6. defs \in [Autos -> Definitions] /\ \A b \in Autos : defs[b].target.term <= n \/ defs[b] = led.defs[b]
    <3>1. led.defs \in [Autos -> Definitions]
      BY LedgerFields
    <3>2. \A b \in Autos : defs[b] \in Definitions
                           /\ (defs[b].target.term <= n \/ defs[b] = led.defs[b])
      BY <1>2, <2>1, <2>5, <3>1
    <3>. QED
      BY <3>2
  <2>7. /\ runs \in [Ids(led) -> Runs]
        /\ \A r \in Ids(led) : \/ runs[r] = led.runs[r]
                               \/ /\ led.runs[r].status = "pending"
                                  /\ runs[r].status = "pending" /\ runs[r].target.durable
    <3> DEFINE moved(r) == [led.runs[r] EXCEPT !.target = target]
    <3>1. \A r \in Ids(led) : /\ moved(r) \in Runs /\ moved(r).target = target
                              /\ moved(r).status = led.runs[r].status
      BY <2>1, LedgerFields, RunMoved
    <3>2. runs = [r \in Ids(led) |-> IF r \in rs THEN moved(r) ELSE led.runs[r]]
      OBVIOUS
    <3>3. \A r \in Ids(led) : led.runs[r] \in Runs
      BY LedgerFields
    <3> HIDE DEF moved, runs
    <3>. QED
      BY <2>1, <2>2, <3>1, <3>2, <3>3
  <2> HIDE DEF defs, runs
  <2>8. Calm(led, [led EXCEPT !.defs = defs, !.runs = runs], n)
    BY <2>6, <2>7, RetargetedCalm
  <2>. QED
    BY <2>4, <2>8
<1>. QED
  BY <1>1, <1>2

-----------------------------------------------------------------------------
(* The inductive invariant *)

Routing == [Autos -> {"none", "needs_rebind", "restoring", "bound"}]
Panes == [term : 0..MaxTerms, agent : BOOLEAN, proof : {"none", "session", "ready"}, busy : BOOLEAN]

InFlight(save) ==
  \E led : \E result \in {"writing", "ok", "error"} :
    IsLedger(led) /\ save = [ledger |-> led, result |-> result]

TypeInv ==
  /\ IsLedger(ledger) /\ IsLedger(disk)
  /\ dirty \in BOOLEAN
  /\ saving = NoSave \/ InFlight(saving)
  /\ waiter \in [run : 0..MaxRuns, wasEnabled : BOOLEAN]
  /\ route \in Routing
  /\ pane \in Panes
  /\ submitted \in [1..MaxRuns -> Seq(0..MaxCrashes)]
  /\ origin \in [1..MaxRuns -> 0..MaxTerms]
  /\ terms \in 1..MaxTerms
  /\ crashes \in 0..MaxCrashes

\* The ledgers a restart may find.
Books == {ledger, disk} \cup (IF saving = NoSave THEN {} ELSE {saving.ledger})

\* While a run is about to be launched, the snapshot in flight is of its intent.
IntentHeld ==
  waiter.run # 0 =>
    /\ waiter.run \in Ids(ledger)
    /\ Awaited /\ saving # NoSave =>
         /\ waiter.run \in Ids(saving.ledger)
         /\ saving.ledger.runs[waiter.run].status = "starting"
         /\ saving.ledger.runs[waiter.run].target = ledger.runs[waiter.run].target

\* A snapshot that was written is what the disk holds.
WriteDone == saving.result = "ok" => disk = saving.ledger

\* The number of a run that may come back is not given again.
RunsKnown == \A book \in Books : Ids(book) \subseteq Ids(ledger)

\* A definition points at a terminal there has been, a run that is bound to a
\* terminal at the one its definition pointed at.
TargetsPlaced ==
  \A book \in Books :
    /\ Within(book, terms)
    /\ \A r \in Ids(book) : book.runs[r].target.durable \/ book.runs[r].target.term = origin[r]

Lifetimes ==
  /\ pane.term \in {0, terms}
  /\ \A r \in 1..MaxRuns : origin[r] <= terms

\* A run that may submit its prompt a second time, after a restart, is one that
\* follows its conversation: the terminal of any other is gone.
MaySendAgain(r) ==
  /\ \A i \in DOMAIN submitted[r] : submitted[r][i] # crashes
  /\ ledger.runs[r].target.durable \/ origin[r] # pane.term

SentOnce ==
  \A r \in 1..MaxRuns :
    /\ \A i \in DOMAIN submitted[r] : submitted[r][i] <= crashes
    /\ \A i, j \in DOMAIN submitted[r] : i # j => submitted[r][i] # submitted[r][j]
    /\ submitted[r] # <<>> =>
         /\ \A book \in Books :
              r \in Ids(book) /\ (book.runs[r].target.durable \/ Len(submitted[r]) <= 1)
         /\ ledger.runs[r].status \in Finished \/ MaySendAgain(r)

Intents == IntentHeld /\ WriteDone
History == RunsKnown /\ TargetsPlaced /\ Lifetimes /\ SentOnce
Inv == TypeInv /\ Intents /\ History

-----------------------------------------------------------------------------
(* What steps do, by kind *)

\* The pane and the routes: a pane stays, closes, or is a terminal of its own.
Around ==
  /\ route' \in Routing /\ pane' \in Panes
  /\ \/ terms' = terms /\ pane'.term \in {pane.term, 0}
     \/ terms' = terms + 1 /\ terms' <= MaxTerms /\ pane'.term = terms'

Here == UNCHANGED <<submitted, crashes>> /\ UNCHANGED origin

\* A handler changes the ledger and has it saved.
Quiet ==
  /\ Calm(ledger, ledger', terms)
  /\ dirty' \in BOOLEAN
  /\ saving' \in {saving, NoSave, Snapshot(ledger')}
  /\ disk' = disk
  /\ waiter' \in {waiter, NoWaiter}
  /\ Here

\* What waits in `led` was tried.
Launches(led, r) ==
  /\ led.runs[r].status = "pending"
  /\ ledger' = WithRuns(led, {r}, "starting")
  /\ waiter' \in [run : {r}, wasEnabled : BOOLEAN]

Tried(led, n) ==
  /\ dirty' \in BOOLEAN
  /\ saving' \in {NoSave, Snapshot(ledger')}
  /\ \/ waiter' = NoWaiter /\ Calm(led, ledger', n)
     \/ \E r \in Ids(led) : Launches(led, r)

Starts == Tried(ledger, terms) /\ disk' = disk /\ Here

\* A run is added.
Asked ==
  /\ \E a \in Autos :
       LET r   == Len(ledger.runs) + 1
           run == [auto |-> a, target |-> ledger.defs[a].target, status |-> "pending", note |-> ""]
       IN  /\ r <= MaxRuns
           /\ ledger' = [ledger EXCEPT !.runs = Append(ledger.runs, run)]
           /\ origin' = [origin EXCEPT ![r] = run.target.term]
  /\ dirty' \in BOOLEAN
  /\ saving' \in {saving, Snapshot(ledger'), NoSave}
  /\ disk' = disk
  /\ UNCHANGED <<waiter, pane, terms, submitted, crashes>>

\* A snapshot is written, or not.
Written ==
  /\ saving # NoSave
  /\ \/ disk' = saving.ledger /\ saving' = [saving EXCEPT !.result = "ok"]
     \/ disk' \in {disk, saving.ledger} /\ saving' = [saving EXCEPT !.result = "error"]
  /\ UNCHANGED <<ledger, dirty, waiter, submitted, origin, crashes>>

\* A prompt is submitted.
Sent ==
  LET r == waiter.run
  IN  /\ saving.result = "ok" /\ Awaited
      /\ Verdict(ledger.runs[r], pane, route) = "dispatch"
      /\ ledger' = Finish(ledger, r, "delivered")
      /\ submitted' = [submitted EXCEPT ![r] = Append(@, crashes)]
      /\ dirty' \in BOOLEAN
      /\ saving' \in {NoSave, Snapshot(ledger')}
      /\ disk' = disk
      /\ waiter' = NoWaiter
      /\ UNCHANGED <<pane, terms, origin, crashes>>

\* The server starts again from a ledger it had.
Rebooted ==
  /\ crashes' = crashes + 1 /\ crashes' <= MaxCrashes
  /\ pane'.term # pane.term \/ pane'.term = 0
  /\ UNCHANGED <<submitted, origin>>
  /\ \E last \in Books : \E led :
       /\ disk' = last
       /\ Calm(last, led, terms')
       /\ \/ Tried(led, terms')
          \/ /\ ledger' = led /\ dirty' \in BOOLEAN /\ waiter' = NoWaiter
             /\ \E first : Calm(last, first, terms') /\ saving' = Snapshot(first)

Kinds == Quiet \/ Starts \/ Asked \/ Written \/ Sent \/ Rebooted

\* What waits and is tried either goes on waiting, ends, or starts.
LEMMA StartFirstTried ==
  ASSUME NEW led, IsLedger(led), NEW rs, NEW p, NEW rt, NEW n, StartFirst(led, rs, p, rt)
  PROVE  Tried(led, n)
<1> DEFINE acting == rs \cap Acting(led, p, rt)
<1>1. CASE acting = {}
  <2>1. ledger' = led /\ saving' = NoSave /\ dirty' = FALSE /\ waiter' = NoWaiter
    BY <1>1 DEF StartFirst
  <2>. QED
    BY <2>1, CalmIdle DEF Tried
<1>2. CASE acting # {}
  <2>1. PICK r \in acting :
          LET verdict == Verdict(led.runs[r], p, rt)
          IN  /\ Save(Attempted(led, r, verdict))
              /\ waiter' = IF verdict = "dispatch"
                           THEN [run |-> r, wasEnabled |-> led.defs[led.runs[r].auto].enabled]
                           ELSE NoWaiter
    BY <1>2 DEF StartFirst
  <2> DEFINE verdict == Verdict(led.runs[r], p, rt)
  <2>2. r \in Ids(led) /\ led.runs[r].status = "pending" /\ led.runs[r].status \in Live
    BY DEF Acting, Live
  <2>3. ledger' = Attempted(led, r, verdict) /\ dirty' \in BOOLEAN /\ saving' \in {NoSave, Snapshot(ledger')}
    BY <2>1 DEF Save
  <2>4. verdict \in {"unavailable", "gone", "unready", "skip", "busy", "dispatch"}
    BY DEF Verdict
  <2>5. waiter' = IF verdict = "dispatch"
                  THEN [run |-> r, wasEnabled |-> led.defs[led.runs[r].auto].enabled] ELSE NoWaiter
    BY <2>1
  <2> HIDE DEF acting, verdict
  <2>6. CASE verdict = "dispatch"
    <3>1. ledger' = WithRuns(led, {r}, "starting")
      BY <2>3, <2>6 DEF Attempted
    <3>2. led.defs[led.runs[r].auto].enabled \in BOOLEAN
      BY <2>2, LedgerFields, RunFields, DefinitionFields
    <3>3. Launches(led, r)
      BY <2>2, <2>5, <2>6, <3>1, <3>2 DEF Launches
    <3>. QED
      BY <2>2, <2>3, <3>3 DEF Tried
  <2>7. CASE verdict # "dispatch"
    <3>1. waiter' = NoWaiter
      BY <2>5, <2>7
    <3>2. CASE verdict = "gone"
      <4>1. ledger' = FailedForGood(led, r)
        BY <2>3, <3>2 DEF Attempted
      <4>. QED
        BY <2>2, <2>3, <3>1, <4>1, FailedForGoodCalm DEF Tried
    <3>3. CASE verdict = "skip"
      <4>1. ledger' = WithRuns(led, {r}, "skipped")
        BY <2>3, <3>3 DEF Attempted, Finish
      <4>2. \A q \in {r} \cap Ids(led) : led.runs[q].status \in Live
        BY <2>2
      <4>3. "skipped" \in Live \cup Finished /\ "skipped" # "starting"
        BY DEF Finished
      <4>4. Calm(led, ledger', n)
        BY <4>1, <4>2, <4>3, WithRunsKept
      <4>. QED
        BY <2>3, <3>1, <4>4 DEF Tried
    <3>4. CASE verdict \in {"unavailable", "unready", "busy"}
      <4>1. ledger' = Waits(led, r, verdict)
        BY <2>3, <3>4 DEF Attempted
      <4>. QED
        BY <2>2, <2>3, <3>1, <3>4, <4>1, WaitsCalm DEF Tried
    <3>. QED
      BY <2>4, <2>7, <3>2, <3>3, <3>4
  <2>. QED
    BY <2>6, <2>7
<1>. QED
  BY <1>1, <1>2

-----------------------------------------------------------------------------
(* Each kind of step preserves the invariant *)

\* A snapshot in flight is a ledger and a result, and not none.
LEMMA SaveFields ==
  ASSUME NEW save, InFlight(save)
  PROVE  /\ IsLedger(save.ledger) /\ save.result \in {"writing", "ok", "error"}
         /\ save # NoSave
         /\ \A result : /\ [save EXCEPT !.result = result].ledger = save.ledger
                        /\ [save EXCEPT !.result = result].result = result
                        /\ result \in {"ok", "error"} => InFlight([save EXCEPT !.result = result])
<1>1. PICK led, old :
        IsLedger(led) /\ old \in {"writing", "ok", "error"} /\ save = [ledger |-> led, result |-> old]
  BY DEF InFlight
<1>2. save.ledger = led /\ save.result = old
  BY <1>1
<1>3. \A result : [save EXCEPT !.result = result] = [ledger |-> led, result |-> result]
  BY <1>1
<1>4. \A result : [ledger |-> led, result |-> result].ledger = led /\ [ledger |-> led, result |-> result].result = result
  OBVIOUS
<1>5. save.result # NoSave.result
  BY <1>1, <1>2 DEF NoSave
<1>6. \A result \in {"ok", "error"} : InFlight([ledger |-> led, result |-> result])
  BY <1>1 DEF InFlight
<1>. QED
  BY <1>1, <1>2, <1>3, <1>4, <1>5, <1>6

LEMMA SnapshotFields ==
  ASSUME NEW led, IsLedger(led)
  PROVE  /\ InFlight(Snapshot(led)) /\ Snapshot(led) # NoSave
         /\ Snapshot(led).ledger = led /\ Snapshot(led).result = "writing"
<1>1. InFlight(Snapshot(led))
  BY DEF InFlight, Snapshot
<1>. QED
  BY <1>1, SaveFields DEF Snapshot

LEMMA BooksAreLedgers ==
  ASSUME TypeInv, NEW book \in Books
  PROVE  /\ IsLedger(book)
         /\ \A r \in Ids(book) : r \in 1..MaxRuns /\ book.runs[r].target.term \in 1..MaxTerms
         /\ \A a \in Autos : book.defs[a].target.term \in 1..MaxTerms
<1>1. IsLedger(book)
  BY SaveFields DEF Books, TypeInv
<1>2. \A r \in Ids(book) : r \in 1..MaxRuns /\ book.runs[r] \in Runs
  BY <1>1, LedgerFields
<1>. QED
  BY <1>1, <1>2, RunFields, DefinitionFields

\* As long as nothing is submitted, what is known of prompts stays true.
LEMMA HistoryKept ==
  ASSUME TypeInv, History, Around, Here,
         Books' \subseteq Books \cup {ledger'},
         Kept(ledger, ledger'), Within(ledger', terms)
  PROVE  History'
<1>1. /\ terms \in Nat /\ terms' \in Nat /\ terms <= terms' /\ MaxTerms \in Nat
      /\ origin \in [1..MaxRuns -> 0..MaxTerms] /\ origin' = origin
      /\ submitted' = submitted /\ crashes' = crashes
  BY DeliveryAssumption DEF TypeInv, Around, Here
<1>2. ledger \in Books /\ IsLedger(ledger)
  BY DEF Books, TypeInv
<1>3. /\ Ids(ledger') = Ids(ledger) /\ IsLedger(ledger')
      /\ \A r \in Ids(ledger) : Continues(ledger.runs[r], ledger'.runs[r])
  BY DEF Kept
<1>4. RunsKnown'
  BY <1>2, <1>3 DEF RunsKnown, History
<1>5. \A r \in Ids(ledger) : ledger'.runs[r].target.durable \/
                             /\ ledger'.runs[r].target = ledger.runs[r].target
                             /\ ledger'.runs[r].target.term = origin[r]
  BY <1>2, <1>3 DEF Continues, History, TargetsPlaced
<1>6. TargetsPlaced'
  <2> SUFFICES ASSUME NEW book \in Books'
               PROVE  /\ Within(book, terms')
                      /\ \A r \in Ids(book) : book.runs[r].target.durable \/ book.runs[r].target.term = origin'[r]
    BY DEF TargetsPlaced
  <2>1. CASE book \in Books
    <3>1. Within(book, terms)
      BY <2>1 DEF History, TargetsPlaced
    <3>2. Within(book, terms')
      BY <1>1, <2>1, <3>1, BooksAreLedgers DEF Within
    <3>. QED
      BY <1>1, <2>1, <3>2 DEF History, TargetsPlaced
  <2>2. CASE book = ledger'
    <3>1. \A a \in Autos : ledger'.defs[a].target.term \in 1..MaxTerms
      BY <1>3, DefinitionFields
    <3>2. Within(book, terms')
      BY <1>1, <2>2, <3>1 DEF Within
    <3>. QED
      BY <1>1, <1>3, <1>5, <2>2, <3>2
  <2>. QED
    BY <2>1, <2>2
<1>7. Lifetimes'
  <2>1. pane'.term \in {0, terms'}
    BY DEF Around, History, Lifetimes
  <2>2. \A r \in 1..MaxRuns : origin'[r] <= terms'
    BY <1>1 DEF History, Lifetimes
  <2>. QED
    BY <2>1, <2>2 DEF Lifetimes
<1>8. SentOnce'
  <2> SUFFICES ASSUME NEW r \in 1..MaxRuns, submitted[r] # <<>>
               PROVE  /\ \A book \in Books' :
                           r \in Ids(book) /\ (book.runs[r].target.durable \/ Len(submitted[r]) <= 1)
                      /\ ledger'.runs[r].status \in Finished \/ MaySendAgain(r)'
    BY <1>1 DEF SentOnce, History
  <2>1. /\ \A book \in Books :
             r \in Ids(book) /\ (book.runs[r].target.durable \/ Len(submitted[r]) <= 1)
        /\ ledger.runs[r].status \in Finished \/ MaySendAgain(r)
    BY DEF SentOnce, History
  <2>2. r \in Ids(ledger) /\ Continues(ledger.runs[r], ledger'.runs[r])
    BY <1>2, <1>3, <2>1
  <2>3. r \in Ids(ledger') /\ (ledger'.runs[r].target.durable \/ Len(submitted[r]) <= 1)
    BY <1>2, <1>3, <1>5, <2>1, <2>2
  <2>4. CASE ledger.runs[r].status \in Finished
    BY <2>1, <2>2, <2>3, <2>4 DEF Continues
  <2>5. CASE MaySendAgain(r)
    <3>1. ledger'.runs[r].target.durable \/ origin[r] # pane'.term
      <4>1. SUFFICES ASSUME ~ledger'.runs[r].target.durable
                     PROVE  origin[r] # pane'.term
        OBVIOUS
      <4>2. ledger.runs[r].target = ledger'.runs[r].target /\ ledger.runs[r].target.term = origin[r]
        BY <1>5, <2>2, <4>1
      <4>3. origin[r] # pane.term
        BY <2>5, <4>1, <4>2 DEF MaySendAgain
      <4>4. origin[r] \in 1..terms
        BY <1>1, <1>2, <2>2, <4>2, BooksAreLedgers DEF History, Lifetimes
      <4>5. pane'.term \in {pane.term, 0} \/ pane'.term = terms + 1
        BY DEF Around
      <4>. QED
        BY <1>1, <4>3, <4>4, <4>5
    <3>2. MaySendAgain(r)'
      BY <1>1, <2>5, <3>1 DEF MaySendAgain
    <3>. QED
      BY <2>1, <2>3, <3>2
  <2>. QED
    BY <2>1, <2>4, <2>5
<1>. QED
  BY <1>4, <1>6, <1>7, <1>8 DEF History

\* A save of the new ledger, or none.
LEMMA FreshSave ==
  ASSUME IsLedger(ledger'), saving' \in {NoSave, Snapshot(ledger')}
  PROVE  /\ saving' = NoSave \/ InFlight(saving')
         /\ Books' = {ledger', disk'}
         /\ WriteDone'
         /\ saving' # NoSave => saving'.ledger = ledger'
<1>1. CASE saving' = NoSave
  <2>1. saving'.result # "ok"
    BY <1>1 DEF NoSave
  <2>. QED
    BY <1>1, <2>1 DEF Books, WriteDone
<1>2. CASE saving' = Snapshot(ledger')
  BY <1>2, SnapshotFields DEF Books, WriteDone
<1>. QED
  BY <1>1, <1>2

\* A save that goes on.
LEMMA SameSave ==
  ASSUME TypeInv, saving' = saving, disk' = disk
  PROVE  /\ saving' = NoSave \/ InFlight(saving')
         /\ Books' \subseteq Books \cup {ledger'}
         /\ WriteDone => WriteDone'
BY DEF TypeInv, Books, WriteDone

\* A run that is launched.
LEMMA LaunchesResult ==
  ASSUME NEW led, IsLedger(led), NEW r \in Ids(led), Launches(led, r), NEW n
  PROVE  /\ Kept(led, ledger') /\ (Within(led, n) => Within(ledger', n))
         /\ waiter' \in [run : 0..MaxRuns, wasEnabled : BOOLEAN]
         /\ waiter'.run = r /\ r \in Ids(ledger')
         /\ ledger'.runs[r].status = "starting"
<1>1. "starting" \in Live \cup Finished
  BY DEF Live
<1>2. \A q \in {r} \cap Ids(led) : led.runs[q].status \in Live
  BY DEF Launches, Live
<1>3. Kept(led, ledger') /\ (Within(led, n) => Within(ledger', n))
  BY <1>1, <1>2, WithRunsKept DEF Launches
<1>4. r \in Ids(ledger') /\ ledger'.runs[r].status = "starting"
  BY <1>1, WithRunsResult DEF Launches
<1>5. r \in 0..MaxRuns
  BY LedgerFields
<1>. QED
  BY <1>3, <1>4, <1>5 DEF Launches

\* Trying what waits leaves a ledger in which the run that is launched, if there
\* is one, is the one its intent is saved for.
LEMMA TriedResult ==
  ASSUME NEW led, IsLedger(led), NEW n, Tried(led, n)
  PROVE  /\ Kept(led, ledger') /\ (Within(led, n) => Within(ledger', n))
         /\ IsLedger(ledger')
         /\ waiter' \in [run : 0..MaxRuns, wasEnabled : BOOLEAN]
         /\ IntentHeld'
<1>1. CASE waiter' = NoWaiter /\ Calm(led, ledger', n)
  <2>1. waiter' = [run |-> 0, wasEnabled |-> FALSE] /\ 0 \in 0..MaxRuns
    BY <1>1, DeliveryAssumption DEF NoWaiter
  <2>2. IntentHeld'
    BY <2>1 DEF IntentHeld
  <2>. QED
    BY <1>1, <2>1, <2>2 DEF Calm, Kept
<1>2. CASE \E r \in Ids(led) : Launches(led, r)
  <2>1. PICK r \in Ids(led) : Launches(led, r)
    BY <1>2
  <2>2. /\ Kept(led, ledger') /\ (Within(led, n) => Within(ledger', n))
        /\ waiter' \in [run : 0..MaxRuns, wasEnabled : BOOLEAN]
        /\ waiter'.run = r /\ r \in Ids(ledger')
        /\ ledger'.runs[r].status = "starting"
    BY <2>1, LaunchesResult
  <2>3. IsLedger(ledger')
    BY <2>2 DEF Kept
  <2>4. saving' # NoSave => saving'.ledger = ledger'
    BY <2>3, FreshSave DEF Tried
  <2>5. IntentHeld'
    BY <2>2, <2>4 DEF IntentHeld
  <2>. QED
    BY <2>2, <2>3, <2>5
<1>. QED
  BY <1>1, <1>2 DEF Tried

LEMMA NoWaiterType ==
  /\ NoWaiter \in [run : 0..MaxRuns, wasEnabled : BOOLEAN]
  /\ NoWaiter.run = 0
BY DeliveryAssumption DEF NoWaiter

\* The types that do not depend on the kind of the step.
LEMMA AroundType ==
  ASSUME TypeInv, Around
  PROVE  terms' \in 1..MaxTerms /\ route' \in Routing /\ pane' \in Panes
BY DeliveryAssumption DEF TypeInv, Around

LEMMA QuietSafe ==
  ASSUME Inv, Around, Quiet
  PROVE  Inv'
<1>1. TypeInv /\ Intents /\ History
  BY DEF Inv
<1>2. Kept(ledger, ledger') /\ NoneStarts(ledger, ledger') /\ IsLedger(ledger')
  BY DEF Quiet, Calm, Kept
<1>3. Within(ledger', terms)
  BY <1>1 DEF Quiet, Calm, History, TargetsPlaced, Books
<1>4. /\ saving' = NoSave \/ InFlight(saving')
      /\ Books' \subseteq Books \cup {ledger'}
      /\ WriteDone'
  <2>1. CASE saving' = saving
    BY <1>1, <2>1, SameSave DEF Quiet, Intents
  <2>2. CASE saving' \in {NoSave, Snapshot(ledger')}
    BY <1>2, <2>2, FreshSave DEF Books, Quiet
  <2>. QED
    BY <2>1, <2>2 DEF Quiet
<1>5. waiter' \in [run : 0..MaxRuns, wasEnabled : BOOLEAN]
  BY <1>1, NoWaiterType DEF Quiet, TypeInv
<1>6. TypeInv'
  BY <1>1, <1>2, <1>4, <1>5, AroundType DEF TypeInv, Quiet, Here
<1>7. IntentHeld'
  <2>1. CASE waiter' = NoWaiter
    BY <2>1, NoWaiterType DEF IntentHeld
  <2>2. CASE waiter' = waiter
    <3> SUFFICES ASSUME waiter.run # 0
                 PROVE  /\ waiter.run \in Ids(ledger')
                        /\ Awaited' /\ saving' # NoSave =>
                             /\ waiter.run \in Ids(saving'.ledger)
                             /\ saving'.ledger.runs[waiter.run].status = "starting"
                             /\ saving'.ledger.runs[waiter.run].target = ledger'.runs[waiter.run].target
      BY <2>2 DEF IntentHeld
    <3>1. waiter.run \in Ids(ledger) /\ waiter.run \in Ids(ledger')
      BY <1>1, <1>2 DEF Intents, IntentHeld, Kept
    <3>2. SUFFICES ASSUME Awaited', saving' # NoSave
                   PROVE  /\ waiter.run \in Ids(saving'.ledger)
                          /\ saving'.ledger.runs[waiter.run].status = "starting"
                          /\ saving'.ledger.runs[waiter.run].target = ledger'.runs[waiter.run].target
      BY <3>1
    <3>3. ledger'.runs[waiter.run].status = "starting"
      BY <2>2, <3>2 DEF Awaited
    <3>4. CASE saving' = saving
      <4>1. /\ ledger.runs[waiter.run].status = "starting"
            /\ ledger'.runs[waiter.run].target = ledger.runs[waiter.run].target
        BY <1>2, <3>1, <3>3 DEF NoneStarts
      <4>2. Awaited /\ saving # NoSave
        BY <3>2, <3>4, <4>1 DEF Awaited
      <4>. QED
        BY <1>1, <3>4, <4>1, <4>2 DEF Intents, IntentHeld
    <3>5. CASE saving' \in {NoSave, Snapshot(ledger')}
      <4>1. saving'.ledger = ledger'
        BY <1>2, <3>2, <3>5, FreshSave
      <4>. QED
        BY <3>1, <3>3, <4>1
    <3>. QED
      BY <3>4, <3>5 DEF Quiet
  <2>. QED
    BY <2>1, <2>2 DEF Quiet
<1>8. History'
  BY <1>1, <1>2, <1>3, <1>4, HistoryKept DEF Quiet
<1>. QED
  BY <1>4, <1>6, <1>7, <1>8 DEF Inv, Intents

LEMMA StartsSafe ==
  ASSUME Inv, Around, Starts
  PROVE  Inv'
<1>1. TypeInv /\ Intents /\ History /\ IsLedger(ledger)
  BY DEF Inv, TypeInv
<1>2. /\ Kept(ledger, ledger') /\ (Within(ledger, terms) => Within(ledger', terms))
      /\ IsLedger(ledger')
      /\ waiter' \in [run : 0..MaxRuns, wasEnabled : BOOLEAN]
      /\ IntentHeld'
  BY <1>1, TriedResult DEF Starts
<1>3. Within(ledger', terms)
  BY <1>1, <1>2 DEF History, TargetsPlaced, Books
<1>4. /\ saving' = NoSave \/ InFlight(saving')
      /\ Books' = {ledger', disk'}
      /\ WriteDone'
  BY <1>2, FreshSave DEF Starts, Tried
<1>5. TypeInv'
  BY <1>1, <1>2, <1>4, AroundType DEF TypeInv, Starts, Tried, Here
<1>6. Books' \subseteq Books \cup {ledger'}
  BY <1>4 DEF Starts, Books
<1>7. History'
  BY <1>1, <1>2, <1>3, <1>6, HistoryKept DEF Starts
<1>. QED
  BY <1>2, <1>4, <1>5, <1>7 DEF Inv, Intents

LEMMA WrittenSafe ==
  ASSUME Inv, Around, Written
  PROVE  Inv'
<1>1. TypeInv /\ Intents /\ History /\ IsLedger(ledger) /\ InFlight(saving)
  BY DEF Inv, TypeInv, Written
<1>2. /\ saving'.ledger = saving.ledger /\ saving' # NoSave /\ InFlight(saving')
      /\ saving'.result = "ok" => disk' = saving.ledger
      /\ disk' \in {disk, saving.ledger}
  <2>1. PICK result \in {"ok", "error"} :
          /\ saving' = [saving EXCEPT !.result = result]
          /\ result = "ok" => disk' = saving.ledger
          /\ disk' \in {disk, saving.ledger}
    BY DEF Written
  <2>2. /\ [saving EXCEPT !.result = result].ledger = saving.ledger
        /\ [saving EXCEPT !.result = result].result = result
        /\ InFlight([saving EXCEPT !.result = result])
    BY <1>1, SaveFields
  <2>3. saving'.ledger = saving.ledger /\ saving'.result = result /\ InFlight(saving')
    BY <2>1, <2>2
  <2>4. saving' # NoSave
    BY <2>3, SaveFields
  <2>. QED
    BY <2>1, <2>3, <2>4
<1>3. Books' \subseteq Books \cup {ledger'}
  BY <1>2 DEF Books, Written
<1>4. IsLedger(disk')
  BY <1>1, <1>2, SaveFields DEF TypeInv
<1>5. TypeInv'
  BY <1>1, <1>2, <1>4, AroundType DEF TypeInv, Written
<1>6. WriteDone'
  BY <1>2 DEF WriteDone
<1>7. IntentHeld'
  BY <1>1, <1>2 DEF IntentHeld, Intents, Written, Awaited
<1>8. Kept(ledger, ledger') /\ Within(ledger', terms)
  BY <1>1, CalmIdle DEF Written, Calm, History, TargetsPlaced, Books
<1>9. History'
  BY <1>1, <1>3, <1>8, HistoryKept DEF Written, Here
<1>. QED
  BY <1>5, <1>6, <1>7, <1>9 DEF Inv, Intents

LEMMA AskedSafe ==
  ASSUME Inv, Around, Asked
  PROVE  Inv'
<1>1. TypeInv /\ Intents /\ History /\ IsLedger(ledger) /\ ledger \in Books
  BY DEF Inv, TypeInv, Books
<1> DEFINE r == Len(ledger.runs) + 1
<1>2. PICK a \in Autos :
        LET run == [auto |-> a, target |-> ledger.defs[a].target, status |-> "pending", note |-> ""]
        IN  /\ r <= MaxRuns
            /\ ledger' = [ledger EXCEPT !.runs = Append(ledger.runs, run)]
            /\ origin' = [origin EXCEPT ![r] = run.target.term]
  BY DEF Asked
<1> DEFINE run == [auto |-> a, target |-> ledger.defs[a].target, status |-> "pending", note |-> ""]
<1>3. /\ run \in Runs /\ run.target = ledger.defs[a].target
      /\ run.target.term \in 1..MaxTerms /\ run.target.term <= terms
  <2>1. run.target = ledger.defs[a].target
    OBVIOUS
  <2>2. ledger.defs[a].target \in Targets /\ ledger.defs[a].target.term \in 1..MaxTerms
    BY <1>1, DefinitionFields
  <2>3. run \in Runs
    BY <2>2 DEF Runs, Live
  <2>4. ledger.defs[a].target.term <= terms
    BY <1>1 DEF History, TargetsPlaced, Within
  <2> HIDE DEF run
  <2>. QED
    BY <2>1, <2>2, <2>3, <2>4
<1>4. /\ r <= MaxRuns /\ ledger' = [ledger EXCEPT !.runs = Append(ledger.runs, run)]
      /\ origin' = [origin EXCEPT ![r] = run.target.term]
  BY <1>2
<1> HIDE DEF run
<1>5. /\ ledger.runs \in Seq(Runs) /\ Len(ledger.runs) \in Nat /\ Ids(ledger) = 1..Len(ledger.runs)
      /\ r \in 1..MaxRuns /\ MaxRuns \in Nat
  BY <1>1, <1>4, LedgerFields, LenProperties, DeliveryAssumption
<1>6. /\ Append(ledger.runs, run) \in Seq(Runs) /\ Len(Append(ledger.runs, run)) = r
      /\ Append(ledger.runs, run)[r] = run
      /\ \A q \in 1..Len(ledger.runs) : Append(ledger.runs, run)[q] = ledger.runs[q]
  BY <1>3, <1>5, AppendProperties
<1>7. ledger' = [defs |-> ledger.defs, runs |-> Append(ledger.runs, run)]
  <2> DEFINE runs == Append(ledger.runs, run)
  <2>1. ledger' = [ledger EXCEPT !.runs = runs]
    BY <1>4
  <2> HIDE DEF runs
  <2>2. ledger' = [defs |-> ledger.defs, runs |-> runs]
    BY <1>1, <2>1, LedgerWithRuns
  <2>. QED
    BY <2>2 DEF runs
<1>8. /\ ledger'.defs = ledger.defs /\ ledger'.runs = Append(ledger.runs, run)
      /\ IsLedger(ledger') /\ Ids(ledger') = 1..r
  <2>1. ledger'.defs = ledger.defs /\ ledger'.runs = Append(ledger.runs, run)
    BY <1>7
  <2>2. IsLedger(ledger')
    BY <1>1, <1>4, <1>6, <1>7, <2>1, LedgerFields DEF IsLedger
  <2>. QED
    BY <1>6, <2>1, <2>2, LedgerFields
<1>9. /\ r \notin Ids(ledger) /\ Ids(ledger') = Ids(ledger) \cup {r}
      /\ ledger'.runs[r] = run /\ \A q \in Ids(ledger) : ledger'.runs[q] = ledger.runs[q]
  BY <1>5, <1>6, <1>8
<1>10. /\ origin' \in [1..MaxRuns -> 0..MaxTerms] /\ origin'[r] = run.target.term
       /\ \A q \in 1..MaxRuns : q # r => origin'[q] = origin[q]
  BY <1>1, <1>3, <1>4, <1>5 DEF TypeInv
<1> HIDE DEF r
<1>11. /\ saving' = NoSave \/ InFlight(saving')
       /\ Books' \subseteq Books \cup {ledger'}
       /\ WriteDone'
  <2>1. CASE saving' = saving
    BY <1>1, <2>1, SameSave DEF Asked, Intents
  <2>2. CASE saving' \in {NoSave, Snapshot(ledger')}
    BY <1>8, <2>2, FreshSave DEF Books, Asked
  <2>. QED
    BY <2>1, <2>2 DEF Asked
<1>12. TypeInv'
  BY <1>1, <1>8, <1>10, <1>11, AroundType DEF TypeInv, Asked
<1>13. IntentHeld'
  <2> SUFFICES ASSUME waiter.run # 0
               PROVE  /\ waiter.run \in Ids(ledger')
                      /\ Awaited' /\ saving' # NoSave =>
                           /\ waiter.run \in Ids(saving'.ledger)
                           /\ saving'.ledger.runs[waiter.run].status = "starting"
                           /\ saving'.ledger.runs[waiter.run].target = ledger'.runs[waiter.run].target
    BY DEF IntentHeld, Asked
  <2>1. waiter.run \in Ids(ledger) /\ ledger'.runs[waiter.run] = ledger.runs[waiter.run]
    BY <1>1, <1>9 DEF Intents, IntentHeld
  <2>2. Awaited' = Awaited
    BY <2>1 DEF Awaited, Asked
  <2>3. CASE saving' = saving
    BY <1>1, <1>9, <2>1, <2>2, <2>3 DEF Intents, IntentHeld
  <2>4. CASE saving' \in {NoSave, Snapshot(ledger')}
    <3>1. saving' # NoSave => saving'.ledger = ledger'
      BY <1>8, <2>4, FreshSave
    <3>2. Awaited' => ledger'.runs[waiter.run].status = "starting"
      BY <2>1, <2>2 DEF Awaited
    <3>. QED
      BY <1>9, <2>1, <3>1, <3>2
  <2>. QED
    BY <2>3, <2>4 DEF Asked
<1>14. \A book \in Books : Ids(book) \subseteq Ids(ledger)
  BY <1>1 DEF History, RunsKnown
<1>15. RunsKnown'
  BY <1>9, <1>11, <1>14 DEF RunsKnown
<1>16. TargetsPlaced'
  <2> SUFFICES ASSUME NEW book \in Books'
               PROVE  /\ Within(book, terms)
                      /\ \A q \in Ids(book) : book.runs[q].target.durable \/ book.runs[q].target.term = origin'[q]
    BY DEF TargetsPlaced, Asked
  <2>1. CASE book \in Books
    <3>1. \A q \in Ids(book) : q \in 1..MaxRuns /\ q # r
      BY <1>1, <1>9, <1>14, <2>1, BooksAreLedgers
    <3>. QED
      BY <1>1, <1>10, <2>1, <3>1 DEF History, TargetsPlaced
  <2>2. CASE book = ledger'
    <3>1. Within(ledger', terms)
      BY <1>1, <1>8 DEF Within, History, TargetsPlaced
    <3>2. \A q \in Ids(ledger) : q \in 1..MaxRuns /\ q # r
      BY <1>1, <1>9, BooksAreLedgers
    <3>3. \A q \in Ids(ledger) : ledger'.runs[q].target.durable \/ ledger'.runs[q].target.term = origin'[q]
      BY <1>1, <1>9, <1>10, <3>2 DEF History, TargetsPlaced
    <3>. QED
      BY <1>9, <1>10, <2>2, <3>1, <3>3
  <2>. QED
    BY <1>11, <2>1, <2>2
<1>17. Lifetimes'
  BY <1>1, <1>3, <1>10 DEF History, Lifetimes, Asked
<1>18. submitted' = submitted /\ crashes' = crashes
  BY DEF Asked
<1>19. SentOnce'
  <2> SUFFICES ASSUME NEW q \in 1..MaxRuns, submitted[q] # <<>>
               PROVE  /\ \A book \in Books' :
                           q \in Ids(book) /\ (book.runs[q].target.durable \/ Len(submitted[q]) <= 1)
                      /\ ledger'.runs[q].status \in Finished \/ MaySendAgain(q)'
    BY <1>1, <1>18 DEF SentOnce, History
  <2>1. /\ \A book \in Books :
             q \in Ids(book) /\ (book.runs[q].target.durable \/ Len(submitted[q]) <= 1)
        /\ ledger.runs[q].status \in Finished \/ MaySendAgain(q)
    BY <1>1 DEF SentOnce, History
  <2>2. q \in Ids(ledger) /\ q # r /\ ledger'.runs[q] = ledger.runs[q] /\ q \in Ids(ledger')
    BY <1>1, <1>9, <2>1
  <2>3. origin'[q] = origin[q]
    BY <1>10, <2>2
  <2>4. MaySendAgain(q) => MaySendAgain(q)'
    BY <2>2, <2>3 DEF MaySendAgain, Asked
  <2>. QED
    BY <1>1, <1>11, <2>1, <2>2, <2>4
<1>. QED
  BY <1>11, <1>12, <1>13, <1>15, <1>16, <1>17, <1>19 DEF Inv, Intents, History

LEMMA SentSafe ==
  ASSUME Inv, Around, Sent
  PROVE  Inv'
<1>1. TypeInv /\ Intents /\ History /\ IsLedger(ledger) /\ ledger \in Books
  BY DEF Inv, TypeInv, Books
<1> DEFINE r == waiter.run
<1>2. /\ saving.result = "ok" /\ Awaited
      /\ Verdict(ledger.runs[r], pane, route) = "dispatch"
      /\ ledger' = WithRuns(ledger, {r}, "delivered")
      /\ submitted' = [submitted EXCEPT ![r] = Append(@, crashes)]
      /\ saving' \in {NoSave, Snapshot(ledger')} /\ disk' = disk /\ waiter' = NoWaiter
      /\ pane' = pane /\ terms' = terms /\ origin' = origin /\ crashes' = crashes
  BY DEF Sent, Finish
<1>3. saving # NoSave /\ disk = saving.ledger /\ disk \in Books
  BY <1>1, <1>2 DEF Intents, WriteDone, NoSave, Books
<1>4. /\ r \in Ids(ledger) /\ r \in 1..MaxRuns /\ ledger.runs[r].status = "starting"
      /\ r \in Ids(disk) /\ disk.runs[r].target = ledger.runs[r].target
  <2>1. r # 0
    BY <1>2 DEF Awaited
  <2>2. r \in Ids(ledger) /\ r \in Ids(disk) /\ disk.runs[r].target = ledger.runs[r].target
    BY <1>1, <1>2, <1>3, <2>1 DEF Intents, IntentHeld
  <2>. QED
    BY <1>1, <1>2, <2>2, LedgerFields DEF Awaited
<1>5. /\ IsLedger(ledger') /\ Ids(ledger') = Ids(ledger) /\ ledger'.defs = ledger.defs
      /\ \A q \in Ids(ledger) :
           /\ ledger'.runs[q].target = ledger.runs[q].target
           /\ ledger'.runs[q].status = IF q = r THEN "delivered" ELSE ledger.runs[q].status
  <2>1. "delivered" \in Live \cup Finished
    BY DEF Finished
  <2> HIDE DEF r
  <2>. QED
    BY <1>1, <1>2, <2>1, WithRunsResult
<1>6. ledger.runs[r].target.term = pane.term
  BY <1>2 DEF Verdict, Valid
<1>7. /\ saving' = NoSave \/ InFlight(saving')
      /\ Books' = {ledger', disk}
      /\ WriteDone'
  BY <1>2, <1>5, FreshSave
<1>8. IntentHeld'
  BY <1>2, NoWaiterType DEF IntentHeld
<1>9. /\ submitted' \in [1..MaxRuns -> Seq(0..MaxCrashes)]
      /\ submitted[r] \in Seq(0..MaxCrashes) /\ crashes \in 0..MaxCrashes
      /\ submitted'[r] = Append(submitted[r], crashes)
      /\ \A q \in 1..MaxRuns : q # r => submitted'[q] = submitted[q]
  <2>1. submitted \in [1..MaxRuns -> Seq(0..MaxCrashes)] /\ crashes \in 0..MaxCrashes
    BY <1>1 DEF TypeInv
  <2>2. Append(submitted[r], crashes) \in Seq(0..MaxCrashes)
    BY <1>4, <2>1, AppendProperties
  <2> HIDE DEF r
  <2>. QED
    BY <1>2, <1>4, <2>1, <2>2
<1>10. TypeInv'
  BY <1>1, <1>2, <1>5, <1>7, <1>9, NoWaiterType, AroundType DEF TypeInv, Sent
<1>11. RunsKnown'
  BY <1>1, <1>3, <1>5, <1>7 DEF History, RunsKnown
<1>12. TargetsPlaced'
  <2>1. Within(ledger', terms) /\ Within(disk, terms)
    BY <1>1, <1>3, <1>5 DEF History, TargetsPlaced, Within
  <2>2. \A q \in Ids(ledger') : ledger'.runs[q].target.durable \/ ledger'.runs[q].target.term = origin[q]
    BY <1>1, <1>5 DEF History, TargetsPlaced
  <2>3. \A q \in Ids(disk) : disk.runs[q].target.durable \/ disk.runs[q].target.term = origin[q]
    BY <1>1, <1>3 DEF History, TargetsPlaced
  <2>. QED
    BY <1>2, <1>7, <2>1, <2>2, <2>3 DEF TargetsPlaced
<1>13. Lifetimes'
  BY <1>1, <1>2 DEF History, Lifetimes
<1>14. ASSUME NEW q \in 1..MaxRuns, q # r
       PROVE  /\ \A i \in DOMAIN submitted[q] : submitted[q][i] <= crashes
              /\ \A i, j \in DOMAIN submitted[q] : i # j => submitted[q][i] # submitted[q][j]
              /\ submitted[q] # <<>> =>
                   /\ \A book \in Books' :
                        q \in Ids(book) /\ (book.runs[q].target.durable \/ Len(submitted[q]) <= 1)
                   /\ ledger'.runs[q].status \in Finished \/ MaySendAgain(q)'
  <2>1. /\ \A i \in DOMAIN submitted[q] : submitted[q][i] <= crashes
        /\ \A i, j \in DOMAIN submitted[q] : i # j => submitted[q][i] # submitted[q][j]
        /\ submitted[q] # <<>> =>
             /\ \A book \in Books :
                  q \in Ids(book) /\ (book.runs[q].target.durable \/ Len(submitted[q]) <= 1)
             /\ ledger.runs[q].status \in Finished \/ MaySendAgain(q)
    BY <1>1 DEF History, SentOnce
  <2>2. SUFFICES ASSUME submitted[q] # <<>>
                 PROVE  /\ \A book \in Books' :
                             q \in Ids(book) /\ (book.runs[q].target.durable \/ Len(submitted[q]) <= 1)
                        /\ ledger'.runs[q].status \in Finished \/ MaySendAgain(q)'
    BY <2>1
  <2>3. q \in Ids(ledger) /\ q \in Ids(ledger') /\ q \in Ids(disk)
    BY <1>1, <1>3, <1>5, <2>1, <2>2
  <2>4. \A book \in Books' :
          q \in Ids(book) /\ (book.runs[q].target.durable \/ Len(submitted[q]) <= 1)
    BY <1>1, <1>3, <1>5, <1>7, <2>1, <2>2, <2>3
  <2>5. MaySendAgain(q) => MaySendAgain(q)'
    BY <1>2, <1>5, <1>9, <1>14, <2>3 DEF MaySendAgain
  <2>. QED
    BY <1>5, <1>14, <2>1, <2>2, <2>3, <2>4, <2>5
<1>15. \/ submitted[r] = <<>>
       \/ /\ ledger.runs[r].target.durable
          /\ \A i \in DOMAIN submitted[r] : submitted[r][i] # crashes
  <2>1. SUFFICES ASSUME submitted[r] # <<>>
                 PROVE  /\ ledger.runs[r].target.durable
                        /\ \A i \in DOMAIN submitted[r] : submitted[r][i] # crashes
    OBVIOUS
  <2>2. MaySendAgain(r)
    BY <1>1, <1>4, <2>1 DEF History, SentOnce, Finished
  <2>3. ledger.runs[r].target.durable \/ ledger.runs[r].target.term = origin[r]
    BY <1>1, <1>4 DEF History, TargetsPlaced
  <2>. QED
    BY <1>6, <2>2, <2>3 DEF MaySendAgain
<1>16. /\ \A i \in DOMAIN submitted'[r] : submitted'[r][i] <= crashes
       /\ \A i, j \in DOMAIN submitted'[r] : i # j => submitted'[r][i] # submitted'[r][j]
       /\ \A book \in Books' :
            r \in Ids(book) /\ (book.runs[r].target.durable \/ Len(submitted'[r]) <= 1)
       /\ ledger'.runs[r].status \in Finished
  <2> DEFINE s == submitted[r]
             k == Len(s)
  <2>1. /\ \A i \in DOMAIN s : s[i] <= crashes
        /\ \A i, j \in DOMAIN s : i # j => s[i] # s[j]
        /\ \A i \in DOMAIN s : s[i] # crashes
    BY <1>1, <1>4, <1>15 DEF History, SentOnce
  <2>2. /\ s \in Seq(0..MaxCrashes) /\ k \in Nat /\ DOMAIN s = 1..k
        /\ crashes \in Nat
    BY <1>9, LenProperties, DeliveryAssumption
  <2>3. /\ Append(s, crashes) \in Seq(0..MaxCrashes) /\ Len(Append(s, crashes)) = k + 1
        /\ \A i \in 1..k : Append(s, crashes)[i] = s[i]
        /\ Append(s, crashes)[k + 1] = crashes
    BY <1>9, <2>2, AppendProperties
  <2>4. DOMAIN Append(s, crashes) = 1..k + 1
    BY <2>3, LenProperties
  <2>5. submitted'[r] = Append(s, crashes)
    BY <1>9
  <2>6. ledger.runs[r].target.durable \/ k = 0
    <3>1. s = <<>> => k = 0
      BY EmptySeq
    <3>. QED
      BY <1>15, <3>1
  <2> HIDE DEF s, k, r
  <2>7. \A i \in 1..k + 1 : Append(s, crashes)[i] <= crashes
    BY <2>1, <2>2, <2>3
  <2>8. \A i, j \in 1..k + 1 : i # j => Append(s, crashes)[i] # Append(s, crashes)[j]
    BY <2>1, <2>2, <2>3
  <2>9. \A book \in Books' :
          r \in Ids(book) /\ (book.runs[r].target.durable \/ Len(submitted'[r]) <= 1)
    <3>1. ledger.runs[r].target.durable \/ Len(submitted'[r]) = 1
      BY <2>3, <2>5, <2>6
    <3>2. \A book \in {ledger', disk} : r \in Ids(book) /\ book.runs[r].target = ledger.runs[r].target
      BY <1>4, <1>5
    <3>3. Len(submitted'[r]) = 1 => Len(submitted'[r]) <= 1
      OBVIOUS
    <3>. QED
      BY <1>7, <3>1, <3>2, <3>3
  <2>10. ledger'.runs[r].status \in Finished
    BY <1>4, <1>5 DEF Finished
  <2>. QED
    BY <2>4, <2>5, <2>7, <2>8, <2>9, <2>10
<1> HIDE DEF r
<1>17. SentOnce'
  <2> SUFFICES ASSUME NEW q \in 1..MaxRuns
               PROVE  /\ \A i \in DOMAIN submitted'[q] : submitted'[q][i] <= crashes
                      /\ \A i, j \in DOMAIN submitted'[q] : i # j => submitted'[q][i] # submitted'[q][j]
                      /\ submitted'[q] # <<>> =>
                           /\ \A book \in Books' :
                                q \in Ids(book) /\ (book.runs[q].target.durable \/ Len(submitted'[q]) <= 1)
                           /\ ledger'.runs[q].status \in Finished \/ MaySendAgain(q)'
    BY <1>2 DEF SentOnce
  <2>1. CASE q = r
    BY <1>16, <2>1
  <2>2. CASE q # r
    BY <1>9, <1>14, <2>2
  <2>. QED
    BY <2>1, <2>2
<1>. QED
  BY <1>7, <1>8, <1>10, <1>11, <1>12, <1>13, <1>17 DEF Inv, Intents, History

LEMMA RebootedSafe ==
  ASSUME Inv, Around, Rebooted
  PROVE  Inv'
<1>1. TypeInv /\ History
  BY DEF Inv
<1>2. PICK last \in Books : \E led :
        /\ disk' = last
        /\ Calm(last, led, terms')
        /\ \/ Tried(led, terms')
           \/ /\ ledger' = led /\ dirty' \in BOOLEAN /\ waiter' = NoWaiter
              /\ \E first : Calm(last, first, terms') /\ saving' = Snapshot(first)
  BY DEF Rebooted
<1>3. PICK led :
        /\ disk' = last
        /\ Calm(last, led, terms')
        /\ \/ Tried(led, terms')
           \/ /\ ledger' = led /\ dirty' \in BOOLEAN /\ waiter' = NoWaiter
              /\ \E first : Calm(last, first, terms') /\ saving' = Snapshot(first)
  BY <1>2
<1>4. IsLedger(last) /\ IsLedger(led)
  BY <1>1, <1>3, BooksAreLedgers DEF Calm, Kept
<1>5. /\ terms \in Nat /\ terms' \in Nat /\ terms <= terms' /\ MaxTerms \in Nat
      /\ submitted' = submitted /\ origin' = origin
      /\ crashes \in Nat /\ crashes' = crashes + 1 /\ crashes' \in 0..MaxCrashes
  BY <1>1, DeliveryAssumption DEF TypeInv, Around, Rebooted
<1>6. Within(last, terms')
  <2>1. Within(last, terms)
    BY <1>1 DEF History, TargetsPlaced
  <2>. QED
    BY <1>1, <1>5, <2>1, BooksAreLedgers DEF Within
<1>7. /\ \A book \in Books' : Kept(last, book) /\ Within(book, terms')
      /\ ledger' \in Books' /\ disk' \in Books'
      /\ dirty' \in BOOLEAN
      /\ saving' = NoSave \/ InFlight(saving')
      /\ waiter' \in [run : 0..MaxRuns, wasEnabled : BOOLEAN]
      /\ IntentHeld' /\ WriteDone'
  <2>1. Kept(last, last)
    BY <1>4, CalmIdle DEF Calm
  <2>2. ledger' \in Books' /\ disk' \in Books'
    BY DEF Books
  <2>3. CASE Tried(led, terms')
    <3>1. /\ Kept(led, ledger') /\ (Within(led, terms') => Within(ledger', terms'))
          /\ IsLedger(ledger')
          /\ waiter' \in [run : 0..MaxRuns, wasEnabled : BOOLEAN]
          /\ IntentHeld'
      BY <1>4, <2>3, TriedResult
    <3>2. Kept(last, ledger') /\ Within(ledger', terms')
      BY <1>3, <1>4, <1>6, <3>1, KeptTwice DEF Calm
    <3>3. /\ saving' = NoSave \/ InFlight(saving')
          /\ Books' = {ledger', disk'}
          /\ WriteDone'
      BY <2>3, <3>1, FreshSave DEF Tried
    <3>. QED
      BY <1>3, <1>6, <2>1, <2>2, <2>3, <3>1, <3>2, <3>3 DEF Tried
  <2>4. CASE /\ ledger' = led /\ dirty' \in BOOLEAN /\ waiter' = NoWaiter
             /\ \E first : Calm(last, first, terms') /\ saving' = Snapshot(first)
    <3>1. PICK first : Calm(last, first, terms') /\ saving' = Snapshot(first)
      BY <2>4
    <3>2. Kept(last, first) /\ Within(first, terms') /\ IsLedger(first)
      BY <1>6, <3>1 DEF Calm, Kept
    <3>3. Kept(last, led) /\ Within(led, terms')
      BY <1>3, <1>6 DEF Calm
    <3>4. InFlight(saving') /\ saving'.ledger = first /\ saving'.result # "ok"
      BY <3>1, <3>2, SnapshotFields
    <3>5. Books' \subseteq {ledger', disk', first} /\ WriteDone'
      BY <3>4 DEF Books, WriteDone
    <3>6. IntentHeld' /\ waiter' \in [run : 0..MaxRuns, wasEnabled : BOOLEAN]
      BY <2>4, NoWaiterType DEF IntentHeld
    <3>. QED
      BY <1>3, <1>6, <2>1, <2>2, <2>4, <3>2, <3>3, <3>4, <3>5, <3>6
  <2>. QED
    BY <1>3, <2>3, <2>4
<1>8. \A book \in Books' : /\ IsLedger(book) /\ Ids(book) = Ids(last)
                           /\ \A r \in Ids(last) : Continues(last.runs[r], book.runs[r])
  BY <1>7 DEF Kept
<1>9. TypeInv'
  <2>1. IsLedger(ledger') /\ IsLedger(disk')
    BY <1>7, <1>8
  <2>. QED
    BY <1>1, <1>5, <1>7, <2>1, AroundType DEF TypeInv
<1>10. RunsKnown'
  BY <1>7, <1>8 DEF RunsKnown
<1>11. \A r \in Ids(last) : last.runs[r].target.durable \/ last.runs[r].target.term = origin[r]
  BY <1>1 DEF History, TargetsPlaced
<1>12. \A book \in Books' : \A r \in Ids(last) :
         \/ book.runs[r].target.durable
         \/ book.runs[r].target = last.runs[r].target /\ book.runs[r].target.term = origin[r]
  BY <1>8, <1>11 DEF Continues
<1>13. TargetsPlaced'
  BY <1>5, <1>7, <1>8, <1>12 DEF TargetsPlaced
<1>14. Lifetimes'
  <2>1. \A r \in 1..MaxRuns : origin[r] \in Nat /\ origin[r] <= terms
    BY <1>1, <1>5 DEF History, Lifetimes, TypeInv
  <2>2. pane'.term \in {0, terms'}
    BY <1>1 DEF Around, History, Lifetimes
  <2>. QED
    BY <1>5, <2>1, <2>2 DEF Lifetimes
<1>15. pane'.term = 0 \/ pane'.term = terms + 1
  BY DEF Around, Rebooted
<1>16. SentOnce'
  <2> SUFFICES ASSUME NEW r \in 1..MaxRuns
               PROVE  /\ \A i \in DOMAIN submitted[r] : submitted[r][i] <= crashes'
                      /\ \A i, j \in DOMAIN submitted[r] : i # j => submitted[r][i] # submitted[r][j]
                      /\ submitted[r] # <<>> =>
                           /\ \A book \in Books' :
                                r \in Ids(book) /\ (book.runs[r].target.durable \/ Len(submitted[r]) <= 1)
                           /\ ledger'.runs[r].status \in Finished \/ MaySendAgain(r)'
    BY <1>5 DEF SentOnce
  <2>1. /\ \A i \in DOMAIN submitted[r] : submitted[r][i] <= crashes
        /\ \A i, j \in DOMAIN submitted[r] : i # j => submitted[r][i] # submitted[r][j]
        /\ submitted[r] # <<>> =>
             \A book \in Books : r \in Ids(book) /\ (book.runs[r].target.durable \/ Len(submitted[r]) <= 1)
    BY <1>1 DEF History, SentOnce
  <2>2. submitted[r] \in Seq(0..MaxCrashes)
    BY <1>1 DEF TypeInv
  <2>3. \A i \in DOMAIN submitted[r] : submitted[r][i] \in Nat
    BY <2>2, ElementOfSeq, LenProperties, DeliveryAssumption
  <2>4. \A i \in DOMAIN submitted[r] : submitted[r][i] <= crashes' /\ submitted[r][i] # crashes'
    BY <1>5, <2>1, <2>3
  <2>5. SUFFICES ASSUME submitted[r] # <<>>
                 PROVE  /\ \A book \in Books' :
                             r \in Ids(book) /\ (book.runs[r].target.durable \/ Len(submitted[r]) <= 1)
                        /\ MaySendAgain(r)'
    BY <2>1, <2>4
  <2>6. r \in Ids(last) /\ (last.runs[r].target.durable \/ Len(submitted[r]) <= 1)
    BY <2>1, <2>5
  <2>7. \A book \in Books' : r \in Ids(book) /\ (book.runs[r].target.durable \/ Len(submitted[r]) <= 1)
    BY <1>8, <1>12, <2>6
  <2>8. ledger'.runs[r].target.durable \/ origin[r] # pane'.term
    <3>1. SUFFICES ASSUME ~ledger'.runs[r].target.durable
                   PROVE  origin[r] # pane'.term
      OBVIOUS
    <3>2. last.runs[r].target.term = origin[r]
      BY <1>7, <1>12, <2>6, <3>1
    <3>3. origin[r] \in 1..MaxTerms /\ origin[r] <= terms
      BY <1>1, <2>6, <3>2, BooksAreLedgers DEF History, Lifetimes
    <3>. QED
      BY <1>5, <1>15, <3>3
  <2>9. MaySendAgain(r)'
    BY <1>5, <2>4, <2>8 DEF MaySendAgain
  <2>. QED
    BY <2>7, <2>9
<1>. QED
  BY <1>7, <1>9, <1>10, <1>13, <1>14, <1>16 DEF Inv, Intents, History

-----------------------------------------------------------------------------
(* The initial states, and each action as a kind of step *)

LEMMA InitInv ==
  Init => Inv
<1> SUFFICES ASSUME Init
             PROVE  Inv
  OBVIOUS
<1>1. PICK kinds \in [Autos -> {FALSE, Identity}] :
        /\ ledger = [defs |-> [a \in Autos |-> [enabled |-> TRUE,
                                                target |-> [term |-> 1, durable |-> kinds[a]]]],
                     runs |-> <<>>]
        /\ route = [a \in Autos |-> IF kinds[a] THEN "bound" ELSE "none"]
  BY DEF Init
<1>2. /\ disk = ledger /\ dirty = FALSE /\ saving = NoSave /\ waiter = NoWaiter
      /\ pane = [term |-> 1, agent |-> TRUE, proof |-> IF Identity THEN "ready" ELSE "none", busy |-> FALSE]
      /\ submitted = [r \in 1..MaxRuns |-> <<>>] /\ origin = [r \in 1..MaxRuns |-> 0]
      /\ terms = 1 /\ crashes = 0
  BY DEF Init
<1>3. MaxTerms \in Nat /\ 1 \in 1..MaxTerms /\ MaxRuns \in Nat /\ MaxCrashes \in Nat
  BY DeliveryAssumption
<1> DEFINE at(a) == [enabled |-> TRUE, target |-> [term |-> 1, durable |-> kinds[a]]]
           defs == [a \in Autos |-> at(a)]
<1>4. ledger.defs = defs /\ ledger.runs = <<>> /\ ledger = [defs |-> defs, runs |-> <<>>]
  BY <1>1
<1>5. \A a \in Autos : at(a) \in Definitions /\ at(a).target.term = 1
  <2> TAKE a \in Autos
  <2>1. kinds[a] \in BOOLEAN
    BY DeliveryAssumption
  <2>2. [term |-> 1, durable |-> kinds[a]] \in Targets
    BY <1>3, <2>1 DEF Targets
  <2>. QED
    BY <2>2 DEF Definitions
<1> HIDE DEF at
<1>6. defs \in [Autos -> Definitions]
  BY <1>5
<1> HIDE DEF defs
<1>7. <<>> \in Seq(Runs) /\ Len(<<>>) = 0
  BY EmptySeq
<1>8. IsLedger(ledger) /\ Ids(ledger) = {}
  <2>1. DOMAIN <<>> = {}
    BY EmptySeq
  <2>. QED
    BY <1>3, <1>4, <1>6, <1>7, <2>1 DEF IsLedger, Ids
<1>9. Books = {ledger}
  BY <1>2 DEF Books
<1>10. TypeInv
  <2>1. route \in Routing
    BY <1>1 DEF Routing
  <2>2. pane \in Panes
    BY <1>2, <1>3 DEF Panes
  <2>3. submitted \in [1..MaxRuns -> Seq(0..MaxCrashes)]
    <3>1. <<>> \in Seq(0..MaxCrashes)
      BY EmptySeq
    <3>. QED
      BY <1>2, <3>1
  <2>4. origin \in [1..MaxRuns -> 0..MaxTerms]
    BY <1>2, <1>3
  <2>5. terms \in 1..MaxTerms /\ crashes \in 0..MaxCrashes
    BY <1>2, <1>3
  <2>6. IsLedger(ledger) /\ IsLedger(disk) /\ dirty \in BOOLEAN /\ saving = NoSave
    BY <1>2, <1>8
  <2>7. waiter \in [run : 0..MaxRuns, wasEnabled : BOOLEAN]
    BY <1>2, NoWaiterType
  <2>. QED
    BY <2>1, <2>2, <2>3, <2>4, <2>5, <2>6, <2>7 DEF TypeInv
<1>11. Intents
  BY <1>2, NoWaiterType DEF Intents, IntentHeld, WriteDone, NoSave
<1>12. RunsKnown
  BY <1>9 DEF RunsKnown
<1>13. TargetsPlaced
  <2>1. Within(ledger, terms)
    BY <1>2, <1>4, <1>5 DEF Within, defs
  <2>. QED
    BY <1>8, <1>9, <2>1 DEF TargetsPlaced
<1>14. Lifetimes
  BY <1>2 DEF Lifetimes
<1>15. SentOnce
  <2>1. \A r \in 1..MaxRuns : submitted[r] = <<>> /\ DOMAIN submitted[r] = {}
    BY <1>2, EmptySeq
  <2>. QED
    BY <2>1 DEF SentOnce
<1>. QED
  BY <1>10, <1>11, <1>12, <1>13, <1>14, <1>15 DEF Inv, History

\* What persist_automation leaves.
LEMMA PersistSaves ==
  ASSUME TypeInv, NEW led, Persist(led)
  PROVE  /\ ledger' = led /\ disk' = disk /\ dirty' \in BOOLEAN
         /\ saving' \in {saving, NoSave, Snapshot(ledger')}
BY DEF Persist, Save, TypeInv

\* Nothing happens to the ledger.
LEMMA IdleQuiet ==
  ASSUME TypeInv, ledger' = ledger, disk' = disk, dirty' = dirty, saving' = saving,
         waiter' = waiter, Here
  PROVE  Quiet
<1>1. Calm(ledger, ledger', terms)
  BY CalmIdle DEF TypeInv
<1>. QED
  BY <1>1 DEF Quiet, TypeInv

\* The pane stays, and the routes keep their type.
LEMMA PaneStays ==
  ASSUME TypeInv, pane' = pane, terms' = terms, route' \in Routing
  PROVE  Around
BY DEF Around, TypeInv

LEMMA PaneChanges ==
  ASSUME TypeInv, pane' \in Panes, pane'.term \in {pane.term, 0}, terms' = terms, route' \in Routing
  PROVE  Around
BY DEF Around, TypeInv

LEMMA WakeKind ==
  ASSUME TypeInv, NEW p, NEW rt, Wake(p, rt), Here
  PROVE  Quiet \/ Starts
<1>1. CASE SavePending
  BY <1>1, IdleQuiet DEF Wake, store
<1>2. CASE ~SavePending
  <2>1. (\E rs : StartFirst(ledger, rs, p, rt)) /\ disk' = disk
    BY <1>2 DEF Wake
  <2>2. Tried(ledger, terms)
    BY <2>1, StartFirstTried DEF TypeInv
  <2>. QED
    BY <2>1, <2>2 DEF Starts
<1>. QED
  BY <1>1, <1>2

\* The routes of definitions with an identity.
LEMMA RoutesType ==
  ASSUME NEW led, NEW state \in {"none", "needs_rebind", "restoring", "bound"}, NEW rt \in Routing
  PROVE  Routes(led, state, rt) \in Routing
BY DEF Routes, Routing

LEMMA RouteStateType ==
  ASSUME NEW p
  PROVE  RouteState(p) \in {"none", "needs_rebind", "restoring", "bound"}
BY DEF RouteState

LEMMA FollowedPersist ==
  ASSUME TypeInv, NEW p \in Panes, p.term <= terms, Persist(Followed(ledger, p)),
         waiter' = waiter, Here
  PROVE  Quiet
<1>1. Proven(p) => p.term \in 1..MaxTerms /\ p.term <= terms
  BY DeliveryAssumption DEF Proven, Panes
<1>2. Calm(ledger, Followed(ledger, p), terms)
  BY <1>1, FollowedCalm DEF TypeInv
<1>. QED
  BY <1>2, PersistSaves DEF Quiet

LEMMA ReconcileKind ==
  ASSUME TypeInv, Lifetimes, NEW p \in Panes, p.term = pane.term, Reconcile(p), PaneStep
  PROVE  Around /\ (Quiet \/ Starts)
<1> DEFINE rt == Routes(ledger, RouteState(p), route)
<1>1. pane' = p /\ route' = rt
  BY DEF Reconcile
<1>2. rt \in Routing
  BY RoutesType, RouteStateType DEF TypeInv
<1>3. Here /\ terms' = terms
  BY DEF PaneStep, Here, ghosts, bounds
<1>4. Around
  BY <1>1, <1>2, <1>3, PaneChanges
<1>5. p.term <= terms
  BY DEF Lifetimes, TypeInv
<1>6. CASE Followed(ledger, p) # ledger \/ rt # route
  BY <1>3, <1>4, <1>5, <1>6, FollowedPersist DEF Reconcile
<1>7. CASE ~(Followed(ledger, p) # ledger \/ rt # route) /\ p.proof = "ready"
  <2>1. Wake(p, rt)
    BY <1>7 DEF Reconcile
  <2> HIDE DEF rt
  <2>. QED
    BY <1>3, <1>4, <2>1, WakeKind
<1>8. CASE ~(Followed(ledger, p) # ledger \/ rt # route) /\ p.proof # "ready"
  <2>1. UNCHANGED <<ledger, store, waiter>>
    BY <1>8 DEF Reconcile
  <2>. QED
    BY <1>3, <1>4, <2>1, IdleQuiet DEF store
<1>. QED
  BY <1>6, <1>7, <1>8

LEMMA RequestKind ==
  ASSUME Inv, NEW a \in Autos, Request(a)
  PROVE  Around /\ Asked
<1> DEFINE r == Len(ledger.runs) + 1
           run == [auto |-> a, target |-> ledger.defs[a].target, status |-> "pending", note |-> ""]
           led == [ledger EXCEPT !.runs = Append(ledger.runs, run)]
<1>1. /\ r <= MaxRuns /\ Persist(led)
      /\ origin' = [origin EXCEPT ![r] = run.target.term]
      /\ UNCHANGED <<waiter, route, pane, terms, submitted, bounds>>
  BY DEF Request
<1>2. TypeInv
  BY DEF Inv
<1>3. Around
  BY <1>1, <1>2, PaneStays DEF TypeInv
<1> HIDE DEF led
<1>4. ledger' = led /\ disk' = disk /\ dirty' \in BOOLEAN /\ saving' \in {saving, NoSave, Snapshot(ledger')}
  BY <1>1, <1>2, PersistSaves
<1>5. Asked
  BY <1>1, <1>4 DEF Asked, led, bounds
<1>. QED
  BY <1>3, <1>5

LEMMA DisableKind ==
  ASSUME Inv, NEW a \in Autos, Disable(a)
  PROVE  Around /\ Quiet
<1>1. TypeInv
  BY DEF Inv
<1>2. waiter' = waiter /\ pane' = pane /\ terms' = terms /\ Here /\ route' = route
  BY DEF Disable, Edit, Here, ghosts
<1>3. Around
  BY <1>1, <1>2, PaneStays DEF TypeInv
<1>4. Calm(ledger, Disabled(ledger, a), terms)
  BY <1>1, DisabledCalm DEF TypeInv
<1>5. Quiet
  BY <1>1, <1>2, <1>4, PersistSaves DEF Disable, Quiet
<1>. QED
  BY <1>3, <1>5

\* Editing a definition changes no run.
LEMMA DefinitionEdited ==
  ASSUME NEW led, IsLedger(led), NEW a \in Autos, NEW n,
         NEW defs \in [Autos -> Definitions],
         \A b \in Autos : defs[b] = led.defs[b] \/ defs[b].target = led.defs[b].target
                                                \/ defs[b].target.term <= n
  PROVE  Calm(led, [led EXCEPT !.defs = defs], n)
<1>1. Within(led, n) => \A b \in Autos : defs[b].target.term <= n
  BY DEF Within
<1>. QED
  BY <1>1, OtherDefinitions

LEMMA EnableKind ==
  ASSUME Inv, NEW a \in Autos, Enable(a)
  PROVE  Around /\ Quiet
<1>1. TypeInv /\ IsLedger(ledger)
  BY DEF Inv, TypeInv
<1>2. waiter' = waiter /\ pane' = pane /\ terms' = terms /\ Here /\ route' = route
  BY DEF Enable, Edit, Here, ghosts
<1>3. Around
  BY <1>1, <1>2, PaneStays DEF TypeInv
<1> DEFINE on == [ledger.defs[a] EXCEPT !.enabled = TRUE]
           defs == [ledger.defs EXCEPT ![a] = on]
<1>4. on \in Definitions /\ on.target = ledger.defs[a].target
  BY <1>1, DefinitionFields DEF Definitions
<1>5. Persist([ledger EXCEPT !.defs = defs])
  BY DEF Enable
<1> HIDE DEF on
<1>6. defs \in [Autos -> Definitions]
      /\ \A b \in Autos : defs[b] = ledger.defs[b] \/ defs[b].target = ledger.defs[b].target
  BY <1>1, <1>4, LedgerFields
<1> HIDE DEF defs
<1>7. Calm(ledger, [ledger EXCEPT !.defs = defs], terms)
  BY <1>1, <1>6, DefinitionEdited
<1>8. Quiet
  BY <1>1, <1>2, <1>5, <1>7, PersistSaves DEF Quiet
<1>. QED
  BY <1>3, <1>8

LEMMA UpdateKind ==
  ASSUME Inv, NEW a \in Autos, Update(a)
  PROVE  Around /\ Quiet
<1>1. TypeInv /\ IsLedger(ledger) /\ Lifetimes
  BY DEF Inv, TypeInv, History
<1>2. waiter' = waiter /\ pane' = pane /\ terms' = terms /\ Here
  BY DEF Update, Edit, Here, ghosts
<1>3. route' \in Routing
  <2>1. (IF Proven(pane) THEN RouteState(pane) ELSE "none") \in {"none", "needs_rebind", "restoring", "bound"}
    BY RouteStateType
  <2>. QED
    BY <1>1, <2>1 DEF Update, TypeInv, Routing
<1>4. Around
  BY <1>1, <1>2, <1>3, PaneStays
<1>5. PICK on \in BOOLEAN :
        Persist([ledger EXCEPT !.defs[a] =
                   [enabled |-> on, target |-> [term |-> pane.term, durable |-> Proven(pane)]]])
  BY DEF Update
<1> DEFINE new == [enabled |-> on, target |-> [term |-> pane.term, durable |-> Proven(pane)]]
           defs == [ledger.defs EXCEPT ![a] = new]
<1>6. pane.term \in 1..MaxTerms /\ pane.term <= terms
  BY <1>1, DeliveryAssumption DEF Update, TypeInv, Panes, Lifetimes
<1>7. new \in Definitions /\ new.target.term = pane.term
  <2>1. Proven(pane) \in BOOLEAN
    BY DEF Proven
  <2>2. [term |-> pane.term, durable |-> Proven(pane)] \in Targets
    BY <1>6, <2>1 DEF Targets
  <2>. QED
    BY <2>2 DEF Definitions
<1>8. Persist([ledger EXCEPT !.defs = defs])
  BY <1>5
<1> HIDE DEF new
<1>9. defs \in [Autos -> Definitions]
      /\ \A b \in Autos : defs[b] = ledger.defs[b] \/ defs[b].target.term <= terms
  BY <1>1, <1>6, <1>7, LedgerFields
<1> HIDE DEF defs
<1>10. Calm(ledger, [ledger EXCEPT !.defs = defs], terms)
  BY <1>1, <1>9, DefinitionEdited
<1>11. Quiet
  BY <1>1, <1>2, <1>8, <1>10, PersistSaves DEF Quiet
<1>. QED
  BY <1>4, <1>11

LEMMA RebindKind ==
  ASSUME Inv, NEW a \in Autos, Rebind(a)
  PROVE  Around /\ Quiet
<1>1. TypeInv /\ IsLedger(ledger) /\ Lifetimes
  BY DEF Inv, TypeInv, History
<1>2. waiter' = waiter /\ pane' = pane /\ terms' = terms /\ Here
  BY DEF Rebind, Edit, Here, ghosts
<1>3. route' \in Routing
  BY <1>1, RouteStateType DEF Rebind, TypeInv, Routing
<1>4. Around
  BY <1>1, <1>2, <1>3, PaneStays
<1>5. pane.term \in 1..MaxTerms /\ pane.term <= terms
  BY <1>1, DeliveryAssumption DEF Rebind, Proven, TypeInv, Panes, Lifetimes
<1>6. Calm(ledger, Retargeted(ledger, a, [term |-> pane.term, durable |-> TRUE], TRUE), terms)
  BY <1>1, <1>5, ReboundCalm
<1>7. Quiet
  BY <1>1, <1>2, <1>6, PersistSaves DEF Rebind, Quiet
<1>. QED
  BY <1>4, <1>7

LEMMA AgentSeenKind ==
  ASSUME Inv, AgentSeen
  PROVE  Around /\ (Quiet \/ Starts)
<1>1. TypeInv /\ Lifetimes /\ pane \in Panes
  BY DEF Inv, TypeInv, History
<1> DEFINE proof == IF Proven(pane) THEN "ready" ELSE pane.proof
           seen == [pane EXCEPT !.agent = TRUE]
           p == [seen EXCEPT !.proof = proof]
<1>2. proof \in {"none", "session", "ready"}
  BY <1>1 DEF Panes
<1>3. Reconcile(p) /\ PaneStep
  BY DEF AgentSeen
<1> HIDE DEF proof
<1>4. seen \in Panes /\ seen.term = pane.term
  BY <1>1 DEF Panes
<1> HIDE DEF seen
<1>5. p \in Panes /\ p.term = pane.term
  BY <1>2, <1>4 DEF Panes
<1> HIDE DEF p
<1>. QED
  BY <1>1, <1>3, <1>5, ReconcileKind

LEMMA SessionClaimKind ==
  ASSUME Inv, SessionClaim
  PROVE  Around /\ (Quiet \/ Starts)
<1>1. TypeInv /\ Lifetimes /\ pane \in Panes
  BY DEF Inv, TypeInv, History
<1> DEFINE seen == [pane EXCEPT !.agent = TRUE]
           p == [seen EXCEPT !.proof = "session"]
           rt == Routes(ledger, "restoring", route)
<1>2. /\ pane' = p /\ route' = Routes(ledger, "bound", route) /\ PaneStep
      /\ IF Followed(ledger, p) # ledger \/ rt # route
         THEN Persist(Followed(ledger, p)) /\ UNCHANGED waiter
         ELSE IF route' # route THEN Wake(p, route') ELSE UNCHANGED <<ledger, store, waiter>>
  BY DEF SessionClaim
<1>3. seen \in Panes /\ seen.term = pane.term
  BY <1>1 DEF Panes
<1> HIDE DEF seen
<1>4. p \in Panes /\ p.term = pane.term
  BY <1>3 DEF Panes
<1> HIDE DEF p, rt
<1>5. Here /\ terms' = terms
  BY <1>2 DEF PaneStep, Here, ghosts, bounds
<1>6. Around
  BY <1>1, <1>2, <1>4, <1>5, RoutesType, PaneChanges DEF TypeInv
<1>7. p.term <= terms
  BY <1>1, <1>4 DEF Lifetimes, TypeInv
<1>8. CASE Persist(Followed(ledger, p)) /\ UNCHANGED waiter
  BY <1>1, <1>4, <1>5, <1>6, <1>7, <1>8, FollowedPersist
<1>9. CASE Wake(p, route')
  BY <1>1, <1>5, <1>6, <1>9, WakeKind
<1>10. CASE UNCHANGED <<ledger, store, waiter>>
  BY <1>1, <1>5, <1>6, <1>10, IdleQuiet DEF store
<1>. QED
  BY <1>2, <1>8, <1>9, <1>10

LEMMA AgentGoneKind ==
  ASSUME Inv, AgentGone
  PROVE  Around /\ (Quiet \/ Starts)
<1>1. TypeInv /\ Lifetimes /\ pane \in Panes
  BY DEF Inv, TypeInv, History
<1>2. PICK stays \in {FALSE, Identity} :
        Reconcile([pane EXCEPT !.agent = stays, !.proof = "none"])
  BY DEF AgentGone
<1> DEFINE left == [pane EXCEPT !.agent = stays]
           p == [left EXCEPT !.proof = "none"]
<1>3. Reconcile(p) /\ PaneStep
  BY <1>2 DEF AgentGone
<1>4. stays \in BOOLEAN
  BY DeliveryAssumption
<1>5. left \in Panes /\ left.term = pane.term
  BY <1>1, <1>4 DEF Panes
<1> HIDE DEF left
<1>6. p \in Panes /\ p.term = pane.term
  BY <1>5 DEF Panes
<1> HIDE DEF p
<1>. QED
  BY <1>1, <1>3, <1>6, ReconcileKind

LEMMA ScanFailedKind ==
  ASSUME Inv, ScanFailed
  PROVE  Around /\ Quiet
<1>1. TypeInv
  BY DEF Inv
<1>2. Here /\ terms' = terms
  BY DEF ScanFailed, PaneStep, Here, ghosts, bounds
<1>3. route' \in Routing
  BY <1>1, RoutesType DEF ScanFailed, TypeInv
<1>4. Around
  BY <1>1, <1>2, <1>3, PaneStays DEF ScanFailed
<1>. QED
  BY <1>1, <1>2, <1>4, IdleQuiet DEF ScanFailed, store

LEMMA AgentStateKind ==
  ASSUME Inv, AgentState
  PROVE  Around /\ (Quiet \/ Starts)
<1>1. TypeInv /\ pane \in Panes
  BY DEF Inv, TypeInv
<1>2. Here /\ terms' = terms
  BY DEF AgentState, PaneStep, Here, ghosts, bounds
<1>3. pane' \in Panes /\ pane'.term = pane.term
  BY <1>1 DEF AgentState, Panes
<1>4. Around
  BY <1>1, <1>2, <1>3, PaneChanges DEF AgentState, TypeInv
<1>5. Wake(pane', route)
  BY DEF AgentState
<1>. QED
  BY <1>1, <1>2, <1>4, <1>5, WakeKind

LEMMA ClosedPane ==
  Closed \in Panes /\ Closed.term = 0 /\ ~Proven(Closed)
BY DeliveryAssumption DEF Closed, Panes, Proven

LEMMA PaneCloseKind ==
  ASSUME Inv, PaneClose
  PROVE  Around /\ Quiet
<1>1. TypeInv /\ IsLedger(ledger)
  BY DEF Inv, TypeInv
<1> DEFINE lost == {a \in ProcessBound(ledger) : ledger.defs[a].target.term = pane.term}
<1>2. /\ pane' = Closed /\ route' = Routes(ledger, "needs_rebind", route) /\ PaneStep
      /\ IF lost = {} THEN UNCHANGED <<ledger, store>> ELSE Persist(Expired(ledger, lost))
      /\ UNCHANGED waiter
  BY DEF PaneClose
<1>3. Here /\ terms' = terms
  BY <1>2 DEF PaneStep, Here, ghosts, bounds
<1>4. Around
  BY <1>1, <1>2, <1>3, RoutesType, ClosedPane, PaneChanges DEF TypeInv
<1> HIDE DEF lost
<1>5. CASE lost = {}
  BY <1>1, <1>2, <1>3, <1>4, <1>5, IdleQuiet DEF store
<1>6. CASE lost # {}
  <2>1. Calm(ledger, Expired(ledger, lost), terms)
    BY <1>1, ExpiredCalm
  <2>2. Quiet
    BY <1>1, <1>2, <1>3, <1>6, <2>1, PersistSaves DEF Quiet
  <2>. QED
    BY <1>4, <2>2
<1>. QED
  BY <1>5, <1>6

LEMMA PaneOpenKind ==
  ASSUME Inv, PaneOpen
  PROVE  Around /\ Quiet
<1>1. TypeInv
  BY DEF Inv
<1>2. Here /\ terms' = terms + 1 /\ terms < MaxTerms /\ pane' = [Closed EXCEPT !.term = terms + 1]
      /\ UNCHANGED <<ledger, store, waiter, route>>
  BY DEF PaneOpen, Here, ghosts, bounds
<1>3. terms + 1 \in 0..MaxTerms /\ terms' <= MaxTerms
  BY <1>1, <1>2, DeliveryAssumption DEF TypeInv
<1>4. pane' \in Panes /\ pane'.term = terms'
  BY <1>2, <1>3, ClosedPane DEF Panes
<1>5. Around
  BY <1>1, <1>2, <1>3, <1>4 DEF Around, TypeInv
<1>. QED
  BY <1>1, <1>2, <1>5, IdleQuiet DEF store

LEMMA SaveTickKind ==
  ASSUME Inv, SaveTick
  PROVE  Around /\ Quiet
<1>1. TypeInv
  BY DEF Inv
<1>2. Here /\ UNCHANGED <<ledger, disk, waiter, route, pane, terms>>
      /\ saving' = Snapshot(ledger) /\ dirty' = FALSE
  BY DEF SaveTick, Here, ghosts, bounds
<1>3. Around
  BY <1>1, <1>2, PaneStays DEF TypeInv
<1>4. Calm(ledger, ledger', terms)
  BY <1>1, <1>2, CalmIdle DEF TypeInv
<1>5. Quiet
  BY <1>2, <1>4 DEF Quiet
<1>. QED
  BY <1>3, <1>5

LEMMA WriteKind ==
  ASSUME Inv, Write
  PROVE  Around /\ Written
<1>1. TypeInv
  BY DEF Inv
<1>2. Around
  BY <1>1, PaneStays DEF TypeInv, Write
<1>3. saving # NoSave
  BY DEF Write, NoSave
<1>4. Written
  BY <1>3 DEF Written, Write, ghosts
<1>. QED
  BY <1>2, <1>4

\* What handlers decide about the run that was to be launched.
LEMMA AwaitedCalm ==
  ASSUME TypeInv, IntentHeld, Awaited, NEW n
  PROVE  /\ waiter.run \in Ids(ledger) /\ ledger.runs[waiter.run].status \in Live
         /\ Calm(ledger, Finish(ledger, waiter.run, "cancelled"), n)
         /\ Calm(ledger, FailedForGood(ledger, waiter.run), n)
         /\ Calm(ledger, Waits(ledger, waiter.run, "changed"), n)
<1> DEFINE r == waiter.run
<1>1. IsLedger(ledger) /\ r \in Ids(ledger) /\ ledger.runs[r].status \in Live
  BY DEF TypeInv, IntentHeld, Awaited, Live
<1> HIDE DEF r
<1>2. Calm(ledger, Finish(ledger, r, "cancelled"), n)
  <2>1. \A q \in {r} \cap Ids(ledger) : ledger.runs[q].status \in Live
    BY <1>1
  <2>2. "cancelled" \in Live \cup Finished /\ "cancelled" # "starting"
    BY DEF Finished
  <2>. QED
    BY <1>1, <2>1, <2>2, WithRunsKept DEF Finish
<1>3. Calm(ledger, FailedForGood(ledger, r), n)
  BY <1>1, FailedForGoodCalm
<1>4. Calm(ledger, Waits(ledger, r, "changed"), n)
  BY <1>1, WaitsCalm
<1>. QED
  BY <1>1, <1>2, <1>3, <1>4 DEF r

\* A fresh save of a calm change is quiet.
LEMMA SaveQuiet ==
  ASSUME NEW led, Save(led), Calm(ledger, led, terms), disk' = disk, waiter' = NoWaiter, Here
  PROVE  Quiet
BY DEF Save, Quiet

LEMMA CompleteOkKind ==
  ASSUME Inv, CompleteOk
  PROVE  Around /\ (Quiet \/ Starts \/ Sent)
<1>1. TypeInv /\ IntentHeld /\ IsLedger(ledger)
  BY DEF Inv, TypeInv, Intents
<1>2. UNCHANGED <<disk, route, pane, terms, origin>> /\ crashes' = crashes /\ saving.result = "ok"
  BY DEF CompleteOk, bounds
<1>3. Around
  BY <1>1, <1>2, PaneStays DEF TypeInv
<1>4. CASE Awaited
  <2> DEFINE r == waiter.run
  <2>1. PICK out \in Outcomes : Save(out.ledger) /\ SentIf(out.sent) /\ waiter' = NoWaiter
    BY <1>4 DEF CompleteOk
  <2>2. /\ Calm(ledger, Finish(ledger, r, "cancelled"), terms)
        /\ Calm(ledger, FailedForGood(ledger, r), terms)
        /\ Calm(ledger, Waits(ledger, r, "changed"), terms)
    BY <1>1, <1>4, AwaitedCalm
  <2>3. \/ out \in {[ledger |-> Finish(ledger, r, "cancelled"), sent |-> FALSE],
                    [ledger |-> FailedForGood(ledger, r), sent |-> FALSE],
                    [ledger |-> Waits(ledger, r, "changed"), sent |-> FALSE]}
        \/ /\ out = [ledger |-> Finish(ledger, r, "delivered"), sent |-> TRUE]
           /\ Verdict(ledger.runs[r], pane, route) = "dispatch"
    BY <2>1 DEF Outcomes
  <2>4. CASE out \in {[ledger |-> Finish(ledger, r, "cancelled"), sent |-> FALSE],
                      [ledger |-> FailedForGood(ledger, r), sent |-> FALSE],
                      [ledger |-> Waits(ledger, r, "changed"), sent |-> FALSE]}
    <3>1. Calm(ledger, out.ledger, terms) /\ out.sent = FALSE
      BY <2>2, <2>4
    <3>2. Here
      BY <1>2, <2>1, <3>1 DEF SentIf, Here
    <3>. QED
      BY <1>2, <1>3, <2>1, <3>1, <3>2, SaveQuiet
  <2>5. CASE /\ out = [ledger |-> Finish(ledger, r, "delivered"), sent |-> TRUE]
             /\ Verdict(ledger.runs[r], pane, route) = "dispatch"
    <3>1. out.ledger = Finish(ledger, r, "delivered") /\ out.sent = TRUE
      BY <2>5
    <3>2. /\ ledger' = Finish(ledger, r, "delivered") /\ dirty' \in BOOLEAN
          /\ saving' \in {NoSave, Snapshot(ledger')}
      BY <2>1, <3>1 DEF Save
    <3>3. submitted' = [submitted EXCEPT ![r] = Append(@, crashes)]
      BY <2>1, <3>1 DEF SentIf
    <3>4. Sent
      BY <1>2, <1>4, <2>1, <2>5, <3>2, <3>3 DEF Sent
    <3>. QED
      BY <1>3, <3>4
  <2>. QED
    BY <2>3, <2>4, <2>5
<1>5. CASE ~Awaited
  <2>1. SentIf(FALSE) /\ (IF dirty THEN Save(ledger) /\ waiter' = NoWaiter
                          ELSE StartFirst(ledger, Ids(ledger), pane, route))
    BY <1>5 DEF CompleteOk
  <2>2. Here
    BY <1>2, <2>1 DEF SentIf, Here
  <2>3. CASE dirty
    BY <1>1, <1>2, <1>3, <2>1, <2>2, <2>3, CalmIdle, SaveQuiet
  <2>4. CASE ~dirty
    <3>1. Tried(ledger, terms)
      BY <1>1, <2>1, <2>4, StartFirstTried
    <3>. QED
      BY <1>2, <1>3, <2>2, <3>1 DEF Starts
  <2>. QED
    BY <2>3, <2>4
<1>. QED
  BY <1>4, <1>5

LEMMA CompleteErrorKind ==
  ASSUME Inv, CompleteError
  PROVE  Around /\ Quiet
<1>1. TypeInv /\ IntentHeld /\ IsLedger(ledger)
  BY DEF Inv, TypeInv, Intents
<1>2. /\ UNCHANGED <<disk, route, pane, terms>> /\ Here
      /\ waiter' = NoWaiter /\ saving' = NoSave /\ dirty' = TRUE
  BY DEF CompleteError, ghosts, bounds, Here
<1>3. Around
  BY <1>1, <1>2, PaneStays DEF TypeInv
<1> DEFINE waiting == {r \in Ids(ledger) : ledger.runs[r].status = "pending"}
           failed == WithRuns(ledger, waiting, "failed")
           end == IF DisabledMeanwhile THEN "cancelled" ELSE "failed"
<1>4. ledger' = IF Awaited THEN Finish(failed, waiter.run, end) ELSE failed
  BY DEF CompleteError
<1>5. /\ IsLedger(failed) /\ Ids(failed) = Ids(ledger) /\ Calm(ledger, failed, terms)
      /\ \A r \in Ids(ledger) : failed.runs[r].status = IF r \in waiting THEN "failed" ELSE ledger.runs[r].status
  <2>1. \A r \in waiting \cap Ids(ledger) : ledger.runs[r].status \in Live
    BY DEF Live
  <2>2. "failed" \in Live \cup Finished /\ "failed" # "starting"
    BY DEF Finished
  <2> HIDE DEF waiting
  <2>. QED
    BY <1>1, <2>1, <2>2, WithRunsResult, WithRunsKept
<1>6. end \in Live \cup Finished /\ end # "starting"
  BY DEF Finished
<1>7. Awaited => waiter.run \in Ids(ledger) /\ waiter.run \notin waiting
                 /\ ledger.runs[waiter.run].status \in Live
  BY <1>1 DEF Awaited, IntentHeld, Live
<1> HIDE DEF waiting, failed, end
<1>8. CASE Awaited
  <2>1. \A q \in {waiter.run} \cap Ids(failed) : failed.runs[q].status \in Live
    BY <1>5, <1>7, <1>8
  <2>2. Calm(failed, ledger', terms)
    BY <1>4, <1>5, <1>6, <1>8, <2>1, WithRunsKept DEF Finish
  <2>3. Calm(ledger, ledger', terms)
    BY <1>1, <1>5, <2>2, CalmTwice
  <2>. QED
    BY <1>2, <1>3, <2>3 DEF Quiet
<1>9. CASE ~Awaited
  BY <1>2, <1>3, <1>4, <1>5, <1>9 DEF Quiet
<1>. QED
  BY <1>8, <1>9

LEMMA RestartKind ==
  ASSUME Inv, Restart
  PROVE  Around /\ Rebooted
<1>1. TypeInv /\ Lifetimes
  BY DEF Inv, History
<1> DEFINE spawned == [term : {terms + 1}, agent : BOOLEAN,
                       proof : {"none"} \cup (IF Identity THEN {"session"} ELSE {}), busy : {FALSE}]
<1>2. PICK last \in Books :
        \E p \in {Closed} \cup (IF terms = MaxTerms THEN {} ELSE spawned) :
          LET expired == ExpiredAtBoot(last)
              recovered == Recovered(expired)
              led == Followed(recovered, p)
              rt == [a \in Autos |-> IF a \in Durable(last) THEN RouteState(p) ELSE "none"]
              first == IF ProcessBound(last) # {} THEN expired
                       ELSE IF recovered # last THEN recovered ELSE led
              saves == ProcessBound(last) # {} \/ recovered # last \/ (Proven(p) /\ Durable(last) # {})
          IN  /\ Proven(p) => p.agent
              /\ pane' = p
              /\ terms' = IF p.term = 0 THEN terms ELSE terms + 1
              /\ disk' = last
              /\ route' = rt
              /\ IF saves
                 THEN ledger' = led /\ saving' = Snapshot(first) /\ dirty' = (led # first) /\ waiter' = NoWaiter
                 ELSE StartFirst(led, Ids(led), p, rt)
  BY Zenon DEF Restart, Books
<1> DEFINE expired == ExpiredAtBoot(last)
           recovered == Recovered(expired)
           led(p) == Followed(recovered, p)
           rt(p) == [a \in Autos |-> IF a \in Durable(last) THEN RouteState(p) ELSE "none"]
           first(p) == IF ProcessBound(last) # {} THEN expired
                       ELSE IF recovered # last THEN recovered ELSE led(p)
<1>3. PICK p \in {Closed} \cup (IF terms = MaxTerms THEN {} ELSE spawned) :
        /\ pane' = p
        /\ terms' = IF p.term = 0 THEN terms ELSE terms + 1
        /\ disk' = last
        /\ route' = rt(p)
        /\ \/ /\ ledger' = led(p) /\ saving' = Snapshot(first(p)) /\ dirty' \in BOOLEAN
              /\ waiter' = NoWaiter
           \/ StartFirst(led(p), Ids(led(p)), p, rt(p))
  BY <1>2
<1>4. /\ crashes' = crashes + 1 /\ crashes' <= MaxCrashes
      /\ submitted' = submitted /\ origin' = origin
  <2>1. crashes < MaxCrashes /\ crashes' = crashes + 1 /\ UNCHANGED ghosts
    BY DEF Restart
  <2>. QED
    BY <1>1, <2>1, DeliveryAssumption DEF TypeInv, ghosts
<1>5. route' \in Routing
  BY <1>3, RouteStateType DEF Routing
<1>6. terms \in Nat /\ MaxTerms \in Nat /\ terms \in 1..MaxTerms /\ pane.term \in {0, terms}
  BY <1>1, DeliveryAssumption DEF TypeInv, Lifetimes
<1>7. /\ p \in Panes
      /\ \/ p.term = 0 /\ terms' = terms
         \/ p.term = terms + 1 /\ terms' = terms + 1 /\ terms' <= MaxTerms
  <2>1. CASE p = Closed
    BY <1>3, <2>1, ClosedPane
  <2>2. CASE terms # MaxTerms /\ p \in spawned
    <3>1. p.term = terms + 1 /\ terms + 1 # 0 /\ terms + 1 <= MaxTerms /\ terms + 1 \in 0..MaxTerms
      BY <1>6, <2>2
    <3>2. p \in Panes
      BY <2>2, <3>1 DEF Panes
    <3>. QED
      BY <1>3, <3>1, <3>2
  <2>. QED
    BY <1>3, <2>1, <2>2
<1>8. Around
  BY <1>3, <1>5, <1>7 DEF Around
<1>9. pane'.term # pane.term \/ pane'.term = 0
  BY <1>3, <1>6, <1>7
<1> HIDE DEF rt
<1>10. IsLedger(last)
  BY <1>1, BooksAreLedgers
<1>11. Calm(last, expired, terms') /\ IsLedger(expired)
  BY <1>10, ExpiredCalm DEF ExpiredAtBoot, Calm, Kept
<1> HIDE DEF expired
<1>12. Calm(expired, recovered, terms') /\ IsLedger(recovered)
  <2> DEFINE rs == {r \in Ids(expired) : expired.runs[r].status = "starting"}
  <2>1. \A r \in rs \cap Ids(expired) : expired.runs[r].status \in Live
    BY DEF Live
  <2>2. "pending" \in Live \cup Finished /\ "pending" # "starting"
    BY DEF Live
  <2>3. recovered = WithRuns(expired, rs, "pending")
    BY DEF Recovered
  <2> HIDE DEF rs, recovered
  <2>. QED
    BY <1>11, <2>1, <2>2, <2>3, WithRunsKept DEF Calm, Kept
<1> HIDE DEF recovered
<1>13. Calm(recovered, led(p), terms') /\ IsLedger(led(p))
  <2>1. Proven(p) => p.term \in 1..MaxTerms /\ p.term <= terms'
    BY <1>6, <1>7 DEF Proven
  <2>. QED
    BY <1>12, <2>1, FollowedCalm DEF Calm, Kept
<1>14. Calm(last, recovered, terms')
  BY <1>10, <1>11, <1>12, CalmTwice
<1>15. Calm(last, led(p), terms')
  BY <1>10, <1>13, <1>14, CalmTwice
<1>16. Calm(last, first(p), terms')
  BY <1>11, <1>14, <1>15
<1> HIDE DEF led, first
<1>17. CASE /\ ledger' = led(p) /\ saving' = Snapshot(first(p)) /\ dirty' \in BOOLEAN
            /\ waiter' = NoWaiter
  BY <1>3, <1>4, <1>8, <1>9, <1>15, <1>16, <1>17 DEF Rebooted
<1>18. CASE StartFirst(led(p), Ids(led(p)), p, rt(p))
  <2>1. Tried(led(p), terms')
    BY <1>13, <1>18, StartFirstTried
  <2>. QED
    BY <1>3, <1>4, <1>8, <1>9, <1>15, <2>1 DEF Rebooted
<1>. QED
  BY <1>3, <1>17, <1>18

\* Every action is one of the kinds.
LEMMA NextKinds ==
  ASSUME Inv, Next
  PROVE  Around /\ Kinds
<1>1. ASSUME NEW a \in Autos, Request(a) \/ Disable(a) \/ Enable(a) \/ Update(a) \/ Rebind(a)
      PROVE  Around /\ Kinds
  BY <1>1, RequestKind, DisableKind, EnableKind, UpdateKind, RebindKind DEF Kinds
<1>2. CASE AgentSeen \/ SessionClaim \/ AgentGone \/ ScanFailed \/ AgentState \/ PaneClose \/ PaneOpen
  BY <1>2, AgentSeenKind, SessionClaimKind, AgentGoneKind, ScanFailedKind, AgentStateKind,
     PaneCloseKind, PaneOpenKind DEF Kinds
<1>3. CASE SaveTick \/ Write \/ CompleteOk \/ CompleteError
  BY <1>3, SaveTickKind, WriteKind, CompleteOkKind, CompleteErrorKind DEF Kinds
<1>4. CASE Restart
  BY <1>4, RestartKind DEF Kinds
<1>. QED
  BY <1>1, <1>2, <1>3, <1>4 DEF Next

LEMMA InvStep ==
  Inv /\ [Next]_vars => Inv'
<1>1. ASSUME Inv, Next
      PROVE  Inv'
  BY <1>1, NextKinds, QuietSafe, StartsSafe, AskedSafe, WrittenSafe, SentSafe, RebootedSafe DEF Kinds
<1>2. ASSUME Inv, UNCHANGED vars
      PROVE  Inv'
  <2>1. UNCHANGED <<ledger, disk, dirty, saving, waiter, route, pane, submitted, origin, terms, crashes>>
    BY <1>2 DEF vars, store, ghosts, bounds
  <2>2. Books' = Books /\ IntentHeld' = IntentHeld
    BY <2>1 DEF Books, IntentHeld, Awaited
  <2>3. TypeInv' /\ Intents'
    BY <1>2, <2>1, <2>2 DEF Inv, TypeInv, Intents, WriteDone
  <2>4. (\A r : MaySendAgain(r)' <=> MaySendAgain(r))
    BY <2>1 DEF MaySendAgain
  <2>5. History'
    BY <1>2, <2>1, <2>2, <2>4 DEF Inv, History, RunsKnown, TargetsPlaced, Lifetimes, SentOnce
  <2>. QED
    BY <2>3, <2>5 DEF Inv
<1>. QED
  BY <1>1, <1>2

\* The inductive invariant holds in every behaviour.
LEMMA Invariance ==
  Spec => []Inv
BY InitInv, InvStep, PTL DEF Spec

-----------------------------------------------------------------------------
(* What it means *)

LEMMA InvSafe ==
  Inv => DeliverySafe
<1> SUFFICES ASSUME Inv
             PROVE  DeliverySafe
  OBVIOUS
<1>1. TypeInv /\ SentOnce /\ ledger \in Books
  BY DEF Inv, History, Books
<1>2. TypeOK
  <2>1. \A led : IsLedger(led) => LedgerOK(led)
    BY DEF IsLedger, LedgerOK, Definitions
  <2>2. saving # NoSave => saving.result \in {"writing", "ok", "error"} /\ IsLedger(saving.ledger)
    BY <1>1, SaveFields DEF TypeInv
  <2>3. waiter.run \in 0..MaxRuns /\ waiter.wasEnabled \in BOOLEAN
    BY <1>1 DEF TypeInv
  <2>4. \A r \in 1..MaxRuns : submitted[r] \in Seq(0..MaxCrashes)
    BY <1>1 DEF TypeInv
  <2>. QED
    BY <1>1, <2>1, <2>2, <2>3, <2>4 DEF TypeInv, TypeOK, Routing, Panes
<1>3. PromptOnce
  <2> SUFFICES ASSUME NEW r \in 1..MaxRuns
               PROVE  /\ \A i, j \in DOMAIN submitted[r] : i # j => submitted[r][i] # submitted[r][j]
                      /\ r \in Ids(ledger) /\ ~ledger.runs[r].target.durable => Len(submitted[r]) <= 1
    BY DEF PromptOnce
  <2>1. \A i, j \in DOMAIN submitted[r] : i # j => submitted[r][i] # submitted[r][j]
    BY <1>1 DEF SentOnce
  <2>2. submitted[r] # <<>> => ledger.runs[r].target.durable \/ Len(submitted[r]) <= 1
    BY <1>1 DEF SentOnce
  <2>3. submitted[r] = <<>> => Len(submitted[r]) <= 1
    BY EmptySeq
  <2>. QED
    BY <2>1, <2>2, <2>3
<1>. QED
  BY <1>2, <1>3 DEF DeliverySafe

\* Only one kind of step submits a prompt, that of the run whose intent was saved.
LEMMA OnlySentSends ==
  ASSUME Inv, Next, NEW r \in 1..MaxRuns, Sends(r)
  PROVE  Sent /\ r = waiter.run
<1>1. TypeInv /\ Around /\ Kinds
  BY NextKinds DEF Inv
<1>2. submitted[r] \in Seq(0..MaxCrashes) /\ Len(submitted[r]) \in Nat
  <2>1. submitted[r] \in Seq(0..MaxCrashes)
    BY <1>1 DEF TypeInv
  <2>. QED
    BY <2>1, LenProperties
<1>3. submitted'[r] # submitted[r]
  BY <1>2 DEF Sends
<1>4. Sent
  BY <1>1, <1>3 DEF Kinds, Quiet, Starts, Here, Asked, Written, Rebooted
<1>5. submitted' = [submitted EXCEPT ![waiter.run] = Append(@, crashes)]
  BY <1>4 DEF Sent
<1>6. r = waiter.run
  BY <1>1, <1>3, <1>5 DEF TypeInv
<1>. QED
  BY <1>4, <1>6

\* What holds when a prompt is submitted.
LEMMA SentFacts ==
  ASSUME Inv, Sent
  PROVE  /\ waiter.run \in Ids(ledger) /\ waiter.run \in Ids(disk)
         /\ ledger.runs[waiter.run].status = "starting"
         /\ disk.runs[waiter.run].status = "starting"
         /\ pane.agent /\ ~pane.busy
         /\ IF ledger.runs[waiter.run].target.durable THEN Proven(pane)
            ELSE pane.term = origin[waiter.run]
<1>1. TypeInv /\ IntentHeld /\ WriteDone /\ TargetsPlaced /\ ledger \in Books
  BY DEF Inv, Intents, History, Books
<1>2. saving.result = "ok" /\ Awaited /\ Verdict(ledger.runs[waiter.run], pane, route) = "dispatch"
  BY DEF Sent
<1>3. saving # NoSave /\ disk = saving.ledger
  BY <1>1, <1>2 DEF WriteDone, NoSave
<1>4. /\ waiter.run \in Ids(ledger) /\ waiter.run \in Ids(disk)
      /\ disk.runs[waiter.run].status = "starting" /\ ledger.runs[waiter.run].status = "starting"
  BY <1>1, <1>2, <1>3 DEF IntentHeld, Awaited
<1>5. Valid(ledger.runs[waiter.run].target, pane) /\ ~pane.busy
  BY <1>2 DEF Verdict
<1>6. ledger.runs[waiter.run].target.durable
        \/ ledger.runs[waiter.run].target.term = origin[waiter.run]
  BY <1>1, <1>4 DEF TargetsPlaced
<1>. QED
  BY <1>4, <1>5, <1>6 DEF Valid

\* A run that has ended stays as it is while the server lives.
LEMMA EndedStays ==
  ASSUME Inv, Next, crashes' = crashes,
         NEW r \in Ids(ledger), ledger.runs[r].status \in Finished
  PROVE  ledger'.runs[r].status = ledger.runs[r].status /\ submitted'[r] = submitted[r]
<1>1. TypeInv /\ Around /\ Kinds /\ IsLedger(ledger)
  BY NextKinds DEF Inv, TypeInv
<1>2. CASE Quiet
  BY <1>2 DEF Quiet, Calm, Kept, Continues, Here
<1>3. CASE Starts
  BY <1>1, <1>3, TriedResult DEF Starts, Kept, Continues, Here
<1>4. CASE Asked
  <2>1. PICK run : ledger' = [ledger EXCEPT !.runs = Append(ledger.runs, run)]
    BY <1>4 DEF Asked
  <2>2. ledger'.runs = Append(ledger.runs, run)
    BY <1>1, <2>1, LedgerFields
  <2>3. ledger.runs \in Seq(Runs) /\ r \in 1..Len(ledger.runs)
    BY <1>1, LedgerFields
  <2>4. ledger'.runs[r] = ledger.runs[r]
    BY <2>2, <2>3
  <2>. QED
    BY <1>4, <2>4 DEF Asked
<1>5. CASE Written
  BY <1>5 DEF Written
<1>6. CASE Sent
  <2>1. waiter.run \in Ids(ledger) /\ ledger.runs[waiter.run].status = "starting"
    BY <1>6, SentFacts
  <2>2. r # waiter.run
    BY <2>1 DEF Finished
  <2>3. ledger' = WithRuns(ledger, {waiter.run}, "delivered")
    BY <1>6 DEF Sent, Finish
  <2>4. ledger'.runs[r].status = ledger.runs[r].status
    <3>1. "delivered" \in Live \cup Finished
      BY DEF Finished
    <3>. QED
      BY <1>1, <2>2, <2>3, <3>1, WithRunsResult
  <2>5. submitted' = [submitted EXCEPT ![waiter.run] = Append(@, crashes)]
    BY <1>6 DEF Sent
  <2>6. r \in 1..MaxRuns
    BY <1>1, LedgerFields
  <2>7. submitted'[r] = submitted[r]
    BY <1>1, <2>2, <2>5, <2>6 DEF TypeInv
  <2>. QED
    BY <2>4, <2>7
<1>7. CASE Rebooted
  BY <1>1, <1>7, DeliveryAssumption DEF Rebooted, TypeInv
<1>. QED
  BY <1>1, <1>2, <1>3, <1>4, <1>5, <1>6, <1>7 DEF Kinds

\* No prompt is submitted twice in a server lifetime, and that of a run that is
\* bound to its terminal is submitted once, however often the server restarts
\* from what it had saved (deliver_active_agent_run, reconcile_automations).
THEOREM PromptsGoOutOnce ==
  Spec => []DeliverySafe
BY Invariance, InvSafe, PTL

\* Whatever happens to panes, agents and definitions while an intent is being
\* saved: a prompt goes out only when the disk holds its intent, to a running and
\* idle agent that is the one it was meant for, and a run that has ended neither
\* revives nor submits its prompt (apply_automation_store_completion).
THEOREM PromptsReachTheirAgents ==
  Spec => PromptsRight
<1>1. Inv /\ [Next]_vars =>
        [\A r \in 1..MaxRuns : Sends(r) => r \in Ids(disk) /\ disk.runs[r].status = "starting"]_vars
  BY OnlySentSends, SentFacts
<1>2. Inv /\ [Next]_vars =>
        [\A r \in 1..MaxRuns : Sends(r) =>
           /\ pane.agent /\ ~pane.busy
           /\ IF ledger.runs[r].target.durable THEN Proven(pane) ELSE pane.term = origin[r]]_vars
  BY OnlySentSends, SentFacts
<1>3. Inv /\ [Next]_vars =>
        [\A r \in Ids(ledger) :
           ledger.runs[r].status \in Finished /\ crashes' = crashes =>
             ledger'.runs[r].status = ledger.runs[r].status /\ submitted'[r] = submitted[r]]_vars
  BY EndedStays
<1>. QED
  BY Invariance, <1>1, <1>2, <1>3, PTL DEF Spec, PromptsRight, IntentFirst, RightAgent, OverIsOver
=============================================================================
