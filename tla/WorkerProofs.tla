---------------------------- MODULE WorkerProofs ----------------------------
(***************************************************************************)
(* The runs of scheduled workers, and how the worker of a task starts.     *)
(*                                                                         *)
(* RunsSafe and LaunchesRight of ScheduledRuns, for any number of          *)
(* definitions, occurrences, runs, tasks, failed saves and restarts.  The  *)
(* ledger in memory, the snapshot in flight and automations.json follow    *)
(* one another, so do the tasks in memory and in orch.json, and no task    *)
(* names a run that automations.json does not have.  A launch leaves a     *)
(* mark, on the run or on its task, which no restart takes away.           *)
(*                                                                         *)
(* StartSafe and LateReportHarmless of WorkerHandshake, for any number of  *)
(* starts, repeated commands, lost calls and edits by the operator.  The   *)
(* launch record is the token: a pane has it on disk, in the hand of the   *)
(* one runner that renamed it, or has spent it.  The runner of a start     *)
(* that is still in its handler cannot have got past its wait, because     *)
(* what it waits for is answered by the loop that runs the handler.        *)
(***************************************************************************)
EXTENDS ScheduledRuns, WorkerHandshake, SequenceTheorems, FiniteSetTheorems,
        WellFoundedInduction, TLAPS

-----------------------------------------------------------------------------
(* The inductive invariant of ScheduledRuns                                *)

\* The ledger in the snapshot in flight, if there is one.
InFlight == IF saving = NoSave THEN ledger ELSE saving.ledger
Books == {autoDisk, InFlight, ledger}

\* No run is lost, and a number stands for the same occurrence.
Follows(old, new) ==
  /\ Len(old.runs) <= Len(new.runs)
  /\ \A r \in Ids(old) : Occurrence(new.runs[r]) = Occurrence(old.runs[r])

\* A ledger between two of its changes: what has been linked or has ended does
\* not wait again.
Onward(old, new) ==
  /\ Follows(old, new)
  /\ \A r \in Ids(old) : old.runs[r].status # "pending" =>
        /\ new.runs[r].status # "pending"
        /\ new.runs[r].task = old.runs[r].task

\* The tasks of one file, or of memory, go on in the others.
Extends(o, p) ==
  /\ Len(o) <= Len(p)
  /\ \A t \in DOMAIN o : p[t].run = o[t].run /\ p[t].of = o[t].of

\* Tasks between two of their changes.
Later(o, p) ==
  /\ Extends(o, p)
  /\ \A t \in DOMAIN o : /\ o[t].bound => p[t].bound
                         /\ o[t].status = "deleted" => p[t].status = "deleted"

\* A ledger names an occurrence once, a run that was retried has ended, and a
\* link leads to the task that names the run.
BookOK(led, o, e) ==
  /\ LedgerOK(led)
  /\ \A r, q \in Ids(led) : Occurrence(led.runs[r]) = Occurrence(led.runs[q]) => r = q
  /\ \A r \in Ids(led) :
       /\ led.runs[r].request <= e
       /\ led.runs[r].request = 0 => led.runs[r].retry = 0
       /\ led.runs[r].retry <= Len(led.runs)
       /\ led.runs[r].retry # 0 => led.runs[led.runs[r].retry].status \notin Live
       /\ led.runs[r].task # 0 =>
            led.runs[r].task \in DOMAIN o /\ o[led.runs[r].task].run = r

\* A snapshot after which nothing changed is the ledger, and one that was
\* written is the file.
Acked(s, changed, led, disk) ==
  /\ s # NoSave /\ ~ changed => s.ledger = led
  /\ s.result = "ok" => disk = s.ledger

BooksHold ==
  /\ \A led \in Books : BookOK(led, orch, edits)
  /\ Follows(autoDisk, InFlight) /\ Follows(InFlight, ledger)
  /\ Acked(saving, dirty, ledger, autoDisk)

\* orch.json has every task, and no task names a run that automations.json does
\* not have.
Kept(o, disk, n) ==
  /\ Extends(o, disk)
  /\ n = 0 => \A t \in DOMAIN o : disk[t] = o[t]
Rooted(o, led) ==
  \A t \in DOMAIN o : /\ o[t].run \in Ids(led)
                      /\ Occurrence(led.runs[o[t].run]) = o[t].of
TasksHold ==
  /\ OrchOK(orch) /\ OrchOK(orchDisk)
  /\ Kept(orch, orchDisk, lost) /\ Rooted(orchDisk, autoDisk)

Worked(led, o) ==
  \A r \in Ids(led) : led.runs[r].status \in Active =>
    /\ led.runs[r].task \in DOMAIN o
    /\ o[led.runs[r].task].status \notin {"queued", "done", "failed"}

\* A launch left its mark: the run is linked to the task in every ledger, the
\* task has been bound to a place, and the run does not wait.
Marked(x, r, t, led) ==
  r \in Ids(led) /\ Occurrence(led.runs[r]) = x /\ led.runs[r].task = t
Gone(x, o) == \E t \in DOMAIN o : o[t].of = x /\ o[t].status = "deleted"
MarkHeld(x, o, disk, flight, led) ==
  \E r \in Ids(led), t \in DOMAIN o :
    /\ Marked(x, r, t, disk) /\ Marked(x, r, t, flight) /\ Marked(x, r, t, led)
    /\ o[t].bound /\ o[t].of = x /\ led.runs[r].status # "pending"
LaunchesHeld(ls, o, disk, flight, led) ==
  \A i \in DOMAIN ls :
    \/ Gone(ls[i], o)
    \/ /\ MarkHeld(ls[i], o, disk, flight, led)
       /\ \A j \in DOMAIN ls : ls[j] = ls[i] => j = i

OtherTypes ==
  /\ now \in 0..MaxTime /\ dirty \in BOOLEAN /\ SavingOK(saving)
  /\ launches \in Seq(Occurrences)
  /\ edits \in 0..MaxEdits /\ faults \in Nat /\ lost \in Nat /\ crashes \in Nat

RunsInv ==
  /\ OtherTypes /\ BooksHold /\ TasksHold /\ Worked(ledger, orch)
  /\ lost = 0 => LaunchesHeld(launches, orch, autoDisk, InFlight, ledger)

-----------------------------------------------------------------------------
(* Sequences, sets and order                                               *)

LEMMA MinIs ==
  ASSUME NEW T \in SUBSET Nat, T # {}
  PROVE  Min(T) \in T /\ \A y \in T : Min(T) <= y
<1> DEFINE R == OpToRel(<, Nat)
<1>1. IsWellFoundedOn(R, Nat)
  BY NatLessThanWellFounded
<1>2. \A x, y \in Nat : <<y, x>> \in R <=> y < x
  BY DEF OpToRel
<1> HIDE DEF R
<1>3. PICK x \in T : \A y \in T : ~ (<<y, x>> \in R)
  BY <1>1, WFMin
<1>4. ASSUME NEW y \in T PROVE x <= y
  <2>1. x \in Nat /\ y \in Nat /\ ~ (y < x)
    BY <1>2, <1>3
  <2> QED BY <2>1
<1> QED BY <1>4 DEF Min

LEMMA Listed ==
  ASSUME NEW S, IsFiniteSet(S)
  PROVE  /\ SetToSeq(S) \in [1..Cardinality(S) -> S] /\ Cardinality(S) \in Nat
         /\ \A i, j \in 1..Cardinality(S) :
              SetToSeq(S)[i] = SetToSeq(S)[j] => i = j
<1>1. Cardinality(S) \in Nat
  BY FS_CardinalityType
<1>2. \E f : f \in Bijection(1..Cardinality(S), S)
  BY FS_CardinalityType DEF ExistsBijection
<1>3. \E f \in [1..Cardinality(S) -> S] : IsInjective(f)
  BY <1>2 DEF Bijection, Injection, IsInjective
<1>4. SetToSeq(S) \in [1..Cardinality(S) -> S] /\ IsInjective(SetToSeq(S))
  BY <1>3 DEF SetToSeq
<1> QED BY <1>1, <1>4 DEF IsInjective

LEMMA ASeq ==
  ASSUME NEW S, NEW n \in Nat, NEW s, s = [i \in 1..n |-> s[i]],
         \A i \in 1..n : s[i] \in S
  PROVE  s \in Seq(S) /\ Len(s) = n
<1>1. s \in [1..n -> S]
  OBVIOUS
<1> QED BY <1>1, SeqDef, LenProperties

LEMMA AppendIs ==
  ASSUME NEW S, NEW s \in Seq(S), NEW x \in S
  PROVE  /\ Append(s, x) \in Seq(S) /\ Len(Append(s, x)) = Len(s) + 1
         /\ DOMAIN Append(s, x) = 1..Len(s) + 1 /\ DOMAIN s = 1..Len(s)
         /\ Len(s) \in Nat
         /\ \A i \in DOMAIN s : Append(s, x)[i] = s[i] /\ i \in DOMAIN Append(s, x)
         /\ Append(s, x)[Len(s) + 1] = x
BY AppendProperties, LenProperties

LEMMA LedgerIs ==
  ASSUME NEW led, LedgerOK(led)
  PROVE  /\ led = [defs |-> led.defs, runs |-> led.runs]
         /\ led.runs \in Seq(Runs) /\ Ids(led) = 1..Len(led.runs)
         /\ Len(led.runs) \in Nat /\ Len(led.runs) <= MaxRuns
         /\ led.defs \in [Autos -> [enabled : BOOLEAN, next : 0..MaxTime + 1]]
         /\ \A r \in Ids(led) : led.runs[r] \in Runs
<1>1. /\ led \in [defs : [Autos -> [enabled : BOOLEAN, next : 0..MaxTime + 1]],
                  runs : Seq(Runs)]
      /\ Len(led.runs) <= MaxRuns
  BY DEF LedgerOK
<1>2. led.runs \in Seq(Runs)
  BY <1>1
<1> QED BY <1>1, <1>2, LenProperties DEF Ids

LEMMA LedgerMade ==
  ASSUME NEW led, LedgerOK(led), NEW rs \in Seq(Runs), Len(rs) <= MaxRuns,
         NEW ds \in [Autos -> [enabled : BOOLEAN, next : 0..MaxTime + 1]]
  PROVE  LedgerOK([defs |-> ds, runs |-> rs])
BY DEF LedgerOK

LEMMA PutRuns ==
  ASSUME NEW led, led = [defs |-> led.defs, runs |-> led.runs], NEW rs
  PROVE  [led EXCEPT !.runs = rs] = [defs |-> led.defs, runs |-> rs]
<1>1. PICK ds, old : led = [defs |-> ds, runs |-> old]
  OBVIOUS
<1> QED BY <1>1

LEMMA OrchIs ==
  ASSUME NEW o, OrchOK(o)
  PROVE  /\ o \in Seq(Tasks) /\ DOMAIN o = 1..Len(o) /\ Len(o) \in Nat
         /\ Len(o) <= MaxTasks /\ \A t \in DOMAIN o : o[t] \in Tasks
BY LenProperties DEF OrchOK

-----------------------------------------------------------------------------
(* Ledgers                                                                 *)

LEMMA SameOccurrence ==
  ASSUME NEW x, NEW y, Occurrence(x) = Occurrence(y)
  PROVE  x.auto = y.auto /\ x.at = y.at /\ x.request = y.request
BY DEF Occurrence

LEMMA FollowsOn ==
  ASSUME NEW a, NEW b, NEW c, LedgerOK(a), LedgerOK(b), LedgerOK(c),
         Follows(a, b), Follows(b, c)
  PROVE  Follows(a, c)
<1>1. /\ Ids(a) = 1..Len(a.runs) /\ Ids(b) = 1..Len(b.runs)
      /\ Len(a.runs) \in Nat /\ Len(b.runs) \in Nat /\ Len(c.runs) \in Nat
  BY LedgerIs
<1>2. \A r \in Ids(a) : r \in Ids(b)
  BY <1>1 DEF Follows
<1> QED BY <1>1, <1>2 DEF Follows

LEMMA FollowsItself ==
  ASSUME NEW a, LedgerOK(a)
  PROVE  Follows(a, a) /\ Onward(a, a)
<1>1. Len(a.runs) \in Nat
  BY LedgerIs
<1> QED BY <1>1 DEF Follows, Onward

LEMMA OnwardOn ==
  ASSUME NEW a, NEW b, NEW c, LedgerOK(a), LedgerOK(b), LedgerOK(c),
         Onward(a, b), Onward(b, c)
  PROVE  Onward(a, c)
<1>1. Follows(a, c)
  BY FollowsOn DEF Onward
<1>2. \A r \in Ids(a) : r \in Ids(b)
  BY LedgerIs DEF Onward, Follows
<1> QED BY <1>1, <1>2 DEF Onward

LEMMA BookLater ==
  ASSUME NEW led, NEW o, NEW p, NEW e \in Nat, NEW f \in Nat, e <= f,
         OrchOK(o), OrchOK(p), BookOK(led, o, e), Extends(o, p)
  PROVE  BookOK(led, p, f)
<1>1. /\ DOMAIN o = 1..Len(o) /\ DOMAIN p = 1..Len(p)
      /\ Len(o) \in Nat /\ Len(p) \in Nat
  BY OrchIs
<1>2. \A t \in DOMAIN o : t \in DOMAIN p /\ p[t].run = o[t].run
  BY <1>1 DEF Extends
<1>3. LedgerOK(led)
  BY DEF BookOK
<1>4. \A r \in Ids(led) : led.runs[r].request <= f
  <2> SUFFICES ASSUME NEW r \in Ids(led) PROVE led.runs[r].request <= f
    OBVIOUS
  <2>1. led.runs[r].request \in Nat /\ led.runs[r].request <= e
    BY <1>3, LedgerIs, RunsAssumption DEF BookOK, Runs
  <2> QED BY <2>1
<1> QED BY <1>2, <1>4 DEF BookOK

\* A ledger whose runs have other statuses and tasks.
Restated(old, new) ==
  /\ Len(new.runs) = Len(old.runs)
  /\ \A r \in Ids(old) :
       /\ Occurrence(new.runs[r]) = Occurrence(old.runs[r])
       /\ new.runs[r].retry = old.runs[r].retry

LEMMA RestatedOK ==
  ASSUME NEW old, NEW new, NEW o, NEW e, BookOK(old, o, e), LedgerOK(new),
         Restated(old, new),
         \A r \in Ids(old) :
            /\ \/ new.runs[r].task \in {0, old.runs[r].task}
               \/ /\ new.runs[r].task \in DOMAIN o
                  /\ o[new.runs[r].task].run = r
            /\ \/ new.runs[r].status \notin Live
               \/ old.runs[r].status \in Live
               \/ \A q \in Ids(old) : old.runs[q].retry # r
  PROVE  BookOK(new, o, e) /\ Follows(old, new)
<1>1. LedgerOK(old)
  BY DEF BookOK
<1>2. /\ Ids(old) = Ids(new) /\ Ids(old) = 1..Len(old.runs)
      /\ Len(old.runs) \in Nat
  BY <1>1, LedgerIs DEF Restated
<1>3. ASSUME NEW r \in Ids(old)
      PROVE  /\ new.runs[r].request = old.runs[r].request
             /\ new.runs[r].retry = old.runs[r].retry
             /\ old.runs[r].retry \in Nat
  <2>1. old.runs[r] \in Runs
    BY <1>1, LedgerIs
  <2>2. old.runs[r].retry \in Nat
    BY <2>1, RunsAssumption DEF Runs
  <2> QED BY <2>2, SameOccurrence DEF Restated
<1>4. ASSUME NEW r \in Ids(new), new.runs[r].retry # 0
      PROVE  new.runs[new.runs[r].retry].status \notin Live
  <2> DEFINE q == old.runs[r].retry
  <2>1. q \in Ids(old) /\ old.runs[q].status \notin Live
    BY <1>2, <1>3, <1>4 DEF BookOK
  <2>2. new.runs[r].retry = q
    BY <1>2, <1>3
  <2>3. ~ \A p \in Ids(old) : old.runs[p].retry # q
    BY <1>2
  <2> QED BY <2>1, <2>2, <2>3
<1>5. ASSUME NEW r \in Ids(new), new.runs[r].task # 0
      PROVE  new.runs[r].task \in DOMAIN o /\ o[new.runs[r].task].run = r
  BY <1>2, <1>5 DEF BookOK
<1>6. \A r, q \in Ids(new) :
        Occurrence(new.runs[r]) = Occurrence(new.runs[q]) => r = q
  BY <1>2 DEF BookOK, Restated
<1>7. \A r \in Ids(new) : /\ new.runs[r].request <= e
                          /\ new.runs[r].request = 0 => new.runs[r].retry = 0
                          /\ new.runs[r].retry <= Len(new.runs)
  BY <1>2, <1>3 DEF BookOK, Restated
<1>8. Follows(old, new)
  BY <1>2 DEF Follows, Restated
<1> QED BY <1>4, <1>5, <1>6, <1>7, <1>8 DEF BookOK

LEMMA WithStatusIs ==
  ASSUME NEW led, LedgerOK(led), NEW rs, NEW status \in Live \cup Over
  PROVE  /\ LedgerOK(WithStatus(led, rs, status))
         /\ Ids(WithStatus(led, rs, status)) = Ids(led)
         /\ WithStatus(led, rs, status).defs = led.defs
         /\ Restated(led, WithStatus(led, rs, status))
         /\ \A r \in Ids(led) :
              /\ WithStatus(led, rs, status).runs[r].task = led.runs[r].task
              /\ WithStatus(led, rs, status).runs[r].status
                   = IF r \in rs THEN status ELSE led.runs[r].status
<1> DEFINE new == WithStatus(led, rs, status)
           run(r) == IF r \in rs THEN [led.runs[r] EXCEPT !.status = status]
                     ELSE led.runs[r]
           after == [r \in Ids(led) |-> run(r)]
<1>1. /\ led = [defs |-> led.defs, runs |-> led.runs]
      /\ Ids(led) = 1..Len(led.runs) /\ Len(led.runs) \in Nat
      /\ Len(led.runs) <= MaxRuns
      /\ led.defs \in [Autos -> [enabled : BOOLEAN, next : 0..MaxTime + 1]]
      /\ \A r \in Ids(led) : led.runs[r] \in Runs
  BY LedgerIs
<1>2. ASSUME NEW r \in Ids(led)
      PROVE  /\ run(r) \in Runs /\ run(r).task = led.runs[r].task
             /\ run(r).retry = led.runs[r].retry
             /\ Occurrence(run(r)) = Occurrence(led.runs[r])
             /\ run(r).status = IF r \in rs THEN status ELSE led.runs[r].status
  BY <1>1 DEF Runs, Occurrence
<1> HIDE DEF run
<1>3. after \in Seq(Runs) /\ Len(after) = Len(led.runs)
  BY <1>1, <1>2, ASeq
<1>4. new = [defs |-> led.defs, runs |-> after]
  <2>1. new = [led EXCEPT !.runs = after]
    BY DEF WithStatus, run
  <2> HIDE DEF new, after
  <2> QED BY <1>1, <2>1, PutRuns
<1>5. \A r \in Ids(led) : new.runs[r] = run(r)
  BY <1>4
<1>6. LedgerOK(new)
  BY <1>1, <1>3, <1>4, LedgerMade
<1>7. Ids(new) = Ids(led) /\ new.defs = led.defs
  BY <1>1, <1>3, <1>4, <1>6, LedgerIs
<1>8. Restated(led, new)
  BY <1>2, <1>3, <1>4, <1>5 DEF Restated
<1> HIDE DEF new
<1> QED BY <1>2, <1>5, <1>6, <1>7, <1>8 DEF new

\* A run that was retried does not come back.
LEMMA WithStatusOK ==
  ASSUME NEW led, NEW o, NEW e, BookOK(led, o, e), NEW rs,
         NEW status \in Live \cup Over,
         status \in Live =>
           \A r \in rs \cap Ids(led) : \/ led.runs[r].status \in Live
                                       \/ \A q \in Ids(led) : led.runs[q].retry # r
  PROVE  /\ BookOK(WithStatus(led, rs, status), o, e)
         /\ Follows(led, WithStatus(led, rs, status))
         /\ status # "pending" => Onward(led, WithStatus(led, rs, status))
<1> DEFINE new == WithStatus(led, rs, status)
<1>1. /\ LedgerOK(new) /\ Restated(led, new)
      /\ \A r \in Ids(led) :
           /\ new.runs[r].task = led.runs[r].task
           /\ new.runs[r].status = IF r \in rs THEN status ELSE led.runs[r].status
  BY WithStatusIs DEF BookOK
<1> HIDE DEF new
<1>2. BookOK(new, o, e) /\ Follows(led, new)
  BY <1>1, RestatedOK
<1>3. status # "pending" => Onward(led, new)
  BY <1>1, <1>2 DEF Onward
<1> QED BY <1>2, <1>3 DEF new

LEMMA SameRuns ==
  ASSUME NEW old, NEW new, NEW o, NEW e, BookOK(old, o, e), LedgerOK(new),
         new.runs = old.runs
  PROVE  BookOK(new, o, e) /\ Onward(old, new)
<1>1. Len(old.runs) \in Nat
  BY LedgerIs DEF BookOK
<1> QED BY <1>1 DEF BookOK, Onward, Follows, Ids

\* Runs are appended for occurrences the ledger does not have.
LEMMA AppendedOK ==
  ASSUME NEW old, NEW new, NEW o, NEW e, BookOK(old, o, e), LedgerOK(new),
         Len(old.runs) <= Len(new.runs),
         \A r \in Ids(old) : new.runs[r] = old.runs[r],
         \A r \in Ids(new) \ Ids(old) :
            /\ new.runs[r].task = 0 /\ new.runs[r].request <= e
            /\ new.runs[r].request = 0 => new.runs[r].retry = 0
            /\ new.runs[r].retry # 0 =>
                 /\ new.runs[r].retry \in Ids(old)
                 /\ old.runs[new.runs[r].retry].status \notin Live
            /\ \A q \in Ids(new) :
                 Occurrence(new.runs[r]) = Occurrence(new.runs[q]) => r = q
  PROVE  BookOK(new, o, e) /\ Onward(old, new)
<1>1. /\ Ids(old) = 1..Len(old.runs) /\ Ids(new) = 1..Len(new.runs)
      /\ Len(old.runs) \in Nat /\ Len(new.runs) \in Nat
  BY LedgerIs DEF BookOK
<1>2. \A r \in Ids(old) : r \in Ids(new)
  BY <1>1
<1>3. \A r, q \in Ids(new) :
        Occurrence(new.runs[r]) = Occurrence(new.runs[q]) => r = q
  <2> SUFFICES ASSUME NEW r \in Ids(new), NEW q \in Ids(new),
                      Occurrence(new.runs[r]) = Occurrence(new.runs[q])
               PROVE  r = q
    OBVIOUS
  <2>1. CASE r \in Ids(old) /\ q \in Ids(old)
    BY <2>1 DEF BookOK
  <2>2. CASE r \notin Ids(old)
    BY <2>2
  <2>3. CASE q \notin Ids(old)
    BY <2>3
  <2> QED BY <2>1, <2>2, <2>3
<1>4. ASSUME NEW r \in Ids(new)
      PROVE  /\ new.runs[r].request <= e
             /\ new.runs[r].request = 0 => new.runs[r].retry = 0
             /\ new.runs[r].retry # 0 =>
                  /\ new.runs[r].retry \in Ids(old)
                  /\ old.runs[new.runs[r].retry].status \notin Live
             /\ new.runs[r].task # 0 =>
                  new.runs[r].task \in DOMAIN o /\ o[new.runs[r].task].run = r
  <2>1. CASE r \in Ids(old)
    <3>1. new.runs[r] = old.runs[r] /\ old.runs[r] \in Runs
      BY <2>1, LedgerIs DEF BookOK
    <3>2. /\ old.runs[r].retry \in Nat /\ old.runs[r].retry <= Len(old.runs)
      BY <2>1, <3>1, RunsAssumption DEF BookOK, Runs
    <3>3. old.runs[r].retry # 0 => old.runs[r].retry \in Ids(old)
      BY <1>1, <3>2
    <3> QED BY <2>1, <3>1, <3>3 DEF BookOK
  <2>2. CASE r \notin Ids(old)
    BY <2>2
  <2> QED BY <2>1, <2>2
<1>5. ASSUME NEW r \in Ids(new)
      PROVE  /\ new.runs[r].retry <= Len(new.runs)
             /\ new.runs[r].retry # 0 => new.runs[new.runs[r].retry].status \notin Live
  BY <1>1, <1>2, <1>4
<1>6. BookOK(new, o, e)
  BY <1>3, <1>4, <1>5 DEF BookOK
<1> QED BY <1>6 DEF Onward, Follows

-----------------------------------------------------------------------------
(* Tasks                                                                   *)

LEMMA ExtendsOn ==
  ASSUME NEW a, NEW b, NEW c, OrchOK(a), OrchOK(b), OrchOK(c)
  PROVE  /\ Extends(a, b) /\ Extends(b, c) => Extends(a, c)
         /\ Later(a, b) /\ Later(b, c) => Later(a, c)
         /\ Extends(a, a) /\ Later(a, a)
<1>1. /\ DOMAIN a = 1..Len(a) /\ DOMAIN b = 1..Len(b) /\ DOMAIN c = 1..Len(c)
      /\ Len(a) \in Nat /\ Len(b) \in Nat /\ Len(c) \in Nat
  BY OrchIs
<1>2. Extends(a, b) => \A t \in DOMAIN a : t \in DOMAIN b
  BY <1>1 DEF Extends
<1>3. Extends(a, b) /\ Extends(b, c) => Extends(a, c)
  BY <1>1, <1>2 DEF Extends
<1>4. Extends(a, a)
  BY <1>1 DEF Extends
<1> QED BY <1>2, <1>3, <1>4 DEF Later

LEMMA MirrorIs ==
  ASSUME NEW job \in Tasks, job.status # "deleted"
  PROVE  /\ Mirror(job.status) \in Live \cup Over
         /\ Mirror(job.status) # "pending"
         /\ Mirror(job.status) \in Active =>
              job.status \in {"claimed", "running", "review", "blocked"}
<1>1. job.status \in {"queued", "claimed", "running", "review", "blocked",
                       "done", "failed", "merged"}
  BY DEF Tasks
<1> QED BY <1>1 DEF Mirror, Live, Over, Active

\* The ledger follows the one task that changed.
LEMMA MirroredWorks ==
  ASSUME NEW led, NEW o, NEW p, NEW e, BookOK(led, o, e), Worked(led, o),
         OrchOK(o), OrchOK(p), NEW t \in DOMAIN p, p[t].status # "deleted",
         Extends(o, p),
         \A d \in DOMAIN o : d # t => p[d].status = o[d].status
  PROVE  /\ BookOK(Mirrored(led, p, t), o, e) /\ Onward(led, Mirrored(led, p, t))
         /\ Worked(Mirrored(led, p, t), p)
<1> DEFINE status == Mirror(p[t].status)
           new == Mirrored(led, p, t)
           rs == RunsForTask(led, t)
<1>1. /\ status \in Live \cup Over /\ status # "pending"
      /\ status \in Active => p[t].status \notin {"queued", "done", "failed"}
  BY MirrorIs, OrchIs
<1>2. new = WithStatus(led, rs, status)
  BY DEF Mirrored
<1>3. \A r \in rs : r \in Ids(led) /\ led.runs[r].task = t
                    /\ \A q \in Ids(led) : led.runs[q].retry # r
  BY DEF RunsForTask
<1>4. LedgerOK(led)
  BY DEF BookOK
<1> HIDE DEF status, rs, new
<1>5. BookOK(new, o, e) /\ Onward(led, new)
  BY <1>1, <1>2, <1>3, WithStatusOK
<1>6. /\ Ids(new) = Ids(led)
      /\ \A r \in Ids(led) :
           /\ new.runs[r].task = led.runs[r].task
           /\ new.runs[r].status = IF r \in rs THEN status ELSE led.runs[r].status
  BY <1>1, <1>2, <1>4, WithStatusIs
<1>7. \A d \in DOMAIN o : d \in DOMAIN p
  BY OrchIs DEF Extends
<1>8. ASSUME NEW r \in Ids(led), new.runs[r].status \in Active
      PROVE  /\ new.runs[r].task \in DOMAIN p
             /\ p[new.runs[r].task].status \notin {"queued", "done", "failed"}
  <2>1. CASE r \in rs
    BY <1>1, <1>3, <1>6, <1>8, <2>1
  <2>2. CASE r \notin rs
    <3>1. led.runs[r].status \in Active
      BY <1>6, <1>8, <2>2
    <3>2. \A q \in Ids(led) : led.runs[q].retry # r
      BY <1>4, <3>1, LedgerIs DEF BookOK, Live
    <3>3. led.runs[r].task # t
      BY <2>2, <3>2 DEF rs, RunsForTask
    <3>4. /\ led.runs[r].task \in DOMAIN o
          /\ o[led.runs[r].task].status \notin {"queued", "done", "failed"}
      BY <3>1 DEF Worked
    <3> QED BY <1>6, <1>7, <3>3, <3>4
  <2> QED BY <2>1, <2>2
<1> QED BY <1>5, <1>6, <1>8 DEF new, Worked

-----------------------------------------------------------------------------
(* Steps                                                                   *)

LEMMA LaunchesGoOn ==
  ASSUME NEW ls, NEW o, NEW p, NEW disk, NEW flight, NEW led, NEW new, NEW next,
         OrchOK(o), OrchOK(p), LedgerOK(led), LedgerOK(new),
         LaunchesHeld(ls, o, disk, flight, led), Onward(led, new), Later(o, p),
         next \in {flight, new}
  PROVE  LaunchesHeld(ls, p, disk, next, new)
<1>1. /\ \A t \in DOMAIN o : t \in DOMAIN p /\ p[t].of = o[t].of
      /\ \A r \in Ids(led) : r \in Ids(new)
  BY OrchIs, LedgerIs DEF Later, Extends, Onward, Follows
<1>2. ASSUME NEW x, Gone(x, o) PROVE Gone(x, p)
  BY <1>1, <1>2 DEF Gone, Later
<1>3. ASSUME NEW x, MarkHeld(x, o, disk, flight, led)
      PROVE  MarkHeld(x, p, disk, next, new)
  <2>1. PICK r \in Ids(led), t \in DOMAIN o :
          /\ Marked(x, r, t, disk) /\ Marked(x, r, t, flight)
          /\ Marked(x, r, t, led)
          /\ o[t].bound /\ o[t].of = x /\ led.runs[r].status # "pending"
    BY <1>3 DEF MarkHeld
  <2>2. Marked(x, r, t, new) /\ new.runs[r].status # "pending"
    BY <1>1, <2>1 DEF Marked, Onward, Follows
  <2>3. Marked(x, r, t, next)
    BY <2>1, <2>2
  <2>4. r \in Ids(new) /\ t \in DOMAIN p /\ p[t].bound /\ p[t].of = x
    BY <1>1, <2>1 DEF Later
  <2> QED BY <2>1, <2>2, <2>3, <2>4 DEF MarkHeld
<1> QED BY <1>2, <1>3 DEF LaunchesHeld

LEMMA BooksTyped ==
  ASSUME RunsInv
  PROVE  /\ LedgerOK(ledger) /\ LedgerOK(autoDisk) /\ LedgerOK(InFlight)
         /\ BookOK(ledger, orch, edits) /\ BookOK(autoDisk, orch, edits)
         /\ BookOK(InFlight, orch, edits)
         /\ Follows(autoDisk, InFlight) /\ Follows(InFlight, ledger)
         /\ OrchOK(orch) /\ OrchOK(orchDisk)
BY DEF RunsInv, BooksHold, Books, TasksHold, BookOK

LEMMA SaveIs ==
  ASSUME NEW led, LedgerOK(led), Save(led)
  PROVE  /\ ledger' = led /\ dirty' \in BOOLEAN /\ SavingOK(saving')
         /\ Acked(saving', dirty', ledger', autoDisk')
         /\ InFlight' = ledger' /\ saving'.result \in {"none", "writing"}
<1>1. CASE saving' = Snapshot(led) /\ dirty' = FALSE
  <2>1. saving'.ledger = led /\ saving'.result = "writing"
    BY <1>1 DEF Snapshot
  <2>2. saving' # NoSave
    BY <2>1 DEF NoSave
  <2> QED BY <1>1, <2>1, <2>2 DEF Save, SavingOK, Acked, InFlight, Snapshot
<1>2. CASE saving' = NoSave /\ dirty' = TRUE
  BY <1>2 DEF Save, SavingOK, Acked, InFlight, NoSave
<1> QED BY <1>1, <1>2 DEF Save

LEMMA PersistIs ==
  ASSUME RunsInv, NEW led, LedgerOK(led), Persist(led)
  PROVE  /\ ledger' = led /\ autoDisk' = autoDisk /\ dirty' \in BOOLEAN
         /\ SavingOK(saving') /\ Acked(saving', dirty', ledger', autoDisk')
         /\ InFlight' \in {InFlight, ledger'}
<1>1. autoDisk' = autoDisk
  BY DEF Persist
<1>2. CASE saving = NoSave
  BY <1>1, <1>2, SaveIs DEF Persist
<1>3. CASE saving # NoSave
  <2>1. ledger' = led /\ dirty' = TRUE /\ saving' = saving
    BY <1>3 DEF Persist
  <2>2. SavingOK(saving) /\ Acked(saving, dirty, ledger, autoDisk)
    BY DEF RunsInv, OtherTypes, BooksHold
  <2> QED BY <1>1, <1>3, <2>1, <2>2 DEF Acked, InFlight
<1> QED BY <1>2, <1>3

\* A step that goes on from the ledger and the tasks there are, and launches
\* nothing.
LEMMA GoOn ==
  ASSUME RunsInv, OtherTypes', autoDisk' = autoDisk,
         InFlight' \in {InFlight, ledger'},
         Acked(saving', dirty', ledger', autoDisk'),
         Onward(ledger, ledger'), BookOK(ledger', orch', edits'),
         edits <= edits', TasksHold', Later(orch, orch'),
         Worked(ledger', orch'), lost' = 0 => lost = 0, launches' = launches
  PROVE  RunsInv'
<1>1. /\ BookOK(autoDisk, orch, edits) /\ BookOK(InFlight, orch, edits)
      /\ OrchOK(orch) /\ OrchOK(orch') /\ edits \in Nat /\ edits' \in Nat
  BY BooksTyped, RunsAssumption DEF RunsInv, OtherTypes, TasksHold
<1>2. BookOK(autoDisk, orch', edits') /\ BookOK(InFlight, orch', edits')
  BY <1>1, BookLater DEF Later
<1>3. LedgerOK(InFlight) /\ LedgerOK(ledger) /\ LedgerOK(ledger')
  BY BooksTyped DEF BookOK
<1>4. /\ Follows(autoDisk, InFlight) /\ Follows(InFlight, ledger)
      /\ Follows(ledger, ledger') /\ LedgerOK(autoDisk)
  BY BooksTyped DEF Onward
<1>5. Follows(InFlight, ledger')
  BY <1>3, <1>4, FollowsOn
<1>6. Follows(autoDisk, ledger') /\ Follows(ledger', ledger')
  BY <1>3, <1>4, <1>5, FollowsOn, FollowsItself
<1>7. BooksHold'
  <2>1. \A led \in Books' : BookOK(led, orch', edits')
    BY <1>2 DEF Books
  <2>2. Follows(autoDisk', InFlight') /\ Follows(InFlight', ledger')
    BY <1>4, <1>5, <1>6
  <2> QED BY <2>1, <2>2 DEF BooksHold
<1>8. ASSUME lost' = 0
      PROVE  LaunchesHeld(launches', orch', autoDisk', InFlight', ledger')
  <2>1. LaunchesHeld(launches, orch, autoDisk, InFlight, ledger)
    BY <1>8 DEF RunsInv
  <2> QED BY <1>1, <1>3, <2>1, LaunchesGoOn
<1> QED BY <1>7, <1>8 DEF RunsInv

\* What saving orch.json at best effort leaves.
LEMMA SaveOrchIs ==
  ASSUME RunsInv, NEW o, OrchOK(o), Len(o) = Len(orch), Extends(orch, o),
         SaveOrch(o), autoDisk' = autoDisk
  PROVE  /\ orch' = o /\ TasksHold' /\ lost' \in Nat
         /\ lost' = 0 => lost = 0
         /\ orchDisk' = o \/ lost' # 0
<1>1. /\ OrchOK(orch) /\ OrchOK(orchDisk) /\ Kept(orch, orchDisk, lost)
      /\ Rooted(orchDisk, autoDisk) /\ lost \in Nat
  BY DEF RunsInv, OtherTypes, TasksHold
<1>2. /\ DOMAIN o = 1..Len(o) /\ DOMAIN orch = 1..Len(orch) /\ Len(orch) \in Nat
      /\ DOMAIN orchDisk = 1..Len(orchDisk) /\ Len(orchDisk) \in Nat
  BY <1>1, OrchIs
<1>3. \A t \in DOMAIN o : /\ t \in DOMAIN orchDisk
                          /\ orchDisk[t].run = o[t].run
                          /\ orchDisk[t].of = o[t].of
  BY <1>1, <1>2 DEF Kept, Extends
<1>4. Extends(o, orchDisk)
  BY <1>1, <1>2, <1>3 DEF Extends, Kept
<1>5. CASE orchDisk' = o /\ lost' = lost
  <2>1. Kept(o, o, lost)
    BY <1>2 DEF Kept, Extends
  <2>2. Rooted(o, autoDisk)
    BY <1>1, <1>3 DEF Rooted
  <2> QED BY <1>1, <1>5, <2>1, <2>2 DEF SaveOrch, TasksHold
<1>6. CASE lost' = lost + 1 /\ orchDisk' = orchDisk
  BY <1>1, <1>4, <1>6 DEF SaveOrch, TasksHold, Kept
<1> QED BY <1>5, <1>6 DEF SaveOrch

-----------------------------------------------------------------------------
(* Saves and ledgers                                                       *)

LEMMA StillTyped ==
  ASSUME RunsInv, UNCHANGED <<now, launches, faults, lost, crashes>>,
         edits' \in 0..MaxEdits, dirty' \in BOOLEAN, SavingOK(saving')
  PROVE  OtherTypes'
BY DEF RunsInv, OtherTypes

LEMMA TasksRest ==
  ASSUME RunsInv, UNCHANGED tasks, autoDisk' = autoDisk
  PROVE  /\ TasksHold' /\ Later(orch, orch') /\ orch' = orch /\ lost' = lost
<1>1. orch' = orch /\ orchDisk' = orchDisk /\ lost' = lost
  BY DEF tasks
<1> QED BY <1>1, ExtendsOn DEF RunsInv, TasksHold

LEMMA PersistStep ==
  ASSUME RunsInv, NEW led, Persist(led), Onward(ledger, led),
         BookOK(led, orch, edits'), Worked(led, orch),
         edits' \in 0..MaxEdits, edits <= edits',
         UNCHANGED <<now, tasks, launches, faults, crashes>>
  PROVE  RunsInv'
<1>1. /\ ledger' = led /\ autoDisk' = autoDisk /\ dirty' \in BOOLEAN
      /\ SavingOK(saving') /\ Acked(saving', dirty', ledger', autoDisk')
      /\ InFlight' \in {InFlight, ledger'}
  BY PersistIs DEF BookOK
<1>2. TasksHold' /\ Later(orch, orch') /\ orch' = orch /\ lost' = lost
  BY <1>1, TasksRest
<1>3. OtherTypes'
  BY <1>1, <1>2, StillTyped
<1> QED BY <1>1, <1>2, <1>3, GoOn

\* The ledger stays, and with it what waits.
LEMMA LedgerRests ==
  ASSUME RunsInv
  PROVE  /\ Onward(ledger, ledger) /\ BookOK(ledger, orch, edits)
         /\ edits \in Nat /\ edits <= edits /\ edits \in 0..MaxEdits
<1>1. edits \in Nat /\ edits \in 0..MaxEdits
  BY RunsAssumption DEF RunsInv, OtherTypes
<1> QED BY <1>1, BooksTyped, FollowsItself

LEMMA RestStep ==
  ASSUME RunsInv, OtherTypes', UNCHANGED <<ledger, autoDisk, tasks, launches, edits>>,
         InFlight' \in {InFlight, ledger},
         Acked(saving', dirty', ledger', autoDisk')
  PROVE  RunsInv'
<1>1. TasksHold' /\ Later(orch, orch') /\ orch' = orch /\ lost' = lost
  BY TasksRest
<1>2. Onward(ledger, ledger') /\ BookOK(ledger', orch', edits') /\ edits <= edits'
  BY <1>1, LedgerRests
<1>3. Worked(ledger', orch')
  BY <1>1 DEF RunsInv
<1> QED BY <1>1, <1>2, <1>3, GoOn

LEMMA ClockStep ==
  ASSUME RunsInv, Clock
  PROVE  RunsInv'
<1>1. /\ now' = now + 1 /\ now < MaxTime
      /\ UNCHANGED <<ledger, autoDisk, dirty, saving, tasks, launches, edits,
                     faults, crashes>>
  BY DEF Clock, store
<1>2. now' \in 0..MaxTime
  BY <1>1, RunsAssumption DEF RunsInv, OtherTypes
<1>3. OtherTypes'
  BY <1>1, <1>2 DEF RunsInv, OtherTypes, tasks
<1>4. InFlight' = InFlight /\ Acked(saving', dirty', ledger', autoDisk')
  BY <1>1 DEF InFlight, RunsInv, BooksHold
<1> QED BY <1>1, <1>3, <1>4, RestStep

LEMMA SaveTickStep ==
  ASSUME RunsInv, SaveTick
  PROVE  RunsInv'
<1>1. /\ Save(ledger) /\ autoDisk' = autoDisk
      /\ UNCHANGED <<now, tasks, launches, edits, faults, crashes>>
  BY DEF SaveTick
<1>2. /\ ledger' = ledger /\ dirty' \in BOOLEAN /\ SavingOK(saving')
      /\ Acked(saving', dirty', ledger', autoDisk') /\ InFlight' = ledger'
  BY <1>1, SaveIs, BooksTyped
<1>3. OtherTypes'
  BY <1>1, <1>2, StillTyped, LedgerRests DEF tasks
<1> QED BY <1>1, <1>2, <1>3, RestStep

\* A write moves the file to the ledger in flight, or leaves it.
LEMMA WriteStep ==
  ASSUME RunsInv, Write
  PROVE  RunsInv'
<1>1. /\ saving.result = "writing"
      /\ UNCHANGED <<now, ledger, dirty, tasks, launches, edits, crashes>>
      /\ \/ /\ autoDisk' = saving.ledger /\ faults' = faults
            /\ saving' = [saving EXCEPT !.result = "ok"]
         \/ /\ autoDisk' \in {autoDisk, saving.ledger} /\ faults' = faults + 1
            /\ saving' = [saving EXCEPT !.result = "error"]
  BY DEF Write
<1>2. saving # NoSave
  BY <1>1 DEF NoSave
<1>3. /\ saving = [ledger |-> saving.ledger, result |-> saving.result]
      /\ LedgerOK(saving.ledger)
  BY <1>2 DEF RunsInv, OtherTypes, SavingOK
<1>4. /\ saving'.ledger = saving.ledger
      /\ saving' = [ledger |-> saving'.ledger, result |-> saving'.result]
      /\ saving'.result \in {"ok", "error"}
      /\ saving'.result = "ok" => autoDisk' = saving.ledger
  <2>1. PICK led, result : saving = [ledger |-> led, result |-> result]
    BY <1>3
  <2>2. \/ saving' = [ledger |-> led, result |-> "ok"] /\ autoDisk' = saving.ledger
        \/ saving' = [ledger |-> led, result |-> "error"]
    BY <1>1, <2>1
  <2> QED BY <2>1, <2>2
<1>5. saving' # NoSave
  BY <1>4 DEF NoSave
<1>6. InFlight = saving.ledger /\ InFlight' = InFlight
  BY <1>2, <1>4, <1>5 DEF InFlight
<1>7. autoDisk' \in {autoDisk, InFlight}
  BY <1>1, <1>6
<1>8. Acked(saving', dirty', ledger', autoDisk')
  BY <1>1, <1>2, <1>4 DEF RunsInv, BooksHold, Acked
<1>9. OtherTypes'
  BY <1>1, <1>3, <1>4 DEF RunsInv, OtherTypes, SavingOK, tasks
<1>10. /\ orch' = orch /\ orchDisk' = orchDisk /\ lost' = lost
       /\ ledger' = ledger /\ edits' = edits /\ launches' = launches
  BY <1>1 DEF tasks
<1>11. Follows(autoDisk', InFlight') /\ Follows(InFlight', ledger')
  BY <1>6, <1>7, <1>10, BooksTyped, FollowsItself
<1>12. BooksHold'
  <2>1. \A led \in Books' : BookOK(led, orch', edits')
    BY <1>6, <1>7, <1>10, BooksTyped DEF Books
  <2> QED BY <1>8, <1>11, <2>1 DEF BooksHold
<1>13. TasksHold'
  <2>1. Rooted(orchDisk, autoDisk) /\ Follows(autoDisk, InFlight)
    BY BooksTyped DEF RunsInv, TasksHold
  <2>2. \A r \in Ids(autoDisk) : r \in Ids(InFlight)
    BY <2>1, BooksTyped, LedgerIs DEF Follows
  <2>3. Rooted(orchDisk, InFlight)
    BY <2>1, <2>2 DEF Rooted, Follows
  <2> QED BY <1>7, <1>10, <2>1, <2>3 DEF RunsInv, TasksHold
<1>14. ASSUME lost' = 0
       PROVE  LaunchesHeld(launches', orch', autoDisk', InFlight', ledger')
  <2>1. LaunchesHeld(launches, orch, autoDisk, InFlight, ledger)
    BY <1>10, <1>14 DEF RunsInv
  <2> QED BY <1>6, <1>7, <1>10, <2>1 DEF LaunchesHeld, MarkHeld
<1>15. Worked(ledger', orch')
  BY <1>10 DEF RunsInv
<1> QED BY <1>9, <1>12, <1>13, <1>14, <1>15 DEF RunsInv

LEMMA CompleteErrorStep ==
  ASSUME RunsInv, CompleteError
  PROVE  RunsInv'
<1>1. PICK waiting : waiting = {r \in Ids(ledger) : ledger.runs[r].status = "pending"}
  OBVIOUS
<1>2. /\ ledger' = WithStatus(ledger, waiting, "failed") /\ saving' = NoSave
      /\ dirty' = TRUE /\ autoDisk' = autoDisk
      /\ UNCHANGED <<now, tasks, launches, edits, faults, crashes>>
  BY <1>1 DEF CompleteError
<1>3. BookOK(ledger', orch, edits) /\ Onward(ledger, ledger')
  BY <1>2, BooksTyped, WithStatusOK DEF Live, Over, Active
<1>4. Worked(ledger', orch)
  <2>1. /\ Ids(ledger') = Ids(ledger)
        /\ \A r \in Ids(ledger) :
             /\ ledger'.runs[r].task = ledger.runs[r].task
             /\ ledger'.runs[r].status \in {"failed", ledger.runs[r].status}
    BY <1>2, BooksTyped, WithStatusIs DEF Over
  <2> QED BY <2>1 DEF RunsInv, Worked, Active
<1>5. TasksHold' /\ Later(orch, orch') /\ orch' = orch /\ lost' = lost
  BY <1>2, TasksRest
<1>6. OtherTypes'
  BY <1>2, <1>5, StillTyped, LedgerRests DEF SavingOK
<1>7. InFlight' = ledger' /\ Acked(saving', dirty', ledger', autoDisk')
  BY <1>2 DEF InFlight, Acked, NoSave
<1> QED BY <1>2, <1>3, <1>4, <1>5, <1>6, <1>7, LedgerRests, GoOn

-----------------------------------------------------------------------------
(* Definitions and runs                                                    *)

LEMMA WorkedOn ==
  ASSUME NEW led, NEW new, NEW o, Worked(led, o),
         \A r \in Ids(new) : new.runs[r].status \in Active =>
            /\ r \in Ids(led) /\ led.runs[r].status \in Active
            /\ new.runs[r].task = led.runs[r].task
  PROVE  Worked(new, o)
BY DEF Worked

LEMMA Pushed ==
  ASSUME NEW led, LedgerOK(led), NEW run \in Runs, Len(led.runs) < MaxRuns
  PROVE  /\ LedgerOK(PushRun(led, run))
         /\ Len(PushRun(led, run).runs) = Len(led.runs) + 1
         /\ Ids(PushRun(led, run)) = Ids(led) \cup {Len(led.runs) + 1}
         /\ \A r \in Ids(led) : PushRun(led, run).runs[r] = led.runs[r]
         /\ PushRun(led, run).runs[Len(led.runs) + 1] = run
<1> DEFINE after == Append(led.runs, run)
           new == PushRun(led, run)
<1>1. /\ led = [defs |-> led.defs, runs |-> led.runs]
      /\ led.runs \in Seq(Runs) /\ Ids(led) = 1..Len(led.runs)
      /\ Len(led.runs) \in Nat
      /\ led.defs \in [Autos -> [enabled : BOOLEAN, next : 0..MaxTime + 1]]
  BY LedgerIs
<1>2. /\ after \in Seq(Runs) /\ Len(after) = Len(led.runs) + 1
      /\ \A i \in DOMAIN led.runs : after[i] = led.runs[i]
      /\ after[Len(led.runs) + 1] = run
  BY <1>1, AppendIs
<1>3. new = [led EXCEPT !.runs = after]
  BY DEF PushRun
<1> HIDE DEF after, new
<1>4. new = [defs |-> led.defs, runs |-> after]
  BY <1>1, <1>3, PutRuns
<1>5. new.runs = after
  BY <1>4
<1>6. Len(after) <= MaxRuns
  BY <1>1, <1>2, RunsAssumption
<1>7. LedgerOK(new)
  BY <1>1, <1>2, <1>4, <1>6, LedgerMade
<1>8. Ids(new) = 1..Len(led.runs) + 1
  BY <1>2, <1>5, <1>7, LedgerIs
<1>9. Ids(new) = Ids(led) \cup {Len(led.runs) + 1}
  BY <1>1, <1>8
<1> QED BY <1>1, <1>2, <1>5, <1>7, <1>9 DEF new, Ids

LEMMA RunBounds ==
  /\ MaxTime \in Nat /\ MaxRuns \in Nat /\ MaxTasks \in Nat /\ MaxEdits \in Nat
  /\ \A r \in Runs : r.auto \in Autos /\ r.request \in Nat
<1>1. /\ MaxTime \in Nat /\ MaxRuns \in Nat /\ MaxTasks \in Nat /\ MaxEdits \in Nat
  BY RunsAssumption
<1> QED BY <1>1 DEF Runs

\* The number of a request is new.
LEMMA PushedOK ==
  ASSUME NEW led, NEW o, NEW e \in Nat, OrchOK(o), BookOK(led, o, e),
         NEW run \in Runs, Len(led.runs) < MaxRuns,
         run.task = 0, run.request = e + 1,
         run.retry # 0 => /\ run.retry \in Ids(led)
                          /\ led.runs[run.retry].status \notin Live
  PROVE  BookOK(PushRun(led, run), o, e + 1) /\ Onward(led, PushRun(led, run))
<1> DEFINE new == PushRun(led, run)
           n == Len(led.runs) + 1
<1>1. /\ LedgerOK(led) /\ LedgerOK(new) /\ Len(new.runs) = n
      /\ Ids(new) = Ids(led) \cup {n} /\ new.runs[n] = run
      /\ \A r \in Ids(led) : new.runs[r] = led.runs[r]
  BY Pushed DEF BookOK
<1>2. Extends(o, o)
  BY ExtendsOn
<1>3. BookOK(led, o, e + 1)
  BY <1>2, BookLater
<1>4. Len(led.runs) \in Nat /\ Len(led.runs) <= n
  BY <1>1, LedgerIs
<1> HIDE DEF new, n
<1>5. ASSUME NEW q \in Ids(new), Occurrence(run) = Occurrence(new.runs[q])
      PROVE  n = q
  <2>1. CASE q \in Ids(led)
    <3>1. led.runs[q].request <= e /\ led.runs[q].request \in Nat
      <4>1. led.runs[q] \in Runs
        BY <1>1, <2>1, LedgerIs
      <4>2. led.runs[q].request \in Nat
        BY <4>1, RunBounds
      <4>3. led.runs[q].request <= e
        BY <2>1 DEF BookOK
      <4> QED BY <4>2, <4>3
    <3>2. led.runs[q].request = e + 1
      BY <1>1, <1>5, <2>1, SameOccurrence
    <3> QED BY <3>1, <3>2
  <2> QED BY <1>1, <2>1
<1>6. ASSUME NEW r \in Ids(new) \ Ids(led)
      PROVE  /\ new.runs[r].task = 0 /\ new.runs[r].request <= e + 1
             /\ new.runs[r].request = 0 => new.runs[r].retry = 0
             /\ new.runs[r].retry # 0 =>
                  /\ new.runs[r].retry \in Ids(led)
                  /\ led.runs[new.runs[r].retry].status \notin Live
             /\ \A q \in Ids(new) :
                  Occurrence(new.runs[r]) = Occurrence(new.runs[q]) => r = q
  <2>1. r = n /\ new.runs[r] = run
    BY <1>1
  <2> QED BY <1>5, <2>1
<1>7. BookOK(new, o, e + 1) /\ Onward(led, new)
  BY <1>1, <1>3, <1>4, <1>6, AppendedOK
<1> QED BY <1>7 DEF new

LEMMA EditIs ==
  ASSUME RunsInv, Edit
  PROVE  /\ edits' = edits + 1 /\ edits \in Nat /\ edits' \in 0..MaxEdits
         /\ edits <= edits' /\ now \in 0..MaxTime
         /\ UNCHANGED <<now, launches, faults, crashes>>
<1>1. edits \in 0..MaxEdits /\ now \in 0..MaxTime
  BY DEF RunsInv, OtherTypes
<1> QED BY <1>1, RunBounds DEF Edit

LEMMA NewRunIs ==
  ASSUME NEW a \in Autos, NEW at \in 0..MaxTime, NEW e \in 0..MaxEdits,
         NEW r \in 0..MaxRuns, NEW status \in Live \cup Over
  PROVE  /\ NewRun(a, at, status, e, r) \in Runs
         /\ NewRun(a, at, status, e, r).task = 0
         /\ NewRun(a, at, status, e, r).request = e
         /\ NewRun(a, at, status, e, r).retry = r
         /\ NewRun(a, at, status, e, r).status = status
         /\ NewRun(a, at, status, e, r).auto = a
         /\ NewRun(a, at, status, e, r).at = at
BY RunsAssumption DEF NewRun, Runs

LEMMA CancelledIs ==
  ASSUME NEW led, NEW o, NEW e, BookOK(led, o, e), NEW rs
  PROVE  /\ BookOK(WithStatus(led, rs, "cancelled"), o, e)
         /\ Onward(led, WithStatus(led, rs, "cancelled"))
         /\ LedgerOK(WithStatus(led, rs, "cancelled"))
<1>1. "cancelled" \in Live \cup Over /\ "cancelled" \notin Live
  BY DEF Live, Over, Active
<1>2. /\ BookOK(WithStatus(led, rs, "cancelled"), o, e)
      /\ Onward(led, WithStatus(led, rs, "cancelled"))
  BY <1>1, WithStatusOK
<1> QED BY <1>2 DEF BookOK

LEMMA Rescheduled ==
  ASSUME NEW led, LedgerOK(led), NEW a \in Autos,
         NEW enabled \in BOOLEAN, NEW next \in 0..MaxTime + 1
  PROVE  /\ [led EXCEPT !.defs[a] = [enabled |-> enabled, next |-> next]].runs = led.runs
         /\ LedgerOK([led EXCEPT !.defs[a] = [enabled |-> enabled, next |-> next]])
<1>1. PICK ds : ds = [led.defs EXCEPT ![a] = [enabled |-> enabled, next |-> next]]
  OBVIOUS
<1>2. PICK new : new = [led EXCEPT !.defs[a] = [enabled |-> enabled, next |-> next]]
  OBVIOUS
<1>3. new = [led EXCEPT !.defs = ds]
  BY <1>1, <1>2
<1>4. /\ led = [defs |-> led.defs, runs |-> led.runs]
      /\ led.runs \in Seq(Runs) /\ Len(led.runs) <= MaxRuns
      /\ led.defs \in [Autos -> [enabled : BOOLEAN, next : 0..MaxTime + 1]]
  BY LedgerIs
<1>5. new = [defs |-> ds, runs |-> led.runs]
  BY <1>3, <1>4
<1>6. ds \in [Autos -> [enabled : BOOLEAN, next : 0..MaxTime + 1]]
  BY <1>1, <1>4
<1>7. LedgerOK(new)
  BY <1>4, <1>5, <1>6, LedgerMade
<1> QED BY <1>2, <1>5, <1>7

LEMMA RequestStep ==
  ASSUME RunsInv, NEW a \in Autos, Request(a)
  PROVE  RunsInv'
<1> DEFINE run == NewRun(a, now, "pending", edits', 0)
           led == PushRun(ledger, run)
<1>1. /\ Persist(led) /\ Len(ledger.runs) < MaxRuns
      /\ UNCHANGED <<now, tasks, launches, faults, crashes>>
      /\ edits' = edits + 1 /\ edits \in Nat /\ edits' \in 0..MaxEdits
      /\ edits <= edits' /\ now \in 0..MaxTime
  BY EditIs DEF Request
<1>2. /\ run \in Runs /\ run.task = 0 /\ run.request = edits + 1 /\ run.retry = 0
      /\ run.status = "pending"
  BY <1>1, NewRunIs, RunsAssumption DEF Live
<1>3. BookOK(ledger, orch, edits) /\ OrchOK(orch) /\ LedgerOK(ledger)
  BY BooksTyped
<1> HIDE DEF run
<1>4. BookOK(led, orch, edits') /\ Onward(ledger, led)
  BY <1>1, <1>2, <1>3, PushedOK
<1>5. Worked(led, orch)
  <2>1. /\ Ids(led) = Ids(ledger) \cup {Len(ledger.runs) + 1}
        /\ \A r \in Ids(ledger) : led.runs[r] = ledger.runs[r]
        /\ led.runs[Len(ledger.runs) + 1] = run
    BY <1>1, <1>2, <1>3, Pushed
  <2> HIDE DEF led
  <2>2. \A r \in Ids(led) : led.runs[r].status \in Active => r \in Ids(ledger)
    BY <1>2, <2>1 DEF Active
  <2>3. Worked(ledger, orch)
    BY DEF RunsInv
  <2> QED BY <2>1, <2>2, <2>3, WorkedOn
<1> HIDE DEF led
<1> QED BY <1>1, <1>4, <1>5, PersistStep

LEMMA DisableStep ==
  ASSUME RunsInv, NEW a \in Autos, Disable(a)
  PROVE  RunsInv'
<1> DEFINE waiting == RunsOf(ledger, a, {"pending"})
           mid == WithStatus(ledger, waiting, "cancelled")
           led == [mid EXCEPT !.defs[a] = [enabled |-> FALSE, next |-> 0]]
<1>1. /\ Persist(led)
      /\ UNCHANGED <<now, tasks, launches, faults, crashes>>
      /\ edits' = edits + 1 /\ edits \in Nat /\ edits' \in 0..MaxEdits
      /\ edits <= edits'
  BY EditIs DEF Disable
<1>2. BookOK(ledger, orch, edits) /\ OrchOK(orch) /\ LedgerOK(ledger)
  BY BooksTyped
<1> HIDE DEF waiting
<1>3. BookOK(mid, orch, edits) /\ Onward(ledger, mid) /\ LedgerOK(mid)
  BY <1>2, CancelledIs
<1>4. /\ Ids(mid) = Ids(ledger)
      /\ \A r \in Ids(ledger) :
           /\ mid.runs[r].task = ledger.runs[r].task
           /\ mid.runs[r].status \in {"cancelled", ledger.runs[r].status}
  BY <1>2, WithStatusIs DEF Over
<1> HIDE DEF mid
<1>5. led.runs = mid.runs /\ LedgerOK(led)
  <2>1. 0 \in 0..MaxTime + 1
    BY RunsAssumption
  <2> QED BY <1>3, <2>1, Rescheduled
<1> HIDE DEF led
<1>6. BookOK(mid, orch, edits')
  BY <1>1, <1>2, <1>3, BookLater, ExtendsOn, RunsAssumption
<1>7. BookOK(led, orch, edits') /\ Onward(mid, led)
  BY <1>5, <1>6, SameRuns
<1>8. Onward(ledger, led)
  BY <1>2, <1>3, <1>5, <1>7, OnwardOn
<1>9. Worked(led, orch)
  <2>1. Worked(ledger, orch)
    BY DEF RunsInv
  <2>2. Ids(led) = Ids(ledger)
    BY <1>4, <1>5 DEF Ids
  <2> QED BY <1>4, <1>5, <2>1, <2>2, WorkedOn DEF Active
<1> QED BY <1>1, <1>7, <1>8, <1>9, PersistStep

LEMMA EnableStep ==
  ASSUME RunsInv, NEW a \in Autos, Enable(a)
  PROVE  RunsInv'
<1> DEFINE next == FirstAtOrAfter(a, now)
           led == [ledger EXCEPT !.defs[a] = [enabled |-> TRUE, next |-> next]]
<1>1. /\ Persist(led)
      /\ UNCHANGED <<now, tasks, launches, faults, crashes>>
      /\ edits' = edits + 1 /\ edits \in Nat /\ edits' \in 0..MaxEdits
      /\ edits <= edits' /\ now \in 0..MaxTime
  BY EditIs DEF Enable
<1>2. BookOK(ledger, orch, edits) /\ OrchOK(orch) /\ LedgerOK(ledger)
  BY BooksTyped
<1>3. next \in 0..MaxTime + 1
  BY <1>1, RunsAssumption DEF FirstAtOrAfter
<1> HIDE DEF next
<1>4. led.runs = ledger.runs /\ LedgerOK(led)
  BY <1>2, <1>3, Rescheduled
<1> HIDE DEF led
<1>5. BookOK(ledger, orch, edits')
  BY <1>1, <1>2, BookLater, ExtendsOn, RunsAssumption
<1>6. BookOK(led, orch, edits') /\ Onward(ledger, led)
  BY <1>4, <1>5, SameRuns
<1>7. Worked(led, orch)
  BY <1>4 DEF RunsInv, Worked, Ids
<1> QED BY <1>1, <1>6, <1>7, PersistStep

\* A run in review is superseded before it is retried.
LEMMA TaskRetryStep ==
  ASSUME RunsInv, NEW t \in 1..MaxTasks, TaskRetry(t)
  PROVE  RunsInv'
<1>1. PICK r, mid, run :
        /\ r = orch[t].run
        /\ mid = IF ledger.runs[r].status = "review"
                 THEN WithStatus(ledger, {r}, "cancelled") ELSE ledger
        /\ run = NewRun(ledger.runs[r].auto, now, "pending", edits', r)
  OBVIOUS
<1> DEFINE led == PushRun(mid, run)
<1>2. /\ Persist(led) /\ Len(ledger.runs) < MaxRuns /\ r \in Ids(ledger)
      /\ ledger.runs[r].status \notin {"pending", "starting", "running"}
      /\ UNCHANGED <<now, tasks, launches, faults, crashes>>
      /\ edits' = edits + 1 /\ edits \in Nat /\ edits' \in 0..MaxEdits
      /\ edits <= edits' /\ now \in 0..MaxTime
  BY <1>1, EditIs DEF TaskRetry
<1>3. BookOK(ledger, orch, edits) /\ OrchOK(orch) /\ LedgerOK(ledger)
  BY BooksTyped
<1>4. ledger.runs[r] \in Runs /\ r \in 1..Len(ledger.runs) /\ Len(ledger.runs) \in Nat
  BY <1>2, <1>3, LedgerIs
<1>5. ledger.runs[r].auto \in Autos /\ r \in 0..MaxRuns
  <2>1. ledger.runs[r].auto \in Autos
    BY <1>4, RunBounds
  <2>2. Len(ledger.runs) < MaxRuns
    BY <1>2
  <2> QED BY <1>4, <2>1, <2>2, RunBounds
<1>6. /\ run \in Runs /\ run.task = 0 /\ run.request = edits + 1 /\ run.retry = r
      /\ run.status = "pending"
  BY <1>1, <1>2, <1>5, NewRunIs DEF Live
<1>7. /\ BookOK(mid, orch, edits) /\ Onward(ledger, mid) /\ LedgerOK(mid)
      /\ Ids(mid) = Ids(ledger) /\ Len(mid.runs) = Len(ledger.runs)
      /\ mid.runs[r].status \notin Live
      /\ \A q \in Ids(ledger) :
           /\ mid.runs[q].task = ledger.runs[q].task
           /\ mid.runs[q].status \in {"cancelled", ledger.runs[q].status}
  <2>1. CASE ledger.runs[r].status = "review"
    <3>1. mid = WithStatus(ledger, {r}, "cancelled")
      BY <1>1, <2>1
    <3>2. BookOK(mid, orch, edits) /\ Onward(ledger, mid) /\ LedgerOK(mid)
      BY <1>3, <3>1, CancelledIs
    <3>3. /\ Ids(mid) = Ids(ledger) /\ Restated(ledger, mid)
          /\ \A q \in Ids(ledger) :
               /\ mid.runs[q].task = ledger.runs[q].task
               /\ mid.runs[q].status
                    = IF q \in {r} THEN "cancelled" ELSE ledger.runs[q].status
      BY <1>3, <3>1, WithStatusIs DEF Over
    <3> QED BY <1>2, <3>2, <3>3 DEF Restated, Live, Active
  <2>2. CASE ledger.runs[r].status # "review"
    <3>1. mid = ledger
      BY <1>1, <2>2
    <3>2. ledger.runs[r].status \notin Live
      BY <1>2, <2>2 DEF Live, Active
    <3> QED BY <1>3, <3>1, <3>2, FollowsItself
  <2> QED BY <2>1, <2>2
<1>8. BookOK(led, orch, edits') /\ Onward(mid, led) /\ LedgerOK(led)
  <2>1. BookOK(PushRun(mid, run), orch, edits + 1) /\ Onward(mid, PushRun(mid, run))
    BY <1>2, <1>3, <1>6, <1>7, PushedOK
  <2> QED BY <1>2, <2>1 DEF BookOK
<1>9. /\ Ids(led) = Ids(ledger) \cup {Len(ledger.runs) + 1}
      /\ \A q \in Ids(ledger) : led.runs[q] = mid.runs[q]
      /\ led.runs[Len(ledger.runs) + 1] = run
  <2>1. Len(mid.runs) < MaxRuns
    BY <1>2, <1>7
  <2>2. /\ Ids(led) = Ids(mid) \cup {Len(mid.runs) + 1}
        /\ \A q \in Ids(mid) : led.runs[q] = mid.runs[q]
        /\ led.runs[Len(mid.runs) + 1] = run
    BY <1>6, <1>7, <2>1, Pushed
  <2> HIDE DEF led
  <2> QED BY <1>7, <2>2
<1> HIDE DEF led
<1>10. Onward(ledger, led)
  BY <1>3, <1>7, <1>8, OnwardOn
<1>11. Worked(led, orch)
  <2>1. \A q \in Ids(led) : led.runs[q].status \in Active => q \in Ids(ledger)
    BY <1>6, <1>9 DEF Active
  <2>2. Worked(ledger, orch)
    BY DEF RunsInv
  <2>3. \A q \in Ids(ledger) : led.runs[q].status \in Active =>
          /\ ledger.runs[q].status \in Active
          /\ led.runs[q].task = ledger.runs[q].task
    BY <1>7, <1>9 DEF Active
  <2> QED BY <2>1, <2>2, <2>3, WorkedOn
<1> QED BY <1>2, <1>8, <1>10, <1>11, PersistStep

-----------------------------------------------------------------------------
(* Due occurrences                                                         *)

\* The runs a round of collection adds.
NewRuns(led, time) ==
  [i \in DOMAIN Collected(led, time) |->
     LET a == Collected(led, time)[i]
         at == OccurrenceAt(led, a, time)
     IN  NewRun(a, at, DueStatus(led, a, at, time), 0, 0)]

LEMMA DueIs ==
  ASSUME NEW led, LedgerOK(led), NEW time \in 0..MaxTime, NEW a \in Due(led, time),
         DueStatus(led, a, OccurrenceAt(led, a, time), time) # "none"
  PROVE  /\ a \in Autos /\ OccurrenceAt(led, a, time) \in 0..MaxTime
         /\ ~ Duplicate(led, a, OccurrenceAt(led, a, time))
         /\ DueStatus(led, a, OccurrenceAt(led, a, time), time)
              \in {"skipped", "pending"}
<1>1. a \in Autos /\ led.defs[a].next \in 1..time
  BY DEF Due
<1>2. OccurrenceAt(led, a, time) \in {time, led.defs[a].next}
  BY DEF OccurrenceAt
<1>3. OccurrenceAt(led, a, time) \in 0..MaxTime
  BY <1>1, <1>2, RunsAssumption
<1>4. PICK at : at = OccurrenceAt(led, a, time)
  OBVIOUS
<1>5. /\ ~ Duplicate(led, a, at)
      /\ DueStatus(led, a, at, time) \in {"skipped", "pending"}
  BY <1>4 DEF DueStatus
<1> QED BY <1>1, <1>3, <1>4, <1>5

LEMMA NewRunsAre ==
  ASSUME NEW led, LedgerOK(led), NEW time \in 0..MaxTime
  PROVE  /\ NewRuns(led, time) \in Seq(Runs)
         /\ Len(NewRuns(led, time)) \in Nat
         /\ Len(NewRuns(led, time)) <= Cardinality(Due(led, time))
         /\ \A i \in 1..Len(NewRuns(led, time)) :
              LET run == NewRuns(led, time)[i]
              IN  /\ run.task = 0 /\ run.request = 0 /\ run.retry = 0
                  /\ run.status \in {"skipped", "pending"}
                  /\ ~ Duplicate(led, run.auto, run.at)
         /\ \A i, j \in 1..Len(NewRuns(led, time)) :
              NewRuns(led, time)[i].auto = NewRuns(led, time)[j].auto => i = j
<1> DEFINE new == NewRuns(led, time)
           due == Collected(led, time)
           at(a) == OccurrenceAt(led, a, time)
           status(a) == DueStatus(led, a, at(a), time)
           T == {a \in Due(led, time) : status(a) # "none"}
           n == Cardinality(T)
<1>1. IsFiniteSet(Due(led, time))
  BY FS_Subset, RunsAssumption DEF Due
<1>2. IsFiniteSet(T) /\ n <= Cardinality(Due(led, time))
  BY <1>1, FS_Subset
<1>3. due = SetToSeq(T)
  BY DEF Collected
<1>4. \A a \in T : /\ a \in Autos /\ at(a) \in 0..MaxTime
                   /\ ~ Duplicate(led, a, at(a))
                   /\ status(a) \in {"skipped", "pending"}
  BY DueIs
<1>5. new = [i \in DOMAIN due |-> NewRun(due[i], at(due[i]), status(due[i]), 0, 0)]
  BY DEF NewRuns
<1> HIDE DEF T, n, due, new, at, status
<1>6. /\ due \in [1..n -> T] /\ n \in Nat
      /\ \A i, j \in 1..n : due[i] = due[j] => i = j
  BY <1>2, <1>3, Listed DEF n
<1>7. new = [i \in 1..n |-> NewRun(due[i], at(due[i]), status(due[i]), 0, 0)]
  BY <1>5, <1>6
<1>8. 0 \in 0..MaxEdits /\ 0 \in 0..MaxRuns
  BY RunsAssumption
<1>9. ASSUME NEW i \in 1..n
      PROVE  /\ new[i] \in Runs /\ new[i].task = 0 /\ new[i].request = 0
             /\ new[i].retry = 0 /\ new[i].auto = due[i]
             /\ new[i].status \in {"skipped", "pending"}
             /\ ~ Duplicate(led, new[i].auto, new[i].at)
  <2>1. due[i] \in T
    BY <1>6
  <2>2. /\ due[i] \in Autos /\ at(due[i]) \in 0..MaxTime
        /\ status(due[i]) \in Live \cup Over
        /\ status(due[i]) \in {"skipped", "pending"}
        /\ ~ Duplicate(led, due[i], at(due[i]))
    BY <1>4, <2>1 DEF Live, Over
  <2>3. new[i] = NewRun(due[i], at(due[i]), status(due[i]), 0, 0)
    BY <1>7
  <2> QED BY <1>8, <2>2, <2>3, NewRunIs
<1>10. new = [i \in 1..n |-> new[i]]
  BY <1>7
<1>11. new \in Seq(Runs) /\ Len(new) = n
  BY <1>6, <1>9, <1>10, ASeq
<1>12. \A i, j \in 1..n : new[i].auto = new[j].auto => i = j
  BY <1>6, <1>9
<1> QED BY <1>2, <1>6, <1>9, <1>11, <1>12 DEF new

LEMMA CollectDueIs ==
  ASSUME NEW led, LedgerOK(led), NEW time \in 0..MaxTime,
         Len(led.runs) + Cardinality(Due(led, time)) <= MaxRuns
  PROVE  /\ LedgerOK(CollectDue(led, time))
         /\ CollectDue(led, time).runs = led.runs \o NewRuns(led, time)
<1> DEFINE new == CollectDue(led, time)
           due == [a \in Autos |->
                     IF a \in Due(led, time)
                     THEN [enabled |-> NextAfter(a, time) # 0, next |-> NextAfter(a, time)]
                     ELSE led.defs[a]]
           runs == led.runs \o NewRuns(led, time)
<1>1. new = [led EXCEPT !.runs = runs, !.defs = due]
  BY DEF CollectDue, NewRuns
<1>2. /\ led = [defs |-> led.defs, runs |-> led.runs]
      /\ led.runs \in Seq(Runs) /\ Len(led.runs) \in Nat
      /\ led.defs \in [Autos -> [enabled : BOOLEAN, next : 0..MaxTime + 1]]
  BY LedgerIs
<1>3. /\ NewRuns(led, time) \in Seq(Runs) /\ Len(NewRuns(led, time)) \in Nat
      /\ Len(NewRuns(led, time)) <= Cardinality(Due(led, time))
  BY NewRunsAre
<1>4. runs \in Seq(Runs) /\ Len(runs) = Len(led.runs) + Len(NewRuns(led, time))
  BY <1>2, <1>3, ConcatProperties
<1>5. Cardinality(Due(led, time)) \in Nat
  BY FS_Subset, FS_CardinalityType, RunsAssumption DEF Due
<1>6. Len(runs) <= MaxRuns
  BY <1>2, <1>3, <1>4, <1>5, RunsAssumption
<1>7. due \in [Autos -> [enabled : BOOLEAN, next : 0..MaxTime + 1]]
  <2>1. ASSUME NEW a \in Autos PROVE NextAfter(a, time) \in 0..MaxTime + 1
    BY RunsAssumption DEF NextAfter
  <2> QED BY <1>2, <2>1
<1> HIDE DEF new, due, runs
<1>8. new = [defs |-> due, runs |-> runs]
  BY <1>1, <1>2
<1>9. LedgerOK(new) /\ new.runs = runs
  BY <1>4, <1>6, <1>7, <1>8, LedgerMade
<1> QED BY <1>9 DEF new, runs

LEMMA CollectStep ==
  ASSUME RunsInv, Collect
  PROVE  RunsInv'
<1> DEFINE new == NewRuns(ledger, now)
           led == CollectDue(ledger, now)
           m == Len(ledger.runs)
<1>1. /\ Persist(led) /\ m + Cardinality(Due(ledger, now)) <= MaxRuns
      /\ UNCHANGED <<now, tasks, launches, edits, faults, crashes>>
  BY DEF Collect
<1>2. BookOK(ledger, orch, edits) /\ LedgerOK(ledger) /\ now \in 0..MaxTime
  BY BooksTyped DEF RunsInv, OtherTypes
<1>3. LedgerOK(led) /\ led.runs = ledger.runs \o new
  BY <1>1, <1>2, CollectDueIs
<1>4. /\ new \in Seq(Runs) /\ Len(new) \in Nat
      /\ \A i \in 1..Len(new) :
           /\ new[i].task = 0 /\ new[i].request = 0 /\ new[i].retry = 0
           /\ new[i].status \in {"skipped", "pending"}
           /\ ~ Duplicate(ledger, new[i].auto, new[i].at)
      /\ \A i, j \in 1..Len(new) : new[i].auto = new[j].auto => i = j
  BY <1>2, NewRunsAre
<1>5. ledger.runs \in Seq(Runs) /\ m \in Nat /\ Ids(ledger) = 1..m
  BY <1>2, LedgerIs
<1> HIDE DEF new, led, m
<1>6. /\ Len(led.runs) = m + Len(new)
      /\ \A i \in 1..m + Len(new) :
           led.runs[i] = IF i <= m THEN ledger.runs[i] ELSE new[i - m]
  BY <1>3, <1>4, <1>5, ConcatProperties DEF m
<1>7. Ids(led) = 1..m + Len(new)
  BY <1>3, <1>6, LedgerIs
<1>8. \A r \in Ids(ledger) : led.runs[r] = ledger.runs[r]
  BY <1>4, <1>5, <1>6
<1>9. ASSUME NEW r \in Ids(led) \ Ids(ledger)
      PROVE  r - m \in 1..Len(new) /\ led.runs[r] = new[r - m]
  BY <1>4, <1>5, <1>6, <1>7
<1>10. edits \in Nat
  BY LedgerRests
<1>11. ASSUME NEW r \in Ids(led) \ Ids(ledger)
       PROVE  /\ led.runs[r].task = 0 /\ led.runs[r].request <= edits
              /\ led.runs[r].retry = 0
              /\ \A q \in Ids(led) :
                   Occurrence(led.runs[r]) = Occurrence(led.runs[q]) => r = q
  <2>1. /\ r - m \in 1..Len(new) /\ led.runs[r] = new[r - m] /\ r \in Nat
    BY <1>4, <1>5, <1>7, <1>9
  <2>2. /\ led.runs[r].task = 0 /\ led.runs[r].request = 0 /\ led.runs[r].retry = 0
        /\ ~ Duplicate(ledger, led.runs[r].auto, led.runs[r].at)
    BY <1>4, <2>1
  <2>3. ASSUME NEW q \in Ids(led), Occurrence(led.runs[r]) = Occurrence(led.runs[q])
        PROVE  r = q
    <3>1. /\ led.runs[r].auto = led.runs[q].auto /\ led.runs[r].at = led.runs[q].at
          /\ led.runs[q].request = 0
      BY <2>2, <2>3, SameOccurrence
    <3>2. CASE q \in Ids(ledger)
      <4>1. led.runs[q] = ledger.runs[q]
        BY <1>8, <3>2
      <4>2. ledger.runs[q].retry = 0
        BY <1>2, <3>1, <3>2, <4>1 DEF BookOK
      <4> QED BY <2>2, <3>1, <3>2, <4>1, <4>2 DEF Duplicate
    <3>3. CASE q \notin Ids(ledger)
      <4>1. q - m \in 1..Len(new) /\ led.runs[q] = new[q - m] /\ q \in Nat
        BY <1>4, <1>5, <1>7, <1>9, <3>3
      <4>2. r - m = q - m
        BY <1>4, <2>1, <3>1, <4>1
      <4> QED BY <1>5, <2>1, <4>1, <4>2
    <3> QED BY <3>2, <3>3
  <2> QED BY <1>10, <2>2, <2>3
<1>12. m <= Len(led.runs)
  BY <1>4, <1>5, <1>6
<1>13. BookOK(led, orch, edits) /\ Onward(ledger, led)
  BY <1>2, <1>3, <1>8, <1>11, <1>12, AppendedOK DEF m
<1>14. Worked(led, orch)
  <2>1. \A r \in Ids(led) \ Ids(ledger) : led.runs[r].status \notin Active
    BY <1>4, <1>9 DEF Active
  <2>2. Worked(ledger, orch)
    BY DEF RunsInv
  <2> QED BY <1>8, <2>1, <2>2, WorkedOn
<1>15. edits' = edits
  BY <1>1
<1> QED BY <1>1, <1>13, <1>14, <1>15, LedgerRests, PersistStep

-----------------------------------------------------------------------------
(* Tasks change                                                            *)

LEMMA TaskPut ==
  ASSUME NEW o, OrchOK(o), NEW t \in DOMAIN o, NEW s \in Tasks,
         s.run = o[t].run, s.of = o[t].of, o[t].bound => s.bound,
         o[t].status = "deleted" => s.status = "deleted"
  PROVE  /\ OrchOK([o EXCEPT ![t] = s]) /\ Len([o EXCEPT ![t] = s]) = Len(o)
         /\ DOMAIN [o EXCEPT ![t] = s] = DOMAIN o /\ [o EXCEPT ![t] = s][t] = s
         /\ \A d \in DOMAIN o : d # t => [o EXCEPT ![t] = s][d] = o[d]
         /\ Later(o, [o EXCEPT ![t] = s])
<1> DEFINE p == [o EXCEPT ![t] = s]
<1>1. o \in Seq(Tasks) /\ DOMAIN o = 1..Len(o) /\ Len(o) \in Nat /\ Len(o) <= MaxTasks
  BY OrchIs
<1>2. p \in Seq(Tasks) /\ Len(p) = Len(o)
  BY <1>1, ExceptSeq
<1>3. DOMAIN p = DOMAIN o /\ p[t] = s /\ \A d \in DOMAIN o : d # t => p[d] = o[d]
  OBVIOUS
<1> HIDE DEF p
<1>4. OrchOK(p)
  BY <1>1, <1>2 DEF OrchOK
<1>5. Extends(o, p)
  BY <1>1, <1>2, <1>3 DEF Extends
<1>6. Later(o, p)
  BY <1>3, <1>5 DEF Later
<1> QED BY <1>2, <1>3, <1>4, <1>6 DEF p

LEMMA TaskFields ==
  ASSUME NEW job \in Tasks
  PROVE  job = [run |-> job.run, of |-> job.of, owner |-> job.owner,
                 bound |-> job.bound, status |-> job.status]
BY DEF Tasks

\* The tasks change, and the ledger stays as it is.
LEMMA TaskStep ==
  ASSUME RunsInv, NEW o, OrchOK(o), Len(o) = Len(orch), Later(orch, o),
         Worked(ledger, o), SaveOrch(o), Edit, UNCHANGED <<ledger, store>>
  PROVE  RunsInv'
<1>1. autoDisk' = autoDisk /\ dirty' = dirty /\ saving' = saving /\ ledger' = ledger
  BY DEF store
<1>2. /\ orch' = o /\ TasksHold' /\ lost' \in Nat
      /\ lost' = 0 => lost = 0
  BY <1>1, SaveOrchIs DEF Later
<1>3. /\ edits \in Nat /\ edits' \in 0..MaxEdits /\ edits <= edits' /\ edits' \in Nat
      /\ UNCHANGED <<now, launches, faults, crashes>>
  BY EditIs
<1>4. OtherTypes'
  BY <1>1, <1>2, <1>3 DEF RunsInv, OtherTypes
<1>5. InFlight' = InFlight /\ Acked(saving', dirty', ledger', autoDisk')
  BY <1>1 DEF RunsInv, BooksHold, InFlight
<1>6. BookOK(ledger', orch', edits')
  BY <1>1, <1>2, <1>3, BooksTyped, BookLater DEF Later
<1>7. Onward(ledger, ledger')
  BY <1>1, LedgerRests
<1> QED BY <1>1, <1>2, <1>3, <1>4, <1>5, <1>6, <1>7, GoOn

LEMMA ChangeStep ==
  ASSUME RunsInv, NEW t \in DOMAIN orch, NEW s \in Tasks,
         orch[t].status # "deleted", s.status # "deleted",
         s.run = orch[t].run, s.of = orch[t].of, orch[t].bound => s.bound,
         NEW o, o = [orch EXCEPT ![t] = s], Change(o, t), Edit
  PROVE  RunsInv'
<1> DEFINE led == Mirrored(ledger, o, t)
<1>1. BookOK(ledger, orch, edits) /\ OrchOK(orch) /\ Worked(ledger, orch)
  BY BooksTyped DEF RunsInv
<1>2. /\ OrchOK(o) /\ Len(o) = Len(orch) /\ DOMAIN o = DOMAIN orch /\ o[t] = s
      /\ \A d \in DOMAIN orch : d # t => o[d] = orch[d]
      /\ Later(orch, o) /\ Extends(orch, o)
  <2>1. orch[t].status = "deleted" => s.status = "deleted"
    OBVIOUS
  <2>2. /\ OrchOK(o) /\ Len(o) = Len(orch) /\ DOMAIN o = DOMAIN orch /\ o[t] = s
        /\ \A d \in DOMAIN orch : d # t => o[d] = orch[d]
        /\ Later(orch, o)
    BY <1>1, <2>1, TaskPut
  <2> QED BY <2>2 DEF Later
<1>3. BookOK(led, orch, edits) /\ Onward(ledger, led) /\ Worked(led, o)
  BY <1>1, <1>2, MirroredWorks
<1>4. SaveOrch(o)
  BY DEF Change
<1>5. \/ led = ledger /\ UNCHANGED <<ledger, store>>
     \/ Persist(led)
  BY DEF Change, Sync
<1> HIDE DEF led
<1>6. CASE led = ledger /\ UNCHANGED <<ledger, store>>
  BY <1>2, <1>3, <1>4, <1>6, TaskStep
<1>7. CASE Persist(led)
  <2>1. /\ ledger' = led /\ autoDisk' = autoDisk /\ dirty' \in BOOLEAN
        /\ SavingOK(saving') /\ Acked(saving', dirty', ledger', autoDisk')
        /\ InFlight' \in {InFlight, ledger'}
    BY <1>3, <1>7, PersistIs DEF BookOK
  <2>2. /\ orch' = o /\ TasksHold' /\ lost' \in Nat
        /\ lost' = 0 => lost = 0
    BY <1>2, <1>4, <2>1, SaveOrchIs
  <2>3. /\ edits \in Nat /\ edits' \in 0..MaxEdits /\ edits <= edits' /\ edits' \in Nat
        /\ UNCHANGED <<now, launches, faults, crashes>>
    BY EditIs
  <2>4. OtherTypes'
    BY <2>1, <2>2, <2>3 DEF RunsInv, OtherTypes
  <2>5. BookOK(ledger', orch', edits')
    BY <1>1, <1>2, <1>3, <2>1, <2>2, <2>3, BookLater
  <2> QED BY <1>2, <1>3, <2>1, <2>2, <2>3, <2>4, <2>5, GoOn
<1> QED BY <1>5, <1>6, <1>7

LEMMA PresentIs ==
  ASSUME RunsInv, NEW t, Present(t)
  PROVE  /\ t \in DOMAIN orch /\ orch[t].status # "deleted" /\ orch[t] \in Tasks
         /\ OrchOK(orch)
BY BooksTyped, OrchIs DEF Present

LEMMA TaskUpdateStep ==
  ASSUME RunsInv, NEW t \in 1..MaxTasks,
         NEW status \in {"queued", "running", "review", "done", "failed"},
         TaskUpdate(t, status)
  PROVE  RunsInv'
<1>1. PICK s, o : s = [orch[t] EXCEPT !.status = status] /\ o = [orch EXCEPT ![t] = s]
  OBVIOUS
<1>2. Edit /\ Present(t) /\ Change(o, t)
  BY <1>1 DEF TaskUpdate
<1>3. orch[t] \in Tasks /\ t \in DOMAIN orch /\ orch[t].status # "deleted"
  BY <1>2, PresentIs
<1>4. /\ s \in Tasks /\ s.status # "deleted" /\ s.run = orch[t].run
      /\ s.of = orch[t].of /\ s.bound = orch[t].bound
  BY <1>1, <1>3 DEF Tasks
<1> QED BY <1>1, <1>2, <1>3, <1>4, ChangeStep

LEMMA PaneStateStep ==
  ASSUME RunsInv, NEW t \in 1..MaxTasks, PaneState(t)
  PROVE  RunsInv'
<1>1. PICK status \in {"blocked", "running"} :
        Edit /\ Present(t) /\ Change([orch EXCEPT ![t].status = status], t)
  BY DEF PaneState
<1>2. PICK s, o : s = [orch[t] EXCEPT !.status = status] /\ o = [orch EXCEPT ![t] = s]
  OBVIOUS
<1>3. Change(o, t)
  BY <1>1, <1>2
<1>4. orch[t] \in Tasks /\ t \in DOMAIN orch /\ orch[t].status # "deleted"
  BY <1>1, PresentIs
<1>5. /\ s \in Tasks /\ s.status # "deleted" /\ s.run = orch[t].run
      /\ s.of = orch[t].of /\ s.bound = orch[t].bound
  BY <1>2, <1>4 DEF Tasks
<1> QED BY <1>1, <1>2, <1>3, <1>4, <1>5, ChangeStep

LEMMA TaskReleaseStep ==
  ASSUME RunsInv, NEW t \in 1..MaxTasks, TaskRelease(t)
  PROVE  RunsInv'
<1>1. PICK s, o : /\ s = [orch[t] EXCEPT !.status = "queued", !.owner = "none"]
                  /\ o = [orch EXCEPT ![t] = s]
  OBVIOUS
<1>2. /\ Edit /\ Present(t)
      /\ Change([orch EXCEPT ![t].status = "queued", ![t].owner = "none"], t)
  BY DEF TaskRelease
<1>3. orch[t] \in Tasks /\ t \in DOMAIN orch /\ orch[t].status # "deleted"
  BY <1>2, PresentIs
<1>4. /\ s \in Tasks /\ s.status # "deleted" /\ s.run = orch[t].run
      /\ s.of = orch[t].of /\ s.bound = orch[t].bound
  BY <1>1, <1>3 DEF Tasks
<1>5. o = [orch EXCEPT ![t].status = "queued", ![t].owner = "none"]
  BY <1>1, <1>3
<1> QED BY <1>1, <1>2, <1>3, <1>4, <1>5, ChangeStep

LEMMA PaneClosedStep ==
  ASSUME RunsInv, NEW t \in 1..MaxTasks, PaneClosed(t)
  PROVE  RunsInv'
<1>1. Edit /\ Present(t)
  BY DEF PaneClosed
<1>2. orch[t] \in Tasks /\ t \in DOMAIN orch /\ orch[t].status # "deleted"
  BY <1>1, PresentIs
<1>3. CASE orch[t].status \in {"claimed", "running", "review", "blocked"}
  <2>1. PICK s, o : /\ s = [orch[t] EXCEPT !.status = "failed", !.owner = "none"]
                    /\ o = [orch EXCEPT ![t] = s]
    OBVIOUS
  <2>2. Change([orch EXCEPT ![t].status = "failed", ![t].owner = "none"], t)
    BY <1>3 DEF PaneClosed
  <2>3. /\ s \in Tasks /\ s.status # "deleted" /\ s.run = orch[t].run
        /\ s.of = orch[t].of /\ s.bound = orch[t].bound
    BY <1>2, <2>1 DEF Tasks
  <2>4. o = [orch EXCEPT ![t].status = "failed", ![t].owner = "none"]
    BY <1>2, <2>1
  <2> QED BY <1>1, <1>2, <2>1, <2>2, <2>3, <2>4, ChangeStep
<1>4. CASE orch[t].status \notin {"claimed", "running", "review", "blocked"}
  <2>1. PICK s, o : s = [orch[t] EXCEPT !.owner = "none"] /\ o = [orch EXCEPT ![t] = s]
    OBVIOUS
  <2>2. Change([orch EXCEPT ![t].owner = "none"], t)
    BY <1>4 DEF PaneClosed
  <2>3. /\ s \in Tasks /\ s.status # "deleted" /\ s.run = orch[t].run
        /\ s.of = orch[t].of /\ s.bound = orch[t].bound
    BY <1>2, <2>1 DEF Tasks
  <2>4. Change(o, t)
    BY <2>1, <2>2
  <2> QED BY <1>1, <1>2, <2>1, <2>3, <2>4, ChangeStep
<1> QED BY <1>3, <1>4

\* A task nobody mirrors may leave the states in which its run waits for it, and
\* never enters them.
LEMMA AloneStep ==
  ASSUME RunsInv, NEW t \in DOMAIN orch, NEW s \in Tasks,
         orch[t].status # "deleted",
         s.status \notin {"queued", "done", "failed"},
         s.run = orch[t].run, s.of = orch[t].of, orch[t].bound => s.bound,
         NEW o, o = [orch EXCEPT ![t] = s], SaveOrch(o), Edit,
         UNCHANGED <<ledger, store>>
  PROVE  RunsInv'
<1>1. OrchOK(orch) /\ Worked(ledger, orch)
  BY BooksTyped DEF RunsInv
<1>2. /\ OrchOK(o) /\ Len(o) = Len(orch) /\ DOMAIN o = DOMAIN orch /\ o[t] = s
      /\ \A d \in DOMAIN orch : d # t => o[d] = orch[d]
      /\ Later(orch, o)
  <2>1. orch[t].status = "deleted" => s.status = "deleted"
    OBVIOUS
  <2> QED BY <1>1, <2>1, TaskPut
<1>3. Worked(ledger, o)
  BY <1>1, <1>2 DEF Worked
<1> QED BY <1>2, <1>3, TaskStep

LEMMA TaskTakenStep ==
  ASSUME RunsInv, NEW t \in 1..MaxTasks, TaskTaken(t)
  PROVE  RunsInv'
<1>1. Edit /\ Present(t) /\ UNCHANGED <<ledger, store>>
  BY DEF TaskTaken
<1>2. orch[t] \in Tasks /\ t \in DOMAIN orch /\ orch[t].status # "deleted"
  BY <1>1, PresentIs
<1>3. CASE SaveOrch([orch EXCEPT ![t].status = "claimed", ![t].owner = "other"])
  <2>1. PICK s, o : /\ s = [orch[t] EXCEPT !.status = "claimed", !.owner = "other"]
                    /\ o = [orch EXCEPT ![t] = s]
    OBVIOUS
  <2>2. /\ s \in Tasks /\ s.status = "claimed" /\ s.run = orch[t].run
        /\ s.of = orch[t].of /\ s.bound = orch[t].bound
    BY <1>2, <2>1 DEF Tasks
  <2>3. o = [orch EXCEPT ![t].status = "claimed", ![t].owner = "other"]
    BY <1>2, <2>1
  <2>4. SaveOrch(o)
    BY <1>3, <2>3
  <2>5. s.status \notin {"queued", "done", "failed"}
    BY <2>2
  <2>6. /\ s \in Tasks /\ s.run = orch[t].run /\ s.of = orch[t].of
        /\ orch[t].bound => s.bound
    BY <2>2
  <2>7. o = [orch EXCEPT ![t] = s]
    BY <2>1
  <2> QED BY <1>1, <1>2, <2>4, <2>5, <2>6, <2>7, AloneStep
<1>4. CASE SaveOrch([Begun(orch, t) EXCEPT ![t].owner = "other"])
  <2>1. PICK s, o : /\ s = [orch[t] EXCEPT !.status = "running", !.owner = "other", !.bound = TRUE]
                    /\ o = [orch EXCEPT ![t] = s]
    OBVIOUS
  <2>2. /\ s \in Tasks /\ s.status = "running" /\ s.run = orch[t].run
        /\ s.of = orch[t].of /\ s.bound = TRUE
    BY <1>2, <2>1 DEF Tasks
  <2>3. PICK b : b = [orch[t] EXCEPT !.status = "running", !.owner = "worker", !.bound = TRUE]
    OBVIOUS
  <2>4. Begun(orch, t) = [orch EXCEPT ![t] = b]
    BY <1>2, <2>3 DEF Begun
  <2>5. [b EXCEPT !.owner = "other"] = s
    BY <1>2, <2>1, <2>3, TaskFields
  <2>6. PICK c : c = Begun(orch, t)
    OBVIOUS
  <2>7. o = [c EXCEPT ![t].owner = "other"]
    BY <1>2, <2>1, <2>4, <2>5, <2>6
  <2>8. SaveOrch(o)
    BY <1>4, <2>6, <2>7
  <2>9. s.status \notin {"queued", "done", "failed"}
    BY <2>2
  <2>10. /\ s \in Tasks /\ s.run = orch[t].run /\ s.of = orch[t].of
         /\ orch[t].bound => s.bound
    BY <2>2
  <2>11. o = [orch EXCEPT ![t] = s]
    BY <2>1
  <2> QED BY <1>1, <1>2, <2>8, <2>9, <2>10, <2>11, AloneStep
<1> QED BY <1>3, <1>4 DEF TaskTaken

LEMMA TaskDeleteStep ==
  ASSUME RunsInv, NEW t \in 1..MaxTasks, TaskDelete(t)
  PROVE  RunsInv'
<1>1. PICK s, o : s = [orch[t] EXCEPT !.status = "deleted"] /\ o = [orch EXCEPT ![t] = s]
  OBVIOUS
<1>2. Edit /\ Present(t) /\ SaveOrch(o) /\ UNCHANGED <<ledger, store>>
  BY <1>1 DEF TaskDelete
<1>3. orch[t] \in Tasks /\ t \in DOMAIN orch /\ orch[t].status # "deleted"
  BY <1>2, PresentIs
<1>4. /\ s \in Tasks /\ s.status = "deleted" /\ s.run = orch[t].run
      /\ s.of = orch[t].of /\ s.bound = orch[t].bound
  BY <1>1, <1>3 DEF Tasks
<1> QED BY <1>1, <1>2, <1>3, <1>4, AloneStep

LEMMA TaskMergeStep ==
  ASSUME RunsInv, NEW t \in 1..MaxTasks, TaskMerge(t)
  PROVE  RunsInv'
<1>1. PICK s, o : s = [orch[t] EXCEPT !.status = "merged"] /\ o = [orch EXCEPT ![t] = s]
  OBVIOUS
<1>2. Edit /\ Present(t) /\ SaveOrch(o) /\ UNCHANGED <<ledger, store>>
  BY <1>1 DEF TaskMerge
<1>3. orch[t] \in Tasks /\ t \in DOMAIN orch /\ orch[t].status # "deleted"
  BY <1>2, PresentIs
<1>4. /\ s \in Tasks /\ s.status = "merged" /\ s.run = orch[t].run
      /\ s.of = orch[t].of /\ s.bound = orch[t].bound
  BY <1>1, <1>3 DEF Tasks
<1> QED BY <1>1, <1>2, <1>3, <1>4, AloneStep

-----------------------------------------------------------------------------
(* Starting what waits                                                     *)

\* A round starts from a ledger that both the file and memory have.
Settled(led, o, disk, ls, e, n) ==
  /\ BookOK(led, o, e) /\ OrchOK(o) /\ OrchOK(disk)
  /\ Kept(o, disk, n) /\ Rooted(disk, led) /\ Worked(led, o)
  /\ n = 0 => LaunchesHeld(ls, o, led, led, led)

LEMMA KeptRooted ==
  ASSUME NEW o, NEW disk, NEW n, NEW led, OrchOK(o), OrchOK(disk),
         Kept(o, disk, n), Rooted(disk, led)
  PROVE  Rooted(o, led)
<1>1. \A t \in DOMAIN o : t \in DOMAIN disk
  BY OrchIs DEF Kept, Extends
<1> QED BY <1>1 DEF Kept, Extends, Rooted

LEMMA LinkedIs ==
  ASSUME NEW led, NEW o, NEW e, BookOK(led, o, e), OrchOK(o), NEW r \in Ids(led),
         led.runs[r].status = "pending", NEW t \in DOMAIN o, o[t].run = r
  PROVE  /\ BookOK(Linked(led, r, t), o, e) /\ Onward(led, Linked(led, r, t))
         /\ Ids(Linked(led, r, t)) = Ids(led)
         /\ Linked(led, r, t).runs[r].status = "pending"
         /\ Linked(led, r, t).runs[r].task = t
         /\ \A q \in Ids(led) \ {r} : Linked(led, r, t).runs[q] = led.runs[q]
<1> DEFINE new == Linked(led, r, t)
<1>1. /\ led = [defs |-> led.defs, runs |-> led.runs]
      /\ led.runs \in Seq(Runs) /\ Ids(led) = 1..Len(led.runs)
      /\ Len(led.runs) \in Nat /\ Len(led.runs) <= MaxRuns
      /\ led.defs \in [Autos -> [enabled : BOOLEAN, next : 0..MaxTime + 1]]
      /\ led.runs[r] \in Runs
  BY LedgerIs DEF BookOK
<1>2. PICK s : s = [led.runs[r] EXCEPT !.task = t, !.status = "pending"]
  OBVIOUS
<1>3. t \in 0..MaxTasks
  BY OrchIs, RunsAssumption
<1>4. /\ s \in Runs /\ s.task = t /\ s.status = "pending"
      /\ s.retry = led.runs[r].retry /\ Occurrence(s) = Occurrence(led.runs[r])
  BY <1>1, <1>2, <1>3 DEF Runs, Live, Occurrence
<1>5. PICK rs : rs = [led.runs EXCEPT ![r] = s]
  OBVIOUS
<1>6. rs \in Seq(Runs) /\ Len(rs) = Len(led.runs)
  BY <1>1, <1>4, <1>5, ExceptSeq
<1>7. rs[r] = s /\ \A q \in Ids(led) \ {r} : rs[q] = led.runs[q]
  BY <1>5 DEF Ids
<1>8. new = [led EXCEPT !.runs = rs]
  <2>1. PICK s1, rs1, led1 : /\ s1 = [led.runs[r] EXCEPT !.task = t]
                             /\ rs1 = [led.runs EXCEPT ![r] = s1]
                             /\ led1 = [led EXCEPT !.runs[r].task = t]
    OBVIOUS
  <2>2. led1 = [led EXCEPT !.runs = rs1]
    BY <2>1
  <2>3. led1 = [defs |-> led.defs, runs |-> rs1]
    BY <1>1, <2>2, PutRuns
  <2>4. new = [led1 EXCEPT !.runs[r].status = "pending"]
    BY <2>1 DEF Linked
  <2>5. led1.runs = rs1 /\ rs1[r] = s1
    BY <2>1, <2>3 DEF Ids
  <2>6. [led1.runs[r] EXCEPT !.status = "pending"] = s
    BY <1>1, <1>2, <2>1, <2>5 DEF Runs
  <2>7. [led1.runs EXCEPT ![r].status = "pending"] = rs
    BY <1>5, <2>1, <2>5, <2>6 DEF Ids
  <2>8. new = [led1 EXCEPT !.runs = rs]
    BY <2>4, <2>7
  <2>9. new = [defs |-> led1.defs, runs |-> rs]
    BY <2>3, <2>8, PutRuns
  <2>10. [led EXCEPT !.runs = rs] = [defs |-> led.defs, runs |-> rs]
    BY <1>1, PutRuns
  <2> QED BY <2>3, <2>9, <2>10
<1> HIDE DEF new
<1>9. new = [defs |-> led.defs, runs |-> rs]
  BY <1>1, <1>8, PutRuns
<1>10. LedgerOK(new) /\ new.runs = rs
  <2>1. Len(rs) <= MaxRuns /\ LedgerOK(led)
    BY <1>1, <1>6 DEF BookOK
  <2> QED BY <1>1, <1>6, <1>9, <2>1, LedgerMade
<1>11. Ids(new) = Ids(led)
  BY <1>1, <1>6, <1>10, LedgerIs
<1>12. Restated(led, new)
  BY <1>4, <1>6, <1>7, <1>10 DEF Restated
<1>13. \A q \in Ids(led) :
         /\ \/ new.runs[q].task \in {0, led.runs[q].task}
            \/ new.runs[q].task \in DOMAIN o /\ o[new.runs[q].task].run = q
         /\ \/ new.runs[q].status \notin Live
            \/ led.runs[q].status \in Live
            \/ \A p \in Ids(led) : led.runs[p].retry # q
  BY <1>4, <1>7, <1>10 DEF Live
<1>14. BookOK(new, o, e) /\ Follows(led, new)
  BY <1>10, <1>12, <1>13, RestatedOK
<1>15. Onward(led, new)
  BY <1>7, <1>10, <1>14 DEF Onward
<1> QED BY <1>4, <1>7, <1>10, <1>11, <1>14, <1>15 DEF new

\* The round ends with its change in memory.
LEMMA SettleStep ==
  ASSUME NEW led, NEW o, NEW disk, Settled(led, o, disk, launches, edits, lost),
         autoDisk' = led, InFlight' = ledger', edits' = edits, edits \in Nat,
         Acked(saving', dirty', ledger', autoDisk'),
         Onward(led, ledger'), BookOK(ledger', orch', edits), Later(o, orch'),
         OtherTypes', TasksHold', Worked(ledger', orch'),
         lost' = 0 => LaunchesHeld(launches', orch', led, ledger', ledger')
  PROVE  RunsInv'
<1>1. OrchOK(orch') /\ OrchOK(o) /\ BookOK(led, o, edits) /\ LedgerOK(ledger')
  BY DEF Settled, TasksHold, BookOK
<1>2. BookOK(led, orch', edits)
  BY <1>1, BookLater DEF Later
<1>3. Follows(led, ledger') /\ Follows(ledger', ledger')
  BY <1>1, FollowsItself DEF Onward
<1>4. BooksHold'
  <2>1. \A l \in Books' : BookOK(l, orch', edits')
    BY <1>2 DEF Books
  <2> QED BY <1>3, <2>1 DEF BooksHold
<1> QED BY <1>4 DEF RunsInv

LEMMA NothingLaunched ==
  ASSUME NEW led, NEW o, NEW disk, Settled(led, o, disk, launches, edits, lost),
         Onward(led, ledger'), LedgerOK(ledger'), Later(o, orch'), OrchOK(orch'),
         launches' = launches, lost' = 0 => lost = 0
  PROVE  lost' = 0 => LaunchesHeld(launches', orch', led, ledger', ledger')
<1> SUFFICES ASSUME lost' = 0
             PROVE  LaunchesHeld(launches', orch', led, ledger', ledger')
  OBVIOUS
<1>1. LaunchesHeld(launches, o, led, led, led) /\ OrchOK(o) /\ LedgerOK(led)
  BY DEF Settled, BookOK
<1>2. ledger' \in {led, ledger'}
  OBVIOUS
<1> QED BY <1>1, <1>2, LaunchesGoOn

\* The types a round leaves alone.
RoundTypes ==
  /\ now' \in 0..MaxTime /\ launches' \in Seq(Occurrences)
  /\ edits \in 0..MaxEdits /\ edits' = edits /\ edits \in Nat
  /\ faults' \in Nat /\ lost' \in Nat /\ crashes' \in Nat

LEMMA RoundSaves ==
  ASSUME NEW led, NEW o, NEW disk, Settled(led, o, disk, launches, edits, lost),
         autoDisk' = led, RoundTypes, NEW new, Save(new), Onward(led, new),
         BookOK(new, orch', edits), Later(o, orch'), TasksHold', Worked(new, orch'),
         lost' = 0 => LaunchesHeld(launches', orch', led, new, new)
  PROVE  RunsInv'
<1>1. /\ ledger' = new /\ dirty' \in BOOLEAN /\ SavingOK(saving')
      /\ Acked(saving', dirty', ledger', autoDisk') /\ InFlight' = ledger'
  BY SaveIs DEF BookOK
<1>2. OtherTypes'
  BY <1>1 DEF OtherTypes, RoundTypes
<1>3. edits' = edits /\ edits \in Nat
  BY DEF RoundTypes
<1> QED BY <1>1, <1>2, <1>3, SettleStep

LEMMA NewTaskIs ==
  ASSUME NEW led, LedgerOK(led), NEW r \in Ids(led), NEW o, OrchOK(o),
         Len(o) + 1 <= MaxTasks
  PROVE  /\ OrchOK(Append(o, NewTask(led, r))) /\ Later(o, Append(o, NewTask(led, r)))
         /\ Extends(Append(o, NewTask(led, r)), Append(o, NewTask(led, r)))
         /\ DOMAIN Append(o, NewTask(led, r)) = DOMAIN o \cup {Len(o) + 1}
         /\ \A t \in DOMAIN o : Append(o, NewTask(led, r))[t] = o[t]
         /\ Append(o, NewTask(led, r))[Len(o) + 1].run = r
         /\ Append(o, NewTask(led, r))[Len(o) + 1].of = Occurrence(led.runs[r])
<1> DEFINE job == NewTask(led, r)
           added == Append(o, job)
<1>1. /\ o \in Seq(Tasks) /\ DOMAIN o = 1..Len(o) /\ Len(o) \in Nat
  BY OrchIs
<1>2. led.runs[r] \in Runs /\ r \in 1..MaxRuns
  BY LedgerIs, RunsAssumption
<1>3. job \in Tasks /\ job.run = r /\ job.of = Occurrence(led.runs[r])
  BY <1>2 DEF NewTask, Tasks, Occurrence, Occurrences, Runs
<1> HIDE DEF job
<1>4. /\ added \in Seq(Tasks) /\ Len(added) = Len(o) + 1
      /\ \A t \in DOMAIN o : added[t] = o[t]
      /\ added[Len(o) + 1] = job /\ DOMAIN added = 1..Len(o) + 1
  BY <1>1, <1>3, AppendIs
<1> HIDE DEF added
<1>5. DOMAIN added = DOMAIN o \cup {Len(o) + 1}
  BY <1>1, <1>4
<1>6. OrchOK(added)
  BY <1>4 DEF OrchOK
<1>7. Later(o, added)
  BY <1>1, <1>4 DEF Later, Extends
<1>8. Extends(added, added)
  BY <1>6, ExtendsOn
<1> QED BY <1>3, <1>4, <1>5, <1>6, <1>7, <1>8 DEF added, job

LEMMA RoundTyped ==
  ASSUME OtherTypes, UNCHANGED <<now, edits>>, crashes' \in Nat,
         launches' \in Seq(Occurrences), faults' \in Nat, lost' \in Nat
  PROVE  RoundTypes
BY RunsAssumption DEF OtherTypes, RoundTypes

\* A run that could not become a task fails.
LEMMA RefusedStep ==
  ASSUME NEW led, NEW o, NEW disk, Settled(led, o, disk, launches, edits, lost),
         autoDisk' = led, RoundTypes, NEW r \in Ids(led), led.runs[r].status = "pending",
         Save(WithStatus(led, {r}, "failed")), orch' = o,
         OrchOK(orchDisk'), Kept(o, orchDisk', lost), Rooted(orchDisk', led),
         UNCHANGED <<launches, lost>>
  PROVE  RunsInv'
<1> DEFINE new == WithStatus(led, {r}, "failed")
<1>1. BookOK(led, o, edits) /\ OrchOK(o) /\ Worked(led, o) /\ LedgerOK(led)
  BY DEF Settled, BookOK
<1>2. "failed" \in Live \cup Over /\ "failed" \notin Live /\ "failed" # "pending"
  BY DEF Live, Over, Active
<1>3. BookOK(new, o, edits) /\ Onward(led, new)
  BY <1>1, <1>2, WithStatusOK
<1>4. Worked(new, o)
  <2>1. /\ Ids(new) = Ids(led)
        /\ \A q \in Ids(led) :
             /\ new.runs[q].task = led.runs[q].task
             /\ new.runs[q].status = IF q \in {r} THEN "failed" ELSE led.runs[q].status
    BY <1>1, <1>2, WithStatusIs
  <2> HIDE DEF new
  <2> QED BY <1>1, <2>1, WorkedOn DEF Active
<1> HIDE DEF new
<1>5. LedgerOK(new) /\ Later(o, o)
  BY <1>1, <1>3, ExtendsOn DEF BookOK
<1>6. TasksHold'
  BY <1>1 DEF TasksHold
<1>7. lost' = 0 => LaunchesHeld(launches', orch', led, new, new)
  <2> SUFFICES ASSUME lost' = 0 PROVE LaunchesHeld(launches', orch', led, new, new)
    OBVIOUS
  <2>1. LaunchesHeld(launches, o, led, led, led)
    BY DEF Settled
  <2>2. LaunchesHeld(launches, o, led, new, new)
    BY <1>1, <1>3, <1>5, <2>1, LaunchesGoOn
  <2> QED BY <2>2
<1>8. Save(new)
  BY DEF new
<1> QED BY <1>3, <1>4, <1>5, <1>6, <1>7, <1>8, RoundSaves

\* A run that is linked still waits.
LEMMA LinkStep ==
  ASSUME NEW led, NEW o, NEW disk, Settled(led, o, disk, launches, edits, lost),
         autoDisk' = led, RoundTypes, NEW r \in Ids(led), led.runs[r].status = "pending",
         OrchOK(orch'), Later(o, orch'), NEW t \in DOMAIN orch', orch'[t].run = r,
         \A d \in DOMAIN o : orch'[d] = o[d],
         Save(Linked(led, r, t)), OrchOK(orchDisk'), Kept(orch', orchDisk', lost),
         Rooted(orchDisk', led), UNCHANGED <<launches, lost>>, edits \in Nat
  PROVE  RunsInv'
<1> DEFINE new == Linked(led, r, t)
<1>1. BookOK(led, o, edits) /\ OrchOK(o) /\ Worked(led, o) /\ LedgerOK(led)
  BY DEF Settled, BookOK
<1>2. Extends(o, orch') /\ DOMAIN o \subseteq DOMAIN orch'
  BY <1>1, OrchIs DEF Later, Extends
<1>3. BookOK(led, orch', edits)
  BY <1>1, <1>2, BookLater
<1>4. /\ BookOK(new, orch', edits) /\ Onward(led, new) /\ Ids(new) = Ids(led)
      /\ new.runs[r].status = "pending"
      /\ \A q \in Ids(led) \ {r} : new.runs[q] = led.runs[q]
  BY <1>3, LinkedIs
<1>5. Save(new)
  OBVIOUS
<1> HIDE DEF new
<1>6. Worked(new, orch')
  <2>1. Worked(led, orch')
    BY <1>1, <1>2 DEF Worked
  <2>2. \A q \in Ids(new) : new.runs[q].status \in Active =>
          /\ q \in Ids(led) /\ led.runs[q].status \in Active
          /\ new.runs[q].task = led.runs[q].task
    BY <1>4 DEF Active
  <2> QED BY <2>1, <2>2, WorkedOn
<1>7. TasksHold'
  BY DEF TasksHold
<1>8. lost' = 0 => LaunchesHeld(launches', orch', led, new, new)
  <2> SUFFICES ASSUME lost' = 0 PROVE LaunchesHeld(launches', orch', led, new, new)
    OBVIOUS
  <2>1. LaunchesHeld(launches, o, led, led, led)
    BY DEF Settled
  <2>2. LedgerOK(new)
    BY <1>4 DEF BookOK
  <2>3. LaunchesHeld(launches, orch', led, new, new)
    BY <1>1, <1>4, <2>1, <2>2, LaunchesGoOn
  <2> QED BY <2>3
<1> QED BY <1>4, <1>5, <1>6, <1>7, <1>8, RoundSaves

\* A task is created in memory and in orch.json, or the run fails; a save that
\* fails may have left it in the file.
LEMMA MaterializeStep ==
  ASSUME NEW led, NEW o, NEW disk, Settled(led, o, disk, launches, edits, lost),
         autoDisk' = led, OtherTypes, UNCHANGED <<now, edits>>, crashes' \in Nat,
         NEW r \in Ids(led), led.runs[r].status = "pending",
         Materialize(led, o, disk, r), UNCHANGED <<launches, lost>>
  PROVE  RunsInv'
<1> DEFINE t == Len(o) + 1
           added == Append(o, NewTask(led, r))
<1>1. /\ OrchOK(o) /\ OrchOK(disk) /\ LedgerOK(led) /\ Kept(o, disk, lost)
      /\ Rooted(disk, led)
  BY DEF Settled, BookOK
<1>2. Rooted(o, led)
  BY <1>1, KeptRooted
<1>3. faults' \in Nat
  BY DEF Materialize, OtherTypes
<1>4. RoundTypes /\ edits \in Nat
  BY <1>3, RoundTyped, RunsAssumption DEF OtherTypes
<1>5. ASSUME t <= MaxTasks
      PROVE  /\ OrchOK(added) /\ Later(o, added) /\ Extends(added, added)
             /\ t \in DOMAIN added /\ added[t].run = r
             /\ \A d \in DOMAIN o : added[d] = o[d]
             /\ Kept(o, added, lost) /\ Kept(added, added, lost) /\ Rooted(added, led)
  <2>1. /\ OrchOK(added) /\ Later(o, added) /\ Extends(added, added)
        /\ DOMAIN added = DOMAIN o \cup {t}
        /\ \A d \in DOMAIN o : added[d] = o[d]
        /\ added[t].run = r /\ added[t].of = Occurrence(led.runs[r])
    BY <1>1, <1>5, NewTaskIs
  <2> HIDE DEF added
  <2>2. Kept(o, added, lost) /\ Kept(added, added, lost)
    BY <2>1 DEF Kept, Later
  <2>3. Rooted(added, led)
    BY <1>2, <2>1 DEF Rooted
  <2> QED BY <2>1, <2>2, <2>3
<1>6. \/ /\ t <= MaxTasks /\ orch' = added /\ orchDisk' = added
         /\ Save(Linked(led, r, t))
      \/ Save(WithStatus(led, {r}, "failed")) /\ orch' = o /\ orchDisk' = disk
      \/ /\ t <= MaxTasks /\ orch' = o /\ orchDisk' \in {disk, added}
         /\ Save(WithStatus(led, {r}, "failed"))
  BY DEF Materialize
<1> HIDE DEF t, added
<1>7. CASE /\ t <= MaxTasks /\ orch' = added /\ orchDisk' = added
           /\ Save(Linked(led, r, t))
  BY <1>4, <1>5, <1>7, LinkStep
<1>8. CASE Save(WithStatus(led, {r}, "failed")) /\ orch' = o /\ orchDisk' = disk
  BY <1>1, <1>4, <1>8, RefusedStep
<1>9. CASE /\ t <= MaxTasks /\ orch' = o /\ orchDisk' \in {disk, added}
           /\ Save(WithStatus(led, {r}, "failed"))
  <2>1. OrchOK(orchDisk') /\ Kept(o, orchDisk', lost) /\ Rooted(orchDisk', led)
    BY <1>1, <1>5, <1>9
  <2> QED BY <1>4, <1>9, <2>1, RefusedStep
<1> QED BY <1>6, <1>7, <1>8, <1>9

\* Nothing waits.
LEMMA IdleStep ==
  ASSUME NEW led, NEW o, NEW disk, Settled(led, o, disk, launches, edits, lost),
         autoDisk' = led, OtherTypes, UNCHANGED <<now, edits>>, crashes' \in Nat,
         ledger' = led, saving' = NoSave, dirty' = FALSE, orch' = o, orchDisk' = disk,
         UNCHANGED <<lost, launches, faults>>
  PROVE  RunsInv'
<1>1. /\ BookOK(led, o, edits) /\ OrchOK(o) /\ Worked(led, o) /\ LedgerOK(led)
      /\ OrchOK(disk) /\ Kept(o, disk, lost) /\ Rooted(disk, led)
  BY DEF Settled, BookOK
<1>2. Onward(led, ledger') /\ Later(o, orch')
  BY <1>1, FollowsItself, ExtendsOn
<1>3. OtherTypes'
  BY DEF OtherTypes, SavingOK
<1>4. InFlight' = ledger' /\ Acked(saving', dirty', ledger', autoDisk')
  BY DEF InFlight, Acked, NoSave
<1>5. TasksHold'
  BY <1>1 DEF TasksHold
<1>6. lost' = 0 => LaunchesHeld(launches', orch', led, ledger', ledger')
  BY DEF Settled
<1>7. edits \in Nat
  BY RunsAssumption DEF OtherTypes
<1> QED BY <1>1, <1>2, <1>3, <1>4, <1>5, <1>6, <1>7, SettleStep

-----------------------------------------------------------------------------
(* Launching                                                               *)

\* A launch is added to those that left their mark.
LEMMA LaunchAdds ==
  ASSUME NEW ls \in Seq(Occurrences), NEW x \in Occurrences, NEW o, NEW disk,
         NEW flight, NEW led, LaunchesHeld(ls, o, disk, flight, led),
         MarkHeld(x, o, disk, flight, led),
         \A i \in DOMAIN ls : ls[i] = x => Gone(x, o)
  PROVE  LaunchesHeld(Append(ls, x), o, disk, flight, led)
<1> DEFINE after == Append(ls, x)
           n == Len(ls) + 1
<1>1. /\ DOMAIN ls = 1..Len(ls) /\ Len(ls) \in Nat /\ DOMAIN after = 1..n
      /\ \A i \in DOMAIN ls : after[i] = ls[i]
      /\ after[n] = x
  BY AppendIs
<1> HIDE DEF after, n
<1>2. \A i \in DOMAIN after : i # n => i \in DOMAIN ls
  BY <1>1 DEF n
<1>3. ASSUME NEW i \in DOMAIN after
      PROVE  \/ Gone(after[i], o)
             \/ /\ MarkHeld(after[i], o, disk, flight, led)
                /\ \A j \in DOMAIN after : after[j] = after[i] => j = i
  <2>1. CASE Gone(after[i], o)
    BY <2>1
  <2>2. CASE ~ Gone(after[i], o) /\ i = n
    BY <1>1, <1>2, <2>2
  <2>3. CASE ~ Gone(after[i], o) /\ i # n
    <3>1. i \in DOMAIN ls /\ after[i] = ls[i] /\ ~ Gone(ls[i], o)
      BY <1>1, <1>2, <2>3
    <3>2. /\ MarkHeld(ls[i], o, disk, flight, led)
          /\ \A j \in DOMAIN ls : ls[j] = ls[i] => j = i
      BY <3>1 DEF LaunchesHeld
    <3>3. ls[i] # x
      BY <3>1
    <3> QED BY <1>1, <1>2, <3>1, <3>2, <3>3
  <2> QED BY <2>1, <2>2, <2>3
<1>4. LaunchesHeld(after, o, disk, flight, led)
  BY <1>3 DEF LaunchesHeld
<1> QED BY <1>4 DEF after

\* The state a round of launches may begin in, and the run it begins with.
LEMMA LaunchBegins ==
  ASSUME RunsInv, Settled(ledger, orch, orchDisk, launches, edits, lost),
         NEW r \in Ids(ledger), ledger.runs[r].status = "pending",
         NEW t \in TasksOf(orch, r), ledger.runs[r].task = t,
         NEW s \in Tasks, s.run = orch[t].run, s.of = orch[t].of,
         orch[t].bound => s.bound,
         SaveOrch([orch EXCEPT ![t] = s]), autoDisk' = ledger, autoDisk' = autoDisk
  PROVE  /\ t \in DOMAIN orch /\ orch[t].run = r
         /\ orch[t].of = Occurrence(ledger.runs[r])
         /\ DOMAIN orch' = DOMAIN orch /\ orch'[t] = s
         /\ \A d \in DOMAIN orch : d # t => orch'[d] = orch[d]
         /\ Later(orch, orch') /\ OrchOK(orch')
         /\ TasksHold' /\ lost' \in Nat
         /\ lost' = 0 => lost = 0
         /\ \A q \in Ids(ledger) \ {r} : ledger.runs[q].task # t
<1>0. PICK p : p = [orch EXCEPT ![t] = s]
  OBVIOUS
<1>1. /\ BookOK(ledger, orch, edits) /\ OrchOK(orch) /\ OrchOK(orchDisk)
      /\ Kept(orch, orchDisk, lost) /\ Rooted(orchDisk, ledger)
  BY DEF Settled
<1>2. t \in DOMAIN orch /\ orch[t].run = r /\ orch[t].status # "deleted"
  BY DEF TasksOf
<1>3. Rooted(orch, ledger)
  BY <1>1, KeptRooted
<1>4. orch[t].of = Occurrence(ledger.runs[r])
  BY <1>2, <1>3 DEF Rooted
<1>5. orch[t].status = "deleted" => s.status = "deleted"
  BY <1>2
<1>6. /\ OrchOK(p) /\ Len(p) = Len(orch) /\ DOMAIN p = DOMAIN orch /\ p[t] = s
      /\ \A d \in DOMAIN orch : d # t => p[d] = orch[d]
      /\ Later(orch, p)
  BY <1>0, <1>1, <1>2, <1>5, TaskPut
<1>7. Extends(orch, p)
  BY <1>6 DEF Later
<1>8. /\ orch' = p /\ TasksHold' /\ lost' \in Nat
      /\ lost' = 0 => lost = 0
  <2>1. SaveOrch(p)
    BY <1>0
  <2> QED BY <1>6, <1>7, <2>1, SaveOrchIs
<1>9. ASSUME NEW q \in Ids(ledger) \ {r} PROVE ledger.runs[q].task # t
  <2>1. t # 0
    BY <1>1, <1>2, OrchIs
  <2> QED BY <1>1, <1>2, <2>1 DEF BookOK
<1> QED BY <1>2, <1>4, <1>6, <1>8, <1>9

LEMMA LaunchFailedStep ==
  ASSUME RunsInv, Settled(ledger, orch, orchDisk, launches, edits, lost),
         autoDisk' = ledger, autoDisk' = autoDisk, UNCHANGED <<now, edits, faults, crashes>>,
         NEW r \in Ids(ledger), ledger.runs[r].status = "pending",
         NEW t \in TasksOf(orch, r), ledger.runs[r].task = t,
         SaveOrch([orch EXCEPT ![t].status = "failed"]),
         Save(WithStatus(ledger, {r}, "failed")), UNCHANGED launches
  PROVE  RunsInv'
<1>1. PICK s : s = [orch[t] EXCEPT !.status = "failed"]
  OBVIOUS
<1> DEFINE new == WithStatus(ledger, {r}, "failed")
<1>2. /\ BookOK(ledger, orch, edits) /\ OrchOK(orch) /\ LedgerOK(ledger)
      /\ Worked(ledger, orch) /\ OtherTypes /\ edits \in Nat
  BY RunsAssumption DEF RunsInv, OtherTypes, Settled, BookOK
<1>3. SaveOrch([orch EXCEPT ![t] = s])
  BY <1>1
<1>4. t \in DOMAIN orch /\ orch[t] \in Tasks
  BY <1>2, OrchIs DEF TasksOf
<1>5. /\ s \in Tasks /\ s.run = orch[t].run /\ s.of = orch[t].of
      /\ s.bound = orch[t].bound /\ s.status = "failed"
  BY <1>1, <1>4 DEF Tasks
<1>6. /\ DOMAIN orch' = DOMAIN orch
      /\ \A d \in DOMAIN orch : d # t => orch'[d] = orch[d]
      /\ Later(orch, orch') /\ OrchOK(orch') /\ TasksHold' /\ lost' \in Nat
      /\ lost' = 0 => lost = 0
      /\ \A q \in Ids(ledger) \ {r} : ledger.runs[q].task # t
  BY <1>3, <1>5, LaunchBegins
<1>7. "failed" \in Live \cup Over /\ "failed" \notin Live /\ "failed" # "pending"
  BY DEF Live, Over, Active
<1>8. BookOK(new, orch, edits) /\ Onward(ledger, new)
  BY <1>2, <1>7, WithStatusOK
<1>9. /\ Ids(new) = Ids(ledger)
      /\ \A q \in Ids(ledger) :
           /\ new.runs[q].task = ledger.runs[q].task
           /\ new.runs[q].status = IF q \in {r} THEN "failed" ELSE ledger.runs[q].status
  BY <1>2, <1>7, WithStatusIs
<1>10. Save(new)
  OBVIOUS
<1> HIDE DEF new
<1>11. BookOK(new, orch', edits) /\ LedgerOK(new)
  <2>1. Extends(orch, orch') /\ OrchOK(orch') /\ edits <= edits
    BY <1>2, <1>6 DEF Later
  <2>2. BookOK(new, orch', edits)
    BY <1>2, <1>8, <2>1, BookLater
  <2> QED BY <2>2 DEF BookOK
<1>12. Worked(new, orch')
  <2> SUFFICES ASSUME NEW q \in Ids(new), new.runs[q].status \in Active
               PROVE  /\ new.runs[q].task \in DOMAIN orch'
                      /\ orch'[new.runs[q].task].status \notin {"queued", "done", "failed"}
    BY <1>6 DEF Worked
  <2>1. "failed" \notin Active
    BY DEF Active
  <2>2. /\ q \in Ids(ledger) \ {r} /\ ledger.runs[q].status \in Active
        /\ new.runs[q].task = ledger.runs[q].task
    BY <1>9, <2>1
  <2>3. /\ ledger.runs[q].task \in DOMAIN orch
        /\ orch[ledger.runs[q].task].status \notin {"queued", "done", "failed"}
    BY <1>2, <2>2 DEF Worked
  <2>4. orch'[ledger.runs[q].task] = orch[ledger.runs[q].task]
    BY <1>6, <2>2, <2>3
  <2> QED BY <1>6, <2>2, <2>3, <2>4
<1>13. RoundTypes
  BY <1>2, <1>6, RoundTyped DEF OtherTypes
<1>14. lost' = 0 => LaunchesHeld(launches', orch', ledger, new, new)
  <2> SUFFICES ASSUME lost' = 0 PROVE LaunchesHeld(launches', orch', ledger, new, new)
    OBVIOUS
  <2>1. LaunchesHeld(launches, orch, ledger, ledger, ledger)
    BY <1>6 DEF Settled
  <2>2. LaunchesHeld(launches, orch', ledger, new, new)
    BY <1>2, <1>6, <1>8, <1>11, <2>1, LaunchesGoOn
  <2> QED BY <2>2
<1> QED BY <1>6, <1>8, <1>10, <1>11, <1>12, <1>13, <1>14, RoundSaves

\* The run waited, so that its occurrence has left no mark yet.
LEMMA LaunchedStep ==
  ASSUME RunsInv, Settled(ledger, orch, orchDisk, launches, edits, lost),
         autoDisk' = ledger, autoDisk' = autoDisk, UNCHANGED <<now, edits, faults, crashes>>,
         NEW r \in Ids(ledger), ledger.runs[r].status = "pending",
         NEW t \in TasksOf(orch, r), ledger.runs[r].task = t,
         SaveOrch(Begun(orch, t)),
         Save(WithStatus(ledger, {r}, "running")), launches' = Launched(ledger, r)
  PROVE  RunsInv'
<1>1. PICK s : s = [orch[t] EXCEPT !.status = "running", !.owner = "worker", !.bound = TRUE]
  OBVIOUS
<1> DEFINE new == WithStatus(ledger, {r}, "running")
           x == Occurrence(ledger.runs[r])
<1>2. /\ BookOK(ledger, orch, edits) /\ OrchOK(orch) /\ LedgerOK(ledger)
      /\ Worked(ledger, orch) /\ OtherTypes /\ edits \in Nat
  BY RunsAssumption DEF RunsInv, OtherTypes, Settled, BookOK
<1>3. t \in DOMAIN orch /\ orch[t] \in Tasks
  BY <1>2, OrchIs DEF TasksOf
<1>4. Begun(orch, t) = [orch EXCEPT ![t] = s]
  BY <1>1, <1>3 DEF Begun
<1>5. SaveOrch([orch EXCEPT ![t] = s])
  BY <1>4
<1>6. /\ s \in Tasks /\ s.run = orch[t].run /\ s.of = orch[t].of
      /\ s.bound = TRUE /\ s.status = "running"
  BY <1>1, <1>3 DEF Tasks
<1>7. /\ orch[t].of = x
      /\ DOMAIN orch' = DOMAIN orch /\ orch'[t] = s
      /\ \A d \in DOMAIN orch : d # t => orch'[d] = orch[d]
      /\ Later(orch, orch') /\ OrchOK(orch') /\ TasksHold' /\ lost' \in Nat
      /\ lost' = 0 => lost = 0
      /\ \A q \in Ids(ledger) \ {r} : ledger.runs[q].task # t
  BY <1>5, <1>6, LaunchBegins
<1>8. /\ "running" \in Live \cup Over /\ "running" \in Active /\ "running" # "pending"
      /\ ledger.runs[r].status \in Live
  BY DEF Live, Over, Active
<1>9. BookOK(new, orch, edits) /\ Onward(ledger, new)
  BY <1>2, <1>8, WithStatusOK
<1>10. /\ Ids(new) = Ids(ledger) /\ Restated(ledger, new)
       /\ \A q \in Ids(ledger) :
            /\ new.runs[q].task = ledger.runs[q].task
            /\ new.runs[q].status = IF q \in {r} THEN "running" ELSE ledger.runs[q].status
  BY <1>2, <1>8, WithStatusIs
<1>11. Save(new)
  OBVIOUS
<1>12. x \in Occurrences
  BY <1>2, LedgerIs DEF Occurrence, Occurrences, Runs
<1>13. launches' = Append(launches, x)
  BY DEF Launched
<1> HIDE DEF new, x
<1>14. BookOK(new, orch', edits) /\ LedgerOK(new)
  <2>1. Extends(orch, orch') /\ OrchOK(orch') /\ edits <= edits
    BY <1>2, <1>7 DEF Later
  <2>2. BookOK(new, orch', edits)
    BY <1>2, <1>9, <2>1, BookLater
  <2> QED BY <2>2 DEF BookOK
<1>15. Worked(new, orch')
  <2> SUFFICES ASSUME NEW q \in Ids(new), new.runs[q].status \in Active
               PROVE  /\ new.runs[q].task \in DOMAIN orch'
                      /\ orch'[new.runs[q].task].status \notin {"queued", "done", "failed"}
    BY <1>7 DEF Worked
  <2>1. CASE q = r
    BY <1>3, <1>6, <1>7, <1>10, <2>1
  <2>2. CASE q # r
    <3>1. /\ q \in Ids(ledger) \ {r} /\ ledger.runs[q].status \in Active
          /\ new.runs[q].task = ledger.runs[q].task
      BY <1>10, <2>2
    <3>2. /\ ledger.runs[q].task \in DOMAIN orch
          /\ orch[ledger.runs[q].task].status \notin {"queued", "done", "failed"}
      BY <1>2, <3>1 DEF Worked
    <3>3. orch'[ledger.runs[q].task] = orch[ledger.runs[q].task]
      BY <1>7, <3>1, <3>2
    <3> QED BY <1>7, <3>1, <3>2, <3>3
  <2> QED BY <2>1, <2>2
<1>16. launches \in Seq(Occurrences) /\ launches' \in Seq(Occurrences)
  BY <1>2, <1>12, <1>13, AppendIs DEF OtherTypes
<1>17. RoundTypes
  BY <1>2, <1>7, <1>16, RoundTyped DEF OtherTypes
<1>18. ASSUME lost' = 0 PROVE LaunchesHeld(launches', orch', ledger, new, new)
  <2>1. LaunchesHeld(launches, orch, ledger, ledger, ledger)
    BY <1>7, <1>18 DEF Settled
  <2>2. LaunchesHeld(launches, orch', ledger, new, new)
    BY <1>2, <1>7, <1>9, <1>14, <2>1, LaunchesGoOn
  <2>3. MarkHeld(x, orch', ledger, new, new)
    <3>1. Marked(x, r, t, ledger)
      BY DEF Marked, x
    <3>2. Marked(x, r, t, new) /\ r \in Ids(new) /\ new.runs[r].status # "pending"
      BY <1>8, <1>10 DEF Marked, Restated, x
    <3>3. t \in DOMAIN orch' /\ orch'[t].bound /\ orch'[t].of = x
      BY <1>3, <1>6, <1>7
    <3> QED BY <3>1, <3>2, <3>3 DEF MarkHeld
  <2>4. ASSUME NEW i \in DOMAIN launches, launches[i] = x PROVE Gone(x, orch')
    <3>1. ~ MarkHeld(x, orch, ledger, ledger, ledger)
      <4> SUFFICES ASSUME MarkHeld(x, orch, ledger, ledger, ledger) PROVE FALSE
        OBVIOUS
      <4>1. PICK q \in Ids(ledger) : /\ Occurrence(ledger.runs[q]) = x
                                     /\ ledger.runs[q].status # "pending"
        BY DEF MarkHeld, Marked
      <4>2. q = r
        BY <1>2, <4>1 DEF BookOK, x
      <4> QED BY <4>1, <4>2
    <3>2. Gone(x, orch)
      BY <2>1, <2>4, <3>1 DEF LaunchesHeld
    <3>3. \A d \in DOMAIN orch : d \in DOMAIN orch' /\ orch'[d].of = orch[d].of
      BY <1>7 DEF Later, Extends
    <3> QED BY <1>7, <3>2, <3>3 DEF Gone, Later
  <2>5. LaunchesHeld(Append(launches, x), orch', ledger, new, new)
    BY <1>12, <1>16, <2>2, <2>3, <2>4, LaunchAdds
  <2> QED BY <1>13, <2>5
<1> QED BY <1>7, <1>9, <1>11, <1>14, <1>15, <1>17, <1>18, RoundSaves

LEMMA FirstPending ==
  ASSUME NEW led, LedgerOK(led), PendingRuns(led) # {}
  PROVE  /\ Min(PendingRuns(led)) \in PendingRuns(led)
         /\ Min(PendingRuns(led)) \in Ids(led)
         /\ led.runs[Min(PendingRuns(led))].status = "pending"
<1>1. PendingRuns(led) \in SUBSET Nat
  BY LedgerIs DEF PendingRuns
<1>2. Min(PendingRuns(led)) \in PendingRuns(led)
  BY <1>1, MinIs
<1> QED BY <1>2 DEF PendingRuns

LEMMA FirstTask ==
  ASSUME NEW o, OrchOK(o), NEW r, TasksOf(o, r) # {}
  PROVE  Min(TasksOf(o, r)) \in TasksOf(o, r)
<1>1. TasksOf(o, r) \in SUBSET Nat
  BY OrchIs DEF TasksOf
<1> QED BY <1>1, MinIs

\* The checkpoint that ended holds what memory has.
LEMMA Completed ==
  ASSUME RunsInv, saving.result = "ok", ~ dirty
  PROVE  autoDisk = ledger /\ Settled(ledger, orch, orchDisk, launches, edits, lost)
<1>1. saving # NoSave
  BY DEF NoSave
<1>2. saving.ledger = ledger /\ autoDisk = ledger /\ InFlight = ledger
  BY <1>1 DEF RunsInv, BooksHold, Acked, InFlight
<1> QED BY <1>2, BooksTyped DEF RunsInv, TasksHold, Settled

LEMMA CompleteOkStep ==
  ASSUME RunsInv, CompleteOk
  PROVE  RunsInv'
<1>1. saving.result = "ok" /\ UNCHANGED <<now, autoDisk, edits, crashes>>
  BY DEF CompleteOk
<1>2. OtherTypes /\ crashes' \in Nat /\ edits \in Nat
  BY <1>1, LedgerRests DEF RunsInv, OtherTypes
<1>3. CASE dirty
  <2>1. Save(ledger) /\ UNCHANGED <<tasks, launches, faults>>
    BY <1>3 DEF CompleteOk
  <2>2. /\ ledger' = ledger /\ dirty' \in BOOLEAN /\ SavingOK(saving')
        /\ Acked(saving', dirty', ledger', autoDisk') /\ InFlight' = ledger'
    BY <2>1, SaveIs, BooksTyped
  <2>3. OtherTypes'
    BY <1>1, <2>1, <2>2, StillTyped, LedgerRests DEF tasks
  <2> QED BY <1>1, <2>1, <2>2, <2>3, RestStep
<1>4. CASE ~ dirty
  <2>1. /\ autoDisk = ledger /\ autoDisk' = ledger
        /\ Settled(ledger, orch, orchDisk, launches, edits, lost)
    BY <1>1, <1>4, Completed
  <2>2. StartPending(ledger, orch, orchDisk)
    BY <1>4 DEF CompleteOk
  <2>3. LedgerOK(ledger) /\ OrchOK(orch) /\ OrchOK(orchDisk)
        /\ Kept(orch, orchDisk, lost) /\ Rooted(orchDisk, ledger)
    BY <2>1 DEF Settled, BookOK
  <2>4. CASE PendingRuns(ledger) = {}
    <3>1. /\ ledger' = ledger /\ saving' = NoSave /\ dirty' = FALSE
          /\ orch' = orch /\ orchDisk' = orchDisk
          /\ UNCHANGED <<lost, launches, faults>>
      BY <2>2, <2>4 DEF StartPending
    <3> QED BY <1>1, <1>2, <2>1, <3>1, IdleStep
  <2>5. CASE PendingRuns(ledger) # {}
    <3>1. PICK r : r = Min(PendingRuns(ledger))
      OBVIOUS
    <3>2. r \in Ids(ledger) /\ ledger.runs[r].status = "pending"
      BY <2>3, <2>5, <3>1, FirstPending
    <3>3. StartRun(ledger, orch, orchDisk, r)
      BY <2>2, <2>5, <3>1 DEF StartPending
    <3>4. CASE TasksOf(orch, r) = {}
      <4>1. Materialize(ledger, orch, orchDisk, r) /\ UNCHANGED <<launches, lost>>
        BY <3>3, <3>4 DEF StartRun
      <4> QED BY <1>1, <1>2, <2>1, <3>2, <4>1, MaterializeStep
    <3>5. CASE TasksOf(orch, r) # {}
      <4>1. PICK t : t = Min(TasksOf(orch, r))
        OBVIOUS
      <4>2. t \in TasksOf(orch, r)
        BY <2>3, <3>5, <4>1, FirstTask
      <4>3. CASE ledger.runs[r].task = t
        <5>1. Launch(ledger, orch, r, t) /\ UNCHANGED faults
          BY <3>3, <3>5, <4>1, <4>3 DEF StartRun
        <5>2. CASE /\ SaveOrch(Begun(orch, t)) /\ Save(WithStatus(ledger, {r}, "running"))
                   /\ launches' = Launched(ledger, r)
          BY <1>1, <2>1, <3>2, <4>2, <4>3, <5>1, <5>2, LaunchedStep
        <5>3. CASE /\ SaveOrch([orch EXCEPT ![t].status = "failed"])
                   /\ Save(WithStatus(ledger, {r}, "failed")) /\ UNCHANGED launches
          BY <1>1, <2>1, <3>2, <4>2, <4>3, <5>1, <5>3, LaunchFailedStep
        <5> QED BY <5>1, <5>2, <5>3 DEF Launch
      <4>4. CASE ledger.runs[r].task # t
        <5>1. /\ Save(Linked(ledger, r, t)) /\ orch' = orch /\ orchDisk' = orchDisk
              /\ UNCHANGED <<lost, launches, faults>>
          BY <3>3, <3>5, <4>1, <4>4 DEF StartRun
        <5>2. t \in DOMAIN orch' /\ orch'[t].run = r
          BY <4>2, <5>1 DEF TasksOf
        <5>3. Later(orch, orch') /\ OrchOK(orch') /\ OrchOK(orchDisk')
              /\ Kept(orch', orchDisk', lost) /\ Rooted(orchDisk', ledger)
          BY <2>3, <5>1, ExtendsOn
        <5>4. RoundTypes
          BY <1>1, <1>2, <5>1, RoundTyped DEF OtherTypes
        <5>5. \A d \in DOMAIN orch : orch'[d] = orch[d]
          BY <5>1
        <5>6. UNCHANGED <<launches, lost>>
          BY <5>1
        <5> QED BY <1>2, <2>1, <3>2, <5>1, <5>2, <5>3, <5>4, <5>5, <5>6, LinkStep
      <4> QED BY <4>3, <4>4
    <3> QED BY <3>4, <3>5
  <2> QED BY <2>4, <2>5
<1> QED BY <1>3, <1>4

-----------------------------------------------------------------------------
(* Restart                                                                 *)

\* Nobody works on a task after a restart.
Stopped(o) ==
  \A t \in DOMAIN o : o[t].status \notin {"claimed", "running", "review", "blocked"}

LEMMA RecoveredIs ==
  ASSUME NEW o, OrchOK(o)
  PROVE  /\ OrchOK(Recovered(o)) /\ Len(Recovered(o)) = Len(o)
         /\ DOMAIN Recovered(o) = DOMAIN o
         /\ Later(o, Recovered(o)) /\ Stopped(Recovered(o))
         /\ \A t \in DOMAIN o : /\ Recovered(o)[t].run = o[t].run
                                /\ Recovered(o)[t].of = o[t].of
<1> DEFINE job(t) ==
      CASE t \in Requeued(o) -> [o[t] EXCEPT !.status = "queued", !.owner = "none"]
        [] t \in Interrupted(o) \ Requeued(o) -> [o[t] EXCEPT !.status = "failed", !.owner = "none"]
        [] OTHER -> [o[t] EXCEPT !.owner = "none"]
           p == Recovered(o)
<1>1. p = [t \in DOMAIN o |-> job(t)]
  BY DEF Recovered
<1>2. DOMAIN o = 1..Len(o) /\ Len(o) \in Nat /\ Len(o) <= MaxTasks
  BY OrchIs
<1>3. ASSUME NEW t \in DOMAIN o
      PROVE  /\ job(t) \in Tasks /\ job(t).run = o[t].run /\ job(t).of = o[t].of
             /\ job(t).bound = o[t].bound
             /\ o[t].status = "deleted" => job(t).status = "deleted"
             /\ job(t).status \notin {"claimed", "running", "review", "blocked"}
  <2>1. o[t] \in Tasks
    BY OrchIs
  <2>2. CASE t \in Requeued(o)
    <3>1. job(t) = [o[t] EXCEPT !.status = "queued", !.owner = "none"]
      BY <2>2
    <3>2. o[t].status # "deleted"
      BY <2>2 DEF Requeued
    <3> HIDE DEF job
    <3> QED BY <2>1, <3>1, <3>2 DEF Tasks
  <2>3. CASE t \in Interrupted(o) \ Requeued(o)
    <3>1. job(t) = [o[t] EXCEPT !.status = "failed", !.owner = "none"]
      BY <2>3
    <3>2. o[t].status # "deleted"
      BY <2>3 DEF Interrupted
    <3> HIDE DEF job
    <3> QED BY <2>1, <3>1, <3>2 DEF Tasks
  <2>4. CASE t \notin Interrupted(o) /\ t \notin Requeued(o)
    <3>1. job(t) = [o[t] EXCEPT !.owner = "none"]
      BY <2>4
    <3>2. o[t].status \notin {"claimed", "running", "review", "blocked"}
      BY <2>4 DEF Interrupted
    <3> HIDE DEF job
    <3> QED BY <2>1, <3>1, <3>2 DEF Tasks
  <2> QED BY <2>2, <2>3, <2>4
<1> HIDE DEF job, p
<1>4. p = [t \in 1..Len(o) |-> p[t]] /\ \A t \in DOMAIN o : p[t] = job(t)
  BY <1>1, <1>2
<1>5. p \in Seq(Tasks) /\ Len(p) = Len(o)
  <2>1. \A t \in 1..Len(o) : p[t] \in Tasks
    BY <1>2, <1>3, <1>4
  <2> QED BY <1>2, <1>4, <2>1, ASeq
<1>6. DOMAIN p = DOMAIN o
  BY <1>1
<1>7. OrchOK(p)
  BY <1>2, <1>5 DEF OrchOK
<1>8. Stopped(p)
  BY <1>3, <1>4, <1>6 DEF Stopped
<1>9. Extends(o, p)
  BY <1>2, <1>3, <1>4, <1>5 DEF Extends
<1>10. Later(o, p)
  BY <1>3, <1>4, <1>9 DEF Later
<1> QED BY <1>3, <1>4, <1>5, <1>6, <1>7, <1>8, <1>10 DEF p

\* A live run follows the one task it has; it waits only if that task never began.
LEMMA ReconciledIs ==
  ASSUME NEW led, NEW o, NEW e, BookOK(led, o, e), OrchOK(o), Stopped(o),
         NEW r \in Ids(led)
  PROVE  /\ Reconciled(led, o, r) \in Runs
         /\ Occurrence(Reconciled(led, o, r)) = Occurrence(led.runs[r])
         /\ Reconciled(led, o, r).retry = led.runs[r].retry
         /\ Reconciled(led, o, r).status \notin Active
         /\ \/ Reconciled(led, o, r).task = led.runs[r].task
            \/ /\ Reconciled(led, o, r).task \in DOMAIN o
               /\ o[Reconciled(led, o, r).task].run = r
         /\ \/ Reconciled(led, o, r).status \notin Live
            \/ led.runs[r].status \in Live
         /\ (/\ led.runs[r].task \in DOMAIN o
             /\ o[led.runs[r].task].status # "deleted" /\ o[led.runs[r].task].bound) =>
              /\ Reconciled(led, o, r).task = led.runs[r].task
              /\ Reconciled(led, o, r).status # "pending"
         /\ Reconciled(led, o, r).status = "pending" =>
              \/ TasksOf(o, r) = {}
              \/ /\ led.runs[r].status \in Live
                 /\ \E t \in LinkedTasks(led, o, r) : Untouched(o[t])
<1> DEFINE run == led.runs[r]
           ts == LinkedTasks(led, o, r)
           new == Reconciled(led, o, r)
<1>1. /\ LedgerOK(led) /\ run \in Runs /\ DOMAIN o = 1..Len(o) /\ Len(o) \in Nat
      /\ Len(o) <= MaxTasks
      /\ run.task \in Nat
  BY LedgerIs, OrchIs, RunsAssumption DEF BookOK, Runs
<1>2. ts = IF run.task \in DOMAIN o /\ o[run.task].status # "deleted"
           THEN {run.task} ELSE TasksOf(o, r)
  BY DEF LinkedTasks
<1>3. ts \in SUBSET Nat /\ ts \subseteq DOMAIN o
  BY <1>1, <1>2 DEF TasksOf
<1>4. ASSUME NEW t \in ts PROVE o[t].run = r /\ o[t].status # "deleted"
  <2>1. CASE run.task \in DOMAIN o /\ o[run.task].status # "deleted"
    <3>1. t = run.task /\ run.task # 0
      BY <1>1, <1>2, <2>1
    <3> QED BY <2>1, <3>1 DEF BookOK
  <2>2. CASE ~ (run.task \in DOMAIN o /\ o[run.task].status # "deleted")
    BY <1>2, <2>2 DEF TasksOf
  <2> QED BY <2>1, <2>2
<1> HIDE DEF ts
<1>5. CASE run.status \notin Live
  <2>1. new = run
    BY <1>5 DEF Reconciled
  <2> QED BY <1>1, <1>5, <2>1 DEF Live
<1>6. CASE run.status \in Live /\ ts = {}
  <2>1. new = [run EXCEPT !.status = "pending"]
    BY <1>6 DEF Reconciled, ts
  <2>2. /\ new \in Runs /\ new.status = "pending" /\ new.task = run.task
        /\ new.retry = run.retry /\ Occurrence(new) = Occurrence(run)
    BY <1>1, <2>1 DEF Runs, Live, Occurrence
  <2>3. /\ TasksOf(o, r) = {}
        /\ ~ (run.task \in DOMAIN o /\ o[run.task].status # "deleted")
    BY <1>2, <1>6
  <2> QED BY <1>6, <2>2, <2>3 DEF Active
<1>7. CASE run.status \in Live /\ ts # {}
  <2>1. PICK t : t = Min(ts)
    OBVIOUS
  <2>2. t \in ts
    BY <1>3, <1>7, <2>1, MinIs
  <2>3. t \in DOMAIN o /\ o[t].run = r /\ o[t].status # "deleted" /\ t \in 0..MaxTasks
    BY <1>1, <1>3, <1>4, <2>2, RunsAssumption
  <2>4. PICK bound : bound = [led EXCEPT !.runs[r].task = t]
    OBVIOUS
  <2>5. RunsForTask(bound, t) # {}
    <3>1. PICK s, rs : s = [run EXCEPT !.task = t] /\ rs = [led.runs EXCEPT ![r] = s]
      OBVIOUS
    <3>2. bound = [led EXCEPT !.runs = rs]
      BY <2>4, <3>1
    <3>3. led = [defs |-> led.defs, runs |-> led.runs]
      BY <1>1, LedgerIs
    <3>4. bound = [defs |-> led.defs, runs |-> rs]
      BY <3>2, <3>3, PutRuns
    <3>5. bound.runs = rs /\ Ids(bound) = Ids(led)
      BY <3>1, <3>4 DEF Ids
    <3>6. s.task = t /\ s.retry = run.retry
      BY <1>1, <3>1 DEF Runs
    <3>7. rs[r] = s /\ \A q \in Ids(led) : q # r => rs[q] = led.runs[q]
      BY <3>1 DEF Ids
    <3>8. \A q \in Ids(led) : rs[q].retry = led.runs[q].retry
      BY <3>6, <3>7
    <3>9. \A q \in Ids(led) : led.runs[q].retry # r
      <4>1. r # 0
        BY <1>1, LedgerIs
      <4> QED BY <1>7, <4>1 DEF BookOK
    <3>10. r \in RunsForTask(bound, t)
      BY <3>5, <3>6, <3>7, <3>8, <3>9 DEF RunsForTask
    <3> QED BY <3>10
  <2>6. PICK status : status = IF Untouched(o[t]) THEN "pending" ELSE Mirror(o[t].status)
    OBVIOUS
  <2>7. new = [run EXCEPT !.task = t, !.status = status]
    BY <1>7, <2>1, <2>4, <2>5, <2>6 DEF Reconciled, ts
  <2>8. /\ Mirror(o[t].status) \in Live \cup Over /\ Mirror(o[t].status) # "pending"
        /\ Mirror(o[t].status) \notin Active
    BY <2>3, MirrorIs, OrchIs DEF Stopped
  <2>9. /\ status \in Live \cup Over /\ status \notin Active
        /\ status = "pending" => Untouched(o[t])
    BY <2>6, <2>8 DEF Live, Active
  <2>10. /\ new \in Runs /\ new.status = status /\ new.task = t
         /\ new.retry = run.retry /\ Occurrence(new) = Occurrence(run)
    BY <1>1, <2>3, <2>7, <2>9 DEF Runs, Occurrence
  <2>11. ASSUME run.task \in DOMAIN o, o[run.task].status # "deleted", o[run.task].bound
         PROVE  new.task = run.task /\ new.status # "pending"
    <3>1. t = run.task
      BY <1>2, <2>2, <2>11
    <3>2. ~ Untouched(o[t])
      BY <2>11, <3>1 DEF Untouched
    <3> QED BY <2>9, <2>10, <3>1, <3>2
  <2> QED BY <1>7, <2>2, <2>3, <2>9, <2>10, <2>11 DEF ts
<1> QED BY <1>5, <1>6, <1>7

\* The ledger after a restart.
Recorded(led, o) ==
  [led EXCEPT !.runs = [r \in Ids(led) |-> Reconciled(led, o, r)]]

LEMMA RecordedIs ==
  ASSUME NEW led, NEW o, NEW e, BookOK(led, o, e), OrchOK(o), Stopped(o)
  PROVE  /\ BookOK(Recorded(led, o), o, e) /\ Follows(led, Recorded(led, o))
         /\ Worked(Recorded(led, o), o)
         /\ Ids(Recorded(led, o)) = Ids(led)
         /\ \A r \in Ids(led) : Recorded(led, o).runs[r] = Reconciled(led, o, r)
<1> DEFINE new == Recorded(led, o)
           rs == [r \in Ids(led) |-> Reconciled(led, o, r)]
<1>1. /\ led = [defs |-> led.defs, runs |-> led.runs]
      /\ Ids(led) = 1..Len(led.runs) /\ Len(led.runs) \in Nat
      /\ Len(led.runs) <= MaxRuns /\ LedgerOK(led)
      /\ led.defs \in [Autos -> [enabled : BOOLEAN, next : 0..MaxTime + 1]]
  BY LedgerIs DEF BookOK
<1>2. new = [led EXCEPT !.runs = rs]
  BY DEF Recorded
<1>3. \A r \in Ids(led) : rs[r] = Reconciled(led, o, r) /\ rs[r] \in Runs
  BY ReconciledIs
<1>4. rs = [r \in 1..Len(led.runs) |-> rs[r]]
  BY <1>1
<1> HIDE DEF rs, new
<1>5. rs \in Seq(Runs) /\ Len(rs) = Len(led.runs)
  BY <1>1, <1>3, <1>4, ASeq
<1>6. new = [defs |-> led.defs, runs |-> rs]
  BY <1>1, <1>2, PutRuns
<1>7. new.runs = rs /\ LedgerOK(new)
  <2>1. Len(rs) <= MaxRuns
    BY <1>1, <1>5
  <2> QED BY <1>1, <1>5, <1>6, <2>1, LedgerMade
<1>8. Ids(new) = Ids(led)
  BY <1>1, <1>5, <1>7, LedgerIs
<1>9. \A r \in Ids(led) :
        /\ Occurrence(rs[r]) = Occurrence(led.runs[r]) /\ rs[r].retry = led.runs[r].retry
        /\ rs[r].status \notin Active
        /\ \/ rs[r].task = led.runs[r].task
           \/ rs[r].task \in DOMAIN o /\ o[rs[r].task].run = r
        /\ rs[r].status \notin Live \/ led.runs[r].status \in Live
  BY <1>3, ReconciledIs
<1>10. Restated(led, new)
  BY <1>5, <1>7, <1>9 DEF Restated
<1>11. BookOK(new, o, e) /\ Follows(led, new)
  BY <1>7, <1>9, <1>10, RestatedOK
<1>12. Worked(new, o)
  BY <1>7, <1>8, <1>9 DEF Worked
<1> QED BY <1>3, <1>7, <1>8, <1>11, <1>12 DEF new

\* What a launch left behind is left behind by the restart as well.
LEMMA MarksKept ==
  ASSUME NEW ls, NEW p, NEW disk, NEW flight, NEW led, NEW last, NEW o, NEW mid,
         NEW e, LaunchesHeld(ls, p, disk, flight, led),
         last \in {disk, flight, led}, OrchOK(p), OrchOK(o), Later(p, o),
         BookOK(mid, o, e), Stopped(o), Restated(last, mid), LedgerOK(last),
         \A r \in Ids(last) : mid.runs[r].task = last.runs[r].task
  PROVE  LaunchesHeld(ls, o, last, Recorded(mid, o), Recorded(mid, o))
<1> DEFINE new == Recorded(mid, o)
<1>1. /\ Ids(new) = Ids(mid) /\ \A r \in Ids(mid) : new.runs[r] = Reconciled(mid, o, r)
  BY RecordedIs
<1>2. Ids(mid) = Ids(last)
  BY LedgerIs DEF Restated, BookOK
<1>3. \A t \in DOMAIN p : t \in DOMAIN o /\ o[t].of = p[t].of
  BY OrchIs DEF Later, Extends
<1> HIDE DEF new
<1>4. ASSUME NEW x, Gone(x, p) PROVE Gone(x, o)
  BY <1>3, <1>4 DEF Gone, Later
<1>5. ASSUME NEW x, MarkHeld(x, p, disk, flight, led), ~ Gone(x, o)
      PROVE  MarkHeld(x, o, last, new, new)
  <2>1. PICK r \in Ids(led), t \in DOMAIN p :
          /\ Marked(x, r, t, disk) /\ Marked(x, r, t, flight)
          /\ Marked(x, r, t, led) /\ p[t].bound /\ p[t].of = x
    BY <1>5 DEF MarkHeld
  <2>2. Marked(x, r, t, last) /\ r \in Ids(last)
    BY <2>1 DEF Marked
  <2>3. t \in DOMAIN o /\ o[t].bound /\ o[t].of = x
    BY <1>3, <2>1 DEF Later
  <2>4. o[t].status # "deleted"
    BY <1>5, <2>3 DEF Gone
  <2>5. mid.runs[r].task = t /\ Occurrence(mid.runs[r]) = x
    BY <2>2 DEF Marked, Restated
  <2>6. /\ Reconciled(mid, o, r).task = t /\ Reconciled(mid, o, r).status # "pending"
        /\ Occurrence(Reconciled(mid, o, r)) = x
    BY <1>2, <2>2, <2>3, <2>4, <2>5, ReconciledIs
  <2>7. Marked(x, r, t, new) /\ r \in Ids(new) /\ new.runs[r].status # "pending"
    BY <1>1, <1>2, <2>2, <2>6 DEF Marked
  <2> QED BY <2>2, <2>3, <2>7 DEF MarkHeld
<1>6. LaunchesHeld(ls, o, last, new, new)
  BY <1>4, <1>5 DEF LaunchesHeld
<1> QED BY <1>6 DEF new

\* A restart that has nothing to change launches nothing either: what waits has no
\* task.
LEMMA NothingRelinks ==
  ASSUME NEW led, NEW o, NEW e, BookOK(led, o, e), OrchOK(o), Stopped(o),
         NEW last, Recorded(led, o) = last, Ids(last) = Ids(led), ~ Requeues(led, o),
         NEW r \in Ids(last), last.runs[r].status = "pending"
  PROVE  TasksOf(o, r) = {}
<1>1. last.runs[r] = Reconciled(led, o, r)
  BY RecordedIs
<1>2. \/ TasksOf(o, r) = {}
      \/ /\ led.runs[r].status \in Live
         /\ \E t \in LinkedTasks(led, o, r) : Untouched(o[t])
  BY <1>1, ReconciledIs
<1> QED BY <1>2 DEF Requeues

LEMMA RestartStep ==
  ASSUME RunsInv, Restart
  PROVE  RunsInv' /\ launches' = launches
<1>1. PICK last \in {autoDisk, ledger} \cup (IF saving = NoSave THEN {} ELSE {saving.ledger}) :
        LET o   == Recovered(orchDisk)
            mid == Released(last, orchDisk)
            led == [mid EXCEPT !.runs = [r \in Ids(mid) |-> Reconciled(mid, o, r)]]
        IN  /\ autoDisk' = last
            /\ IF led = last /\ Interrupted(orchDisk) = {} /\ ~Requeues(mid, o)
               THEN StartPending(led, o, o)
               ELSE /\ ledger' = led /\ dirty' = FALSE /\ saving' = Snapshot(led)
                    /\ orch' = o /\ orchDisk' = o
                    /\ UNCHANGED <<lost, launches, faults>>
  BY DEF Restart
<1>2. PICK o, mid, led : /\ o = Recovered(orchDisk) /\ mid = Released(last, orchDisk)
                         /\ led = Recorded(mid, o)
  OBVIOUS
<1>3. /\ autoDisk' = last
      /\ IF led = last /\ Interrupted(orchDisk) = {} /\ ~Requeues(mid, o)
         THEN StartPending(led, o, o)
         ELSE /\ ledger' = led /\ dirty' = FALSE /\ saving' = Snapshot(led)
              /\ orch' = o /\ orchDisk' = o
              /\ UNCHANGED <<lost, launches, faults>>
  BY <1>1, <1>2 DEF Recorded
<1>4. UNCHANGED <<now, edits>> /\ crashes' \in Nat /\ OtherTypes /\ edits \in Nat
  BY RunsAssumption DEF Restart, RunsInv, OtherTypes
<1>5. last \in {autoDisk, InFlight, ledger} /\ last \in Books
  BY DEF InFlight, Books
<1>6. /\ BookOK(last, orch, edits) /\ LedgerOK(last) /\ OrchOK(orch) /\ OrchOK(orchDisk)
      /\ Follows(autoDisk, last) /\ LedgerOK(autoDisk)
  BY <1>5, BooksTyped, FollowsItself, FollowsOn DEF RunsInv, BooksHold
<1>7. Kept(orch, orchDisk, lost) /\ Rooted(orchDisk, autoDisk)
  BY DEF RunsInv, TasksHold
<1>8. /\ OrchOK(o) /\ DOMAIN o = DOMAIN orchDisk /\ Later(orchDisk, o) /\ Stopped(o)
      /\ \A t \in DOMAIN orchDisk : o[t].run = orchDisk[t].run /\ o[t].of = orchDisk[t].of
  BY <1>2, <1>6, RecoveredIs
<1>9. Extends(orch, o)
  BY <1>6, <1>7, <1>8, ExtendsOn DEF Kept, Later
<1>10. lost = 0 => Later(orch, o)
  <2> SUFFICES ASSUME lost = 0 PROVE Later(orch, o)
    OBVIOUS
  <2>1. \A t \in DOMAIN orch : t \in DOMAIN orchDisk /\ orchDisk[t] = orch[t]
    BY <1>6, <1>7, OrchIs DEF Kept, Extends
  <2> QED BY <1>8, <1>9, <2>1 DEF Later
<1>11. Rooted(o, last)
  <2>1. \A r \in Ids(autoDisk) : r \in Ids(last)
    BY <1>6, LedgerIs DEF Follows
  <2>2. Rooted(orchDisk, last)
    BY <1>6, <1>7, <2>1 DEF Rooted, Follows
  <2> QED BY <1>8, <2>2 DEF Rooted
<1>12. Kept(o, o, lost)
  BY <1>8, ExtendsOn DEF Kept
<1>13. /\ BookOK(mid, orch, edits) /\ Onward(last, mid) /\ LedgerOK(mid)
       /\ Restated(last, mid) /\ Ids(mid) = Ids(last)
       /\ \A r \in Ids(last) : mid.runs[r].task = last.runs[r].task
  <2>1. PICK rs : mid = WithStatus(last, rs, "cancelled")
    BY <1>2 DEF Released
  <2>2. BookOK(mid, orch, edits) /\ Onward(last, mid) /\ LedgerOK(mid)
    BY <1>6, <2>1, CancelledIs
  <2>3. "cancelled" \in Live \cup Over
    BY DEF Over
  <2>4. /\ Restated(last, mid) /\ Ids(mid) = Ids(last)
        /\ \A r \in Ids(last) : mid.runs[r].task = last.runs[r].task
    BY <1>6, <2>1, <2>3, WithStatusIs
  <2> QED BY <2>2, <2>4
<1>14. BookOK(mid, o, edits) /\ BookOK(last, o, edits)
  <2>1. edits <= edits
    BY <1>4
  <2> QED BY <1>4, <1>6, <1>8, <1>9, <1>13, <2>1, BookLater
<1>15. /\ BookOK(led, o, edits) /\ Follows(mid, led) /\ Worked(led, o) /\ LedgerOK(led)
  <2>1. BookOK(led, o, edits) /\ Follows(mid, led) /\ Worked(led, o)
    BY <1>2, <1>8, <1>14, RecordedIs
  <2> QED BY <2>1 DEF BookOK
<1>16. Follows(last, led) /\ Follows(led, led)
  BY <1>6, <1>13, <1>15, FollowsOn, FollowsItself DEF Onward
<1>17. lost = 0 => LaunchesHeld(launches, o, last, led, led)
  <2> SUFFICES ASSUME lost = 0 PROVE LaunchesHeld(launches, o, last, led, led)
    OBVIOUS
  <2>1. LaunchesHeld(launches, orch, autoDisk, InFlight, ledger)
    BY DEF RunsInv
  <2> QED BY <1>2, <1>5, <1>6, <1>8, <1>10, <1>13, <1>14, <2>1, MarksKept
<1>18. CASE led = last /\ Interrupted(orchDisk) = {} /\ ~Requeues(mid, o)
  <2>1. Settled(last, o, o, launches, edits, lost)
    BY <1>8, <1>11, <1>12, <1>14, <1>15, <1>17, <1>18 DEF Settled
  <2>2. StartPending(last, o, o)
    BY <1>3, <1>18
  <2>3. CASE PendingRuns(last) = {}
    <3>1. /\ ledger' = last /\ saving' = NoSave /\ dirty' = FALSE
          /\ orch' = o /\ orchDisk' = o
          /\ UNCHANGED <<lost, launches, faults>>
      BY <2>2, <2>3 DEF StartPending
    <3> QED BY <1>3, <1>4, <2>1, <3>1, IdleStep
  <2>4. CASE PendingRuns(last) # {}
    <3>1. PICK r : r = Min(PendingRuns(last))
      OBVIOUS
    <3>2. r \in Ids(last) /\ last.runs[r].status = "pending"
      BY <1>6, <2>4, <3>1, FirstPending
    <3>3. StartRun(last, o, o, r)
      BY <2>2, <2>4, <3>1 DEF StartPending
    <3>4. TasksOf(o, r) = {}
      BY <1>2, <1>8, <1>13, <1>14, <1>18, <3>2, NothingRelinks
    <3>5. Materialize(last, o, o, r) /\ UNCHANGED <<launches, lost>>
      BY <3>3, <3>4 DEF StartRun
    <3> QED BY <1>3, <1>4, <2>1, <3>2, <3>5, MaterializeStep
  <2> QED BY <2>3, <2>4
<1>19. CASE ~ (led = last /\ Interrupted(orchDisk) = {} /\ ~Requeues(mid, o))
  <2>1. /\ ledger' = led /\ dirty' = FALSE /\ saving' = Snapshot(led)
        /\ orch' = o /\ orchDisk' = o /\ autoDisk' = last
        /\ UNCHANGED <<lost, launches, faults>>
    BY <1>3, <1>19
  <2>2. saving'.ledger = led /\ saving'.result = "writing"
    BY <2>1 DEF Snapshot
  <2>3. saving' # NoSave
    BY <2>2 DEF NoSave
  <2>4. InFlight' = led /\ Acked(saving', dirty', ledger', autoDisk')
    BY <2>1, <2>2, <2>3 DEF InFlight, Acked
  <2>5. OtherTypes'
    BY <1>4, <1>15, <2>1 DEF OtherTypes, SavingOK, Snapshot
  <2>6. BooksHold'
    <3>1. \A l \in Books' : BookOK(l, orch', edits')
      BY <1>4, <1>14, <1>15, <2>1, <2>4 DEF Books
    <3> QED BY <1>16, <2>1, <2>4, <3>1 DEF BooksHold
  <2>7. TasksHold' /\ Worked(ledger', orch')
    BY <1>8, <1>11, <1>12, <1>15, <2>1 DEF TasksHold
  <2>8. lost' = 0 => LaunchesHeld(launches', orch', autoDisk', InFlight', ledger')
    BY <1>17, <2>1, <2>4
  <2> QED BY <2>1, <2>5, <2>6, <2>7, <2>8 DEF RunsInv
<1> QED BY <1>18, <1>19

-----------------------------------------------------------------------------
(* The invariant holds                                                     *)

LEMMA RunsInit ==
  ASSUME Init
  PROVE  RunsInv
<1> DEFINE defs == [a \in Autos |-> [enabled |-> TRUE, next |-> 1]]
<1>1. /\ now = 0 /\ ledger = [defs |-> defs, runs |-> <<>>] /\ autoDisk = ledger
      /\ dirty = FALSE /\ saving = NoSave /\ orch = <<>> /\ orchDisk = <<>>
      /\ launches = <<>> /\ edits = 0 /\ faults = 0 /\ lost = 0 /\ crashes = 0
  BY DEF Init
<1>2. defs \in [Autos -> [enabled : BOOLEAN, next : 0..MaxTime + 1]]
  BY RunsAssumption
<1> HIDE DEF defs
<1>3. LedgerOK(ledger)
  BY <1>1, <1>2, RunsAssumption DEF LedgerOK
<1>4. Ids(ledger) = {}
  BY <1>1 DEF Ids
<1>5. DOMAIN orch = {} /\ OrchOK(orch) /\ DOMAIN launches = {}
  BY <1>1, RunsAssumption DEF OrchOK
<1>6. BookOK(ledger, orch, edits) /\ Follows(ledger, ledger)
  BY <1>3, <1>4, FollowsItself DEF BookOK
<1>7. InFlight = ledger /\ Books = {ledger}
  BY <1>1 DEF InFlight, Books
<1>8. BooksHold
  BY <1>1, <1>6, <1>7 DEF BooksHold, Acked, NoSave
<1>9. TasksHold
  BY <1>1, <1>5, ExtendsOn DEF TasksHold, Kept, Rooted
<1>10. Worked(ledger, orch) /\ LaunchesHeld(launches, orch, autoDisk, InFlight, ledger)
  BY <1>4, <1>5 DEF Worked, LaunchesHeld
<1>11. OtherTypes
  <2>1. 0 \in 0..MaxTime /\ 0 \in 0..MaxEdits
    BY RunsAssumption
  <2>2. launches \in Seq(Occurrences)
    BY <1>1
  <2>3. SavingOK(saving)
    BY <1>1 DEF SavingOK
  <2> QED BY <1>1, <2>1, <2>2, <2>3 DEF OtherTypes
<1> QED BY <1>8, <1>9, <1>10, <1>11 DEF RunsInv

LEMMA RunsStutter ==
  ASSUME RunsInv, UNCHANGED vars
  PROVE  RunsInv'
<1>1. /\ UNCHANGED <<now, ledger, autoDisk, dirty, saving, orch, orchDisk, lost,
                     launches, edits, faults, crashes>>
  BY DEF vars, store, tasks
<1>2. InFlight' = InFlight /\ Books' = Books
  BY <1>1 DEF InFlight, Books
<1>3. OtherTypes'
  BY <1>1 DEF RunsInv, OtherTypes
<1>4. BooksHold' /\ TasksHold'
  BY <1>1, <1>2 DEF RunsInv, BooksHold, TasksHold
<1> QED BY <1>1, <1>2, <1>3, <1>4 DEF RunsInv

LEMMA RunsNext ==
  ASSUME RunsInv, [Next]_vars
  PROVE  RunsInv'
<1>1. CASE Clock
  BY <1>1, ClockStep
<1>2. CASE Collect
  BY <1>2, CollectStep
<1>3. ASSUME NEW a \in Autos, Request(a) \/ Disable(a) \/ Enable(a) PROVE RunsInv'
  BY <1>3, RequestStep, DisableStep, EnableStep
<1>4. ASSUME NEW t \in 1..MaxTasks,
             NEW status \in {"queued", "running", "review", "done", "failed"},
             TaskUpdate(t, status)
      PROVE  RunsInv'
  BY <1>4, TaskUpdateStep
<1>5. ASSUME NEW t \in 1..MaxTasks,
             \/ PaneState(t) \/ TaskRelease(t) \/ PaneClosed(t) \/ TaskTaken(t)
             \/ TaskDelete(t) \/ TaskMerge(t) \/ TaskRetry(t)
      PROVE  RunsInv'
  BY <1>5, PaneStateStep, TaskReleaseStep, PaneClosedStep, TaskTakenStep,
     TaskDeleteStep, TaskMergeStep, TaskRetryStep
<1>6. CASE SaveTick \/ Write \/ CompleteOk \/ CompleteError
  BY <1>6, SaveTickStep, WriteStep, CompleteOkStep, CompleteErrorStep
<1>7. CASE Restart
  BY <1>7, RestartStep
<1>8. CASE UNCHANGED vars
  BY <1>8, RunsStutter
<1> QED BY <1>1, <1>2, <1>3, <1>4, <1>5, <1>6, <1>7, <1>8 DEF Next

LEMMA RunsInvariant == Spec => []RunsInv
<1>1. Init => RunsInv
  BY RunsInit
<1>2. RunsInv /\ [Next]_vars => RunsInv'
  BY RunsNext
<1> QED BY <1>1, <1>2, PTL DEF Spec

-----------------------------------------------------------------------------
(* What the invariant says                                                 *)

LEMMA RunsTyped ==
  ASSUME RunsInv
  PROVE  TypeOK
<1>1. {faults, lost, crashes} \subseteq Nat
  BY DEF RunsInv, OtherTypes
<1> QED BY <1>1, BooksTyped DEF TypeOK, RunsInv, OtherTypes

LEMMA OnceLaunched ==
  ASSUME RunsInv
  PROVE  LaunchedOnce
<1> SUFFICES ASSUME lost = 0, NEW i \in DOMAIN launches
             PROVE  Times(launches[i]) = 1 \/ Forgotten(launches[i])
  BY DEF LaunchedOnce
<1>1. \/ Gone(launches[i], orch)
      \/ \A j \in DOMAIN launches : launches[j] = launches[i] => j = i
  BY DEF RunsInv, LaunchesHeld
<1>2. CASE Gone(launches[i], orch)
  BY <1>2 DEF Gone, Forgotten
<1>3. CASE \A j \in DOMAIN launches : launches[j] = launches[i] => j = i
  <2>1. {j \in DOMAIN launches : launches[j] = launches[i]} = {i}
    BY <1>3
  <2> QED BY <2>1, FS_Singleton DEF Times
<1> QED BY <1>1, <1>2, <1>3

LEMMA ProvenanceAgrees ==
  ASSUME RunsInv
  PROVE  ProvenanceHolds
<1>1. /\ LedgerOK(autoDisk) /\ LedgerOK(InFlight) /\ LedgerOK(ledger)
      /\ Follows(autoDisk, InFlight) /\ Follows(InFlight, ledger)
  BY BooksTyped
<1>2. Follows(autoDisk, ledger)
  BY <1>1, FollowsOn
<1>3. /\ OrchOK(orch) /\ OrchOK(orchDisk) /\ Kept(orch, orchDisk, lost)
      /\ Rooted(orchDisk, autoDisk)
  BY DEF RunsInv, TasksHold
<1>4. Rooted(orch, autoDisk)
  BY <1>3, KeptRooted
<1>5. \A o \in {orch, orchDisk} : Rooted(o, autoDisk)
  BY <1>3, <1>4
<1>6. ASSUME NEW o \in {orch, orchDisk}, NEW led \in {ledger, autoDisk},
             NEW t \in DOMAIN o
      PROVE  Occurrence(led.runs[o[t].run]) = o[t].of
  <2>1. /\ o[t].run \in Ids(autoDisk)
        /\ Occurrence(autoDisk.runs[o[t].run]) = o[t].of
    BY <1>5 DEF Rooted
  <2> QED BY <1>2, <2>1 DEF Follows
<1> QED BY <1>6 DEF ProvenanceHolds

LEMMA RunsAreRight ==
  ASSUME RunsInv
  PROVE  RunsSafe
<1>1. LiveRunHasWork
  BY DEF LiveRunHasWork, RunsInv, Worked
<1> QED BY <1>1, RunsTyped, OnceLaunched, ProvenanceAgrees DEF RunsSafe

\* An occurrence is launched once over any number of crashes, failed saves and
\* retries, unless a save of orch.json was lost or its task was deleted; tasks and
\* runs agree on what they are for; and a run that works has a task to work on.
THEOREM RunsAreSafe == Spec => []RunsSafe
<1>1. RunsInv => RunsSafe
  BY RunsAreRight
<1> QED BY <1>1, RunsInvariant, PTL

-----------------------------------------------------------------------------
(* Launches                                                                *)

\* What a launch finds in the files, and beside it.
Durable ==
  LET x == launches'[Len(launches')]
  IN  \E r \in Ids(autoDisk) :
        /\ Occurrence(autoDisk.runs[r]) = x
        /\ autoDisk.runs[r].task \in DOMAIN orchDisk
        /\ orchDisk'[autoDisk.runs[r].task].of = x
Alone == RunsOf(ledger, launches'[Len(launches')].auto, Active) = {}

LEMMA LaunchIs ==
  ASSUME RunsInv, CompleteOk, launches' # launches
  PROVE  Durable /\ Alone
<1>1. saving.result = "ok" /\ UNCHANGED <<now, autoDisk, edits, crashes>>
  BY DEF CompleteOk
<1>2. ~ dirty
  BY DEF CompleteOk
<1>3. autoDisk = ledger /\ Settled(ledger, orch, orchDisk, launches, edits, lost)
  BY <1>1, <1>2, Completed
<1>4. StartPending(ledger, orch, orchDisk)
  BY <1>2 DEF CompleteOk
<1>5. LedgerOK(ledger) /\ OrchOK(orch) /\ OrchOK(orchDisk)
      /\ Kept(orch, orchDisk, lost) /\ Rooted(orchDisk, ledger)
  BY <1>3 DEF Settled, BookOK
<1>6. PendingRuns(ledger) # {}
  BY <1>4 DEF StartPending
<1>7. PICK r : r = Min(PendingRuns(ledger))
  OBVIOUS
<1>8. r \in Ids(ledger) /\ r \in PendingRuns(ledger)
  BY <1>5, <1>6, <1>7, FirstPending
<1>9. StartRun(ledger, orch, orchDisk, r)
  BY <1>4, <1>6, <1>7 DEF StartPending
<1>10. TasksOf(orch, r) # {}
  BY <1>9 DEF StartRun
<1>11. PICK t : t = Min(TasksOf(orch, r))
  OBVIOUS
<1>12. t \in TasksOf(orch, r)
  BY <1>5, <1>10, <1>11, FirstTask
<1>13. ledger.runs[r].task = t /\ Launch(ledger, orch, r, t)
  BY <1>9, <1>10, <1>11 DEF StartRun
<1>14. SaveOrch(Begun(orch, t)) /\ launches' = Launched(ledger, r)
  BY <1>13 DEF Launch
<1> DEFINE x == Occurrence(ledger.runs[r])
<1>15. launches' = Append(launches, x)
  BY <1>14 DEF Launched
<1>16. x \in Occurrences /\ x.auto = ledger.runs[r].auto
  BY <1>5, <1>8, LedgerIs DEF Occurrence, Occurrences, Runs
<1>17. t \in DOMAIN orch /\ orch[t].run = r
  BY <1>12 DEF TasksOf
<1>18. orch[t].of = x /\ t \in DOMAIN orchDisk /\ orchDisk[t].of = x
  <2>1. Rooted(orch, ledger)
    BY <1>5, KeptRooted
  <2>2. t \in DOMAIN orchDisk /\ orchDisk[t].of = orch[t].of
    BY <1>5, <1>17, OrchIs DEF Kept, Extends
  <2> QED BY <1>17, <2>1, <2>2 DEF Rooted
<1> HIDE DEF x
<1>19. launches'[Len(launches')] = x
  <2>1. launches \in Seq(Occurrences)
    BY DEF RunsInv, OtherTypes
  <2>2. /\ Len(Append(launches, x)) = Len(launches) + 1
        /\ Append(launches, x)[Len(launches) + 1] = x
    BY <1>16, <2>1, AppendIs
  <2> QED BY <1>15, <2>2
<1>20. orchDisk'[t].of = x
  <2>1. CASE orchDisk' = Begun(orch, t)
    <3>1. orch[t] \in Tasks
      BY <1>5, <1>17, OrchIs
    <3>2. PICK s : s = [orch[t] EXCEPT !.status = "running", !.owner = "worker", !.bound = TRUE]
      OBVIOUS
    <3>3. Begun(orch, t) = [orch EXCEPT ![t] = s]
      BY <1>17, <3>1, <3>2 DEF Begun
    <3>4. s.of = x
      BY <1>18, <3>1, <3>2 DEF Tasks
    <3> QED BY <1>17, <2>1, <3>3, <3>4
  <2>2. CASE orchDisk' = orchDisk
    BY <1>18, <2>2
  <2> QED BY <1>14, <2>1, <2>2 DEF SaveOrch
<1>21. Durable
  <2>1. r \in Ids(autoDisk) /\ Occurrence(autoDisk.runs[r]) = x /\ autoDisk.runs[r].task = t
    BY <1>3, <1>8, <1>13 DEF x
  <2> QED BY <1>18, <1>19, <1>20, <2>1 DEF Durable
<1>22. Alone
  BY <1>8, <1>16, <1>19 DEF Alone, PendingRuns
<1> QED BY <1>21, <1>22

\* Only a checkpoint that ended launches.
LEMMA OnlyCompleted ==
  ASSUME RunsInv, [Next]_vars, launches' # launches
  PROVE  CompleteOk
<1>1. ~ UNCHANGED vars
  BY DEF vars
<1>2. ~ Clock /\ ~ Collect /\ ~ SaveTick /\ ~ Write /\ ~ CompleteError
  BY DEF Clock, Collect, SaveTick, Write, CompleteError
<1>3. ~ Edit
  BY DEF Edit
<1>4. \A a \in Autos : ~ (Request(a) \/ Disable(a) \/ Enable(a))
  BY <1>3 DEF Request, Disable, Enable
<1>5. \A t \in 1..MaxTasks :
        /\ \A status \in {"queued", "running", "review", "done", "failed"} :
             ~ TaskUpdate(t, status)
        /\ ~ PaneState(t) /\ ~ TaskRelease(t) /\ ~ PaneClosed(t) /\ ~ TaskTaken(t)
        /\ ~ TaskDelete(t) /\ ~ TaskMerge(t) /\ ~ TaskRetry(t)
  BY <1>3 DEF TaskUpdate, PaneState, TaskRelease, PaneClosed, TaskTaken, TaskDelete,
     TaskMerge, TaskRetry
<1>6. ~ Restart
  BY RestartStep
<1> QED BY <1>1, <1>2, <1>4, <1>5, <1>6 DEF Next

\* A worker is launched only when automations.json has its occurrence, linked to
\* the task that orch.json has, and no other run of its definition works.
THEOREM LaunchesAreRight == Spec => LaunchesRight
<1>1. RunsInv /\ [Next]_vars => [launches' # launches => Durable]_vars
  BY OnlyCompleted, LaunchIs
<1>2. RunsInv /\ [Next]_vars => [launches' # launches => Alone]_vars
  BY OnlyCompleted, LaunchIs
<1>3. DurableBeforeLaunch <=> [][launches' # launches => Durable]_vars
  BY DEF DurableBeforeLaunch, Durable
<1>4. LaunchAlone <=> [][launches' # launches => Alone]_vars
  BY DEF LaunchAlone, Alone
<1>5. Spec => [][launches' # launches => Durable]_vars
  BY <1>1, RunsInvariant, PTL DEF Spec
<1>6. Spec => [][launches' # launches => Alone]_vars
  BY <1>2, RunsInvariant, PTL DEF Spec
<1> QED BY <1>3, <1>4, <1>5, <1>6 DEF LaunchesRight

-----------------------------------------------------------------------------
(* The inductive invariant of WorkerHandshake                              *)

Task == [status : Statuses, assignee : Panes \cup {None}, attempt : Nat \ {0}, auto : Kinds]

Shapes ==
  /\ task \in Task
  /\ runner \in [Panes -> [phase : Phases, attempt : Nat]]
  /\ left \in [edits : Nat, reruns : Nat, losses : Nat]

\* A pane that no start has used: no command, no runner, no agent.
Unused(p) == typed[p] = 0 /\ runner[p] = Idle /\ agent[p] = "none" /\ launched[p] = 0

\* A running agent is in the foreground of its runner.
Foreground(p) == agent[p] = "running" => runner[p].phase = "agent"

\* The record is on disk, or in the hand of the runner that launches, or spent.
Token(p) ==
  ~task.auto =>
    /\ runner[p].phase \in {"idle", "wait", "take", "launch", "agent", "report"}
    /\ p \in staged \/ runner[p].phase = "launch" => launched[p] = 0
    /\ p \in staged => runner[p].phase \in {"idle", "wait", "take"}
    /\ launched[p] <= 1

\* The runner of a start in its handler has not got past its wait.
Waiting(p) == ~task.auto /\ loop = p => runner[p].phase \in {"idle", "wait"} /\ launched[p] = 0

PaneInv(p) == /\ p \in fresh => Unused(p) /\ p # loop
              /\ Foreground(p) /\ Token(p) /\ Waiting(p)

IInv == HandshakeTypeOK /\ Shapes /\ \A p \in Panes : PaneInv(p)

LEMMA InitInv == ASSUME HandshakeInit PROVE IInv
<1>1. HandshakeTypeOK
  BY HandshakeAssumption DEF HandshakeInit, HandshakeTypeOK, Idle, Phases, Statuses
<1>2. Shapes
  BY HandshakeAssumption DEF HandshakeInit, Shapes, Task, Idle, Phases, Statuses
<1>3. ASSUME NEW p \in Panes PROVE PaneInv(p)
  BY HandshakeAssumption DEF HandshakeInit, PaneInv, Unused, Foreground, Token, Waiting, Idle
<1> QED BY <1>1, <1>2, <1>3 DEF IInv

-----------------------------------------------------------------------------
(* Steps of the server                                                     *)

LEMMA StartInv == ASSUME IInv, NEW p \in Panes, Start(p) PROVE IInv'
<1>1. HandshakeTypeOK'
  BY HandshakeAssumption DEF IInv, HandshakeTypeOK, Start, Free
<1>2. Shapes'
  BY DEF IInv, Shapes, Start
<1>3. ASSUME NEW q \in Panes PROVE PaneInv(q)'
  BY <1>3, HandshakeAssumption DEF IInv, Shapes, HandshakeTypeOK, PaneInv, Unused, Foreground, Token, Waiting,
          Start, Idle, Free
<1> QED BY <1>1, <1>2, <1>3 DEF IInv

LEMMA CommitInv == ASSUME IInv, Commit PROVE IInv'
<1>1. HandshakeTypeOK'
  BY HandshakeAssumption DEF IInv, HandshakeTypeOK, Shapes, Task, Commit, Free, Statuses
<1>2. Shapes'
  BY DEF IInv, HandshakeTypeOK, Shapes, Task, Commit, Free, Statuses
<1>3. ASSUME NEW q \in Panes PROVE PaneInv(q)'
  BY <1>3, HandshakeAssumption DEF IInv, Shapes, PaneInv, Unused, Foreground, Token, Waiting, Commit,
          Idle
<1> QED BY <1>1, <1>2, <1>3 DEF IInv

\* task.update, task.release and task.retry change the task and nothing else.
LEMMA EditInv ==
  ASSUME IInv,
         task' \in Task, task'.auto = task.auto, task'.attempt >= task.attempt,
         left' = [left EXCEPT !.edits = @ - 1], left.edits > 0,
         UNCHANGED <<loop, open, fresh, staged, typed, runner, agent, launched>>
  PROVE  IInv'
<1>1. HandshakeTypeOK'
  BY DEF IInv, HandshakeTypeOK, Shapes, Task, Statuses
<1>2. Shapes'
  BY DEF IInv, Shapes
<1>3. ASSUME NEW q \in Panes PROVE PaneInv(q)'
  BY <1>3 DEF IInv, PaneInv, Unused, Foreground, Token, Waiting
<1> QED BY <1>1, <1>2, <1>3 DEF IInv

LEMMA OperatorInv ==
  ASSUME IInv, Release \/ Retry \/ \E status \in Updates : Update(status)
  PROVE  IInv'
<1>1. /\ left' = [left EXCEPT !.edits = @ - 1] /\ left.edits > 0
      /\ UNCHANGED <<loop, open, fresh, staged, typed, runner, agent, launched>>
  BY DEF Release, Retry, Update, EditTask
<1>2. task' \in Task /\ task'.auto = task.auto /\ task'.attempt >= task.attempt
  <2>. task \in Task
    BY DEF IInv, Shapes
  <2>1. CASE Release
    <3>1. task' = [status |-> "queued", assignee |-> None, attempt |-> task.attempt,
                   auto |-> task.auto]
      BY <2>1 DEF Release, EditTask, Task
    <3>2. task.attempt \in Nat \ {0} /\ task.auto \in Kinds
      BY DEF Task
    <3>. QED BY <3>1, <3>2 DEF Task, Statuses
  <2>2. CASE Retry
    <3>1. task' = [status |-> "queued", assignee |-> None, attempt |-> task.attempt + 1,
                   auto |-> task.auto]
      BY <2>2 DEF Retry, EditTask, Task
    <3>2. task.attempt \in Nat \ {0} /\ task.auto \in Kinds
      BY DEF Task
    <3>. QED BY <3>1, <3>2 DEF Task, Statuses
  <2>3. ASSUME NEW status \in Updates, Update(status)
        PROVE  task' \in Task /\ task'.auto = task.auto /\ task'.attempt >= task.attempt
    BY <2>3, HandshakeAssumption DEF Update, EditTask, Task
  <2>. QED BY <2>1, <2>2, <2>3
<1>. QED BY <1>1, <1>2, EditInv

LEMMA ClosePaneInv == ASSUME IInv, NEW p \in Panes, ClosePane(p) PROVE IInv'
<1>task. /\ task' \in Task
         /\ task'.auto = task.auto /\ task'.attempt = task.attempt
  BY DEF IInv, Shapes, Task, ClosePane, EditTask, Statuses
<1>1. HandshakeTypeOK'
  <2>1. /\ task'.status \in Statuses /\ task'.assignee \in Panes \cup {None}
        /\ task'.attempt \in Nat \ {0} /\ task'.auto \in Kinds
    BY <1>task DEF Task
  <2>2. /\ loop' \in Panes \cup {None} /\ open' \subseteq Panes
        /\ fresh' \subseteq Panes \ open' /\ staged' \subseteq open'
        /\ typed' \in [Panes -> Nat] /\ agent' \in [Panes -> {"none", "running", "ended"}]
        /\ launched' \in [Panes -> Nat]
    BY DEF IInv, HandshakeTypeOK, ClosePane, EditTask
  <2>3. \A q \in Panes : runner'[q].phase \in Phases /\ runner'[q].attempt \in 0..task'.attempt
    BY <1>task DEF Task, IInv, HandshakeTypeOK, Shapes, ClosePane, Phases, Idle
  <2>. QED BY <2>1, <2>2, <2>3 DEF HandshakeTypeOK, Statuses
<1>2. Shapes'
  BY <1>task DEF IInv, Shapes, ClosePane, EditTask, Idle, Phases
<1>3. ASSUME NEW q \in Panes PROVE PaneInv(q)'
  BY <1>3, <1>task DEF IInv, HandshakeTypeOK, Shapes, PaneInv, Unused, Foreground, Token, Waiting,
          ClosePane, EditTask, Idle
<1> QED BY <1>1, <1>2, <1>3 DEF IInv

-----------------------------------------------------------------------------
(* Steps of a runner                                                       *)

LEMMA TypeAgainInv == ASSUME IInv, NEW p \in Panes, TypeAgain(p) PROVE IInv'
<1>1. HandshakeTypeOK'
  BY DEF IInv, HandshakeTypeOK, Shapes, Task, TypeAgain
<1>2. Shapes'
  BY DEF IInv, HandshakeTypeOK, Shapes, Task, TypeAgain
<1>3. ASSUME NEW q \in Panes PROVE PaneInv(q)'
  BY <1>3, HandshakeAssumption DEF IInv, HandshakeTypeOK, Shapes, Task, PaneInv, Unused, Foreground, Token,
          Waiting, TypeAgain
<1> QED BY <1>1, <1>2, <1>3 DEF IInv

LEMMA PeekInv == ASSUME IInv, NEW p \in Panes, Peek(p) PROVE IInv'
<1>1. HandshakeTypeOK'
  BY DEF IInv, HandshakeTypeOK, Shapes, Task, Peek, Become, At, Idle, Phases
<1>2. Shapes'
  BY DEF IInv, HandshakeTypeOK, Shapes, Task, Peek, Become, At, Idle, Phases
<1>3. ASSUME NEW q \in Panes PROVE PaneInv(q)'
  BY <1>3, HandshakeAssumption DEF IInv, HandshakeTypeOK, Shapes, Task, PaneInv, Unused, Foreground, Token,
          Waiting, Peek, Become, At, Idle, Phases
<1> QED BY <1>1, <1>2, <1>3 DEF IInv

LEMMA PollInv == ASSUME IInv, NEW p \in Panes, Poll(p) PROVE IInv'
<1>0. \E new \in [phase : Phases, attempt : 0..task.attempt] : runner' = [runner EXCEPT ![p] = new]
  BY DEF IInv, HandshakeTypeOK, Shapes, Poll, Become, Lose, At, Idle, Phases
<1>1. HandshakeTypeOK'
  BY <1>0 DEF IInv, HandshakeTypeOK, Shapes, Task, Poll, Become, Lose
<1>2. Shapes'
  BY DEF IInv, HandshakeTypeOK, Shapes, Task, Poll, Become, Lose, At, Idle, Phases, Free
<1>3. ASSUME NEW q \in Panes PROVE PaneInv(q)'
  BY <1>3, HandshakeAssumption DEF IInv, HandshakeTypeOK, Shapes, Task, PaneInv, Unused, Foreground, Token,
          Waiting, Poll, Become, Lose, At, Idle, Phases, Free
<1> QED BY <1>1, <1>2, <1>3 DEF IInv

LEMMA TakeInv == ASSUME IInv, NEW p \in Panes, Take(p) PROVE IInv'
<1>1. HandshakeTypeOK'
  BY DEF IInv, HandshakeTypeOK, Shapes, Task, Take, Become, At, Idle, Phases
<1>2. Shapes'
  BY DEF IInv, HandshakeTypeOK, Shapes, Task, Take, Become, At, Idle, Phases
<1>3. ASSUME NEW q \in Panes PROVE PaneInv(q)'
  BY <1>3, HandshakeAssumption DEF IInv, HandshakeTypeOK, Shapes, Task, PaneInv, Unused, Foreground, Token,
          Waiting, Take, Become, At, Idle, Phases
<1> QED BY <1>1, <1>2, <1>3 DEF IInv

LEMMA LaunchInv == ASSUME IInv, NEW p \in Panes, LaunchAgent(p) PROVE IInv'
<1>1. HandshakeTypeOK'
  <2>1. /\ UNCHANGED <<task, loop, open, fresh, staged, typed>>
        /\ agent' \in [Panes -> {"none", "running", "ended"}] /\ launched' \in [Panes -> Nat]
    BY DEF IInv, HandshakeTypeOK, LaunchAgent, Become
  <2>2. \E phase \in Phases : runner' = [runner EXCEPT ![p] = At(phase, runner[p].attempt)]
                           \/ runner' = [runner EXCEPT ![p] = At(phase, 0)]
    BY DEF LaunchAgent, Become, Phases
  <2>3. \A q \in Panes : runner'[q].phase \in Phases /\ runner'[q].attempt \in 0..task.attempt
    BY <2>2 DEF IInv, HandshakeTypeOK, Shapes, Task, At
  <2>. QED BY <2>1, <2>3 DEF IInv, HandshakeTypeOK
<1>2. Shapes'
  BY DEF IInv, HandshakeTypeOK, Shapes, Task, LaunchAgent, Become, At, Idle, Phases
<1>3. ASSUME NEW q \in Panes PROVE PaneInv(q)'
  BY <1>3, HandshakeAssumption DEF IInv, HandshakeTypeOK, Shapes, Task, PaneInv, Unused, Foreground, Token,
          Waiting, LaunchAgent, Become, At, Idle, Phases
<1> QED BY <1>1, <1>2, <1>3 DEF IInv

LEMMA ReportInv == ASSUME IInv, NEW p \in Panes, Report(p) PROVE IInv'
<1>1. HandshakeTypeOK'
  BY DEF IInv, HandshakeTypeOK, Shapes, Task, Report, Become, Idle, Phases, Statuses, Owns, Free
<1>2. Shapes'
  BY DEF IInv, HandshakeTypeOK, Shapes, Task, Report, Become, Idle, Phases, Statuses, Owns, Free
<1>3. ASSUME NEW q \in Panes PROVE PaneInv(q)'
  BY <1>3, HandshakeAssumption DEF IInv, HandshakeTypeOK, Shapes, Task, PaneInv, Unused, Foreground, Token,
          Waiting, Report, Become, Idle, Phases, Statuses, Owns, Free
<1> QED BY <1>1, <1>2, <1>3 DEF IInv

LEMMA AgentEndsInv == ASSUME IInv, NEW p \in Panes, AgentEnds(p) PROVE IInv'
<1>1. HandshakeTypeOK'
  BY DEF IInv, HandshakeTypeOK, Shapes, Task, AgentEnds, Become, At, Idle, Phases
<1>2. Shapes'
  BY DEF IInv, HandshakeTypeOK, Shapes, Task, AgentEnds, Become, At, Idle, Phases
<1>3. ASSUME NEW q \in Panes PROVE PaneInv(q)'
  BY <1>3, HandshakeAssumption DEF IInv, HandshakeTypeOK, Shapes, Task, PaneInv, Unused, Foreground, Token,
          Waiting, AgentEnds, Become, At, Idle, Phases
<1> QED BY <1>1, <1>2, <1>3 DEF IInv

LEMMA SnapshotInv == ASSUME IInv, NEW p \in Panes, CheckRun(p) PROVE IInv'
<1>1. HandshakeTypeOK'
  BY DEF IInv, HandshakeTypeOK, Shapes, Task, CheckRun, Become, Lose, At, Idle, Phases, Free
<1>2. Shapes'
  <2>1. \E new \in [phase : Phases, attempt : {0}] : runner' = [runner EXCEPT ![p] = new]
    BY DEF CheckRun, Become, Lose, At, Phases
  <2>2. left' \in [edits : Nat, reruns : Nat, losses : Nat]
    BY DEF IInv, Shapes, CheckRun, Become, Lose
  <2> QED BY <2>1, <2>2 DEF IInv, Shapes, CheckRun
<1>3. ASSUME NEW q \in Panes PROVE PaneInv(q)'
  BY <1>3, HandshakeAssumption DEF IInv, HandshakeTypeOK, Shapes, Task, PaneInv, Unused, Foreground, Token,
          Waiting, CheckRun, Become, Lose, At, Idle, Phases, Free
<1> QED BY <1>1, <1>2, <1>3 DEF IInv

LEMMA ReadStatusInv == ASSUME IInv, NEW p \in Panes, ReadStatus(p) PROVE IInv'
<1>1. HandshakeTypeOK'
  BY DEF IInv, HandshakeTypeOK, Shapes, Task, ReadStatus, Become, Lose, At, Idle, Phases, Free
<1>2. Shapes'
  BY DEF IInv, HandshakeTypeOK, Shapes, Task, ReadStatus, Become, Lose, At, Idle, Phases, Free
<1>3. ASSUME NEW q \in Panes PROVE PaneInv(q)'
  BY <1>3, HandshakeAssumption DEF IInv, HandshakeTypeOK, Shapes, Task, PaneInv, Unused, Foreground, Token,
          Waiting, ReadStatus, Become, Lose, At, Idle, Phases, Free
<1> QED BY <1>1, <1>2, <1>3 DEF IInv

LEMMA SettleInv == ASSUME IInv, NEW p \in Panes, Settle(p) PROVE IInv'
<1>1. HandshakeTypeOK'
  BY DEF IInv, HandshakeTypeOK, Shapes, Task, Settle, Become, Idle, Phases, Statuses, Free
<1>2. Shapes'
  BY DEF IInv, HandshakeTypeOK, Shapes, Task, Settle, Become, Idle, Phases, Statuses, Free
<1>3. ASSUME NEW q \in Panes PROVE PaneInv(q)'
  BY <1>3, HandshakeAssumption DEF IInv, HandshakeTypeOK, Shapes, Task, PaneInv, Unused, Foreground, Token,
          Waiting, Settle, Become, Idle, Phases, Statuses, Free
<1> QED BY <1>1, <1>2, <1>3 DEF IInv

LEMMA NextInv == IInv /\ [HandshakeNext]_handshakeVars => IInv'
<1> SUFFICES ASSUME IInv, [HandshakeNext]_handshakeVars PROVE IInv'
  OBVIOUS
<1>1. CASE Commit BY <1>1, CommitInv
<1>2. CASE Release \/ Retry \/ \E status \in Updates : Update(status) BY <1>2, OperatorInv
<1>3. ASSUME NEW p \in Panes,
             Start(p) \/ ClosePane(p) \/ TypeAgain(p) \/ AgentEnds(p) \/ RunnerStep(p)
      PROVE  IInv'
  BY <1>3, StartInv, ClosePaneInv, TypeAgainInv, AgentEndsInv, PeekInv, PollInv, TakeInv,
     LaunchInv, ReportInv, SnapshotInv, ReadStatusInv, SettleInv DEF RunnerStep
<1>4. CASE UNCHANGED handshakeVars
  BY <1>4 DEF handshakeVars, IInv, HandshakeTypeOK, Shapes, PaneInv, Unused, Foreground, Token, Waiting
<1> QED BY <1>1, <1>2, <1>3, <1>4 DEF HandshakeNext

LEMMA Invariance == HandshakeSpec => []IInv
<1>1. HandshakeInit => IInv
  BY InitInv
<1>2. IInv /\ [HandshakeNext]_handshakeVars => IInv'
  BY NextInv
<1> QED BY <1>1, <1>2, PTL DEF HandshakeSpec

\* A start runs one agent at most, and none before the server has recorded it,
\* whatever is typed again, lost in transport, edited or closed meanwhile
\* (start_orch_task, wait_for_owner, take).
THEOREM StartsAreSafe == HandshakeSpec => []StartSafe
<1>1. IInv => StartSafe
  BY DEF IInv, PaneInv, Token, Waiting, StartSafe, OneAgentPerStart, AgentAfterCommit, Free,
          HandshakeTypeOK
<1> QED BY <1>1, Invariance, PTL

\* A runner that could not start its agent never fails the task under an agent
\* that runs: what its fence lets through is its own attempt (fail_unstarted).
THEOREM LateReportsAreHarmless == HandshakeSpec => LateReportHarmless
<1>1. ASSUME IInv, NEW p \in Panes, runner[p].phase = "report", Report(p), task' # task
      PROVE  task.assignee = None \/ agent[task.assignee] # "running"
  BY <1>1 DEF Report, Owns, IInv, PaneInv, Foreground
<1> DEFINE Harmless == \A p \in Panes :
             runner[p].phase = "report" /\ Report(p) /\ task' # task
               => task.assignee = None \/ agent[task.assignee] # "running"
<1>2. IInv /\ [HandshakeNext]_handshakeVars => [Harmless]_handshakeVars
  BY <1>1
<1> QED BY <1>2, Invariance, PTL DEF HandshakeSpec, LateReportHarmless
=============================================================================
