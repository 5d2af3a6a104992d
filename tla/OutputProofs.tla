---------------------------- MODULE OutputProofs ----------------------------
(***************************************************************************)
(* The way of terminal output to the screens of the clients: PaneSafe of   *)
(* PaneOutput, for any number of reads, waits, writes, streams and         *)
(* handlers between two steps of the reader, and FrameSafe of              *)
(* FrameDelivery, for any number of clients and rows and any output during *)
(* a pass.                                                                 *)
(*                                                                         *)
(* TailOwed is inductive as it stands: whoever takes one of its four       *)
(* reasons away leaves another.  The reader that announced leaves the      *)
(* flag, the loop that takes the announcement or the flag has a publish to *)
(* do, and a publish reads the revision when it is its turn.               *)
(*                                                                         *)
(* FrameSafe speaks of the time between passes.  Its invariant, FrameInv,  *)
(* says what a pass owes: the clients it has visited retain what is shown, *)
(* but for rows that changed since the damage was captured; the others     *)
(* still differ in damaged rows only; and the patch has those rows.        *)
(***************************************************************************)
EXTENDS PaneOutput, FrameDelivery, SequenceTheorems, TLAPS

-----------------------------------------------------------------------------
(* PaneOutput: types                                                       *)

Names == {"text", "clear_text", "revisions", "clear_revisions", "publish"}

TypeInv == PaneTypeOK /\ todo \in Seq(Names)

Has(s, v) == \E i \in DOMAIN s : s[i] = v

-----------------------------------------------------------------------------
(* Sequences                                                               *)

LEMMA TailKeeps ==
  ASSUME NEW S, NEW s \in Seq(S), s # <<>>, NEW v, Head(s) # v, Has(s, v)
  PROVE  Has(Tail(s), v)
<1>1. PICK i \in 1..Len(s) : s[i] = v
  BY LenProperties DEF Has
<1>2. i # 1
  BY <1>1
<1>3. /\ Tail(s) \in Seq(S) /\ Len(Tail(s)) = Len(s) - 1 /\ Len(s) \in Nat
      /\ \A j \in 1..Len(Tail(s)) : Tail(s)[j] = s[j + 1]
  BY HeadTailProperties, LenProperties
<1>4. i - 1 \in 1..Len(Tail(s)) /\ Tail(s)[i - 1] = v
  BY <1>1, <1>2, <1>3
<1>5. DOMAIN Tail(s) = 1..Len(Tail(s))
  BY <1>3, LenProperties
<1> QED BY <1>4, <1>5 DEF Has

LEMMA AppendKeeps ==
  ASSUME NEW S, NEW s \in Seq(S), NEW x \in S, NEW v, Has(s, v)
  PROVE  Has(Append(s, x), v)
BY DEF Has

LEMMA TailType ==
  ASSUME NEW S, NEW s \in Seq(S), s # <<>>
  PROVE  Tail(s) \in Seq(S) /\ Head(s) \in S /\ Len(Tail(s)) <= Len(s)
OBVIOUS

LEMMA ConcatKeeps ==
  ASSUME NEW S, NEW s \in Seq(S), NEW t \in Seq(S), NEW v, Has(t, v)
  PROVE  Has(s \o t, v)
<1>1. PICK i \in 1..Len(t) : t[i] = v
  BY LenProperties DEF Has
<1>2. Len(s) \in Nat /\ Len(t) \in Nat
  BY LenProperties
<1>3. /\ s \o t \in Seq(S) /\ Len(s \o t) = Len(s) + Len(t)
      /\ (s \o t)[Len(s) + i] = IF Len(s) + i <= Len(s) THEN s[Len(s) + i] ELSE t[Len(s) + i - Len(s)]
  BY <1>2, ConcatProperties
<1>4. (s \o t)[Len(s) + i] = v
  BY <1>1, <1>2, <1>3
<1>5. Len(s) + i \in DOMAIN (s \o t)
  BY <1>2, <1>3, LenProperties
<1> QED BY <1>4, <1>5 DEF Has

LEMMA ConcatLists ==
  ASSUME NEW s \in Seq(Names), NEW t \in Seq(Names)
  PROVE  s \o t \in Seq(Names) /\ Len(s \o t) = Len(s) + Len(t)
BY ConcatProperties

\* What the loop sets out to do in its handlers.
Lists == {Text, Revisions, OutputChanged, Text \o Revisions, Text \o OutputChanged,
          <<"clear_revisions">>, <<>>}

\* No list is longer than five steps, and the ones that publish say so.
LEMMA Handlers ==
  /\ \A s \in Lists : s \in Seq(Names) /\ Len(s) <= 5
  /\ Has(OutputChanged, "publish") /\ Has(Text \o OutputChanged, "publish")
<1>1. Text \in Seq(Names) /\ Len(Text) = 2
  BY DEF Text, Names
<1>2. Revisions \in Seq(Names) /\ Len(Revisions) = 2
  BY DEF Revisions, Names
<1>3. <<"publish">> \in Seq(Names) /\ Len(<<"publish">>) = 1
  BY DEF Names
<1>4. Has(<<"publish">>, "publish")
  BY DEF Has
<1>5. /\ <<"clear_revisions">> \in Seq(Names) /\ Len(<<"clear_revisions">>) = 1
      /\ <<>> \in Seq(Names) /\ Len(<<>>) = 0
  BY DEF Names
<1>6. OutputChanged \in Seq(Names) /\ Len(OutputChanged) = 3
  <2>1. /\ OutputChanged \in Seq(Names)
        /\ Len(OutputChanged) = Len(Revisions) + Len(<<"publish">>)
    BY <1>2, <1>3, ConcatLists DEF OutputChanged
  <2>. QED BY <1>2, <1>3, <2>1
<1>7. Has(OutputChanged, "publish")
  BY <1>2, <1>3, <1>4, ConcatKeeps DEF OutputChanged
<1>8. Text \o OutputChanged \in Seq(Names) /\ Len(Text \o OutputChanged) = 5
  <2>1. /\ Text \o OutputChanged \in Seq(Names)
        /\ Len(Text \o OutputChanged) = Len(Text) + Len(OutputChanged)
    BY <1>1, <1>6, ConcatLists
  <2>. QED BY <1>1, <1>6, <2>1
<1>9. Has(Text \o OutputChanged, "publish")
  BY <1>1, <1>6, <1>7, ConcatKeeps
<1>10. Text \o Revisions \in Seq(Names) /\ Len(Text \o Revisions) = 4
  <2>1. /\ Text \o Revisions \in Seq(Names)
        /\ Len(Text \o Revisions) = Len(Text) + Len(Revisions)
    BY <1>1, <1>2, ConcatLists
  <2>. QED BY <1>1, <1>2, <2>1
<1> QED BY <1>1, <1>2, <1>5, <1>6, <1>7, <1>8, <1>9, <1>10 DEF Lists

-----------------------------------------------------------------------------
(* Types                                                                   *)

LEMMA InitType == PaneInit => TypeInv
<1> SUFFICES ASSUME PaneInit PROVE TypeInv
  OBVIOUS
<1>1. /\ todo \in Seq(Names) /\ Len(todo) <= 5
      /\ inbox \in Seq({"data", "closed", "reaped"})
      /\ queue \in Seq({"ready", "gone"}) /\ Len(queue) <= QueueCapacity
  BY PaneAssumption DEF PaneInit
<1>2. need \in [Waits -> 0..MaxRevision] /\ waits \in [Waits -> Statuses]
  BY PaneAssumption DEF PaneInit, Statuses
<1>3. revision \in 0..MaxRevision /\ published \in 0..revision /\ shown \in 0..revision
  BY PaneAssumption DEF PaneInit
<1>4. /\ reader \in {"reads", "announces", "ended"} /\ child \in BOOLEAN /\ flag \in BOOLEAN
      /\ pane \in {"open", "closed", "exited"} /\ exit \in SUBSET {"closed", "reaped"}
      /\ stream \in {"off", "starts", "forwards", "cut", "ended"}
  BY DEF PaneInit
<1> QED BY <1>1, <1>2, <1>3, <1>4 DEF TypeInv, PaneTypeOK

LEMMA EmitType ==
  ASSUME PaneTypeOK, NEW event \in {"ready", "gone"}, Emit(event)
  PROVE  /\ stream' \in {"off", "starts", "forwards", "cut", "ended"}
         /\ queue' \in Seq({"ready", "gone"}) /\ Len(queue') <= QueueCapacity /\ shown' = shown
<1>1. queue' \in Seq({"ready", "gone"}) /\ Len(queue') <= QueueCapacity
  <2>1. CASE UNCHANGED queue
    BY <2>1 DEF PaneTypeOK
  <2>2. CASE queue' = <<>>
    BY <2>2, PaneAssumption
  <2>3. CASE Len(queue) < QueueCapacity /\ queue' = Append(queue, event)
    <3>1. queue \in Seq({"ready", "gone"}) /\ Len(queue) \in Nat
      BY LenProperties DEF PaneTypeOK
    <3>. QED BY <2>3, <3>1, PaneAssumption
  <2>. QED BY <2>1, <2>2, <2>3 DEF Emit, streamVars
<1> QED BY <1>1 DEF PaneTypeOK, Emit, streamVars

LEMMA ReaderType == ASSUME TypeInv, ReaderStep PROVE TypeInv'
<1>. inbox \in Seq({"data", "closed", "reaped"})
  BY DEF TypeInv, PaneTypeOK
<1>1. inbox' \in Seq({"data", "closed", "reaped"})
  <2>1. \/ inbox' = inbox \/ inbox' = Append(inbox, "data")
        \/ inbox' = Append(inbox, "closed") \/ inbox' = Append(inbox, "reaped")
    BY DEF ReaderStep, Produce, Announce, EndOfFile, Reap
  <2>. QED BY <2>1
<1>2. CASE Produce
  BY <1>1, <1>2, PaneAssumption DEF Produce, TypeInv, PaneTypeOK, waitVars, streamVars
<1>3. CASE Announce
  BY <1>1, <1>3 DEF Announce, TypeInv, PaneTypeOK, waitVars, streamVars
<1>4. CASE EndOfFile \/ Reap
  BY <1>1, <1>4 DEF EndOfFile, Reap, TypeInv, PaneTypeOK, waitVars, streamVars
<1> QED BY <1>2, <1>3, <1>4 DEF ReaderStep

\* What is left of a handler after one of its steps is as good as before.
LEMMA StepType ==
  ASSUME TypeInv, NEW name, Step(name)
  PROVE  todo' \in Seq(Names) /\ Len(todo') <= 5
BY TailType, LenProperties DEF TypeInv, PaneTypeOK, Step

LEMMA StepsType == ASSUME TypeInv, Steps PROVE TypeInv'
<1>1. todo' \in Seq(Names) /\ Len(todo') <= 5
  BY StepType DEF Steps, Check, Clear, Publish
<1>2. CASE Check
  BY <1>1, <1>2 DEF Check, Answer, TypeInv, PaneTypeOK, Statuses, readerVars, streamVars
<1>3. CASE Clear
  BY <1>1, <1>3 DEF Clear, TypeInv, PaneTypeOK, readerVars, waitVars, streamVars
<1>4. CASE Publish
  <2>1. /\ stream' \in {"off", "starts", "forwards", "cut", "ended"}
        /\ queue' \in Seq({"ready", "gone"}) /\ Len(queue') <= QueueCapacity /\ shown' = shown
    BY <1>4, EmitType DEF Publish, streamVars, TypeInv, PaneTypeOK
  <2>. QED BY <1>1, <1>4, <2>1 DEF Publish, TypeInv, PaneTypeOK, readerVars, waitVars
<1> QED BY <1>2, <1>3, <1>4 DEF Steps

LEMMA DropType ==
  ASSUME TypeInv, NEW reason \in {"closed", "exited"}, Drop(reason), UNCHANGED <<readerVars, todo>>,
         inbox' \in Seq({"data", "closed", "reaped"})
  PROVE  TypeInv'
<1>1. /\ stream' \in {"off", "starts", "forwards", "cut", "ended"}
      /\ queue' \in Seq({"ready", "gone"}) /\ Len(queue') <= QueueCapacity /\ shown' = shown
  BY EmitType DEF Drop, TypeInv
<1>2. waits' \in [Waits -> Statuses]
  BY DEF Drop, TypeInv, PaneTypeOK, Statuses
<1> QED BY <1>1, <1>2 DEF Drop, TypeInv, PaneTypeOK, readerVars

\* Handlers that set out to do a list of steps and change no types else.
LEMMA LoopType ==
  ASSUME TypeInv, UNCHANGED <<readerVars, pane, exit, published, streamVars>>,
         inbox' \in Seq({"data", "closed", "reaped"}), flag' \in BOOLEAN,
         todo' \in Lists \/ todo' = todo,
         need' \in [Waits -> 0..MaxRevision], waits' \in [Waits -> Statuses]
  PROVE  TypeInv'
<1>1. todo' \in Seq(Names) /\ Len(todo') <= 5
  BY Handlers DEF TypeInv, PaneTypeOK
<1> QED BY <1>1 DEF TypeInv, PaneTypeOK, readerVars, streamVars

LEMMA HandlersType ==
  ASSUME TypeInv, Handle \/ ExitDeadline \/ Tick \/ Rearm PROVE TypeInv'
<1>. /\ inbox \in Seq({"data", "closed", "reaped"}) /\ flag \in BOOLEAN
     /\ need \in [Waits -> 0..MaxRevision] /\ waits \in [Waits -> Statuses]
  BY DEF TypeInv, PaneTypeOK
<1>1. CASE HandleData
  <2>1. inbox' \in Seq({"data", "closed", "reaped"})
    BY <1>1, TailType DEF HandleData
  <2>2. UNCHANGED <<readerVars, flag, pane, exit, need, waits, published, streamVars>>
    BY <1>1 DEF HandleData, waitVars
  <2>3. todo' \in Lists
    BY <1>1 DEF HandleData, Lists
  <2>. QED BY <2>1, <2>2, <2>3, LoopType
<1>2. CASE HandleExit
  <2>1. inbox' \in Seq({"data", "closed", "reaped"}) /\ Head(inbox) \in {"data", "closed", "reaped"}
    BY <1>2, TailType DEF HandleExit
  <2>2. CASE Drop("exited")
    BY <1>2, <2>1, <2>2, DropType DEF HandleExit
  <2>3. CASE /\ exit' = IF pane = "open" THEN exit \cup {Head(inbox)} ELSE exit
             /\ UNCHANGED <<pane, waitVars, published, streamVars, flag>>
    <3>1. exit' \in SUBSET {"closed", "reaped"}
      BY <1>2, <2>1, <2>3 DEF HandleExit, TypeInv, PaneTypeOK
    <3>. QED BY <1>2, <2>1, <2>3, <3>1
             DEF HandleExit, TypeInv, PaneTypeOK, readerVars, waitVars, streamVars
  <2>. QED BY <1>2, <2>2, <2>3 DEF HandleExit
<1>3. CASE ExitDeadline
  BY <1>3, DropType DEF ExitDeadline
<1>4. CASE Tick
  <2>1. UNCHANGED <<readerVars, flag, inbox, pane, exit, need, waits, published, streamVars>>
    BY <1>4 DEF Tick, waitVars
  <2>2. todo' \in Lists
    BY <1>4 DEF Tick, Lists
  <2>. QED BY <2>1, <2>2, LoopType
<1>5. CASE Rearm
  <2>1. /\ UNCHANGED <<readerVars, inbox, pane, exit, need, waits, published, streamVars>>
        /\ flag' \in BOOLEAN
    BY <1>5 DEF Rearm, waitVars
  <2>2. todo' \in Lists
    BY <1>5 DEF Rearm, Lists
  <2>. QED BY <2>1, <2>2, LoopType
<1> QED BY <1>1, <1>2, <1>3, <1>4, <1>5 DEF Handle

LEMMA RegisterType ==
  ASSUME TypeInv, NEW w \in Waits, NEW n \in 1..MaxRevision, Register(w, n)
  PROVE  need' \in [Waits -> 0..MaxRevision] /\ waits' \in [Waits -> Statuses]
BY PaneAssumption DEF TypeInv, PaneTypeOK, Register, Statuses

LEMMA CallsType == ASSUME TypeInv, Calls PROVE TypeInv'
<1>. /\ inbox \in Seq({"data", "closed", "reaped"}) /\ flag \in BOOLEAN
     /\ need \in [Waits -> 0..MaxRevision] /\ waits \in [Waits -> Statuses]
  BY DEF TypeInv, PaneTypeOK
<1>1. CASE Send
  <2>1. /\ UNCHANGED <<readerVars, inbox, todo, pane, exit, need, waits, published, streamVars>>
        /\ flag' \in BOOLEAN
    BY <1>1 DEF Send, waitVars
  <2>. QED BY <2>1, LoopType
<1>2. CASE Close
  BY <1>2, DropType DEF Close
<1>3. CASE Subscribe
  <2>1. queue' \in Seq({"ready", "gone"}) /\ Len(queue') <= QueueCapacity
    BY <1>3, PaneAssumption DEF Subscribe
  <2>. QED BY <1>3, <2>1 DEF Subscribe, TypeInv, PaneTypeOK, readerVars, waitVars
<1>4. ASSUME NEW w \in TextWaits, NEW n \in 1..MaxRevision, WaitText(w, n) PROVE TypeInv'
  <2>1. need' \in [Waits -> 0..MaxRevision] /\ waits' \in [Waits -> Statuses]
    BY <1>4, RegisterType DEF WaitText, Waits
  <2>2. UNCHANGED <<readerVars, flag, inbox, todo, pane, exit, published, streamVars>>
    BY <1>4 DEF WaitText
  <2>. QED BY <2>1, <2>2, LoopType
<1>5. ASSUME NEW w \in RevisionWaits, NEW n \in 1..MaxRevision, WaitRevision(w, n) PROVE TypeInv'
  <2>1. need' \in [Waits -> 0..MaxRevision] /\ waits' \in [Waits -> Statuses]
    BY <1>5, RegisterType DEF WaitRevision, Waits
  <2>2. UNCHANGED <<readerVars, flag, inbox, pane, exit, published, streamVars>>
    BY <1>5 DEF WaitRevision
  <2>3. todo' \in Lists
    BY <1>5 DEF WaitRevision, Lists
  <2>. QED BY <2>1, <2>2, <2>3, LoopType
<1>6. ASSUME NEW w \in Waits, Expire(w) PROVE TypeInv'
  <2>1. waits' \in [Waits -> Statuses]
    BY <1>6 DEF Expire, Statuses
  <2>2. UNCHANGED <<readerVars, flag, inbox, todo, pane, exit, need, published, streamVars>>
    BY <1>6 DEF Expire
  <2>. QED BY <2>1, <2>2, LoopType
<1> QED BY <1>1, <1>2, <1>3, <1>4, <1>5, <1>6 DEF Calls

LEMMA StreamType == ASSUME TypeInv, StreamStep PROVE TypeInv'
<1>. queue \in Seq({"ready", "gone"}) /\ Len(queue) <= QueueCapacity
  BY DEF TypeInv, PaneTypeOK
<1>1. queue' \in Seq({"ready", "gone"}) /\ Len(queue') <= QueueCapacity
  <2>1. CASE UNCHANGED queue
    BY <2>1
  <2>2. CASE queue # <<>> /\ queue' = Tail(queue)
    <3>1. queue' \in Seq({"ready", "gone"}) /\ Len(queue') <= Len(queue)
      BY <2>2, TailType
    <3>2. Len(queue') \in Nat /\ Len(queue) \in Nat
      BY <3>1, LenProperties
    <3>. QED BY <3>1, <3>2, PaneAssumption
  <2>. QED BY <2>1, <2>2 DEF StreamStep, FirstFrame, Forward
<1>2. shown' \in 0..revision
  BY DEF StreamStep, FirstFrame, Forward, Forwarder, TypeInv, PaneTypeOK
<1> QED BY <1>1, <1>2 DEF StreamStep, FirstFrame, Forward, Forwarder, TypeInv, PaneTypeOK, readerVars, waitVars

LEMMA TypeStep == TypeInv /\ [PaneNext]_paneVars => TypeInv'
<1> SUFFICES ASSUME TypeInv, [PaneNext]_paneVars PROVE TypeInv'
  OBVIOUS
<1>1. CASE UNCHANGED paneVars
  BY <1>1 DEF paneVars, readerVars, waitVars, streamVars, TypeInv, PaneTypeOK
<1> QED BY <1>1, ReaderType, StepsType, HandlersType, CallsType, StreamType DEF PaneNext

-----------------------------------------------------------------------------
(* Output that is not published has somebody who will come for it          *)

\* The reasons of TailOwed.
Owed == reader = "announces" \/ flag \/ Has(inbox, "data") \/ Has(todo, "publish")

LEMMA TailIsOwed ==
  TailOwed <=> (Undisturbed /\ pane = "open" /\ published # revision => Owed)
BY DEF TailOwed, Owed, Has

\* Writes are counted and waits are not taken back: a pane that is open and
\* undisturbed has always been so.
LEMMA OnceDisturbed ==
  ASSUME TypeInv, sends \in Nat, [PaneNext]_paneVars, Undisturbed', pane' = "open"
  PROVE  Undisturbed /\ pane = "open"
<1>. waits \in [Waits -> Statuses]
  BY DEF TypeInv, PaneTypeOK
<1>1. CASE ReaderStep \/ StreamStep \/ HandleData \/ Tick \/ Rearm \/ Clear \/ Publish \/ Subscribe
  BY <1>1 DEF ReaderStep, Produce, Announce, EndOfFile, Reap, StreamStep, FirstFrame, Forward,
              Forwarder, HandleData, Tick, Rearm, Clear, Publish, Subscribe, Undisturbed, waitVars
<1>2. CASE HandleExit
  BY <1>2 DEF HandleExit, Drop, Undisturbed, waitVars
<1>3. CASE ExitDeadline \/ Close
  BY <1>3 DEF ExitDeadline, Close, Drop
<1>4. CASE Check
  BY <1>4 DEF Check, Answer, Undisturbed
<1>5. CASE Send
  BY <1>5 DEF Send, Undisturbed
<1>6. ASSUME NEW w \in Waits, NEW n, Register(w, n) PROVE FALSE
  <2>1. waits'[w] # "new"
    BY <1>6 DEF Register
  <2>. QED BY <2>1 DEF Undisturbed
<1>7. ASSUME NEW w \in Waits, Expire(w) PROVE FALSE
  <2>1. waits'[w] # "new"
    BY <1>7 DEF Expire
  <2>. QED BY <2>1 DEF Undisturbed
<1>8. CASE Calls
  BY <1>1, <1>3, <1>5, <1>6, <1>7, <1>8 DEF Calls, WaitText, WaitRevision, Waits
<1>9. CASE UNCHANGED paneVars
  BY <1>9 DEF paneVars, waitVars, Undisturbed
<1> QED BY <1>1, <1>2, <1>3, <1>4, <1>8, <1>9 DEF PaneNext, Handle, Steps

LEMMA SendsStep == sends \in Nat /\ [PaneNext]_paneVars => sends' \in Nat
BY DEF PaneNext, ReaderStep, Produce, Announce, EndOfFile, Reap, Handle, HandleData, HandleExit,
       ExitDeadline, Tick, Rearm, Calls, Send, Close, Subscribe, WaitText, WaitRevision, Expire,
       Steps, Check, Clear, Publish, StreamStep, FirstFrame, Forward, Forwarder, paneVars

\* Who is undisturbed waits for nothing.
LEMMA NobodyParked == ASSUME Undisturbed, NEW S \in SUBSET Waits PROVE Parked(S) = {}
BY DEF Undisturbed, Parked

LEMMA OwedStep ==
  ASSUME TypeInv, sends \in Nat, TailOwed, [PaneNext]_paneVars
  PROVE  TailOwed'
<1> SUFFICES ASSUME Undisturbed', pane' = "open", published' # revision' PROVE Owed'
  BY TailIsOwed DEF TailOwed, Owed, Has
<1>. Undisturbed /\ pane = "open"
  BY OnceDisturbed
<1>. inbox \in Seq({"data", "closed", "reaped"}) /\ todo \in Seq(Names)
  BY DEF TypeInv, PaneTypeOK
<1>0. published # revision => Owed
  BY TailIsOwed
<1>1. CASE Produce
  BY <1>1 DEF Produce, Owed
<1>2. CASE Announce
  BY <1>2 DEF Announce, Owed
<1>3. CASE EndOfFile \/ Reap
  <2>1. UNCHANGED <<revision, published, flag, todo>> /\ (reader = "announces" => reader' = reader)
    BY <1>3 DEF EndOfFile, Reap
  <2>2. Has(inbox, "data") => Has(inbox', "data")
    BY <1>3, AppendKeeps DEF EndOfFile, Reap
  <2>. QED BY <1>0, <2>1, <2>2 DEF Owed
<1>4. CASE HandleData \/ Rearm
  <2>1. todo' = Text \o OutputChanged \/ todo' = OutputChanged
    BY <1>4 DEF HandleData, Rearm
  <2>. QED BY <2>1, Handlers DEF Owed
<1>5. CASE HandleExit
  <2>1. UNCHANGED <<revision, published, flag, todo, reader>>
    BY <1>5 DEF HandleExit, Drop, readerVars
  <2>2. Has(inbox, "data") => Has(inbox', "data")
    BY <1>5, TailKeeps DEF HandleExit
  <2>. QED BY <1>0, <2>1, <2>2 DEF Owed
<1>6. CASE ExitDeadline
  BY <1>6 DEF ExitDeadline, Drop
<1>7. CASE Tick
  BY <1>7, NobodyParked DEF Tick
<1>8. CASE Check
  <2>1. UNCHANGED <<revision, published, flag, inbox, reader>>
    BY <1>8 DEF Check, readerVars
  <2>2. Has(todo, "publish") => Has(todo', "publish")
    BY <1>8, TailKeeps DEF Check, Step
  <2>. QED BY <1>0, <2>1, <2>2 DEF Owed
<1>9. CASE Clear
  <2>1. UNCHANGED <<revision, published, inbox, reader>>
    BY <1>9 DEF Clear, readerVars
  <2>2. Has(todo, "publish") => Has(todo', "publish")
    BY <1>9, TailKeeps DEF Clear, Step
  <2>3. Parked(TextWaits) = {} /\ Parked(RevisionWaits) = {}
    BY NobodyParked DEF Waits
  <2>4. flag => flag'
    BY <1>9, <2>3 DEF Clear
  <2>. QED BY <1>0, <2>1, <2>2, <2>4 DEF Owed
<1>10. CASE Publish
  BY <1>10 DEF Publish, readerVars
<1>11. CASE Calls
  <2>1. ~ Send
    BY DEF Send, Undisturbed
  <2>2. \A w \in Waits : waits'[w] = "new"
    BY DEF Undisturbed
  <2>3. ASSUME NEW w \in Waits, NEW n, Register(w, n) PROVE FALSE
    <3>. waits \in [Waits -> Statuses]
      BY DEF TypeInv, PaneTypeOK
    <3>1. waits'[w] # "new"
      BY <2>3 DEF Register
    <3>. QED BY <2>2, <3>1
  <2>4. ~ \E w \in Waits : Expire(w)
    BY DEF Expire, Undisturbed
  <2>5. ~ Close
    BY DEF Close, Drop
  <2>6. Subscribe
    BY <1>11, <2>1, <2>3, <2>4, <2>5 DEF Calls, WaitText, WaitRevision, Waits
  <2>. QED BY <1>0, <2>6 DEF Subscribe, Owed, readerVars
<1>12. CASE StreamStep \/ UNCHANGED paneVars
  BY <1>0, <1>12 DEF StreamStep, FirstFrame, Forward, Forwarder, paneVars, Owed, readerVars
<1> QED BY <1>1, <1>2, <1>3, <1>4, <1>5, <1>6, <1>7, <1>8, <1>9, <1>10, <1>11, <1>12
        DEF PaneNext, ReaderStep, Handle, Steps

\* Output that was coalesced is fetched: as long as nobody writes to the pane or
\* waits for its text, what is not published is announced, flagged or about to
\* be published, wherever the reader runs between the steps of the loop
\* (rearm_pty_notify_by_visibility, backend_output_changed).
THEOREM OutputIsOwed == PaneSpec => []PaneSafe
<1> DEFINE IInv == TypeInv /\ sends \in Nat /\ TailOwed
<1>1. PaneInit => IInv
  BY InitType DEF PaneInit, TailOwed
<1>2. IInv /\ [PaneNext]_paneVars => IInv'
  BY TypeStep, SendsStep, OwedStep
<1>3. IInv => PaneSafe
  BY DEF TypeInv, PaneSafe
<1> QED BY <1>1, <1>2, <1>3, PTL DEF PaneSpec


-----------------------------------------------------------------------------
(* The inductive invariant of FrameDelivery                                *)

\* What a client has with what is on its way is the base of its next diff.
Based(s, reflow, painted, written, waiting) ==
  s.base # None /\ ~ s.full /\ ~ s.behind /\ ~ reflow
    => Apply(Apply(painted, written), waiting) = s.base

Value == -1..MaxOutput + MaxUi

LinkTypes ==
  /\ client \in [Clients -> States \cup {None}]
  /\ slot \in [Clients -> Frames \cup {None}]
  /\ writing \in [Clients -> Frames \cup {None}]
  /\ screen \in [Clients -> Buffers] /\ resized \in [Clients -> BOOLEAN]

\* Every client of the whole session is visible, and a hidden surface starts
\* with a full frame when it is shown.
LinkOK(c) ==
  /\ client[c].behind => ~ client[c].ready
  /\ client[c].projected \/ client[c].active
  /\ client[c].active \/ client[c].full
  /\ Based(client[c], resized[c], screen[c], writing[c], slot[c])

LinkInv == LinkTypes /\ \A c \in Attached : LinkOK(c)

ForegroundOK ==
  /\ foreground \in Whole \cup {None}
  /\ (foreground = None) = (Whole = {})

\* Counters of changes: rows change with the generation.
Counted ==
  /\ \A r \in Rows : content[r] <= generation
  /\ content["chrome"] <= MaxUi

LoopTypes ==
  /\ content \in [Cells -> Nat] /\ damage \subseteq Rows
  /\ generation \in 0..MaxOutput /\ announced \in BOOLEAN
  /\ awake \in BOOLEAN /\ pass \in Passes \cup {None}
  /\ request \subseteq {"pty", "ui", "forced", "resync", "client"}
  /\ Counted

\* A row that changed since the pass in progress captured the damage.
Changed(x) == x \in damage /\ pass.generation # generation

\* What a client retains that this pass has been to, and has still to go to.
Visited(c) == \A x \in Cells : client[c].buf[x] = content[x] \/ Changed(x)
Unvisited(c) ==
  \A x \in Cells : \/ client[c].buf[x] = content[x]
                   \/ x \in damage
                   \/ x = "chrome" /\ pass.patch = None

\* The patch has every damaged row as it is, but for what changed since.
PatchHolds ==
  /\ \A x \in DOMAIN pass.patch : pass.patch[x] = content[x] \/ Changed(x)
  /\ \A x \in damage : x \in DOMAIN pass.patch \/ Changed(x)

PassHolds ==
  pass # None =>
    /\ pass.todo \subseteq Surfaces /\ pass.generation <= generation
    /\ \A c \in Surfaces : MayPatch(client[c]) =>
         IF c \in pass.todo THEN Unvisited(c) ELSE Visited(c)
    /\ pass.patch # None => PatchHolds

ViewInv == RetainedFresh /\ PassHolds

FrameInv == LinkInv /\ ForegroundOK /\ LoopTypes /\ ViewInv

LEMMA FrameInvIsSafe ==
  ASSUME FrameInv
  PROVE  FrameSafe
<1>1. TypeOK
  BY DEF FrameInv, LinkInv, LinkTypes, LinkOK, ForegroundOK, LoopTypes, TypeOK
<1>2. BaselineHolds
  BY DEF FrameInv, LinkInv, LinkOK, BaselineHolds, Based
<1> QED BY <1>1, <1>2 DEF FrameSafe, FrameInv, ViewInv


-----------------------------------------------------------------------------
(* Frames                                                                  *)

LEMMA IsFrame ==
  ASSUME NEW frame \in Frames
  PROVE  /\ frame # None /\ DOMAIN frame \subseteq Cells
         /\ frame \in [DOMAIN frame -> Value]
BY FrameAssumption DEF Frames, Value

LEMMA AFrame ==
  ASSUME NEW some \in SUBSET Cells, NEW frame \in [some -> Value]
  PROVE  frame \in Frames
BY DEF Frames, Value

LEMMA ApplyType ==
  ASSUME NEW painted \in Buffers, NEW frame \in Frames \cup {None}
  PROVE  Apply(painted, frame) \in Buffers
<1>1. CASE frame = None
  BY <1>1 DEF Apply
<1>2. CASE frame # None
  <2>1. frame \in [DOMAIN frame -> Value]
    BY <1>2, IsFrame
  <2>2. ASSUME NEW x \in Cells
        PROVE  (IF x \in DOMAIN frame THEN frame[x] ELSE painted[x]) \in Value
    BY <2>1 DEF Buffers, Value
  <2>3. Apply(painted, frame)
          = [x \in Cells |-> IF x \in DOMAIN frame THEN frame[x] ELSE painted[x]]
    BY <1>2 DEF Apply
  <2> QED BY <2>2, <2>3 DEF Buffers, Value
<1> QED BY <1>1, <1>2

LEMMA FrameType ==
  ASSUME NEW full \in BOOLEAN, NEW base, NEW buf \in Buffers
  PROVE  FrameOf(full, base, buf) \in Frames
<1> DEFINE some == {y \in Cells : full \/ buf[y] # base[y]}
<1>1. FrameOf(full, base, buf) \in [some -> Value]
  BY DEF FrameOf, Buffers, Value
<1> QED BY <1>1, AFrame

\* A full frame replaces everything, and a diff what differs.
LEMMA FrameApplies ==
  ASSUME NEW full \in BOOLEAN, NEW base, NEW buf \in Buffers,
         NEW painted \in Buffers, full \/ painted = base
  PROVE  Apply(painted, FrameOf(full, base, buf)) = buf
<1> DEFINE frame == FrameOf(full, base, buf)
<1>1. frame # None
  BY FrameType, IsFrame
<1>2. /\ DOMAIN frame = {y \in Cells : full \/ buf[y] # base[y]}
      /\ \A x \in DOMAIN frame : frame[x] = buf[x]
  BY DEF FrameOf
<1> HIDE DEF frame
<1>3. ASSUME NEW x \in Cells
      PROVE  (IF x \in DOMAIN frame THEN frame[x] ELSE painted[x]) = buf[x]
  BY <1>2
<1>4. Apply(painted, frame) = [x \in Cells |-> buf[x]]
  BY <1>1, <1>3 DEF Apply
<1>5. buf = [x \in Cells |-> buf[x]]
  BY DEF Buffers
<1> QED BY <1>4, <1>5 DEF frame

LEMMA ContentType ==
  ASSUME FrameInv
  PROVE  content \in Buffers
<1>1. /\ content \in [Cells -> Nat] /\ generation \in 0..MaxOutput
      /\ \A r \in Rows : content[r] <= generation
      /\ content["chrome"] <= MaxUi
  BY DEF FrameInv, LoopTypes, Counted
<1>2. MaxOutput \in Nat /\ MaxUi \in Nat
  BY FrameAssumption
<1>3. ASSUME NEW x \in Cells PROVE content[x] \in Value
  <2>1. content[x] \in Nat
    BY <1>1
  <2>2. CASE x \in Rows
    BY <1>1, <1>2, <2>1, <2>2 DEF Value
  <2>3. CASE x = "chrome"
    BY <1>1, <1>2, <2>1, <2>3 DEF Value
  <2> QED BY <2>2, <2>3 DEF Cells
<1> QED BY <1>1, <1>3 DEF Buffers, Value

-----------------------------------------------------------------------------
(* Rendering one client                                                    *)

LEMMA Typed ==
  ASSUME FrameInv
  PROVE  /\ client \in [Clients -> States \cup {None}]
         /\ slot \in [Clients -> Frames \cup {None}]
         /\ writing \in [Clients -> Frames \cup {None}]
         /\ screen \in [Clients -> Buffers] /\ resized \in [Clients -> BOOLEAN]
         /\ \A c \in Attached :
              /\ c \in Clients /\ client[c] # None /\ client[c] \in States
              /\ client[c].behind => ~ client[c].ready
              /\ client[c].projected \/ client[c].active
              /\ client[c].active \/ client[c].full
              /\ Based(client[c], resized[c], screen[c], writing[c], slot[c])
<1>1. ASSUME NEW c \in Attached
      PROVE  c \in Clients /\ client[c] # None /\ client[c] \in States
  BY DEF Attached, FrameInv, LinkInv, LinkTypes
<1> QED BY <1>1 DEF FrameInv, LinkInv, LinkTypes, LinkOK

\* A step touches nobody else, and leaves the client in state s with the
\* frame waiting in its slot.
Gets(c, s, waiting) ==
  /\ client' = [client EXCEPT ![c] = s]
  /\ slot' = [slot EXCEPT ![c] = waiting]

\* What rendering a buffer makes of the client.
RenderedAs(c, buf, s, waiting) ==
  /\ s \in States /\ waiting \in Frames \cup {None}
  /\ s.buf = buf
  /\ s.active = client[c].active /\ s.projected = client[c].projected
  /\ s.behind => ~ s.ready
  /\ Based(s, resized[c], screen[c], writing[c], waiting)

Retained(c, patch) ==
  IF patch # None /\ MayPatch(client[c]) THEN Apply(client[c].buf, patch)
  ELSE content

LEMMA RenderOne ==
  ASSUME FrameInv, NEW c \in Attached, NEW forced \in BOOLEAN,
         NEW patch \in Frames \cup {None}, RenderClient(c, forced, patch)
  PROVE  \E s, waiting : /\ Gets(c, s, waiting)
                         /\ RenderedAs(c, Retained(c, patch), s, waiting)
<1> DEFINE old == client[c]
           buf == Retained(c, patch)
           full == forced \/ old.full \/ old.behind \/ old.base = None
           next == [old EXCEPT !.buf = buf, !.base = buf,
                               !.ready = ~ old.projected]
           frame == FrameOf(full, old.base, buf)
<1>1. /\ c \in Clients /\ old \in States
      /\ old.behind => ~ old.ready
      /\ Based(old, resized[c], screen[c], writing[c], slot[c])
      /\ slot[c] \in Frames \cup {None}
      /\ slot \in [Clients -> Frames \cup {None}]
      /\ writing[c] \in Frames \cup {None} /\ screen[c] \in Buffers
  BY Typed
<1>2. buf \in Buffers
  <2>1. old.buf \in Buffers
    BY <1>1 DEF States
  <2> QED BY <2>1, ApplyType, ContentType DEF Retained
<1>3. IF ~ full /\ buf = old.base
      THEN client' = [client EXCEPT ![c] = next] /\ UNCHANGED slot
      ELSE SendFrame(c, next, frame)
  BY DEF RenderClient, Retained
<1>4. /\ next \in States /\ next.buf = buf /\ next.base = buf
      /\ next.active = old.active /\ next.projected = old.projected
      /\ next.full = old.full /\ next.behind = old.behind
      /\ full \in BOOLEAN /\ old.base \in Buffers \cup {None}
  BY <1>1, <1>2 DEF States
<1>5. frame \in Frames
  BY <1>2, <1>4, FrameType
<1>6. Apply(screen[c], writing[c]) \in Buffers
  BY <1>1, ApplyType
<1> HIDE DEF next, frame, buf
<1>7. CASE ~ full /\ buf = old.base
  <2>1. Gets(c, next, slot[c])
    BY <1>1, <1>3, <1>7 DEF Gets
  <2>2. ~ next.behind
    BY <1>4, <1>7
  <2>3. Based(next, resized[c], screen[c], writing[c], slot[c])
    BY <1>1, <1>4, <1>7 DEF Based
  <2>4. RenderedAs(c, buf, next, slot[c])
    BY <1>1, <1>4, <2>2, <2>3 DEF RenderedAs
  <2> QED BY <2>1, <2>4 DEF buf
<1>8. CASE ~ (~ full /\ buf = old.base) /\ slot[c] = None
  <2> DEFINE s == [next EXCEPT !.behind = FALSE, !.full = FALSE]
  <2>1. Gets(c, s, frame)
    BY <1>3, <1>8 DEF Gets, SendFrame
  <2>2. /\ s \in States /\ s.buf = buf /\ s.base = buf /\ ~ s.behind
        /\ s.active = old.active /\ s.projected = old.projected
    BY <1>4 DEF States
  <2> HIDE DEF s
  <2>3. Based(s, resized[c], screen[c], writing[c], frame)
    <3>1. SUFFICES ASSUME ~ resized[c]
                   PROVE  Apply(Apply(screen[c], writing[c]), frame) = s.base
      BY DEF Based
    <3>2. full \/ Apply(screen[c], writing[c]) = old.base
      <4>1. SUFFICES ASSUME ~ full PROVE Apply(screen[c], writing[c]) = old.base
        OBVIOUS
      <4>2. Apply(Apply(screen[c], writing[c]), slot[c]) = old.base
        BY <1>1, <3>1, <4>1 DEF Based
      <4> QED BY <1>8, <4>2 DEF Apply
    <3>3. full \in BOOLEAN /\ s.base = buf
      BY <1>4, <2>2
    <3> HIDE DEF full, old
    <3>4. Apply(Apply(screen[c], writing[c]), FrameOf(full, old.base, buf))
            = buf
      BY <1>2, <1>6, <3>2, <3>3, FrameApplies
    <3> QED BY <3>3, <3>4 DEF frame
  <2>4. RenderedAs(c, buf, s, frame)
    BY <1>5, <2>2, <2>3 DEF RenderedAs
  <2> QED BY <2>1, <2>4 DEF buf
<1>9. CASE ~ (~ full /\ buf = old.base) /\ slot[c] # None
  <2> DEFINE s == [next EXCEPT !.behind = TRUE, !.ready = FALSE]
  <2>1. Gets(c, s, slot[c])
    BY <1>1, <1>3, <1>9 DEF Gets, SendFrame
  <2>2. /\ s \in States /\ s.buf = buf /\ ~ s.ready /\ s.behind
        /\ s.active = old.active /\ s.projected = old.projected
    BY <1>4 DEF States
  <2> HIDE DEF s
  <2>3. Based(s, resized[c], screen[c], writing[c], slot[c])
    BY <2>2 DEF Based
  <2>4. RenderedAs(c, buf, s, slot[c])
    BY <1>1, <2>2, <2>3 DEF RenderedAs
  <2> QED BY <2>1, <2>4 DEF buf
<1> QED BY <1>7, <1>8, <1>9

-----------------------------------------------------------------------------
(* What steps leave alone                                                  *)

LEMMA AttachedTyped ==
  ASSUME LinkInv, NEW c \in Attached
  PROVE  c \in Clients /\ client[c] # None /\ client[c] \in States
BY DEF LinkInv, LinkTypes, Attached

\* A step that concerns one client.
LEMMA LinkOne ==
  ASSUME LinkInv, NEW c \in Clients, LinkTypes',
         \A d \in Clients \ {c} :
            /\ client'[d] = client[d] /\ slot'[d] = slot[d]
            /\ writing'[d] = writing[d] /\ screen'[d] = screen[d]
            /\ resized'[d] = resized[d],
         client'[c] # None => LinkOK(c)'
  PROVE  LinkInv'
<1>1. ASSUME NEW d \in Attached' PROVE LinkOK(d)'
  <2>1. CASE d = c
    BY <2>1 DEF Attached
  <2>2. CASE d # c
    <3>1. d \in Attached /\ d \in Clients \ {c}
      BY <2>2 DEF Attached
    <3> QED BY <3>1 DEF LinkInv, LinkOK
  <2> QED BY <2>1, <2>2
<1> QED BY <1>1 DEF LinkInv

LEMMA LinkSame ==
  ASSUME LinkInv, UNCHANGED <<client, linkVars>>
  PROVE  LinkInv'
<1>1. /\ client' = client /\ slot' = slot /\ writing' = writing
      /\ screen' = screen /\ resized' = resized
  BY DEF linkVars
<1>2. Attached' = Attached
  BY <1>1 DEF Attached
<1>3. LinkTypes'
  BY <1>1 DEF LinkInv, LinkTypes
<1>4. ASSUME NEW d \in Attached PROVE LinkOK(d)'
  BY <1>1 DEF LinkInv, LinkOK
<1> QED BY <1>2, <1>3, <1>4 DEF LinkInv

LEMMA ForegroundSame ==
  ASSUME ForegroundOK, foreground' = foreground, LinkInv,
         \A d \in Clients : /\ (client'[d] = None) <=> (client[d] = None)
                            /\ client[d] # None
                                 => client'[d].projected = client[d].projected
  PROVE  ForegroundOK'
<1>1. Whole' = Whole
  BY DEF Whole, Attached
<1> QED BY <1>1 DEF ForegroundOK

\* Whoever may be patched afterwards could be before, with the same buffer.
LEMMA ViewSame ==
  ASSUME ViewInv, content' = content, damage' = damage,
         generation' = generation, pass' = pass, request \subseteq request',
         \A d \in Surfaces' : MayPatch(client[d])' =>
            d \in Surfaces /\ MayPatch(client[d]) /\ client'[d].buf = client[d].buf,
         pass # None => Surfaces' = Surfaces
  PROVE  ViewInv'
<1>1. RetainedFresh'
  BY DEF ViewInv, RetainedFresh
<1>2. PassHolds'
  <2>1. SUFFICES ASSUME pass # None PROVE PassHolds'
    BY DEF PassHolds
  <2>2. pass.todo \subseteq Surfaces' /\ pass.generation <= generation
    BY <2>1 DEF ViewInv, PassHolds
  <2>3. ASSUME NEW d \in Surfaces', MayPatch(client[d])'
        PROVE  IF d \in pass.todo THEN Unvisited(d)' ELSE Visited(d)'
    <3>1. /\ d \in Surfaces /\ MayPatch(client[d])
          /\ client'[d].buf = client[d].buf
      BY <2>3
    <3>2. IF d \in pass.todo THEN Unvisited(d) ELSE Visited(d)
      BY <2>1, <3>1 DEF ViewInv, PassHolds
    <3>3. Unvisited(d) => Unvisited(d)'
      BY <3>1 DEF Unvisited
    <3>4. Visited(d) => Visited(d)'
      BY <3>1 DEF Visited, Changed
    <3> QED BY <3>2, <3>3, <3>4
  <2>4. pass.patch # None => PatchHolds'
    BY <2>1 DEF ViewInv, PassHolds, PatchHolds, Changed
  <2> QED BY <2>1, <2>2, <2>3, <2>4 DEF PassHolds
<1> QED BY <1>1, <1>2 DEF ViewInv

\* A step of the loop that neither renders nor forgets a reason to.
LEMMA LoopRests ==
  ASSUME FrameInv, UNCHANGED <<content, damage, generation, pass, foreground,
                               client, linkVars>>,
         announced' \in BOOLEAN, awake' \in BOOLEAN, request \subseteq request',
         request' \subseteq {"pty", "ui", "forced", "resync", "client"}
  PROVE  FrameInv'
<1>1. LinkInv /\ ForegroundOK /\ LoopTypes /\ ViewInv
  BY DEF FrameInv
<1>2. LinkInv'
  BY <1>1, LinkSame
<1>3. ForegroundOK'
  BY <1>1, ForegroundSame
<1>4. LoopTypes'
  BY <1>1 DEF LoopTypes, Counted
<1>5. Surfaces' = Surfaces
  BY DEF Surfaces, Attached
<1>6. ViewInv'
  <2>1. \A d \in Surfaces' : MayPatch(client[d])' =>
          d \in Surfaces /\ MayPatch(client[d]) /\ client'[d].buf = client[d].buf
    BY <1>5 DEF MayPatch
  <2> QED BY <1>1, <1>5, <2>1, ViewSame
<1> QED BY <1>2, <1>3, <1>4, <1>6 DEF FrameInv

\* A step that changes what clients are or have, and shows them nothing new.
LEMMA ClientsRest ==
  ASSUME FrameInv, LinkInv', ForegroundOK', UNCHANGED <<contentVars, pass>>,
         awake' \in BOOLEAN, request \subseteq request',
         request' \subseteq {"pty", "ui", "forced", "resync", "client"},
         \A d \in Surfaces' : MayPatch(client[d])' =>
            d \in Surfaces /\ MayPatch(client[d]) /\ client'[d].buf = client[d].buf,
         pass # None => Surfaces' = Surfaces
  PROVE  FrameInv'
<1>1. /\ content' = content /\ damage' = damage /\ generation' = generation
      /\ announced' = announced /\ pass' = pass
  BY DEF contentVars
<1>2. LoopTypes'
  BY <1>1 DEF FrameInv, LoopTypes, Counted
<1>3. ViewInv'
  BY <1>1, ViewSame DEF FrameInv
<1> QED BY <1>2, <1>3 DEF FrameInv

-----------------------------------------------------------------------------
(* Terminals and events                                                    *)

LEMMA OutputStep ==
  ASSUME FrameInv, NEW r \in Rows, Output(r)
  PROVE  FrameInv'
<1>1. /\ generation < MaxOutput /\ generation' = generation + 1
      /\ content' = [content EXCEPT ![r] = @ + 1] /\ damage' = damage \cup {r}
      /\ announced' = TRUE /\ awake' = awake /\ request' = request
      /\ pass' = pass /\ foreground' = foreground
      /\ client' = client /\ UNCHANGED linkVars
  BY DEF Output, loopVars
<1>2. LinkInv'
  BY <1>1, LinkSame DEF FrameInv
<1>3. ForegroundOK'
  BY <1>1, ForegroundSame DEF FrameInv
<1>4. content \in [Cells -> Nat] /\ generation \in 0..MaxOutput /\ damage \subseteq Rows
  BY DEF FrameInv, LoopTypes
<1>5. \A x \in Cells : x # r => content'[x] = content[x]
  BY <1>1, <1>4
<1>6. "chrome" # r /\ r \in Cells /\ MaxOutput \in Nat
  BY FrameAssumption DEF Cells
<1>7. LoopTypes'
  <2>1. /\ content' \in [Cells -> Nat] /\ damage' \subseteq Rows
        /\ generation' \in 0..MaxOutput
    BY <1>1, <1>4, <1>6
  <2>2. content'[r] = content[r] + 1
    BY <1>1, <1>4, <1>6
  <2>3. Counted'
    BY <1>1, <1>4, <1>5, <1>6, <2>2 DEF FrameInv, LoopTypes, Counted, Cells
  <2> QED BY <1>1, <2>1, <2>3 DEF FrameInv, LoopTypes
<1>8. Surfaces' = Surfaces
  BY <1>1 DEF Surfaces, Attached
<1>9. RetainedFresh'
  BY <1>1, <1>5, <1>8 DEF FrameInv, ViewInv, RetainedFresh, MayPatch
<1>10. PassHolds'
  <2>1. SUFFICES ASSUME pass # None PROVE PassHolds'
    BY <1>1 DEF PassHolds
  <2>2. /\ pass.todo \subseteq Surfaces /\ pass.generation <= generation
        /\ pass.generation \in Nat
    BY <2>1 DEF FrameInv, ViewInv, PassHolds, LoopTypes, Passes
  <2>3. pass.generation # generation' /\ pass.generation <= generation'
    BY <1>1, <1>4, <2>2
  <2>4. \A x : Changed(x)' <=> x \in damage'
    BY <1>1, <2>3 DEF Changed
  <2>5. ASSUME NEW c \in Surfaces, MayPatch(client[c])
        PROVE  IF c \in pass.todo THEN Unvisited(c)' ELSE Visited(c)'
    <3>1. IF c \in pass.todo THEN Unvisited(c) ELSE Visited(c)
      BY <2>1, <2>5 DEF FrameInv, ViewInv, PassHolds
    <3>2. CASE c \in pass.todo
      BY <1>1, <1>5, <3>1, <3>2 DEF Unvisited
    <3>3. CASE c \notin pass.todo
      <4>1. ASSUME NEW x \in Cells
            PROVE  client[c].buf[x] = content'[x] \/ x \in damage'
        BY <1>1, <1>5, <3>1, <3>3 DEF Visited, Changed
      <4> QED BY <1>1, <2>4, <3>3, <4>1 DEF Visited
    <3> QED BY <3>2, <3>3
  <2>6. ASSUME pass.patch # None PROVE PatchHolds'
    <3>1. PatchHolds
      BY <2>1, <2>6 DEF FrameInv, ViewInv, PassHolds
    <3>2. DOMAIN pass.patch \subseteq Cells
      BY <2>1, <2>6, IsFrame DEF FrameInv, LoopTypes, Passes
    <3>3. ASSUME NEW x \in DOMAIN pass.patch
          PROVE  pass.patch[x] = content'[x] \/ x \in damage'
      BY <1>1, <1>5, <3>1, <3>2 DEF PatchHolds, Changed
    <3> QED BY <1>1, <2>4, <3>3 DEF PatchHolds
  <2> QED BY <1>1, <1>8, <2>1, <2>2, <2>3, <2>5, <2>6 DEF PassHolds, MayPatch
<1> QED BY <1>2, <1>3, <1>7, <1>9, <1>10 DEF FrameInv, ViewInv

LEMMA UiStep ==
  ASSUME FrameInv, Ui
  PROVE  FrameInv'
<1>1. PICK cause \in {"ui", "forced"} : Event(cause)
  BY DEF Ui
<1>2. /\ content["chrome"] < MaxUi
      /\ content' = [content EXCEPT !["chrome"] = @ + 1]
      /\ damage' = damage /\ generation' = generation /\ announced' = announced
      /\ pass' = pass /\ foreground' = foreground
      /\ client' = client /\ UNCHANGED linkVars
      /\ pass = None /\ awake' = TRUE /\ request' = request \cup {cause}
  BY <1>1 DEF Ui, Event
<1>3. LinkInv'
  BY <1>2, LinkSame DEF FrameInv
<1>4. ForegroundOK'
  BY <1>2, ForegroundSame DEF FrameInv
<1>5. content \in [Cells -> Nat] /\ "chrome" \in Cells /\ "chrome" \notin Rows
      /\ MaxUi \in Nat
  BY FrameAssumption DEF FrameInv, LoopTypes, Cells
<1>6. \A x \in Cells : x # "chrome" => content'[x] = content[x]
  BY <1>2, <1>5
<1>7. LoopTypes'
  <2>1. content' \in [Cells -> Nat] /\ content'["chrome"] <= MaxUi
    BY <1>2, <1>5
  <2>2. Counted'
    BY <1>2, <1>5, <1>6, <2>1 DEF FrameInv, LoopTypes, Counted, Cells
  <2> QED BY <1>1, <1>2, <2>1, <2>2 DEF FrameInv, LoopTypes
<1>8. Surfaces' = Surfaces
  BY <1>2 DEF Surfaces, Attached
<1>9. RetainedFresh'
  <2>1. request' \cap {"ui", "forced"} # {}
    BY <1>1, <1>2
  <2> QED BY <1>2, <1>6, <1>8, <2>1
          DEF FrameInv, ViewInv, RetainedFresh, MayPatch
<1>10. PassHolds'
  BY <1>2 DEF PassHolds
<1> QED BY <1>3, <1>4, <1>7, <1>9, <1>10 DEF FrameInv, ViewInv

LEMMA LoopStep ==
  ASSUME FrameInv, HandleOutput \/ FrameDue \/ OtherWake \/ Sleep
  PROVE  FrameInv'
<1>1. /\ announced \in BOOLEAN
      /\ request \subseteq {"pty", "ui", "forced", "resync", "client"}
  BY DEF FrameInv, LoopTypes
<1>2. CASE HandleOutput
  BY <1>1, <1>2, LoopRests DEF HandleOutput, Event
<1>3. CASE FrameDue
  BY <1>1, <1>3, LoopRests DEF FrameDue, contentVars
<1>4. CASE OtherWake
  BY <1>1, <1>4, LoopRests DEF OtherWake, contentVars
<1>5. CASE Sleep
  BY <1>1, <1>5, LoopRests DEF Sleep, contentVars, Reasons
<1> QED BY <1>2, <1>3, <1>4, <1>5

-----------------------------------------------------------------------------
(* Clients come, go, and change                                            *)

LEMMA AttachStep ==
  ASSUME FrameInv, NEW c \in Clients, Attach(c)
  PROVE  FrameInv'
<1>1. PICK projected \in BOOLEAN :
        /\ client' = [client EXCEPT ![c] =
              [buf |-> Blank, base |-> None, ready |-> FALSE, full |-> TRUE,
               behind |-> FALSE, active |-> ~ projected,
               projected |-> projected]]
        /\ foreground' = IF projected THEN foreground ELSE c
  BY DEF Attach
<1> DEFINE s == [buf |-> Blank, base |-> None, ready |-> FALSE, full |-> TRUE,
                 behind |-> FALSE, active |-> ~ projected,
                 projected |-> projected]
<1>2. /\ client[c] = None /\ pass = None /\ awake' = TRUE
      /\ request' = request \cup {"client"} /\ UNCHANGED <<contentVars, pass>>
      /\ slot' = [slot EXCEPT ![c] = None]
      /\ writing' = [writing EXCEPT ![c] = None]
      /\ screen' = [screen EXCEPT ![c] = Blank]
      /\ resized' = [resized EXCEPT ![c] = FALSE]
  BY DEF Attach, Event
<1>3. Blank \in Buffers
  BY FrameAssumption DEF Blank, Buffers
<1>4. s \in States /\ s # None
  <2>1. s \in States
    BY <1>3 DEF States
  <2> QED BY <2>1, FrameAssumption
<1>5. /\ s.buf = Blank /\ s.base = None /\ s.ready = FALSE /\ s.full = TRUE
      /\ s.behind = FALSE /\ s.active = ~ projected /\ s.projected = projected
  OBVIOUS
<1>6. client' = [client EXCEPT ![c] = s]
  BY <1>1
<1> HIDE DEF s
<1>7. LinkTypes /\ \A d \in Attached : LinkOK(d)
  BY DEF FrameInv, LinkInv
<1>8. LinkTypes'
  BY <1>2, <1>3, <1>4, <1>6, <1>7 DEF LinkTypes
<1>9. client'[c] = s
  BY <1>6, <1>7 DEF LinkTypes
<1>10. LinkOK(c)'
  BY <1>5, <1>9 DEF LinkOK, Based
<1>11. \A d \in Clients \ {c} :
         /\ client'[d] = client[d] /\ slot'[d] = slot[d]
         /\ writing'[d] = writing[d] /\ screen'[d] = screen[d]
         /\ resized'[d] = resized[d]
  BY <1>2, <1>6, <1>7 DEF LinkTypes
<1>12. LinkInv'
  BY <1>8, <1>10, <1>11, LinkOne DEF FrameInv
<1>13. ForegroundOK'
  <2>1. Whole' = IF projected THEN Whole ELSE Whole \cup {c}
    BY <1>2, <1>4, <1>5, <1>9, <1>11 DEF Whole, Attached
  <2>2. c # None
    BY FrameAssumption
  <2> QED BY <1>1, <2>1, <2>2 DEF FrameInv, ForegroundOK
<1>14. \A d \in Surfaces' : MayPatch(client[d])' =>
         d \in Surfaces /\ MayPatch(client[d]) /\ client'[d].buf = client[d].buf
  <2>1. ~ MayPatch(client[c])'
    BY <1>5, <1>9 DEF MayPatch
  <2> QED BY <1>11, <2>1 DEF Surfaces, Attached, MayPatch
<1>15. request \subseteq {"pty", "ui", "forced", "resync", "client"}
  BY DEF FrameInv, LoopTypes
<1> QED BY <1>2, <1>12, <1>13, <1>14, <1>15, ClientsRest

LEMMA DetachStep ==
  ASSUME FrameInv, NEW c \in Clients, Detach(c)
  PROVE  FrameInv'
<1>1. /\ client[c] # None /\ pass = None /\ awake' = TRUE
      /\ request' \in {request, request \cup {"client"}}
      /\ client' = [client EXCEPT ![c] = None]
      /\ UNCHANGED <<contentVars, pass, linkVars>>
      /\ IF foreground = c
         THEN \/ foreground' \in Whole \ {c}
              \/ Whole = {c} /\ foreground' = None
         ELSE foreground' = foreground
  BY DEF Detach, Event, Wake
<1>2. LinkTypes /\ \A d \in Attached : LinkOK(d)
  BY DEF FrameInv, LinkInv
<1>3. LinkTypes'
  BY <1>1, <1>2 DEF LinkTypes, linkVars
<1>4. client'[c] = None /\ \A d \in Clients \ {c} : client'[d] = client[d]
  BY <1>1, <1>2 DEF LinkTypes
<1>5. LinkInv'
  BY <1>1, <1>3, <1>4, LinkOne DEF FrameInv, linkVars
<1>6. ForegroundOK'
  <2>1. Whole' = Whole \ {c}
    BY <1>1, <1>4 DEF Whole, Attached
  <2>2. None \notin Whole
    BY FrameAssumption DEF Whole, Attached
  <2> QED BY <1>1, <2>1, <2>2 DEF FrameInv, ForegroundOK
<1>7. \A d \in Surfaces' : MayPatch(client[d])' =>
        d \in Surfaces /\ MayPatch(client[d]) /\ client'[d].buf = client[d].buf
  BY <1>4 DEF Surfaces, Attached, MayPatch
<1>8. request \subseteq {"pty", "ui", "forced", "resync", "client"}
  BY DEF FrameInv, LoopTypes
<1> QED BY <1>1, <1>5, <1>6, <1>7, <1>8, ClientsRest

LEMMA ResizeStep ==
  ASSUME FrameInv, NEW c \in Clients, Resize(c)
  PROVE  FrameInv'
<1>1. /\ screen' = [screen EXCEPT ![c] = Blank]
      /\ resized' = [resized EXCEPT ![c] = TRUE]
      /\ UNCHANGED <<contentVars, loopVars, client, slot, writing>>
  BY DEF Resize
<1>2. /\ client' = client /\ slot' = slot /\ writing' = writing
      /\ awake' = awake /\ request' = request /\ pass' = pass
      /\ foreground' = foreground
  BY <1>1 DEF loopVars
<1>3. LinkTypes /\ \A d \in Attached : LinkOK(d)
  BY DEF FrameInv, LinkInv
<1>4. Blank \in Buffers
  BY FrameAssumption DEF Blank, Buffers
<1>5. LinkTypes'
  BY <1>1, <1>2, <1>3, <1>4 DEF LinkTypes
<1>6. resized'[c] = TRUE
      /\ \A d \in Clients \ {c} : screen'[d] = screen[d] /\ resized'[d] = resized[d]
  BY <1>1, <1>3 DEF LinkTypes
<1>7. client'[c] # None => LinkOK(c)'
  BY <1>2, <1>3, <1>6 DEF LinkOK, Based, Attached
<1>8. LinkInv'
  BY <1>2, <1>5, <1>6, <1>7, LinkOne DEF FrameInv
<1>9. ForegroundOK'
  BY <1>2, ForegroundSame DEF FrameInv
<1>10. /\ awake \in BOOLEAN
       /\ request \subseteq {"pty", "ui", "forced", "resync", "client"}
  BY DEF FrameInv, LoopTypes
<1>11. Surfaces' = Surfaces
  BY <1>2 DEF Surfaces, Attached
<1>12. \A d \in Surfaces' : MayPatch(client[d])' =>
         d \in Surfaces /\ MayPatch(client[d]) /\ client'[d].buf = client[d].buf
  BY <1>2, <1>11 DEF MayPatch
<1> QED BY <1>1, <1>2, <1>8, <1>9, <1>10, <1>11, <1>12, ClientsRest

\* The next frame of the client is a full one.
LEMMA RepairStep ==
  ASSUME FrameInv, NEW c \in Attached, pass = None,
         NEW s \in States, client' = [client EXCEPT ![c] = s],
         s.full, s.behind => ~ s.ready, s.projected = client[c].projected,
         s.projected \/ s.active,
         UNCHANGED <<contentVars, pass, foreground, slot, writing, screen>>,
         resized' \in [Clients -> BOOLEAN],
         \A d \in Clients \ {c} : resized'[d] = resized[d],
         awake' \in BOOLEAN, request \subseteq request',
         request' \subseteq {"pty", "ui", "forced", "resync", "client"}
  PROVE  FrameInv'
<1>1. LinkTypes /\ \A d \in Attached : LinkOK(d)
  BY DEF FrameInv, LinkInv
<1>2. c \in Clients /\ client[c] # None
  BY DEF Attached
<1>3. LinkTypes'
  BY <1>1 DEF LinkTypes
<1>4. client'[c] = s /\ \A d \in Clients \ {c} : client'[d] = client[d]
  BY <1>1, <1>2 DEF LinkTypes
<1>5. s # None
  BY FrameAssumption
<1>6. LinkOK(c)'
  BY <1>4 DEF LinkOK, Based
<1>7. LinkInv'
  BY <1>2, <1>3, <1>4, <1>6, LinkOne DEF FrameInv
<1>8. ForegroundOK'
  BY <1>2, <1>4, <1>5, ForegroundSame DEF FrameInv
<1>9. \A d \in Surfaces' : MayPatch(client[d])' =>
        d \in Surfaces /\ MayPatch(client[d]) /\ client'[d].buf = client[d].buf
  BY <1>4 DEF Surfaces, Attached, MayPatch
<1> QED BY <1>7, <1>8, <1>9, ClientsRest

LEMMA HandleResizeStep ==
  ASSUME FrameInv, NEW c \in Clients, HandleResize(c)
  PROVE  FrameInv'
<1>1. /\ client[c] # None /\ pass = None /\ awake' = TRUE
      /\ resized' = [resized EXCEPT ![c] = FALSE]
      /\ UNCHANGED <<contentVars, pass, foreground, slot, writing, screen>>
      /\ \/ /\ request' = request \cup {"client"}
            /\ client' = [client EXCEPT ![c].full = TRUE]
         \/ /\ ~ client[c].active
            /\ request' = request /\ client' = client
  BY DEF HandleResize, Event, Wake
<1>2. c \in Attached
  BY <1>1 DEF Attached
<1>3. LinkTypes /\ LinkOK(c) /\ client[c] \in States
  BY <1>2, AttachedTyped DEF FrameInv, LinkInv
<1>4. PICK s : s = [client[c] EXCEPT !.full = TRUE]
  OBVIOUS
<1>5. /\ s \in States /\ s.full /\ s.behind = client[c].behind
      /\ s.ready = client[c].ready /\ s.projected = client[c].projected
      /\ s.active = client[c].active
  BY <1>3, <1>4 DEF States
<1>6. ~ client[c].active => client[c].full
  BY <1>3 DEF LinkOK
<1>7. client' = [client EXCEPT ![c] = s]
  <2>1. CASE client' = [client EXCEPT ![c].full = TRUE]
    BY <1>4, <2>1
  <2>2. CASE ~ client[c].active /\ client' = client
    <3>1. s = client[c]
      BY <1>3, <1>4, <1>6, <2>2 DEF States
    <3> QED BY <1>3, <2>2, <3>1 DEF LinkTypes
  <2> QED BY <1>1, <2>1, <2>2
<1>8. /\ resized' \in [Clients -> BOOLEAN]
      /\ \A d \in Clients \ {c} : resized'[d] = resized[d]
  BY <1>1, <1>3 DEF LinkTypes
<1>9. request \subseteq {"pty", "ui", "forced", "resync", "client"}
  BY DEF FrameInv, LoopTypes
<1>10. /\ s.behind => ~ s.ready
       /\ s.projected \/ s.active
  BY <1>3, <1>5 DEF LinkOK
<1>11. /\ awake' \in BOOLEAN /\ request \subseteq request'
       /\ request' \subseteq {"pty", "ui", "forced", "resync", "client"}
  BY <1>1, <1>9
<1> QED BY <1>1, <1>2, <1>5, <1>7, <1>8, <1>10, <1>11, RepairStep

LEMMA InterestStep ==
  ASSUME FrameInv, NEW c \in Clients, Interest(c)
  PROVE  FrameInv'
<1>1. /\ client[c] # None /\ client[c].projected /\ pass = None
      /\ awake' = TRUE /\ request' = request \cup {"client"}
      /\ client' = [client EXCEPT ![c].active = ~ @, ![c].full = TRUE,
                                  ![c].ready = FALSE]
      /\ UNCHANGED <<contentVars, pass, foreground, linkVars>>
  BY DEF Interest, Event
<1>2. c \in Attached
  BY <1>1 DEF Attached
<1>3. LinkTypes /\ LinkOK(c) /\ client[c] \in States
  BY <1>2, AttachedTyped DEF FrameInv, LinkInv
<1>4. PICK s : s = [client[c] EXCEPT !.active = ~ @, !.full = TRUE,
                                     !.ready = FALSE]
  OBVIOUS
<1>5. /\ s \in States /\ s.full /\ ~ s.ready
      /\ s.projected = client[c].projected
  BY <1>3, <1>4 DEF States
<1>6. client' = [client EXCEPT ![c] = s]
  BY <1>1, <1>3, <1>4 DEF LinkTypes
<1>7. request \subseteq {"pty", "ui", "forced", "resync", "client"}
  BY DEF FrameInv, LoopTypes
<1>8. UNCHANGED <<slot, writing, screen>> /\ resized' = resized
  BY <1>1 DEF linkVars
<1> QED BY <1>1, <1>2, <1>3, <1>5, <1>6, <1>7, <1>8, RepairStep DEF LinkTypes

-----------------------------------------------------------------------------
(* Renders and passes                                                      *)

\* What a rendered client has is in order again.
LEMMA RenderLinks ==
  ASSUME FrameInv, NEW c \in Attached, NEW s, NEW waiting, NEW buf,
         Gets(c, s, waiting), RenderedAs(c, buf, s, waiting),
         client[c].active, UNCHANGED <<writing, screen, resized>>
  PROVE  /\ LinkInv' /\ s # None /\ client'[c] = s
         /\ \A d \in Clients \ {c} : client'[d] = client[d]
         /\ Surfaces' = Surfaces
<1>1. LinkTypes /\ LinkOK(c) /\ c \in Clients
  BY AttachedTyped DEF FrameInv, LinkInv
<1>2. LinkTypes'
  BY <1>1 DEF LinkTypes, Gets, RenderedAs
<1>3. /\ client'[c] = s /\ slot'[c] = waiting
      /\ \A d \in Clients \ {c} : client'[d] = client[d] /\ slot'[d] = slot[d]
  BY <1>1 DEF LinkTypes, Gets
<1>4. LinkOK(c)'
  BY <1>1, <1>3 DEF LinkOK, RenderedAs
<1>5. LinkInv'
  BY <1>1, <1>2, <1>3, <1>4, LinkOne DEF FrameInv
<1>6. s # None
  BY FrameAssumption DEF RenderedAs
<1>7. Surfaces' = Surfaces
  BY <1>1, <1>3, <1>6 DEF Surfaces, Attached, RenderedAs
<1> QED BY <1>3, <1>5, <1>6, <1>7

LEMMA PromoteStep ==
  ASSUME FrameInv, NEW c \in Clients, Promote(c)
  PROVE  FrameInv'
<1>1. /\ c \in Whole /\ pass = None /\ pass' = pass /\ awake' = TRUE
      /\ request' = request \cup {"ui"} /\ foreground' = c
      /\ RenderClient(c, FALSE, None)
      /\ UNCHANGED <<contentVars, writing, screen, resized>>
  BY DEF Promote, Event
<1>2. c \in Attached /\ ~ client[c].projected
  BY <1>1 DEF Whole
<1>3. client[c].active
  BY <1>2 DEF FrameInv, LinkInv, LinkOK
<1>4. PICK s, waiting : /\ Gets(c, s, waiting)
                        /\ RenderedAs(c, Retained(c, None), s, waiting)
  BY <1>1, <1>2, RenderOne
<1>5. s.buf = content /\ s.projected = client[c].projected
  BY <1>4 DEF RenderedAs, Retained
<1>6. /\ LinkInv' /\ s # None /\ client'[c] = s
      /\ \A d \in Clients \ {c} : client'[d] = client[d]
      /\ Surfaces' = Surfaces
  BY <1>1, <1>2, <1>3, <1>4, RenderLinks
<1>7. ForegroundOK'
  <2>1. Whole' = Whole
    BY <1>1, <1>2, <1>5, <1>6 DEF Whole, Attached
  <2>2. c # None
    BY FrameAssumption
  <2> QED BY <1>1, <2>1, <2>2 DEF ForegroundOK
<1>8. /\ content' = content /\ damage' = damage /\ generation' = generation
      /\ announced' = announced
  BY <1>1 DEF contentVars
<1>9. LoopTypes'
  BY <1>1, <1>8 DEF FrameInv, LoopTypes, Counted
<1>10. RetainedFresh'
  <2>1. ASSUME NEW d \in Surfaces, MayPatch(client[d])', NEW x \in Cells
        PROVE  \/ client'[d].buf[x] = content[x]
               \/ x \in damage
               \/ x = "chrome" /\ request' \cap {"ui", "forced"} # {}
    <3>1. CASE d = c
      BY <1>5, <1>6, <3>1
    <3>2. CASE d # c
      <4>1. client'[d] = client[d]
        BY <1>6, <3>2 DEF Surfaces, Attached
      <4> QED BY <1>1, <2>1, <4>1 DEF FrameInv, ViewInv, RetainedFresh, MayPatch
    <3> QED BY <3>1, <3>2
  <2> QED BY <1>6, <1>8, <2>1 DEF RetainedFresh
<1>11. PassHolds'
  BY <1>1 DEF PassHolds
<1> QED BY <1>6, <1>7, <1>9, <1>10, <1>11 DEF FrameInv, ViewInv

LEMMA StartPassStep ==
  ASSUME FrameInv, StartPass
  PROVE  FrameInv'
<1> DEFINE candidate == /\ Reasons = {"pty"} /\ foreground # None
                        /\ MayPatch(client[foreground])
           patch == IF candidate THEN [r \in damage |-> content[r]] ELSE None
<1>1. /\ pass = None
      /\ pass' = [todo |-> Surfaces, generation |-> generation,
                  forced |-> "forced" \in Reasons, patch |-> patch]
      /\ announced' = FALSE /\ content' = content /\ damage' = damage
      /\ generation' = generation /\ awake' = awake /\ request' = request
      /\ foreground' = foreground /\ client' = client /\ UNCHANGED linkVars
  BY DEF StartPass
<1>2. content \in Buffers /\ damage \subseteq Rows /\ Rows \subseteq Cells
      /\ "chrome" \notin Rows
  BY ContentType, FrameAssumption DEF FrameInv, LoopTypes, Cells
<1>3. [r \in damage |-> content[r]] \in Frames
  <2>1. [r \in damage |-> content[r]] \in [damage -> Value]
    BY <1>2 DEF Buffers, Value
  <2> QED BY <1>2, <2>1, AFrame
<1>4. candidate => patch = [r \in damage |-> content[r]]
  OBVIOUS
<1>5. ~ candidate => patch = None
  OBVIOUS
<1>6. candidate => request \cap {"ui", "forced"} = {}
  BY DEF Reasons
<1> HIDE DEF patch, candidate
<1>7. patch \in Frames \cup {None}
  BY <1>3, <1>4, <1>5
<1>8. /\ pass' \in Passes /\ pass'.todo = Surfaces
      /\ pass'.generation = generation /\ pass'.patch = patch
  <2>1. Surfaces \in SUBSET Clients /\ generation \in 0..MaxOutput
    BY DEF Surfaces, Attached, FrameInv, LoopTypes
  <2> QED BY <1>1, <1>7, <2>1 DEF Passes
<1>9. LinkInv'
  BY <1>1, LinkSame DEF FrameInv
<1>10. ForegroundOK'
  BY <1>1, ForegroundSame DEF FrameInv
<1>11. LoopTypes'
  BY <1>1, <1>8 DEF FrameInv, LoopTypes, Counted
<1>12. pass' # None
  BY <1>8, FrameAssumption
<1>13. Surfaces' = Surfaces
  BY <1>1 DEF Surfaces, Attached
<1>14. ASSUME NEW d \in Surfaces, MayPatch(client[d]) PROVE Unvisited(d)'
  <2>1. ASSUME NEW x \in Cells
        PROVE  \/ client[d].buf[x] = content[x]
               \/ x \in damage
               \/ x = "chrome" /\ patch = None
    BY <1>1, <1>5, <1>6, <1>14 DEF FrameInv, ViewInv, RetainedFresh
  <2> QED BY <1>1, <1>8, <2>1 DEF Unvisited
<1>15. patch # None => PatchHolds'
  BY <1>1, <1>4, <1>5, <1>8 DEF PatchHolds
<1>16. PassHolds'
  <2>1. generation <= generation
    BY DEF FrameInv, LoopTypes
  <2> QED BY <1>1, <1>8, <1>13, <1>14, <1>15, <2>1 DEF PassHolds, MayPatch
<1>17. RetainedFresh'
  BY <1>12 DEF RetainedFresh
<1> QED BY <1>9, <1>10, <1>11, <1>16, <1>17 DEF FrameInv, ViewInv

LEMMA RenderNextStep ==
  ASSUME FrameInv, RenderNext
  PROVE  FrameInv'
<1>1. PICK c \in pass.todo :
        /\ RenderClient(c, pass.forced, pass.patch)
        /\ pass' = [pass EXCEPT !.todo = @ \ {c}]
  BY DEF RenderNext
<1>2. /\ pass # None /\ content' = content /\ damage' = damage
      /\ generation' = generation /\ announced' = announced
      /\ awake' = awake /\ request' = request /\ foreground' = foreground
      /\ UNCHANGED <<writing, screen, resized>>
  BY DEF RenderNext, contentVars
<1>3. pass \in Passes
  BY <1>2 DEF FrameInv, LoopTypes
<1>4. /\ pass.todo \subseteq Surfaces /\ pass.generation <= generation
      /\ \A d \in Surfaces : MayPatch(client[d]) =>
           IF d \in pass.todo THEN Unvisited(d) ELSE Visited(d)
      /\ pass.patch # None => PatchHolds
  BY <1>2 DEF FrameInv, ViewInv, PassHolds
<1>5. c \in Surfaces /\ c \in Attached /\ client[c].active
  BY <1>1, <1>4 DEF Surfaces
<1>6. PICK s, waiting : /\ Gets(c, s, waiting)
                        /\ RenderedAs(c, Retained(c, pass.patch), s, waiting)
  BY <1>1, <1>3, <1>5, RenderOne DEF Passes
<1>7. s.buf = Retained(c, pass.patch) /\ s.projected = client[c].projected
  BY <1>6 DEF RenderedAs
<1>8. /\ LinkInv' /\ s # None /\ client'[c] = s
      /\ \A d \in Clients \ {c} : client'[d] = client[d]
      /\ Surfaces' = Surfaces
  BY <1>2, <1>5, <1>6, RenderLinks
<1>9. ForegroundOK'
  BY <1>2, <1>5, <1>7, <1>8, ForegroundSame DEF FrameInv, Attached
<1>10. /\ pass' \in Passes /\ pass'.todo = pass.todo \ {c}
       /\ pass'.generation = pass.generation /\ pass'.patch = pass.patch
  BY <1>1, <1>3 DEF Passes
<1>11. LoopTypes'
  BY <1>2, <1>10 DEF FrameInv, LoopTypes, Counted
<1>12. pass' # None
  BY <1>10, FrameAssumption
<1>13. Visited(c)'
  <2>1. ASSUME NEW x \in Cells
        PROVE  s.buf[x] = content[x] \/ Changed(x)
    <3>1. CASE pass.patch # None /\ MayPatch(client[c])
      <4>1. PatchHolds /\ Unvisited(c)
        BY <1>1, <1>4, <1>5, <3>1
      <4>2. s.buf[x] = IF x \in DOMAIN pass.patch THEN pass.patch[x]
                       ELSE client[c].buf[x]
        BY <1>7, <3>1 DEF Retained, Apply
      <4>3. CASE x \in DOMAIN pass.patch
        BY <4>1, <4>2, <4>3 DEF PatchHolds
      <4>4. CASE x \notin DOMAIN pass.patch
        BY <3>1, <4>1, <4>2, <4>4 DEF PatchHolds, Unvisited
      <4> QED BY <4>3, <4>4
    <3>2. CASE ~ (pass.patch # None /\ MayPatch(client[c]))
      BY <1>7, <3>2 DEF Retained
    <3> QED BY <3>1, <3>2
  <2> QED BY <1>2, <1>8, <1>10, <2>1 DEF Visited, Changed
<1>14. ASSUME NEW d \in Surfaces, MayPatch(client[d])'
       PROVE  IF d \in pass'.todo THEN Unvisited(d)' ELSE Visited(d)'
  <2>1. CASE d = c
    BY <1>10, <1>13, <2>1
  <2>2. CASE d # c
    <3>1. client'[d] = client[d]
      BY <1>8, <2>2 DEF Surfaces, Attached
    <3>2. IF d \in pass.todo THEN Unvisited(d) ELSE Visited(d)
      BY <1>4, <1>14, <3>1 DEF MayPatch
    <3>3. Unvisited(d) => Unvisited(d)'
      BY <1>2, <1>10, <3>1 DEF Unvisited
    <3>4. Visited(d) => Visited(d)'
      BY <1>2, <1>10, <3>1 DEF Visited, Changed
    <3> QED BY <1>10, <2>2, <3>2, <3>3, <3>4
  <2> QED BY <2>1, <2>2
<1>15. pass.patch # None => PatchHolds'
  BY <1>2, <1>4, <1>10 DEF PatchHolds, Changed
<1>16. PassHolds'
  BY <1>2, <1>4, <1>8, <1>10, <1>14, <1>15 DEF PassHolds
<1>17. RetainedFresh'
  BY <1>12 DEF RetainedFresh
<1> QED BY <1>8, <1>9, <1>11, <1>16, <1>17 DEF FrameInv, ViewInv

LEMMA EndPassStep ==
  ASSUME FrameInv, EndPass
  PROVE  FrameInv'
<1>1. /\ pass # None /\ pass.todo = {} /\ pass' = None /\ request' = {}
      /\ awake' = FALSE /\ content' = content /\ generation' = generation
      /\ announced' = announced /\ foreground' = foreground
      /\ client' = client /\ UNCHANGED linkVars
      /\ damage' = IF pass.generation = generation THEN {} ELSE damage
  BY DEF EndPass, Finish
<1>2. LinkInv'
  BY <1>1, LinkSame DEF FrameInv
<1>3. ForegroundOK'
  BY <1>1, ForegroundSame DEF FrameInv
<1>4. LoopTypes'
  BY <1>1 DEF FrameInv, LoopTypes, Counted
<1>5. \A d \in Surfaces : MayPatch(client[d]) => Visited(d)
  BY <1>1 DEF FrameInv, ViewInv, PassHolds
<1>6. \A x : Changed(x) => x \in damage'
  BY <1>1 DEF Changed
<1>7. RetainedFresh'
  BY <1>1, <1>5, <1>6 DEF RetainedFresh, Visited, Surfaces, Attached, MayPatch
<1>8. PassHolds'
  BY <1>1 DEF PassHolds
<1> QED BY <1>2, <1>3, <1>4, <1>7, <1>8 DEF FrameInv, ViewInv

-----------------------------------------------------------------------------
(* Writers                                                                 *)

\* A step between a client's slot and its screen shows a render nothing new.
LEMMA WriterRests ==
  ASSUME FrameInv, NEW c \in Clients,
         UNCHANGED <<contentVars, loopVars, client, resized>>, LinkTypes',
         \A d \in Clients \ {c} :
            slot'[d] = slot[d] /\ writing'[d] = writing[d]
              /\ screen'[d] = screen[d],
         Apply(Apply(screen'[c], writing'[c]), slot'[c])
           = Apply(Apply(screen[c], writing[c]), slot[c])
  PROVE  FrameInv'
<1>1. /\ client' = client /\ resized' = resized /\ awake' = awake
      /\ request' = request /\ pass' = pass /\ foreground' = foreground
  BY DEF loopVars
<1>2. client'[c] # None => LinkOK(c)'
  <2>1. SUFFICES ASSUME client[c] # None PROVE LinkOK(c)'
    BY <1>1
  <2>2. LinkOK(c)
    BY <2>1 DEF FrameInv, LinkInv, Attached
  <2> QED BY <1>1, <2>2 DEF LinkOK, Based
<1>3. LinkInv'
  BY <1>1, <1>2, LinkOne DEF FrameInv
<1>4. ForegroundOK'
  BY <1>1, ForegroundSame DEF FrameInv
<1>5. /\ awake \in BOOLEAN
      /\ request \subseteq {"pty", "ui", "forced", "resync", "client"}
  BY DEF FrameInv, LoopTypes
<1>6. Surfaces' = Surfaces
  BY <1>1 DEF Surfaces, Attached
<1>7. \A d \in Surfaces' : MayPatch(client[d])' =>
        d \in Surfaces /\ MayPatch(client[d]) /\ client'[d].buf = client[d].buf
  BY <1>1, <1>6 DEF MayPatch
<1> QED BY <1>1, <1>3, <1>4, <1>5, <1>6, <1>7, ClientsRest

LEMMA TakeStep ==
  ASSUME FrameInv, NEW c \in Clients, Take(c)
  PROVE  FrameInv'
<1>1. /\ slot[c] # None /\ writing[c] = None
      /\ writing' = [writing EXCEPT ![c] = slot[c]]
      /\ slot' = [slot EXCEPT ![c] = None]
      /\ UNCHANGED <<contentVars, loopVars, client, screen, resized>>
  BY DEF Take
<1>2. LinkTypes
  BY DEF FrameInv, LinkInv
<1>3. LinkTypes'
  BY <1>1, <1>2 DEF LinkTypes
<1>4. /\ writing'[c] = slot[c] /\ slot'[c] = None
      /\ \A d \in Clients \ {c} :
           slot'[d] = slot[d] /\ writing'[d] = writing[d]
  BY <1>1, <1>2 DEF LinkTypes
<1>5. Apply(Apply(screen[c], slot[c]), None)
        = Apply(Apply(screen[c], None), slot[c])
  BY DEF Apply
<1>6. Apply(Apply(screen'[c], writing'[c]), slot'[c])
        = Apply(Apply(screen[c], writing[c]), slot[c])
  BY <1>1, <1>4, <1>5
<1> QED BY <1>1, <1>3, <1>4, <1>6, WriterRests

LEMMA PaintStep ==
  ASSUME FrameInv, NEW c \in Clients, Paint(c)
  PROVE  FrameInv'
<1>1. PICK painted : painted = Apply(screen[c], writing[c])
  OBVIOUS
<1>2. /\ screen' = [screen EXCEPT ![c] = painted]
      /\ writing' = [writing EXCEPT ![c] = None]
      /\ UNCHANGED <<contentVars, loopVars, client, slot, resized>>
  BY <1>1 DEF Paint
<1>3. LinkTypes
  BY DEF FrameInv, LinkInv
<1>4. painted \in Buffers
  BY <1>1, <1>3, ApplyType DEF LinkTypes
<1>5. LinkTypes'
  BY <1>2, <1>3, <1>4 DEF LinkTypes
<1>6. /\ screen'[c] = painted /\ writing'[c] = None
      /\ \A d \in Clients \ {c} :
           screen'[d] = screen[d] /\ writing'[d] = writing[d]
  BY <1>2, <1>3 DEF LinkTypes
<1>7. Apply(painted, None) = painted
  BY DEF Apply
<1>8. Apply(Apply(screen'[c], writing'[c]), slot'[c])
        = Apply(Apply(screen[c], writing[c]), slot[c])
  BY <1>1, <1>2, <1>6, <1>7
<1> QED BY <1>2, <1>5, <1>6, <1>8, WriterRests

-----------------------------------------------------------------------------
(* The theorem                                                             *)

LEMMA FrameInit ==
  ASSUME Init
  PROVE  FrameInv
<1>1. /\ Attached = {} /\ Surfaces = {} /\ Whole = {}
      /\ pass = None
  BY DEF Init, Attached, Surfaces, Whole
<1>2. LinkInv
  <2>1. Blank \in Buffers
    BY FrameAssumption DEF Blank, Buffers
  <2> QED BY <1>1, <2>1 DEF Init, LinkInv, LinkTypes
<1>3. ForegroundOK
  BY <1>1 DEF Init, ForegroundOK
<1>4. LoopTypes
  <2>1. content = [x \in Cells |-> 0] /\ generation = 0
    BY DEF Init
  <2>2. MaxOutput \in Nat /\ MaxUi \in Nat
    BY FrameAssumption
  <2>3. \A x \in Cells : content[x] = 0
    BY <2>1
  <2>4. Counted
    BY <2>1, <2>2, <2>3 DEF Counted, Cells
  <2>5. content \in [Cells -> Nat] /\ generation \in 0..MaxOutput
    BY <2>1, <2>2
  <2> QED BY <2>4, <2>5 DEF Init, LoopTypes
<1>5. ViewInv
  BY <1>1 DEF ViewInv, RetainedFresh, PassHolds
<1> QED BY <1>2, <1>3, <1>4, <1>5 DEF FrameInv

LEMMA FrameStep ==
  ASSUME FrameInv, [Next]_vars
  PROVE  FrameInv'
<1>1. CASE \E r \in Rows : Output(r)
  BY <1>1, OutputStep
<1>2. CASE Ui
  BY <1>2, UiStep
<1>3. CASE OtherWake \/ Sleep \/ HandleOutput \/ FrameDue
  BY <1>3, LoopStep
<1>4. CASE StartPass
  BY <1>4, StartPassStep
<1>5. CASE RenderNext
  BY <1>5, RenderNextStep
<1>6. CASE EndPass
  BY <1>6, EndPassStep
<1>7. ASSUME NEW c \in Clients,
             ClientOp(c) \/ HandleResize(c) \/ Writer(c)
      PROVE  FrameInv'
  <2>1. CASE Attach(c)
    BY <2>1, AttachStep
  <2>2. CASE Detach(c)
    BY <2>2, DetachStep
  <2>3. CASE Resize(c)
    BY <2>3, ResizeStep
  <2>4. CASE Interest(c)
    BY <2>4, InterestStep
  <2>5. CASE Promote(c)
    BY <2>5, PromoteStep
  <2>6. CASE HandleResize(c)
    BY <2>6, HandleResizeStep
  <2>7. CASE Take(c)
    BY <2>7, TakeStep
  <2>8. CASE Paint(c)
    BY <2>8, PaintStep
  <2> QED BY <1>7, <2>1, <2>2, <2>3, <2>4, <2>5, <2>6, <2>7, <2>8
          DEF ClientOp, Writer
<1>8. CASE UNCHANGED vars
  <2>1. /\ UNCHANGED <<content, damage, generation, announced, awake, request,
                       pass, foreground, client, linkVars>>
    BY <1>8 DEF vars, contentVars, loopVars
  <2>2. /\ announced \in BOOLEAN /\ awake \in BOOLEAN
        /\ request \subseteq {"pty", "ui", "forced", "resync", "client"}
    BY DEF FrameInv, LoopTypes
  <2> QED BY <2>1, <2>2, LoopRests
<1> QED BY <1>1, <1>2, <1>3, <1>4, <1>5, <1>6, <1>7, <1>8 DEF Next, Loop

\* Every diff and every patch starts from what the client has: what a client
\* has painted and what is on its way to it are the base of its next diff, and
\* no damage is acknowledged before every client that may be patched has it, for
\* any number of clients and rows, and output during a pass (render_clients,
\* acknowledge_damage, try_send_frame).
THEOREM FramesAreSafe == Spec => []FrameSafe
<1>1. Init => FrameInv
  BY FrameInit
<1>2. FrameInv /\ [Next]_vars => FrameInv'
  BY FrameStep
<1>3. FrameInv => FrameSafe
  BY FrameInvIsSafe
<1> QED BY <1>1, <1>2, <1>3, PTL DEF Spec
=============================================================================
