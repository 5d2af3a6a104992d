--------------------------- MODULE EventBusProofs ---------------------------
(***************************************************************************)
(* EventBus implements EventStream for every number of clients, every      *)
(* capacity and every length.                                              *)
(***************************************************************************)
EXTENDS EventBus, FiniteSetTheorems, TLAPS

\* What the bus owes a client.
Due(c) == Wanted(c) \ large

\* The replay is the whole window after the floor, and has no gap before it
\* (a large event is a gap, and then the floor).
Window ==
    \A e \in (1..sequence) \ large :
        (e > floor \/ \E x \in replay : x < e) => e \in replay

\* Nothing is on its way on a connection that is not running.
Resting(c) ==
    link[c] \notin Live => queue[c] = {} /\ backlog[c] = {} /\ hand[c] = None

\* What is on its way comes in order, and after what the client knows.
Ordered(c) ==
    /\ \A p \in backlog[c] : cursor[c] < p /\ p <= fence[c]
    /\ \A p \in queue[c] : cursor[c] < p /\ fence[c] < p
    /\ hand[c] > 0 =>
        /\ cursor[c] < hand[c]
        /\ \A p \in backlog[c] \cup queue[c] : hand[c] < p

\* Up to its fence, and before anything that is on its way, nothing the
\* client wants is missing.
Covered(c) ==
    link[c] \in Live =>
        \A e \in Due(c) :
            cursor[c] < e /\ e <= fence[c] => e \in Pending(c)

Closed(c) ==
    link[c] \in Live =>
        \A e \in Due(c), p \in Pending(c) :
            cursor[c] < e /\ e < p => e \in Pending(c)

Kept(c) ==
    c \in members \ full /\ link[c] \in Live =>
        After(c, cursor[c]) \ large \subseteq Pending(c)

Waiting(c) ==
    /\ Waits(c) => cursor[c] <= fence[c]
    /\ hand[c] = Checks =>
        /\ backlog[c] = {}
        /\ \A e \in Due(c) : e <= cursor[c] \/ e > fence[c]

ClientInv(c) ==
    /\ Resting(c) /\ Ordered(c) /\ Covered(c) /\ Closed(c) /\ Kept(c)
    /\ Waiting(c)

IInv == Window /\ \A c \in Clients : ClientInv(c)

-----------------------------------------------------------------------------
\* Type correctness of the bus.
LEMMA InitType == Init => TypeOK
BY BusAssumption DEF Init, TypeOK, Links, Live, None, Checks

LEMMA PublishType ==
    ASSUME TypeOK, NEW t \in BOOLEAN, NEW l \in BOOLEAN, Publish(t, l)
    PROVE  TypeOK'
<1> USE BusAssumption DEF TypeOK
<1>1. sequence' = sequence + 1 /\ sequence' \in 0..MaxSequence
  BY DEF Publish
<1>2. terminal' \subseteq 1..sequence' /\ large' \subseteq 1..sequence'
  <2>1. terminal' \subseteq terminal \cup {sequence + 1}
    BY DEF Publish
  <2>2. large' \subseteq large \cup {sequence + 1}
    BY DEF Publish
  <2> QED BY <1>1, <2>1, <2>2
<1>3. replay' \subseteq 1..sequence' /\ floor' \in 0..sequence'
  <2>1. /\ replay' \subseteq replay \cup {sequence + 1}
        /\ floor' \in replay \cup {floor, sequence + 1}
    BY DEF Publish, Retain
  <2> QED BY <1>1, <2>1
<1>4. members' \subseteq Clients /\ full' \subseteq members'
  BY DEF Publish
<1>5. queue' \in [Clients -> SUBSET (1..sequence')]
  <2>1. \A S \in SUBSET (1..sequence) : S \in SUBSET (1..sequence')
                          /\ S \cup {sequence + 1} \in SUBSET (1..sequence')
    BY <1>1
  <2> QED BY <2>1 DEF Publish
<1>6. /\ active' = active /\ overflow' = overflow /\ backlog' = backlog
      /\ hand' = hand /\ fence' = fence /\ link' = link /\ cursor' = cursor
      /\ told' = told
  BY DEF Publish, flags, thread, client
<1>7. /\ 1..sequence \subseteq 1..sequence' /\ 0..sequence \subseteq 0..sequence'
      /\ Checks..sequence \subseteq Checks..sequence'
  BY <1>1 DEF Checks
<1>8. /\ overflow' \in [Clients -> 0..sequence']
      /\ fence' \in [Clients -> 0..sequence']
      /\ cursor' \in [Clients -> 0..sequence']
      /\ told' \in [Clients -> 0..sequence']
  BY <1>6, <1>7
<1>9. /\ backlog' \in [Clients -> SUBSET (1..sequence')]
      /\ hand' \in [Clients -> Checks..sequence']
  BY <1>6, <1>7
<1> QED BY <1>1, <1>2, <1>3, <1>4, <1>5, <1>6, <1>8, <1>9

LEMMA ThreadType ==
    ASSUME TypeOK, NEW c \in Clients,
           \/ Bus(c) \/ Threads(c) \/ Snapshot(c) \/ Subscribe(c)
           \/ RefuseStale(c) \/ Leave(c) \/ WriteFails(c)
           \/ WaitUnmatched(c) \/ WaitOn(c)
    PROVE  TypeOK'
<1> USE BusAssumption DEF TypeOK, log, retained, flags, thread, client, None,
                          Checks, Links, Live
<1>1. CASE StoreOverflow(c) BY <1>1 DEF StoreOverflow
<1>18. CASE Drop(c) BY <1>18 DEF Drop
<1>2. CASE Take(c) BY <1>2 DEF Take, IsLeast
<1>3. CASE Write(c) BY <1>3 DEF Write, Forwards
<1>4. CASE TooLong(c) \/ WriteFails(c)
  <2>1. Cut(c) BY <1>4 DEF TooLong, WriteFails
  <2> QED BY <2>1 DEF Cut, Stop, Forwards
<1>5. CASE TellResync(c) BY <1>5 DEF TellResync, Stop, Forwards
<1>6. CASE RunDry(c) BY <1>6 DEF RunDry, Stop, Forwards
<1>7. CASE Unsubscribe(c) BY <1>7 DEF Unsubscribe, Free
<1>8. CASE PassOver(c) BY <1>8 DEF PassOver
<1>9. CASE WaitMatched(c) BY <1>9 DEF WaitMatched, Answer, Stop, Free
<1>10. CASE WaitDrained(c) BY <1>10 DEF WaitDrained
<1>11. CASE WaitLost(c) BY <1>11 DEF WaitLost, Answer, Stop, Free
<1>12. CASE WaitUnmatched(c) BY <1>12 DEF WaitUnmatched, Answer, Stop, Free
<1>13. CASE WaitOn(c) BY <1>13 DEF WaitOn
<1>14. CASE Snapshot(c) BY <1>14 DEF Snapshot
<1>15. CASE Subscribe(c)
  <2>1. Replayed(c) \in SUBSET (1..sequence)
    BY DEF Replayed
  <2> QED BY <1>15, <2>1 DEF Subscribe, Free
<1>16. CASE RefuseStale(c) BY <1>16 DEF RefuseStale
<1>17. CASE Leave(c) BY <1>17 DEF Leave
<1> QED BY <1>1, <1>2, <1>3, <1>4, <1>5, <1>6, <1>7, <1>8, <1>9, <1>10, <1>11,
           <1>12, <1>13, <1>14, <1>15, <1>16, <1>17, <1>18 DEF Threads, Bus

\* The bus and its threads keep every variable in its type: nobody drops a
\* subscriber while the publisher that found it full holds the mutex.
THEOREM BusTypeCorrect == Spec => []TypeOK
<1>1. TypeOK /\ [Next]_vars => TypeOK'
  <2>1. CASE Next BY <2>1, PublishType, ThreadType DEF Next
  <2>2. CASE UNCHANGED vars
    BY <2>2 DEF TypeOK, vars, log, retained, flags, thread, client
  <2> QED BY <2>1, <2>2
<1> QED BY InitType, <1>1, PTL DEF Spec

-----------------------------------------------------------------------------
LEMMA InitInv == Init => IInv
BY DEF Init, IInv, Window, ClientInv, Resting, Ordered, Covered, Closed,
       Kept, Waiting, Waits, Live, None, Checks, Pending, Wanted, After,
       Due

\* A step that leaves a client's own variables alone leaves it as it was.
LEMMA Untouched ==
    ASSUME NEW d \in Clients, ClientInv(d),
           UNCHANGED <<sequence, terminal, large>>,
           queue'[d] = queue[d], backlog'[d] = backlog[d],
           hand'[d] = hand[d], fence'[d] = fence[d], link'[d] = link[d],
           cursor'[d] = cursor[d],
           d \in members' \ full' => d \in members \ full
    PROVE  ClientInv(d)'
BY DEF ClientInv, Resting, Ordered, Covered, Closed, Kept, Waiting, Waits,
       Pending, Wanted, After, Due

LEMMA PublishInv ==
    ASSUME TypeOK, IInv, NEW t \in BOOLEAN, NEW l \in BOOLEAN,
           Publish(t, l)
    PROVE  IInv'
<1>1. /\ sequence \in Nat /\ sequence' = sequence + 1
      /\ \/ large' = large /\ Retain(sequence + 1)
         \/ /\ large' = large \cup {sequence + 1}
            /\ floor' = sequence + 1 /\ replay' = replay
  BY DEF Publish, TypeOK
<1>2. Window'
  <2>1. replay \subseteq 1..sequence /\ floor \in 0..sequence /\ Window
    BY DEF IInv, TypeOK
  <2>2. CASE /\ large' = large
             /\ replay' = replay \cup {sequence + 1} /\ UNCHANGED floor
    BY <1>1, <2>1, <2>2 DEF Window
  <2>3. ASSUME NEW gone \in replay, large' = large,
               replay' = {x \in replay : x > gone} \cup {sequence + 1},
               floor' = gone
        PROVE  Window'
    BY <1>1, <2>1, <2>3 DEF Window
  <2>4. CASE /\ large' = large \cup {sequence + 1}
             /\ floor' = sequence + 1 /\ replay' = replay
    BY <1>1, <2>1, <2>4 DEF Window
  <2> QED BY <1>1, <2>2, <2>3, <2>4 DEF Retain
<1>3. ASSUME NEW d \in Clients PROVE ClientInv(d)'
  <2>1. /\ backlog'[d] = backlog[d] /\ hand'[d] = hand[d]
        /\ fence'[d] = fence[d] /\ link'[d] = link[d]
        /\ cursor'[d] = cursor[d]
    BY DEF Publish, thread, client
  <2>2. /\ queue'[d] \in {queue[d], queue[d] \cup {sequence + 1}}
        /\ link[d] \notin Live => queue'[d] = queue[d]
    BY DEF Publish, TypeOK
  <2>3. /\ Due(d) \subseteq Due(d)'
        /\ Due(d)' \subseteq Due(d) \cup {sequence + 1}
    BY <1>1 DEF Publish, Wanted, Due, TypeOK
  <2>4. /\ cursor[d] \in 0..sequence /\ fence[d] \in 0..sequence
        /\ hand[d] \in -1..sequence /\ backlog[d] \subseteq 1..sequence
        /\ queue[d] \subseteq 1..sequence /\ Due(d) \subseteq 1..sequence
    BY DEF TypeOK, Wanted, Checks, Due
  <2>5. ClientInv(d)
    BY DEF IInv
  <2>6. Resting(d)'
    BY <2>1, <2>2, <2>5 DEF ClientInv, Resting
  <2>7. Ordered(d)'
    BY <1>1, <2>1, <2>2, <2>4, <2>5 DEF ClientInv, Ordered
  <2>8. Covered(d)'
    BY <1>1, <2>1, <2>2, <2>3, <2>4, <2>5 DEF ClientInv, Covered, Pending
  <2>9. Closed(d)'
    <3>1. CASE queue'[d] = queue[d]
      BY <1>1, <2>1, <2>3, <2>4, <2>5, <3>1 DEF ClientInv, Closed, Pending
    <3>2. CASE queue'[d] = queue[d] \cup {sequence + 1} /\ queue'[d] # queue[d]
      <4>1. d \in members \ full /\ link[d] \in Live
        BY <3>2 DEF Publish, Free
      <4>2. After(d, cursor[d]) \ large \subseteq Pending(d)
        BY <4>1, <2>5 DEF ClientInv, Kept
      <4> QED
        BY <1>1, <2>1, <2>3, <2>4, <3>2, <4>2 DEF Closed, Pending, After, Due
    <3> QED BY <2>2, <3>1, <3>2
  <2>10. Kept(d)'
    <3> SUFFICES ASSUME d \in members' \ full', link[d] \in Live
                 PROVE  (After(d, cursor[d]) \ large)' \subseteq Pending(d)'
      BY <2>1 DEF Kept
    <3>1. d \in members \ full
      BY DEF Publish, Free
    <3>2. After(d, cursor[d]) \ large \subseteq Pending(d)
      BY <3>1, <2>5 DEF ClientInv, Kept
    <3>3. sequence + 1 \in Due(d)' => sequence + 1 \in queue'[d]
      <4>1. d \notin Filtered \/ t \/ sequence + 1 \notin Due(d)'
        BY <2>4, <1>1 DEF Publish, Wanted, TypeOK, Due
      <4> QED BY <3>1, <4>1 DEF Publish
    <3> QED
      BY <1>1, <2>1, <2>2, <2>3, <2>4, <3>2, <3>3 DEF After, Pending, Due
  <2>11. Waiting(d)'
    BY <1>1, <2>1, <2>3, <2>4, <2>5 DEF ClientInv, Waiting, Waits
  <2> QED BY <2>6, <2>7, <2>8, <2>9, <2>10, <2>11 DEF ClientInv
<1> QED BY <1>2, <1>3 DEF IInv

\* One step of client c leaves the others and the window as they were.
LEMMA OthersUntouched ==
    ASSUME TypeOK, IInv, NEW c \in Clients,
           UNCHANGED <<sequence, terminal, large, replay, floor>>,
           \A d \in Clients \ {c} :
               /\ queue'[d] = queue[d] /\ backlog'[d] = backlog[d]
               /\ hand'[d] = hand[d] /\ fence'[d] = fence[d]
               /\ link'[d] = link[d] /\ cursor'[d] = cursor[d]
               /\ d \in members' \ full' => d \in members \ full,
           ClientInv(c)'
    PROVE  IInv'
<1>1. Window'
  BY DEF IInv, Window
<1>2. ASSUME NEW d \in Clients PROVE ClientInv(d)'
  BY <1>2, Untouched DEF IInv
<1> QED BY <1>1, <1>2 DEF IInv

\* What is in hand is the next event the client wants, if it wants it.
LEMMA HandIsNext ==
    ASSUME TypeOK, IInv, NEW c \in Clients, link[c] \in Live, hand[c] > 0,
           NEW e \in Due(c), cursor[c] < e
    PROVE  hand[c] <= e
<1>1. Ordered(c) /\ Closed(c) /\ hand[c] \in Pending(c)
  BY DEF IInv, ClientInv, Pending
<1>2. /\ hand[c] \in Int /\ cursor[c] \in Int /\ e \in Int
      /\ backlog[c] \cup queue[c] \subseteq Int
  BY DEF TypeOK, Checks, Wanted, Due
<1> QED BY <1>1, <1>2 DEF Ordered, Closed, Pending

LEMMA TakeInv ==
    ASSUME TypeOK, IInv, NEW c \in Clients, Take(c)
    PROVE  IInv'
<1> DEFINE first == IF backlog[c] # {} THEN backlog[c] ELSE queue[c]
<1>1. PICK e \in first :
        /\ \A f \in first : e <= f
        /\ hand'[c] = e
        /\ backlog'[c] = backlog[c] \ {e}
        /\ queue'[c] = queue[c] \ {e}
  BY DEF Take, IsLeast, TypeOK
<1>2. /\ UNCHANGED <<sequence, terminal, large, replay, floor>>
      /\ UNCHANGED <<members, full, fence, link, cursor>>
      /\ link[c] \in Live /\ hand[c] = None
  BY DEF Take, log, retained, client
<1>3. /\ cursor[c] \in 0..sequence /\ fence[c] \in 0..sequence
      /\ backlog[c] \subseteq 1..sequence /\ queue[c] \subseteq 1..sequence
      /\ sequence \in Nat /\ Due(c) \subseteq 1..sequence
  BY DEF TypeOK, Wanted, Due
<1>4. ClientInv(c)
  BY DEF IInv
<1>5. e \in 1..sequence /\ Pending(c)' \cup {None} = Pending(c)
  BY <1>1, <1>2, <1>3 DEF Pending, None
<1>6. Ordered(c)'
  BY <1>1, <1>2, <1>3, <1>4 DEF ClientInv, Ordered
<1>7. Covered(c)' /\ Closed(c)' /\ Kept(c)'
  BY <1>2, <1>3, <1>4, <1>5
     DEF ClientInv, Covered, Closed, Kept, Wanted, After, Due, None
<1>8. Resting(c)' /\ Waiting(c)'
  BY <1>1, <1>2, <1>4, <1>5
     DEF ClientInv, Resting, Waiting, Waits, Checks
<1>9. ClientInv(c)'
  BY <1>6, <1>7, <1>8 DEF ClientInv
<1> QED BY <1>2, <1>9, OthersUntouched DEF Take, TypeOK

\* The forwarder writes what is in hand, or a waiter passes it over.
LEMMA HandInv ==
    ASSUME TypeOK, IInv, NEW c \in Clients, Write(c) \/ PassOver(c)
    PROVE  IInv'
<1>1. /\ UNCHANGED <<sequence, terminal, large, replay, floor>>
      /\ UNCHANGED <<members, full, queue, backlog, fence, link>>
      /\ link[c] \in Live /\ hand[c] > 0 /\ hand'[c] = 0
      /\ \/ cursor'[c] = hand[c] /\ c \notin Waiters
         \/ cursor'[c] = cursor[c] /\ hand[c] \notin Due(c)
  BY DEF Write, PassOver, Forwards, Waits, Wanted, Due, None, log, retained,
         client, TypeOK
<1>2. /\ cursor[c] \in 0..sequence /\ fence[c] \in 0..sequence
      /\ backlog[c] \subseteq 1..sequence /\ queue[c] \subseteq 1..sequence
      /\ sequence \in Nat /\ Due(c) \subseteq 1..sequence
      /\ hand[c] \in 1..sequence /\ Due(c)' = Due(c)
  BY <1>1 DEF TypeOK, Wanted, Checks, Due
<1>3. ClientInv(c)
  BY DEF IInv
<1>4. cursor'[c] >= cursor[c]
      /\ \A e \in Due(c) : cursor'[c] < e => cursor[c] < e /\ e # hand[c]
  BY <1>1, <1>2, <1>3 DEF ClientInv, Ordered
<1>5. Ordered(c)'
  BY <1>1, <1>2, <1>3 DEF ClientInv, Ordered
<1>6. Covered(c)' /\ Closed(c)' /\ Kept(c)'
  BY <1>1, <1>2, <1>3, <1>4
     DEF ClientInv, Covered, Closed, Kept, After, Due, Pending
<1>7. Resting(c)' /\ Waiting(c)'
  BY <1>1, <1>3 DEF ClientInv, Resting, Waiting, Waits, Checks
<1>8. ClientInv(c)'
  BY <1>5, <1>6, <1>7 DEF ClientInv
<1> QED
  BY <1>1, <1>8, OthersUntouched DEF Write, PassOver, TypeOK, client

\* A waiter that has drained its channel knows all up to its fence.
LEMMA CheckInv ==
    ASSUME TypeOK, IInv, NEW c \in Clients, WaitDrained(c) \/ WaitOn(c)
    PROVE  IInv'
<1>1. /\ UNCHANGED <<sequence, terminal, large, replay, floor>>
      /\ UNCHANGED <<members, full, queue, backlog, fence, link, cursor>>
      /\ link[c] \in Live /\ Waits(c) /\ Due(c)' = Due(c)
      /\ \/ /\ hand[c] = None /\ hand'[c] = Checks
            /\ backlog[c] = {} /\ queue[c] = {}
         \/ hand[c] = Checks /\ hand'[c] = None
  BY DEF WaitDrained, WaitOn, Waits, Wanted, Due, log, retained, client, TypeOK
<1>2. /\ cursor[c] \in 0..sequence /\ fence[c] \in 0..sequence
      /\ sequence \in Nat /\ Due(c) \subseteq 1..sequence
      /\ queue[c] \subseteq 1..sequence
  BY DEF TypeOK, Wanted, Due
<1>3. ClientInv(c)
  BY DEF IInv
<1>4. Resting(c)' /\ Ordered(c)'
  BY <1>1, <1>3 DEF ClientInv, Resting, Ordered, None, Checks
<1>5. Covered(c)' /\ Closed(c)' /\ Kept(c)'
  BY <1>1, <1>2, <1>3
     DEF ClientInv, Covered, Closed, Kept, After, Due, Pending, None, Checks
<1>6. Waiting(c)'
  BY <1>1, <1>2, <1>3
     DEF ClientInv, Waiting, Waits, Covered, Pending, None, Checks
<1>7. ClientInv(c)'
  BY <1>4, <1>5, <1>6 DEF ClientInv
<1> QED BY <1>1, <1>7, OthersUntouched DEF WaitDrained, WaitOn, TypeOK

\* A client whose connection is not running needs nothing from the bus.
LEMMA EndInv ==
    ASSUME TypeOK, IInv, NEW c \in Clients,
           \/ TooLong(c) \/ WriteFails(c) \/ TellResync(c) \/ RunDry(c)
           \/ RefuseStale(c) \/ Snapshot(c) \/ WaitMatched(c) \/ WaitLost(c)
           \/ WaitUnmatched(c)
    PROVE  IInv'
<1>1. /\ UNCHANGED <<sequence, terminal, large, replay, floor, full, fence>>
      /\ members' \subseteq members
      /\ link'[c] \notin Live /\ queue'[c] = {} /\ backlog'[c] = {}
      /\ hand'[c] = None
  <2>1. CASE TooLong(c) \/ WriteFails(c)
    BY <2>1 DEF TooLong, WriteFails, Cut, Stop, log, retained, TypeOK, Live
  <2>2. CASE TellResync(c) \/ RunDry(c)
    BY <2>2 DEF TellResync, RunDry, Stop, log, retained, TypeOK, Live
  <2>3. CASE RefuseStale(c) \/ Snapshot(c)
    BY <2>3 DEF RefuseStale, Snapshot, Idle, log, retained, thread, TypeOK,
                Live, IInv, ClientInv, Resting
  <2>4. CASE WaitMatched(c) \/ WaitLost(c) \/ WaitUnmatched(c)
    BY <2>4 DEF WaitMatched, WaitLost, WaitUnmatched, Answer, Stop, log,
                retained, TypeOK, Live
  <2> QED BY <2>1, <2>2, <2>3, <2>4
<1>2. \A d \in Clients \ {c} :
         /\ queue'[d] = queue[d] /\ backlog'[d] = backlog[d]
         /\ hand'[d] = hand[d] /\ fence'[d] = fence[d]
         /\ link'[d] = link[d] /\ cursor'[d] = cursor[d]
  <2>1. CASE TooLong(c) \/ WriteFails(c)
    BY <2>1 DEF TooLong, WriteFails, Cut, Stop, client, TypeOK
  <2>2. CASE TellResync(c) \/ RunDry(c)
    BY <2>2 DEF TellResync, RunDry, Stop, client, TypeOK
  <2>3. CASE RefuseStale(c) \/ Snapshot(c)
    BY <2>3 DEF RefuseStale, Snapshot, thread, TypeOK
  <2>4. CASE WaitMatched(c) \/ WaitLost(c) \/ WaitUnmatched(c)
    BY <2>4 DEF WaitMatched, WaitLost, WaitUnmatched, Answer, Stop, TypeOK
  <2> QED BY <2>1, <2>2, <2>3, <2>4
<1>3. ClientInv(c)'
  BY <1>1 DEF ClientInv, Resting, Ordered, Covered, Closed, Kept, Waiting,
              Waits, None, Checks
<1> QED BY <1>1, <1>2, <1>3, OthersUntouched

\* The client leaves, or the bus lets go of it.
LEMMA LeaveInv ==
    ASSUME TypeOK, IInv, NEW c \in Clients,
           Leave(c) \/ Unsubscribe(c) \/ Bus(c)
    PROVE  IInv'
<1>1. /\ UNCHANGED <<sequence, terminal, large, replay, floor>>
      /\ UNCHANGED <<queue, backlog, hand, fence, cursor>>
      /\ link'[c] \in Live <=> link[c] \in Live
      /\ \A d \in Clients \ {c} : link'[d] = link[d]
      /\ members' \ full' \subseteq members \ full
  BY DEF Leave, Unsubscribe, Bus, StoreOverflow, Drop, log, retained, thread,
         client, TypeOK, Live
<1>2. ClientInv(c)
  BY DEF IInv
<1>3. ClientInv(c)'
  BY <1>1, <1>2 DEF ClientInv, Resting, Ordered, Covered, Closed, Kept,
                    Waiting, Waits, Pending, Wanted, After, Due
<1> QED BY <1>1, <1>3, OthersUntouched

\* The replay continues where the client's knowledge ends, the channel
\* where the replay ends.
LEMMA SubscribeInv ==
    ASSUME TypeOK, IInv, NEW c \in Clients, Subscribe(c)
    PROVE  IInv'
<1>1. /\ UNCHANGED <<sequence, terminal, large, replay, floor, full, cursor>>
      /\ queue'[c] = {} /\ backlog'[c] = Replayed(c) /\ hand'[c] = None
      /\ fence'[c] = sequence /\ link'[c] = "open"
      /\ cursor[c] >= floor /\ Due(c)' = Due(c)
  BY DEF Subscribe, MustResync, log, retained, client, TypeOK, Wanted, Due
<1>2. /\ cursor[c] \in 0..sequence /\ sequence \in Nat /\ floor \in 0..sequence
      /\ Due(c) \subseteq 1..sequence /\ replay \subseteq 1..sequence
  BY DEF TypeOK, Wanted, Due
<1>3. \A e \in Due(c) : cursor[c] < e => e \in Replayed(c)
  BY <1>1, <1>2, BusAssumption DEF IInv, Window, Replayed, Wanted, Due
<1>4. Resting(c)' /\ Ordered(c)' /\ Waiting(c)'
  <2>1. Resting(c)' /\ Waiting(c)'
    BY <1>1, <1>2 DEF Resting, Waiting, Waits, Live, None, Checks
  <2>2. \A e \in Replayed(c) : cursor[c] < e /\ e <= sequence
    BY <1>2 DEF Replayed
  <2>3. Ordered(c)'
    BY <1>1, <2>2 DEF Ordered, None
  <2> QED BY <2>1, <2>3
<1>5. Covered(c)' /\ Closed(c)' /\ Kept(c)'
  BY <1>1, <1>2, <1>3 DEF Covered, Closed, Kept, Pending, After, Due, None
<1>6. ClientInv(c)'
  BY <1>4, <1>5 DEF ClientInv
<1> QED BY <1>1, <1>6, OthersUntouched DEF Subscribe, TypeOK

LEMMA StutterInv ==
    ASSUME IInv, UNCHANGED vars
    PROVE  IInv'
<1>1. ASSUME NEW d \in Clients PROVE ClientInv(d)'
  BY <1>1, Untouched
     DEF IInv, vars, log, retained, thread, client
<1> QED BY <1>1 DEF IInv, Window, vars, log, retained

LEMMA StepInv ==
    ASSUME TypeOK, IInv, [Next]_vars
    PROVE  IInv'
<1>1. CASE \E t, l \in BOOLEAN : Publish(t, l)
  BY <1>1, PublishInv
<1>2. ASSUME NEW c \in Clients,
             \/ Bus(c) \/ Threads(c)
             \/ Snapshot(c) \/ Subscribe(c) \/ RefuseStale(c) \/ Leave(c)
             \/ WriteFails(c) \/ WaitUnmatched(c) \/ WaitOn(c)
      PROVE  IInv'
  BY <1>2, TakeInv, HandInv, CheckInv, EndInv, LeaveInv, SubscribeInv
     DEF Threads
<1>3. CASE UNCHANGED vars
  BY <1>3, StutterInv
<1> QED BY <1>1, <1>2, <1>3 DEF Next

LEMMA Invariants == Spec => [](TypeOK /\ IInv)
<1>1. Spec => []TypeOK
  BY BusTypeCorrect
<1>2. TypeOK /\ IInv /\ [Next]_vars => IInv'
  BY StepInv
<1> QED BY <1>1, <1>2, InitInv, PTL DEF Spec

\* What a registered client wants and does not know of is on its way to it,
\* however subscribing, publishing and forwarding interleave.
THEOREM BusLosesNothing == Spec => []NothingLost
<1>1. TypeOK /\ IInv => NothingLost
  BY DEF TypeOK, IInv, ClientInv, Kept, NothingLost
<1> QED BY <1>1, Invariants, PTL

-----------------------------------------------------------------------------
LEMMA InitStream == Init => Stream!Init
BY DEF Init, Stream!Init

LEMMA StepStream ==
    ASSUME TypeOK, TypeOK', IInv, [Next]_vars
    PROVE  [Stream!Next]_(Stream!vars)
<1> USE DEF Stream!vars
<1>1. ASSUME NEW t \in BOOLEAN, NEW l \in BOOLEAN, Publish(t, l)
      PROVE  Stream!Publish
  BY <1>1 DEF Publish, Stream!Publish, client
<1>2. ASSUME NEW c \in Clients, Write(c) \/ WaitMatched(c)
      PROVE  Stream!Learn(c)
  <2>1. /\ link[c] \in Live /\ hand[c] > 0
        /\ cursor' = [cursor EXCEPT ![c] = hand[c]]
        /\ UNCHANGED <<sequence, terminal, large>>
    BY <1>2 DEF Write, WaitMatched, Answer, Waits, Forwards, None, log,
                TypeOK
  <2>2. hand[c] \in cursor[c]..sequence
    BY <2>1 DEF IInv, ClientInv, Ordered, TypeOK, Checks
  <2>3. Due(c) = Stream!Wanted(c)
    BY DEF Due, Wanted, Stream!Wanted
  <2>4. \A f \in Due(c) : f <= cursor[c] \/ f >= hand[c]
    <3>1. \A f \in Due(c) : f \in Int
      BY DEF Wanted, TypeOK, Due
    <3> QED BY <2>1, <3>1, HandIsNext DEF TypeOK, Checks
  <2> QED BY <2>1, <2>2, <2>3, <2>4 DEF Stream!Learn
<1>3. ASSUME NEW c \in Clients, WaitUnmatched(c)
      PROVE  Stream!Learn(c)
  <2>1. /\ Waits(c) /\ hand[c] = Checks
        /\ cursor' = [cursor EXCEPT ![c] = fence[c]]
        /\ UNCHANGED <<sequence, terminal, large>>
    BY <1>3 DEF WaitUnmatched, Answer, log
  <2>2. /\ cursor[c] \in 0..sequence /\ fence[c] \in 0..sequence
        /\ Due(c) \subseteq 1..sequence
    BY DEF TypeOK, Wanted, Due
  <2>3. /\ fence[c] \in cursor[c]..sequence
        /\ \A f \in Due(c) : f <= cursor[c] \/ f >= fence[c]
    BY <2>1, <2>2 DEF IInv, ClientInv, Waiting
  <2>4. Due(c) = Stream!Wanted(c)
    BY DEF Due, Wanted, Stream!Wanted
  <2> QED BY <2>1, <2>3, <2>4 DEF Stream!Learn
<1>4. ASSUME NEW c \in Clients, Snapshot(c)
      PROVE  Stream!Snapshot(c)
  BY <1>4 DEF Snapshot, Stream!Snapshot, log
<1>5. ASSUME NEW c \in Clients,
             \/ Bus(c) \/ Take(c) \/ TooLong(c) \/ WriteFails(c)
             \/ TellResync(c) \/ RunDry(c) \/ Unsubscribe(c) \/ PassOver(c)
             \/ WaitDrained(c) \/ WaitLost(c) \/ WaitOn(c) \/ Subscribe(c)
             \/ RefuseStale(c) \/ Leave(c)
      PROVE  UNCHANGED <<sequence, terminal, large, cursor>>
  BY <1>5 DEF Bus, StoreOverflow, Drop, Take, TooLong, WriteFails, Cut,
              TellResync, RunDry, Unsubscribe, PassOver, WaitDrained,
              WaitLost, Answer, WaitOn, Subscribe, RefuseStale, Leave, log,
              client
<1>6. CASE UNCHANGED vars
  BY <1>6 DEF vars, log, client
<1> QED
  BY <1>1, <1>2, <1>3, <1>4, <1>5, <1>6 DEF Next, Threads, Stream!Next

\* EventBus implements EventStream: for every number of clients and every
\* capacity, no client steps over an event it wants without a new snapshot.
THEOREM BusImplementsStream == Spec => ImplementsStream
<1>1. Spec => [](TypeOK /\ IInv)
  BY Invariants
<1> QED
  BY <1>1, InitStream, StepStream, PTL
     DEF ImplementsStream, Spec, Stream!Spec

-----------------------------------------------------------------------------
(* How a stream ends                                                       *)

InFlight(c) == backlog[c] \cup queue[c] \cup {hand[c], cursor[c], fence[c]}

\* A connection nobody has left is served until its subscriber overflows.
Attached(c) ==
    (link[c] = "open" \/ Waits(c)) /\ overflow[c] = 0
        => active[c] /\ c \in members

\* The mark of an overflow is past everything that is on its way.
Marked(c) ==
    link[c] \in Live =>
        /\ c \in members \ full => overflow[c] = 0
        /\ c \in full => /\ overflow[c] \in {0, sequence}
                         /\ \A p \in InFlight(c) : p < sequence
        /\ overflow[c] > 0 => \A p \in InFlight(c) : p < overflow[c]

\* The events the bus had room for.
Fed(c, e) ==
    c \in members \ full \/ e < overflow[c] \/ (c \in full /\ e < sequence)

\* Of those after the fence none is missing, the large ones included.
Complete(c) ==
    link[c] \in Live =>
        \A e \in Wanted(c) :
            fence[c] < e /\ cursor[c] < e /\ Fed(c, e) => e \in Pending(c)

\* A queue that was full held something that came after the fence.
Past(c) ==
    c \notin Waiters /\ link[c] \in Live /\ (overflow[c] > 0 \/ c \in full)
        => cursor[c] > fence[c] \/ queue[c] # {} \/ hand[c] > fence[c]

Noticed(c) == told[c] > 0 => link[c] \notin Live /\ told[c] > cursor[c]

Explained(c) ==
    link[c] = "over" =>
        /\ overflow[c] > 0
        /\ \A e \in Wanted(c) : e < overflow[c] => e <= cursor[c]

EndClient(c) ==
    /\ Attached(c) /\ Marked(c) /\ Complete(c) /\ Past(c)
    /\ Noticed(c) /\ Explained(c)

EndingInv == \A c \in Clients : EndClient(c)

LEMMA InitEnd == Init => EndingInv
BY DEF Init, EndingInv, EndClient, Attached, Marked, Complete, Past, Noticed,
       Explained, Waits, Live

\* A step that touches nothing of a client's.
LEMMA EndUntouched ==
    ASSUME NEW d \in Clients, EndClient(d),
           UNCHANGED <<sequence, terminal>>,
           queue'[d] = queue[d], backlog'[d] = backlog[d],
           hand'[d] = hand[d], fence'[d] = fence[d], link'[d] = link[d],
           cursor'[d] = cursor[d], told'[d] = told[d],
           active'[d] = active[d], overflow'[d] = overflow[d],
           d \in members' <=> d \in members, d \in full' <=> d \in full
    PROVE  EndClient(d)'
BY DEF EndClient, Attached, Marked, Complete, Past, Noticed, Explained,
       InFlight, Fed, Pending, Waits, Wanted

\* A step of client c is nobody else's.
LEMMA OnlyOne ==
    ASSUME TypeOK, NEW c \in Clients, NEW d \in Clients \ {c},
           \/ Bus(c) \/ Threads(c) \/ Snapshot(c) \/ Subscribe(c)
           \/ RefuseStale(c) \/ Leave(c) \/ WriteFails(c)
           \/ WaitUnmatched(c) \/ WaitOn(c)
    PROVE  /\ UNCHANGED <<sequence, terminal>>
           /\ queue'[d] = queue[d] /\ backlog'[d] = backlog[d]
           /\ hand'[d] = hand[d] /\ fence'[d] = fence[d]
           /\ link'[d] = link[d] /\ cursor'[d] = cursor[d]
           /\ told'[d] = told[d] /\ active'[d] = active[d]
           /\ overflow'[d] = overflow[d]
           /\ d \in members' <=> d \in members
           /\ d \in full' <=> d \in full
<1> USE DEF TypeOK, log, retained, flags, thread, client
<1>1. CASE Bus(c) BY <1>1 DEF Bus, StoreOverflow, Drop
<1>2. CASE Take(c) \/ Write(c) BY <1>2 DEF Take, Write
<1>3. CASE TooLong(c) \/ WriteFails(c)
  BY <1>3 DEF TooLong, WriteFails, Cut, Stop
<1>4. CASE TellResync(c) \/ RunDry(c) BY <1>4 DEF TellResync, RunDry, Stop
<1>5. CASE Unsubscribe(c) \/ PassOver(c) BY <1>5 DEF Unsubscribe, PassOver
<1>6. CASE WaitMatched(c) \/ WaitLost(c) \/ WaitUnmatched(c)
  BY <1>6 DEF WaitMatched, WaitLost, WaitUnmatched, Answer, Stop
<1>7. CASE WaitDrained(c) \/ WaitOn(c) BY <1>7 DEF WaitDrained, WaitOn
<1>8. CASE Snapshot(c) \/ Subscribe(c)
  BY <1>8 DEF Snapshot, Subscribe
<1>9. CASE RefuseStale(c) \/ Leave(c) BY <1>9 DEF RefuseStale, Leave
<1> QED
  BY <1>1, <1>2, <1>3, <1>4, <1>5, <1>6, <1>7, <1>8, <1>9 DEF Threads

LEMMA PublishEnd ==
    ASSUME TypeOK, IInv, EndingInv, NEW t \in BOOLEAN, NEW l \in BOOLEAN,
           Publish(t, l), NEW d \in Clients
    PROVE  EndClient(d)'
<1> DEFINE offered == d \in members /\ (t \/ d \notin Filtered)
           room == link[d] \in Live /\ Cardinality(queue[d]) < QueueCapacity
<1>1. /\ sequence \in Nat /\ sequence' = sequence + 1 /\ full = {}
      /\ UNCHANGED <<active, overflow, backlog, hand, fence, link, cursor,
                     told>>
  BY DEF Publish, TypeOK, Free, flags, thread, client
<1>2. /\ cursor[d] \in 0..sequence /\ fence[d] \in 0..sequence
      /\ hand[d] \in -1..sequence /\ backlog[d] \subseteq 1..sequence
      /\ queue[d] \subseteq 1..sequence /\ overflow[d] \in 0..sequence
      /\ terminal \subseteq 1..sequence
  BY DEF TypeOK, Checks
<1>3. /\ queue'[d] = IF offered /\ room THEN queue[d] \cup {sequence + 1}
                     ELSE queue[d]
      /\ d \in full' <=> offered /\ link[d] \in Live /\ ~ room
      /\ link[d] \in Live => (d \in members' <=> d \in members)
  <2>1. Cardinality(queue[d]) >= QueueCapacity
           <=> ~ (Cardinality(queue[d]) < QueueCapacity)
    <3>1. IsFiniteSet(queue[d])
      <4>1. 1 \in Int /\ sequence \in Int /\ queue[d] \in SUBSET (1..sequence)
        BY <1>1, <1>2
      <4>2. IsFiniteSet(1..sequence)
        BY <4>1, FS_Interval
      <4> QED BY <4>1, <4>2, FS_Subset
    <3>2. Cardinality(queue[d]) \in Nat
      BY <3>1, FS_CardinalityType
    <3> QED BY <3>2, BusAssumption
  <2>2. queue'[d] = IF offered /\ room THEN queue[d] \cup {sequence + 1}
                    ELSE queue[d]
    BY <2>1 DEF Publish
  <2>3. d \in full' <=> offered /\ link[d] \in Live /\ ~ room
    BY <2>1 DEF Publish
  <2>4. link[d] \in Live => (d \in members' <=> d \in members)
    BY DEF Publish
  <2> QED BY <2>2, <2>3, <2>4
<1>4. /\ Wanted(d) \subseteq Wanted(d)'
      /\ Wanted(d)' \subseteq Wanted(d) \cup {sequence + 1}
      /\ Wanted(d) \subseteq 1..sequence
      /\ d \in members /\ sequence + 1 \in Wanted(d)' => offered
  BY <1>1, <1>2 DEF Publish, Wanted
<1>5. EndClient(d) /\ Ordered(d)
  BY DEF EndingInv, IInv, ClientInv
<1> HIDE DEF offered, room
<1>6. Attached(d)'
  BY <1>1, <1>3, <1>5 DEF EndClient, Attached, Waits, Live
<1>7. Marked(d)'
  BY <1>1, <1>2, <1>3, <1>5 DEF EndClient, Marked, InFlight, offered
<1>8. Complete(d)'
  BY <1>1, <1>2, <1>3, <1>4, <1>5
     DEF EndClient, Marked, Complete, Fed, Pending, offered
<1>9. Past(d)'
  <2>1. queue[d] = {} => Cardinality(queue[d]) < QueueCapacity
    BY FS_EmptySet, BusAssumption
  <2> QED BY <1>1, <1>2, <1>3, <1>5, <2>1 DEF EndClient, Past, room
<1>10. Noticed(d)' /\ Explained(d)'
  BY <1>1, <1>2, <1>4, <1>5 DEF EndClient, Noticed, Explained
<1> QED BY <1>6, <1>7, <1>8, <1>9, <1>10 DEF EndClient

\* A subscriber leaves the bus: its mark is set before its sender is dropped.
LEMMA BusEnd ==
    ASSUME TypeOK, IInv, EndingInv, NEW c \in Clients, Bus(c)
    PROVE  EndClient(c)'
<1>1. /\ UNCHANGED <<sequence, terminal, large>>
      /\ UNCHANGED <<queue, backlog, hand, fence, link, cursor, told>>
      /\ c \in full
      /\ \/ /\ overflow[c] = 0 /\ overflow'[c] = sequence
            /\ UNCHANGED <<members, full, active>>
         \/ /\ overflow[c] # 0 /\ UNCHANGED overflow
            /\ c \notin members' /\ c \notin full'
  BY DEF Bus, StoreOverflow, Drop, log, retained, thread, client, TypeOK
<1>2. /\ sequence \in Nat /\ overflow[c] \in 0..sequence /\ c \in members
      /\ cursor[c] \in 0..sequence /\ Wanted(c) \subseteq 1..sequence
  BY <1>1 DEF TypeOK, Wanted
<1>3. EndClient(c)
  BY DEF EndingInv
<1>4. Attached(c)' /\ Noticed(c)'
  <2>1. link[c] \in Live => overflow'[c] > 0
    BY <1>1, <1>2, <1>3 DEF EndClient, Marked, InFlight
  <2> QED BY <1>1, <1>3, <2>1 DEF EndClient, Attached, Noticed, Waits, Live
<1>5. Marked(c)' /\ Past(c)'
  BY <1>1, <1>2, <1>3 DEF EndClient, Marked, Past, InFlight
<1>6. Complete(c)'
  BY <1>1, <1>2, <1>3 DEF EndClient, Marked, Complete, Fed, Pending, Wanted
<1>7. Explained(c)'
  BY <1>1, <1>2, <1>3 DEF EndClient, Explained, Wanted
<1> QED BY <1>4, <1>5, <1>6, <1>7 DEF EndClient

\* What is taken stays on its way; what is written is known.
LEMMA ForwardEnd ==
    ASSUME TypeOK, IInv, EndingInv, NEW c \in Clients,
           \/ Take(c) \/ Write(c) \/ PassOver(c) \/ WaitDrained(c)
           \/ WaitOn(c) \/ Leave(c)
    PROVE  EndClient(c)'
<1>1. /\ UNCHANGED <<sequence, terminal, members, full, active, overflow>>
      /\ UNCHANGED <<fence, told>>
      /\ link[c] \in Live /\ link'[c] \in Live
      /\ link'[c] = "open" \/ Waits(c)' => link[c] = "open" \/ Waits(c)
  <2> USE DEF Waits, Live, log, retained, flags, client, TypeOK
  <2>1. CASE Take(c) BY <2>1 DEF Take
  <2>2. CASE Write(c) BY <2>2 DEF Write, Forwards
  <2>3. CASE PassOver(c) \/ WaitDrained(c) \/ WaitOn(c)
    BY <2>3 DEF PassOver, WaitDrained, WaitOn
  <2>4. CASE Leave(c) BY <2>4 DEF Leave, thread
  <2> QED BY <2>1, <2>2, <2>3, <2>4
<1>2. /\ cursor[c] \in 0..sequence /\ fence[c] \in 0..sequence
      /\ hand[c] \in -1..sequence /\ backlog[c] \subseteq 1..sequence
      /\ queue[c] \subseteq 1..sequence /\ overflow[c] \in 0..sequence
      /\ sequence \in Nat /\ Wanted(c) \subseteq 1..sequence
      /\ Wanted(c)' = Wanted(c)
  BY <1>1 DEF TypeOK, Checks, Wanted
<1>3. EndClient(c) /\ Ordered(c)
  BY DEF EndingInv, IInv, ClientInv
<1>4. \/ /\ hand[c] = 0 /\ cursor'[c] = cursor[c]
         /\ \E e \in backlog[c] \cup queue[c] :
              /\ hand'[c] = e /\ backlog'[c] = backlog[c] \ {e}
              /\ queue'[c] = queue[c] \ {e}
      \/ /\ hand[c] > 0 /\ cursor'[c] = hand[c] /\ hand'[c] = 0
         /\ backlog'[c] = backlog[c] /\ queue'[c] = queue[c]
      \/ /\ c \in Waiters /\ cursor'[c] = cursor[c]
         /\ hand[c] \notin Wanted(c) /\ hand'[c] \in {0, -1}
         /\ backlog'[c] = backlog[c] /\ queue'[c] = queue[c]
      \/ /\ hand'[c] = hand[c] /\ cursor'[c] = cursor[c]
         /\ backlog'[c] = backlog[c] /\ queue'[c] = queue[c]
  <2>1. CASE Take(c)
    BY <2>1 DEF Take, IsLeast, client, TypeOK, None
  <2>2. CASE Write(c)
    BY <2>2 DEF Write, TypeOK, None
  <2>3. CASE PassOver(c)
    BY <2>3 DEF PassOver, Waits, Wanted, client, TypeOK, None
  <2>4. CASE WaitDrained(c) \/ WaitOn(c)
    BY <1>2, <2>4 DEF WaitDrained, WaitOn, Waits, client, TypeOK, None, Checks
  <2>5. CASE Leave(c)
    BY <2>5 DEF Leave, thread, client
  <2> QED BY <2>1, <2>2, <2>3, <2>4, <2>5
<1>5. InFlight(c)' \subseteq InFlight(c) \cup {0, -1}
  BY <1>1, <1>4 DEF InFlight
<1>6. Attached(c)' /\ Noticed(c)' /\ Explained(c)'
  BY <1>1, <1>3 DEF EndClient, Attached, Noticed, Explained, Live
<1>7. Marked(c)'
  <2>1. sequence > 0 => 0 < sequence /\ -1 < sequence
    BY <1>2
  <2>2. c \in full => sequence > 0
    BY <1>1, <1>2, <1>3 DEF EndClient, Marked, InFlight
  <2> QED BY <1>1, <1>2, <1>3, <1>5, <2>1, <2>2 DEF EndClient, Marked
<1>8. Complete(c)'
  <2>1. \A e \in Wanted(c) : Fed(c, e)' <=> Fed(c, e)
    BY <1>1 DEF Fed
  <2> HIDE DEF Fed
  <2> QED BY <1>1, <1>2, <1>3, <1>4, <2>1
          DEF EndClient, Complete, Pending, Ordered
<1>9. Past(c)'
  BY <1>1, <1>2, <1>3, <1>4 DEF EndClient, Past, Ordered
<1> QED BY <1>6, <1>7, <1>8, <1>9 DEF EndClient

\* A connection that is not running owes a true notice, and an explanation.
LEMMA EndedEnd ==
    ASSUME NEW c \in Clients, link'[c] \notin Live, Noticed(c)', Explained(c)'
    PROVE  EndClient(c)'
BY DEF EndClient, Attached, Marked, Complete, Past, Waits, Live

LEMMA StopEnd ==
    ASSUME TypeOK, IInv, EndingInv, NEW c \in Clients,
           TooLong(c) \/ WriteFails(c) \/ TellResync(c) \/ RunDry(c)
    PROVE  EndClient(c)'
<1>1. /\ UNCHANGED <<sequence, terminal, members, full, overflow, cursor>>
      /\ UNCHANGED fence
      /\ link[c] \in Live /\ c \notin Waiters
  BY DEF TooLong, WriteFails, Cut, TellResync, RunDry, Forwards, log,
         retained, flags, client
<1>2. /\ cursor[c] \in 0..sequence /\ overflow[c] \in 0..sequence
      /\ fence[c] \in 0..sequence /\ Wanted(c) \subseteq 1..sequence
      /\ Wanted(c)' = Wanted(c) /\ sequence \in Nat
  BY <1>1 DEF TypeOK, Wanted
<1>3. EndClient(c)
  BY DEF EndingInv
<1>4. told[c] = 0
  BY <1>1, <1>3 DEF EndClient, Noticed, TypeOK
<1>5. CASE TooLong(c) \/ WriteFails(c)
  <2>1. link'[c] \in {"gone", "cut"} /\ told' = told
    BY <1>5 DEF TooLong, WriteFails, Cut, Stop, client, TypeOK
  <2>2. Noticed(c)' /\ Explained(c)' /\ link'[c] \notin Live
    BY <1>4, <2>1 DEF Noticed, Explained, Live
  <2> QED BY <2>2, EndedEnd
<1>6. CASE TellResync(c)
  <2>1. /\ told'[c] = overflow[c] /\ ~ active[c]
        /\ link'[c] = IF link[c] = "left" THEN "gone"
                      ELSE IF overflow[c] > 0 THEN "stale" ELSE "over"
    BY <1>6 DEF TellResync, Stop, TypeOK
  <2>2. link[c] = "open" => overflow[c] > 0
    BY <1>2, <1>3, <2>1 DEF EndClient, Attached
  <2>3. link'[c] \in {"gone", "stale"}
    BY <1>1, <2>1, <2>2 DEF Live
  <2>4. overflow[c] > 0 => cursor[c] < overflow[c]
    BY <1>1, <1>3 DEF EndClient, Marked, InFlight
  <2>5. Noticed(c)' /\ Explained(c)' /\ link'[c] \notin Live
    BY <1>1, <2>1, <2>3, <2>4 DEF Noticed, Explained, Live
  <2> QED BY <2>5, EndedEnd
<1>7. CASE RunDry(c)
  <2>1. /\ hand[c] = 0 /\ backlog[c] = {} /\ queue[c] = {} /\ c \notin members
        /\ link'[c] = IF link[c] = "left" THEN "gone" ELSE "over"
        /\ told' = told
    BY <1>7 DEF RunDry, Stop, client, TypeOK, None
  <2>2. link'[c] = "over" => overflow[c] > 0
    BY <1>1, <1>2, <1>3, <2>1 DEF EndClient, Attached, Live
  <2>3. ASSUME overflow[c] > 0, NEW e \in Wanted(c), e < overflow[c]
        PROVE  e <= cursor[c]
    <3>1. cursor[c] > fence[c]
      BY <1>1, <1>2, <1>3, <2>1, <2>3 DEF EndClient, Past
    <3>2. e > cursor[c] => e \in Pending(c)
      BY <1>1, <1>2, <1>3, <2>3, <3>1 DEF EndClient, Complete, Fed
    <3> QED BY <1>2, <2>1, <3>2 DEF Pending
  <2>4. Noticed(c)' /\ Explained(c)' /\ link'[c] \notin Live
    BY <1>1, <1>2, <1>4, <2>1, <2>2, <2>3 DEF Noticed, Explained, Live
  <2> QED BY <2>4, EndedEnd
<1> QED BY <1>5, <1>6, <1>7

LEMMA AnswerEnd ==
    ASSUME TypeOK, IInv, EndingInv, NEW c \in Clients,
           WaitMatched(c) \/ WaitLost(c) \/ WaitUnmatched(c)
    PROVE  EndClient(c)'
<1>1. /\ Waits(c) /\ link'[c] \in {"gone", "matched", "unmatched", "stale"}
      /\ UNCHANGED <<sequence, terminal, overflow>>
  BY DEF WaitMatched, WaitLost, WaitUnmatched, Answer, Stop, log, TypeOK
<1>2. /\ cursor[c] \in 0..sequence /\ overflow[c] \in 0..sequence
      /\ fence[c] \in 0..sequence /\ sequence \in Nat
  BY DEF TypeOK
<1>3. EndClient(c)
  BY DEF EndingInv
<1>4. told[c] = 0
  BY <1>1, <1>3 DEF EndClient, Noticed, TypeOK, Waits
<1>5. Explained(c)' /\ link'[c] \notin Live
  BY <1>1 DEF Explained, Live
<1>6. CASE WaitMatched(c) \/ WaitUnmatched(c)
  <2>1. Noticed(c)'
    BY <1>4, <1>6 DEF WaitMatched, WaitUnmatched, Noticed
  <2> QED BY <1>5, <2>1, EndedEnd
<1>7. CASE WaitLost(c)
  <2>1. /\ ~ active[c] /\ cursor' = cursor
        /\ told'[c] = IF overflow[c] > fence[c] THEN overflow[c] ELSE fence[c]
    BY <1>7 DEF WaitLost, TypeOK
  <2>2. overflow[c] > 0
    BY <1>1, <1>2, <1>3, <2>1 DEF EndClient, Attached
  <2>3. cursor[c] < overflow[c] /\ fence[c] < overflow[c]
    BY <1>1, <1>3, <2>2 DEF EndClient, Marked, InFlight, Waits
  <2>4. Noticed(c)'
    BY <1>2, <1>5, <2>1, <2>3 DEF Noticed
  <2> QED BY <1>5, <2>4, EndedEnd
<1> QED BY <1>6, <1>7

LEMMA RestartEnd ==
    ASSUME TypeOK, IInv, EndingInv, NEW c \in Clients,
           Snapshot(c) \/ RefuseStale(c) \/ Subscribe(c) \/ Unsubscribe(c)
    PROVE  EndClient(c)'
<1>1. UNCHANGED <<sequence, terminal, full>>
  BY DEF Snapshot, RefuseStale, Subscribe, Unsubscribe, log, retained
<1>2. /\ cursor[c] \in 0..sequence /\ overflow[c] \in 0..sequence
      /\ floor \in 0..sequence /\ sequence \in Nat
      /\ Wanted(c) \subseteq 1..sequence /\ Wanted(c)' = Wanted(c)
  BY <1>1 DEF TypeOK, Wanted
<1>3. EndClient(c)
  BY DEF EndingInv
<1>4. CASE Snapshot(c)
  <2>1. /\ link'[c] = link[c] /\ link[c] \notin Live /\ told'[c] = 0
        /\ cursor'[c] = sequence /\ overflow' = overflow
    BY <1>4 DEF Snapshot, Idle, thread, flags, TypeOK
  <2>2. Noticed(c)' /\ Explained(c)'
    BY <1>2, <1>3, <2>1 DEF EndClient, Noticed, Explained
  <2> QED BY <2>1, <2>2, EndedEnd
<1>5. CASE RefuseStale(c)
  <2>1. /\ link'[c] = "stale" /\ told'[c] = sequence /\ cursor' = cursor
        /\ cursor[c] < floor
    BY <1>5 DEF RefuseStale, MustResync, TypeOK
  <2>2. Noticed(c)' /\ Explained(c)' /\ link'[c] \notin Live
    BY <1>2, <2>1 DEF Noticed, Explained, Live
  <2> QED BY <2>2, EndedEnd
<1>6. CASE Subscribe(c)
  <2>1. /\ c \in members' /\ active'[c] /\ overflow'[c] = 0 /\ full = {}
        /\ queue'[c] = {} /\ hand'[c] = 0 /\ fence'[c] = sequence
        /\ link'[c] = "open" /\ told' = told /\ told[c] = 0
    BY <1>6 DEF Subscribe, Free, client, TypeOK, None
  <2>2. Attached(c)' /\ Noticed(c)' /\ Explained(c)' /\ Past(c)'
    BY <1>1, <2>1 DEF Attached, Noticed, Explained, Past
  <2>3. Marked(c)'
    BY <1>1, <2>1 DEF Marked
  <2>4. Complete(c)'
    BY <1>1, <1>2, <2>1 DEF Complete
  <2> QED BY <2>2, <2>3, <2>4 DEF EndClient
<1>7. CASE Unsubscribe(c)
  <2>1. /\ UNCHANGED <<queue, backlog, hand, fence, link, cursor, told>>
        /\ UNCHANGED overflow
        /\ link[c] # "open" /\ ~ Waits(c) /\ full = {} /\ c \notin members'
    BY <1>7 DEF Unsubscribe, Free, thread, client
  <2>2. Attached(c)' /\ Noticed(c)' /\ Explained(c)' /\ Past(c)'
    BY <1>1, <1>2, <1>3, <2>1
       DEF EndClient, Attached, Noticed, Explained, Past, Waits
  <2>3. Marked(c)' /\ Complete(c)'
    BY <1>1, <1>2, <1>3, <2>1
       DEF EndClient, Marked, Complete, InFlight, Fed, Pending
  <2> QED BY <2>2, <2>3 DEF EndClient
<1> QED BY <1>4, <1>5, <1>6, <1>7

LEMMA StepEnd ==
    ASSUME TypeOK, IInv, EndingInv, [Next]_vars
    PROVE  EndingInv'
<1>1. CASE \E t, l \in BOOLEAN : Publish(t, l)
  BY <1>1, PublishEnd DEF EndingInv
<1>2. ASSUME NEW c \in Clients,
             \/ Bus(c) \/ Threads(c)
             \/ Snapshot(c) \/ Subscribe(c) \/ RefuseStale(c) \/ Leave(c)
             \/ WriteFails(c) \/ WaitUnmatched(c) \/ WaitOn(c)
      PROVE  EndingInv'
  <2>1. EndClient(c)'
    BY <1>2, BusEnd, ForwardEnd, StopEnd, AnswerEnd, RestartEnd DEF Threads
  <2>2. ASSUME NEW d \in Clients \ {c} PROVE EndClient(d)'
    BY <1>2, <2>2, OnlyOne, EndUntouched DEF EndingInv
  <2> QED BY <2>1, <2>2 DEF EndingInv
<1>3. CASE UNCHANGED vars
  BY <1>3, EndUntouched
     DEF EndingInv, vars, log, retained, flags, thread, client
<1> QED BY <1>1, <1>2, <1>3 DEF Next

\* Nothing a client wants is lost on its way, a stream that ends by itself has
\* delivered everything before the overflow, and a notice of lost events is
\* never for events the client knows of.
THEOREM BusIsSafe == Spec => []BusSafe
<1>1. TypeOK /\ IInv /\ EndingInv => EndIsExplained /\ NoticeIsAhead
  BY DEF EndingInv, EndClient, Explained, Noticed, EndIsExplained, NoticeIsAhead
<1>2. TypeOK /\ IInv /\ EndingInv => NothingLost
  BY DEF TypeOK, IInv, ClientInv, Kept, NothingLost
<1>3. TypeOK /\ IInv /\ EndingInv => BusSafe
  BY <1>1, <1>2 DEF BusSafe
<1> QED BY <1>3, InitEnd, StepEnd, Invariants, PTL DEF Spec
=============================================================================
