---------------------------- MODULE SessionProofs ---------------------------
(***************************************************************************)
(* Sessions of this machine and of others.                                 *)
(*                                                                         *)
(* ServerLifecycle for any number of servers and commands, whatever they   *)
(* are started to do: a session has one server, the next one goes on with  *)
(* all the work of the last, and a stop that reports success has ended the *)
(* server it spoke to.                                                     *)
(* The startup lock is not held while a server runs: what keeps a second   *)
(* one out then is that the first is behind both sockets (Places), which   *)
(* the holder of the lock looks at before it claims them (Claims).         *)
(*                                                                         *)
(* RemoteFollower for any number of events, failures and restarts of the   *)
(* owner: no event is taken without a snapshot after it, and what is shown *)
(* changes its owner only with its watcher.                                *)
(* A failure is the last message of its watcher (LastWord), and a watcher  *)
(* speaks of one owner (OneOwner).                                         *)
(***************************************************************************)
EXTENDS ServerLifecycle, RemoteFollower, TLAPS

-----------------------------------------------------------------------------
(* The inductive invariant of ServerLifecycle *)

Verbs == Stopping \cup {"attach", "start", "session start", "delete"}
Phases == Alive \cup {"none", "lost", "failed", "dead"}
Pcs == {"begin", "ping", "long ping", "busy ping", "stop", "request", "timed out", "unanswered",
        "confirm", "confirmed", "kill", "wait down", "wait gone", "spawn", "accept", "wait up",
        "start", "wait ready", "too late", "cancel", "remove", "ok", "failed"}

ServerType == [phase : Phases, lock : 0..MaxDirs, mem : 0..MaxWork, owner : Commands \cup {None},
               stop : SUBSET Commands]
Peers == Servers \cup {None}
CommandType == [pc : Pcs, verb : Verbs, pid : Peers, sure : BOOLEAN, child : Peers, target : Peers]

TypeInv ==
  /\ server \in [Servers -> ServerType]
  /\ path \in [Sockets -> Servers \cup {None}]
  /\ dirs \in 1..MaxDirs /\ dir \in {0, dirs}
  /\ disk \in 0..work /\ work \in 0..MaxWork /\ unsaved \in BOOLEAN
  /\ \A s \in Servers : server[s].mem <= work
  /\ cmd \in [Commands -> CommandType]
  /\ faults \in 0..MaxFaults

\* Between its first socket and its end, and after.
Bound == {"apiBound", "clientFree"} \cup Up
Reached == Bound \cup {"failed", "dead"}
\* Past the check that nobody else is there, with the lock.
Claiming == {"checked", "apiFree", "apiBound", "clientFree", "restoring"}
Serving == {"running", "hung", "saving"}

\* Nobody alive is without a lock file, and one process holds each.
Locks ==
  /\ \A s \in Servers : /\ server[s].lock <= dirs
                        /\ server[s].phase \in Alive \ {"launched"} => server[s].lock # 0
  /\ \A s, t \in Servers :
       /\ server[s].phase \in Locked /\ server[t].phase \in Locked
       /\ server[s].lock = server[t].lock
       => s = t

\* A socket file was bound by the server behind it.
PathsBound == \A p \in Sockets : path[p] # None => server[path[p]].phase \in Reached

\* A server with a session, or about to have one, is behind its sockets.
Places ==
  dir = 1 => \A s \in Servers :
    /\ server[s].phase \in Bound => path["api"] = s
    /\ server[s].phase \in Up => path["client"] = s

\* Nobody claims the sockets of a server that is there.
Claims ==
  dir = 1 => \A s, t \in Servers :
    server[s].phase \in Claiming /\ server[t].phase \in Up => s = t

\* The work is on disk, or a server that serves has it.
Works ==
  ~unsaved /\ dir = 1 =>
    /\ \A s \in Servers : server[s].phase \in Up => server[s].mem = work
    /\ disk = work \/ \E s \in Servers : server[s].phase \in Serving

\* Commands speak to servers that were bound.
Contacts ==
  \A c \in Commands :
    /\ cmd[c].pid # None => server[cmd[c].pid].phase \in Reached
    /\ cmd[c].target # None => server[cmd[c].target].phase \in Reached

\* Where a command is that has seen its server go.
AfterStop == {"spawn", "accept", "wait up", "start", "wait ready", "too late", "cancel", "ok"}

StopsEnd ==
  dir = 1 => \A c \in Commands :
    cmd[c].pc \in AfterStop /\ cmd[c].verb \in Stopping /\ cmd[c].target # None =>
      server[cmd[c].target].phase \in {"failed", "dead"}

\* Only an attach asks whether its server is well.
Pings == \A c \in Commands : cmd[c].pc \in {"ping", "long ping"} => cmd[c].verb \notin Stopping

Launching == {"accept", "wait ready", "too late", "cancel"}

\* The launcher of a server that was not accepted yet is still there.
Owners ==
  /\ \A c \in Commands : cmd[c].pc \in Launching => cmd[c].child # None
  /\ \A s \in Servers :
       server[s].owner # None /\ server[s].phase \in Alive =>
         /\ cmd[server[s].owner].pc \in Launching
         /\ cmd[server[s].owner].child = s

Starts == Locks /\ PathsBound /\ Places /\ Claims /\ Works
Inv == TypeInv /\ Starts /\ Contacts /\ StopsEnd /\ Pings /\ Owners

-----------------------------------------------------------------------------
(* Changing one field of one process *)

\* A command with another value of a field, and the rest as it was.
LEMMA CommandFields ==
  ASSUME NEW r \in CommandType
  PROVE  /\ r.pc \in Pcs /\ r.verb \in Verbs /\ r.pid \in Servers \cup {None} /\ r.sure \in BOOLEAN
         /\ r.child \in Servers \cup {None} /\ r.target \in Servers \cup {None}
BY DEF CommandType, Peers

LEMMA PcSet ==
  ASSUME NEW f \in [Commands -> CommandType], NEW c \in Commands, NEW v \in Pcs
  PROVE  LET g == [f EXCEPT ![c].pc = v]
         IN  /\ g \in [Commands -> CommandType] /\ \A d \in Commands : d # c => g[d] = f[d]
             /\ g[c].pc = v /\ g[c].verb = f[c].verb /\ g[c].pid = f[c].pid
             /\ g[c].child = f[c].child /\ g[c].target = f[c].target
<1>1. f[c] \in CommandType
  OBVIOUS
<1>2. LET r == [f[c] EXCEPT !.pc = v]
      IN  /\ r \in CommandType /\ r.pc = v /\ r.verb = f[c].verb /\ r.pid = f[c].pid
          /\ r.child = f[c].child /\ r.target = f[c].target
  BY <1>1 DEF CommandType
<1>. QED
  BY <1>2

LEMMA PidSet ==
  ASSUME NEW f \in [Commands -> CommandType], NEW c \in Commands, NEW v \in Peers
  PROVE  LET g == [f EXCEPT ![c].pid = v]
         IN  /\ g \in [Commands -> CommandType] /\ \A d \in Commands : d # c => g[d] = f[d]
             /\ g[c].pid = v /\ g[c].verb = f[c].verb /\ g[c].pc = f[c].pc
             /\ g[c].child = f[c].child /\ g[c].target = f[c].target
<1>1. f[c] \in CommandType
  OBVIOUS
<1>2. LET r == [f[c] EXCEPT !.pid = v]
      IN  /\ r \in CommandType /\ r.pid = v /\ r.verb = f[c].verb /\ r.pc = f[c].pc
          /\ r.child = f[c].child /\ r.target = f[c].target
  BY <1>1 DEF CommandType
<1>. QED
  BY <1>2

LEMMA TargetSet ==
  ASSUME NEW f \in [Commands -> CommandType], NEW c \in Commands, NEW v \in Peers
  PROVE  LET g == [f EXCEPT ![c].target = v]
         IN  /\ g \in [Commands -> CommandType] /\ \A d \in Commands : d # c => g[d] = f[d]
             /\ g[c].target = v /\ g[c].verb = f[c].verb /\ g[c].pc = f[c].pc
             /\ g[c].child = f[c].child /\ g[c].pid = f[c].pid
<1>1. f[c] \in CommandType
  OBVIOUS
<1>2. LET r == [f[c] EXCEPT !.target = v]
      IN  /\ r \in CommandType /\ r.target = v /\ r.verb = f[c].verb /\ r.pc = f[c].pc
          /\ r.child = f[c].child /\ r.pid = f[c].pid
  BY <1>1 DEF CommandType
<1>. QED
  BY <1>2

LEMMA ChildSet ==
  ASSUME NEW f \in [Commands -> CommandType], NEW c \in Commands, NEW v \in Peers
  PROVE  LET g == [f EXCEPT ![c].child = v]
         IN  /\ g \in [Commands -> CommandType] /\ \A d \in Commands : d # c => g[d] = f[d]
             /\ g[c].child = v /\ g[c].verb = f[c].verb /\ g[c].pc = f[c].pc
             /\ g[c].target = f[c].target /\ g[c].pid = f[c].pid
<1>1. f[c] \in CommandType
  OBVIOUS
<1>2. LET r == [f[c] EXCEPT !.child = v]
      IN  /\ r \in CommandType /\ r.child = v /\ r.verb = f[c].verb /\ r.pc = f[c].pc
          /\ r.target = f[c].target /\ r.pid = f[c].pid
  BY <1>1 DEF CommandType
<1>. QED
  BY <1>2

LEMMA SureSet ==
  ASSUME NEW f \in [Commands -> CommandType], NEW c \in Commands, NEW v \in BOOLEAN
  PROVE  LET g == [f EXCEPT ![c].sure = v]
         IN  /\ g \in [Commands -> CommandType] /\ \A d \in Commands : d # c => g[d] = f[d]
             /\ g[c].child = f[c].child /\ g[c].verb = f[c].verb /\ g[c].pc = f[c].pc
             /\ g[c].target = f[c].target /\ g[c].pid = f[c].pid
<1>1. f[c] \in CommandType
  OBVIOUS
<1>2. LET r == [f[c] EXCEPT !.sure = v]
      IN  /\ r \in CommandType /\ r.child = f[c].child /\ r.verb = f[c].verb /\ r.pc = f[c].pc
          /\ r.target = f[c].target /\ r.pid = f[c].pid
  BY <1>1 DEF CommandType
<1>. QED
  BY <1>2

\* A server with another phase, lock file, memory, owner or stop requests.
LEMMA PhaseSet ==
  ASSUME NEW f \in [Servers -> ServerType], NEW s \in Servers, NEW v \in Phases
  PROVE  LET g == [f EXCEPT ![s].phase = v]
         IN  /\ g \in [Servers -> ServerType] /\ \A t \in Servers : t # s => g[t] = f[t]
             /\ g[s].phase = v /\ g[s].lock = f[s].lock /\ g[s].mem = f[s].mem /\ g[s].owner = f[s].owner
<1>1. f[s] \in ServerType
  OBVIOUS
<1>2. LET r == [f[s] EXCEPT !.phase = v]
      IN  /\ r \in ServerType /\ r.phase = v /\ r.lock = f[s].lock /\ r.mem = f[s].mem
          /\ r.owner = f[s].owner
  BY <1>1 DEF ServerType
<1>. QED
  BY <1>2

LEMMA LockSet ==
  ASSUME NEW f \in [Servers -> ServerType], NEW s \in Servers, NEW v \in 0..MaxDirs
  PROVE  LET g == [f EXCEPT ![s].lock = v]
         IN  /\ g \in [Servers -> ServerType] /\ \A t \in Servers : t # s => g[t] = f[t]
             /\ g[s].lock = v /\ g[s].phase = f[s].phase /\ g[s].mem = f[s].mem /\ g[s].owner = f[s].owner
<1>1. f[s] \in ServerType
  OBVIOUS
<1>2. LET r == [f[s] EXCEPT !.lock = v]
      IN  /\ r \in ServerType /\ r.lock = v /\ r.phase = f[s].phase /\ r.mem = f[s].mem
          /\ r.owner = f[s].owner
  BY <1>1 DEF ServerType
<1>. QED
  BY <1>2

LEMMA MemSet ==
  ASSUME NEW f \in [Servers -> ServerType], NEW s \in Servers, NEW v \in 0..MaxWork
  PROVE  LET g == [f EXCEPT ![s].mem = v]
         IN  /\ g \in [Servers -> ServerType] /\ \A t \in Servers : t # s => g[t] = f[t]
             /\ g[s].mem = v /\ g[s].phase = f[s].phase /\ g[s].lock = f[s].lock /\ g[s].owner = f[s].owner
<1>1. f[s] \in ServerType
  OBVIOUS
<1>2. LET r == [f[s] EXCEPT !.mem = v]
      IN  /\ r \in ServerType /\ r.mem = v /\ r.phase = f[s].phase /\ r.lock = f[s].lock
          /\ r.owner = f[s].owner
  BY <1>1 DEF ServerType
<1>. QED
  BY <1>2

LEMMA OwnerSet ==
  ASSUME NEW f \in [Servers -> ServerType], NEW s \in Servers, NEW v \in Commands \cup {None}
  PROVE  LET g == [f EXCEPT ![s].owner = v]
         IN  /\ g \in [Servers -> ServerType] /\ \A t \in Servers : t # s => g[t] = f[t]
             /\ g[s].owner = v /\ g[s].phase = f[s].phase /\ g[s].lock = f[s].lock /\ g[s].mem = f[s].mem
<1>1. f[s] \in ServerType
  OBVIOUS
<1>2. LET r == [f[s] EXCEPT !.owner = v]
      IN  /\ r \in ServerType /\ r.owner = v /\ r.phase = f[s].phase /\ r.lock = f[s].lock
          /\ r.mem = f[s].mem
  BY <1>1 DEF ServerType
<1>. QED
  BY <1>2

LEMMA StopAsked ==
  ASSUME NEW f \in [Servers -> ServerType], NEW s \in Servers, NEW c \in Commands
  PROVE  LET g == [f EXCEPT ![s].stop = @ \cup {c}]
         IN  /\ g \in [Servers -> ServerType] /\ \A t \in Servers : t # s => g[t] = f[t]
             /\ g[s].owner = f[s].owner /\ g[s].phase = f[s].phase /\ g[s].lock = f[s].lock
             /\ g[s].mem = f[s].mem
<1>1. f[s] \in ServerType /\ f[s].stop \cup {c} \in SUBSET Commands
  BY DEF ServerType
<1>2. LET r == [f[s] EXCEPT !.stop = @ \cup {c}]
      IN  /\ r \in ServerType /\ r.owner = f[s].owner /\ r.phase = f[s].phase /\ r.lock = f[s].lock
          /\ r.mem = f[s].mem
  BY <1>1 DEF ServerType
<1>. QED
  BY <1>2

-----------------------------------------------------------------------------
(* The steps of servers *)

\* No server comes back, or to life, and none gets an owner.
Onward ==
  \A s \in Servers :
    /\ server[s].phase \in Reached => server'[s].phase \in Reached
    /\ server[s].phase \in {"failed", "dead"} => server'[s].phase \in {"failed", "dead"}
    /\ server'[s].owner \in {server[s].owner, None}
    /\ server'[s].phase \in Alive => server[s].phase \in Alive

\* The first deletion of a session is not undone.
DirKept == dir' = 1 => dir = 1

\* One server changes its phase, and with it at most what is on disk or whether its
\* socket files are there.
LEMMA PhaseChange ==
  ASSUME TypeInv, Starts, NEW s \in Servers, NEW at \in Phases,
         \A t \in Servers : t # s => server'[t] = server[t],
         server'[s].phase = at, server'[s].lock = server[s].lock, server'[s].mem = server[s].mem,
         dir' = dir, dirs' = dirs, work' = work, unsaved => unsaved',
         \A p \in Sockets : \/ path'[p] = path[p]
                            \/ path[p] = s /\ path'[p] = None /\ at \notin Bound,
         at \in Alive \ {"launched"} => server[s].lock # 0,
         at \in Locked =>
           \/ server[s].phase \in Locked
           \/ \A t \in Servers : server[t].phase \in Locked => server[t].lock # server[s].lock,
         server[s].phase \in Reached => at \in Reached,
         at \in Bound => server[s].phase \in Bound,
         at \in Up => server[s].phase \in Up,
         at \in Claiming =>
           \/ server[s].phase \in Claiming
           \/ dir = 1 => \A t \in Servers : server[t].phase \notin Up,
         ~unsaved' /\ dir = 1 =>
           /\ disk' \in {disk, work}
           /\ server[s].phase \in Serving => at \in Serving \/ disk' = work
  PROVE  Starts'
<1>1. Locks /\ PathsBound /\ Places /\ Claims /\ Works
  BY DEF Starts
<1>2. \A t \in Servers : /\ server'[t].phase = IF t = s THEN at ELSE server[t].phase
                         /\ server'[t].lock = server[t].lock
                         /\ server'[t].mem = server[t].mem
  OBVIOUS
<1>3. Locks'
  BY <1>1, <1>2 DEF Locks
<1>4. PathsBound'
  <2> SUFFICES ASSUME NEW p \in Sockets, path'[p] # None
               PROVE  server'[path'[p]].phase \in Reached
    BY DEF PathsBound
  <2>1. path'[p] = path[p] /\ path[p] \in Servers
    BY DEF TypeInv
  <2>. QED
    BY <1>1, <1>2, <2>1 DEF PathsBound
<1>5. Places'
  <2> SUFFICES ASSUME dir = 1, NEW t \in Servers
               PROVE  /\ server'[t].phase \in Bound => path'["api"] = t
                      /\ server'[t].phase \in Up => path'["client"] = t
    BY DEF Places
  <2>1. "api" \in Sockets /\ "client" \in Sockets
    BY DEF Sockets
  <2>2. Up \subseteq Bound
    BY DEF Bound
  <2>3. server'[t].phase \in Bound => server[t].phase \in Bound
    BY <1>2
  <2>4. server'[t].phase \in Up => server[t].phase \in Up
    BY <1>2
  <2>5. server'[t].phase \in Bound => \A p \in Sockets : path[p] = t => path'[p] = t
    BY <1>2
  <2>. QED
    BY <1>1, <2>1, <2>2, <2>3, <2>4, <2>5 DEF Places
<1>6. Claims'
  BY <1>1, <1>2 DEF Claims
<1>7. Works'
  <2> SUFFICES ASSUME ~unsaved', dir = 1
               PROVE  /\ \A t \in Servers : server'[t].phase \in Up => server'[t].mem = work
                      /\ disk' = work \/ \E t \in Servers : server'[t].phase \in Serving
    BY DEF Works
  <2>1. \A t \in Servers : server'[t].phase \in Up => server'[t].mem = work
    BY <1>1, <1>2 DEF Works
  <2>2. CASE disk = work
    BY <2>1, <2>2
  <2>3. CASE \E t \in Servers : server[t].phase \in Serving
    BY <1>2, <2>1, <2>3
  <2>. QED
    BY <1>1, <2>1, <2>2, <2>3 DEF Works
<1>. QED
  BY <1>3, <1>4, <1>5, <1>6, <1>7 DEF Starts

\* A session that was not deleted has the first lock file, and one holder of it.
LEMMA FirstLock ==
  ASSUME TypeInv, Locks, dir = 1
  PROVE  /\ dirs = 1
         /\ \A s \in Servers : server[s].phase \in Alive \ {"launched"} => server[s].lock = 1
         /\ \A s, t \in Servers : server[s].phase \in Locked /\ server[t].phase \in Locked => s = t
<1>1. dirs = 1
  BY DEF TypeInv
<1>2. \A s \in Servers : server[s].lock \in Nat
  BY DEF TypeInv, ServerType
<1>3. \A s \in Servers : server[s].phase \in Alive \ {"launched"} => server[s].lock = 1
  BY <1>1, <1>2 DEF Locks
<1>4. \A s \in Servers : server[s].phase \in Locked => server[s].phase \in Alive \ {"launched"}
  BY DEF Locked, Alive
<1>. QED
  BY <1>1, <1>3, <1>4 DEF Locks

\* A server that has its session is reached.
LEMMA UpReached ==
  ASSUME Places, dir = 1, NEW s \in Servers, server[s].phase \in Up
  PROVE  \A p \in Sockets : path[p] = s
BY DEF Places, Bound, Sockets

\* The phase of one server changes, and nothing else.
LEMMA OnlyPhase ==
  ASSUME TypeInv, NEW s \in Servers, NEW at \in Phases, To(s, at)
  PROVE  /\ server' \in [Servers -> ServerType]
         /\ \A t \in Servers : t # s => server'[t] = server[t]
         /\ server'[s].phase = at /\ server'[s].lock = server[s].lock
         /\ server'[s].mem = server[s].mem /\ server'[s].owner = server[s].owner
         /\ \A t \in Servers : server'[t].mem = server[t].mem /\ server'[t].owner = server[t].owner
BY PhaseSet DEF To, TypeInv

\* A step of one server that changes its phase only.
LEMMA PhaseStep ==
  ASSUME TypeInv, Starts, NEW s \in Servers, NEW at \in Phases, To(s, at),
         UNCHANGED <<path, dir, dirs, disk, work>>, cmd' \in [Commands -> CommandType],
         unsaved' \in BOOLEAN, unsaved => unsaved', faults' \in 0..MaxFaults,
         server[s].phase \in Alive,
         at \in Alive \ {"launched"} => server[s].lock # 0,
         at \in Locked =>
           \/ server[s].phase \in Locked
           \/ \A t \in Servers : server[t].phase \in Locked => server[t].lock # server[s].lock,
         server[s].phase \in Reached => at \in Reached,
         at \in Bound => server[s].phase \in Bound,
         at \in Up => server[s].phase \in Up,
         at \in Claiming =>
           \/ server[s].phase \in Claiming
           \/ dir = 1 => \A t \in Servers : server[t].phase \notin Up,
         ~unsaved' /\ server[s].phase \in Serving => at \in Serving
  PROVE  TypeInv' /\ Starts' /\ Onward /\ DirKept
<1>1. /\ server' \in [Servers -> ServerType]
      /\ \A t \in Servers : t # s => server'[t] = server[t]
      /\ server'[s].phase = at /\ server'[s].lock = server[s].lock
      /\ server'[s].mem = server[s].mem /\ server'[s].owner = server[s].owner
      /\ \A t \in Servers : server'[t].mem = server[t].mem /\ server'[t].owner = server[t].owner
  BY OnlyPhase
<1>2. TypeInv'
  BY <1>1 DEF TypeInv
<1>3. Starts'
  BY <1>1, PhaseChange
<1>4. server[s].phase \notin {"failed", "dead"}
  BY DEF Alive, Locked, Up
<1>5. Onward
  BY <1>1, <1>4 DEF Onward
<1>. QED
  BY <1>2, <1>3, <1>5 DEF DirKept

LEMMA LockStep ==
  ASSUME TypeInv, Starts, NEW s \in Servers, Lock(s)
  PROVE  TypeInv' /\ Starts' /\ Onward /\ DirKept
<1>1. /\ server[s].phase = "waiting" /\ To(s, "locked")
      /\ \A t \in Servers : server[t].phase \in Locked => server[t].lock # server[s].lock
      /\ UNCHANGED <<path, dir, dirs, disk, work, unsaved, cmd, faults>>
  BY DEF Lock, Is, dirVars, sessionVars
<1>2. /\ server[s].lock # 0 /\ unsaved \in BOOLEAN /\ faults \in 0..MaxFaults
      /\ cmd' \in [Commands -> CommandType]
  BY <1>1 DEF Starts, Locks, Alive, TypeInv
<1>3. /\ "locked" \in Phases /\ "waiting" \in Alive
      /\ "locked" \notin Bound /\ "locked" \notin Up /\ "locked" \notin Claiming
      /\ "waiting" \notin Reached /\ "waiting" \notin Serving
  BY DEF Phases, Alive, Locked, Bound, Up, Claiming, Reached, Serving
<1>. QED
  BY <1>1, <1>2, <1>3, PhaseStep

LEMMA CheckStep ==
  ASSUME TypeInv, Starts, NEW s \in Servers, Check(s)
  PROVE  TypeInv' /\ Starts' /\ Onward /\ DirKept
<1>1. /\ server[s].phase = "locked"
      /\ UNCHANGED <<path, dir, dirs, disk, work, unsaved, cmd, faults>>
      /\ \/ To(s, "lost")
         \/ To(s, "checked") /\ \A p \in Sockets : ~Reachable(p)
  BY DEF Check, Is, dirVars, sessionVars
<1>2. /\ server[s].lock # 0 /\ unsaved \in BOOLEAN /\ faults \in 0..MaxFaults
      /\ cmd' \in [Commands -> CommandType]
  BY <1>1 DEF Starts, Locks, Alive, Locked, TypeInv
<1>3. /\ "lost" \in Phases /\ "checked" \in Phases /\ "locked" \in Alive
      /\ "locked" \notin Reached /\ "locked" \notin Serving
      /\ "checked" \notin Bound /\ "checked" \notin Up
      /\ "lost" \notin Alive /\ "lost" \notin Locked /\ "lost" \notin Bound /\ "lost" \notin Up
      /\ "lost" \notin Claiming /\ "locked" \in Locked
  BY DEF Phases, Alive, Locked, Bound, Up, Claiming, Reached, Serving
<1>4. CASE To(s, "lost")
  BY <1>1, <1>2, <1>3, <1>4, PhaseStep
<1>5. CASE To(s, "checked") /\ \A p \in Sockets : ~Reachable(p)
  <2>1. dir = 1 => \A t \in Servers : server[t].phase \notin Up
    <3> SUFFICES ASSUME dir = 1, NEW t \in Servers, server[t].phase \in Up
                 PROVE  FALSE
      OBVIOUS
    <3>1. path["api"] = t /\ "api" \in Sockets
      BY UpReached DEF Starts, Sockets
    <3>2. t # None
      BY LifecycleAssumption
    <3>3. server[t].phase \in Alive
      BY DEF Alive
    <3>. QED
      BY <1>5, <3>1, <3>2, <3>3 DEF Reachable
  <2>. QED
    BY <1>1, <1>2, <1>3, <1>5, <2>1, PhaseStep
<1>. QED
  BY <1>1, <1>4, <1>5

LEMMA ReclaimStep ==
  ASSUME TypeInv, Starts, NEW s \in Servers, NEW p,
         Reclaim(s, p, "checked", "apiFree") \/ Reclaim(s, p, "apiBound", "clientFree")
  PROVE  TypeInv' /\ Starts' /\ Onward /\ DirKept
<1>1. /\ server[s].phase \in {"checked", "apiBound"}
      /\ UNCHANGED <<path, dir, dirs, disk, work, unsaved, cmd, faults>>
      /\ \/ To(s, "failed")
         \/ server[s].phase = "checked" /\ To(s, "apiFree")
         \/ server[s].phase = "apiBound" /\ To(s, "clientFree")
  BY DEF Reclaim, Is, dirVars, sessionVars
<1>2. /\ server[s].lock # 0 /\ unsaved \in BOOLEAN /\ faults \in 0..MaxFaults
      /\ cmd' \in [Commands -> CommandType]
  BY <1>1 DEF Starts, Locks, Alive, Locked, TypeInv
<1>3. /\ {"failed", "apiFree", "clientFree"} \subseteq Phases /\ {"checked", "apiBound"} \subseteq Alive
      /\ server[s].phase \notin Serving /\ server[s].phase \in Locked /\ server[s].phase \in Claiming
      /\ "checked" \notin Reached /\ "apiBound" \in Bound
      /\ "failed" \in Reached /\ "clientFree" \in Reached
      /\ "apiFree" \notin Bound /\ "apiFree" \notin Up /\ "clientFree" \notin Up
      /\ "failed" \notin Alive /\ "failed" \notin Locked /\ "failed" \notin Bound /\ "failed" \notin Up
      /\ "failed" \notin Claiming
  BY <1>1 DEF Phases, Alive, Locked, Bound, Up, Claiming, Reached, Serving
<1>4. CASE To(s, "failed")
  BY <1>1, <1>2, <1>3, <1>4, PhaseStep
<1>5. CASE server[s].phase = "checked" /\ To(s, "apiFree")
  BY <1>1, <1>2, <1>3, <1>5, PhaseStep
<1>6. CASE server[s].phase = "apiBound" /\ To(s, "clientFree")
  BY <1>1, <1>2, <1>3, <1>6, PhaseStep
<1>. QED
  BY <1>1, <1>4, <1>5, <1>6

LEMMA FaultCount ==
  ASSUME TypeInv
  PROVE  (faults' = faults \/ Fault) => faults' \in 0..MaxFaults
<1>1. faults \in 0..MaxFaults /\ MaxFaults \in Nat
  BY LifecycleAssumption DEF TypeInv
<1>2. CASE Fault
  BY <1>1, <1>2 DEF Fault
<1>. QED
  BY <1>1, <1>2

\* A server that has its session goes on, or ends by a fault.
LEMMA UpStep ==
  ASSUME TypeInv, Starts, NEW s \in Servers, Ready(s) \/ TakeStop(s) \/ Hang(s)
  PROVE  TypeInv' /\ Starts' /\ Onward /\ DirKept
<1>1. /\ UNCHANGED <<path, dir, dirs, disk, work, unsaved, cmd>>
      /\ \/ server[s].phase = "restoring" /\ To(s, "running") /\ faults' = faults
         \/ server[s].phase = "running" /\ To(s, "saving") /\ faults' = faults
         \/ server[s].phase = "running" /\ To(s, "hung") /\ Fault
  BY DEF Ready, TakeStop, Hang, Is, dirVars, sessionVars
<1>2. faults' \in 0..MaxFaults
  BY <1>1, FaultCount DEF TypeInv
<1>3. server[s].lock # 0 /\ unsaved \in BOOLEAN /\ cmd' \in [Commands -> CommandType]
  BY <1>1 DEF Starts, Locks, Alive, Locked, Up, TypeInv
<1>4. PICK x \in {"running", "saving", "hung"} : To(s, x)
  BY <1>1
<1>5. /\ x \in Phases /\ server[s].phase \in Alive /\ server[s].phase \in Bound /\ server[s].phase \in Up
      /\ x \in Reached /\ x \notin Locked /\ x \notin Claiming /\ x \in Serving
  BY <1>1, <1>4 DEF Phases, Alive, Locked, Bound, Up, Claiming, Reached, Serving
<1>6. unsaved => unsaved'
  BY <1>1
<1>. QED
  BY <1>1, <1>2, <1>3, <1>4, <1>5, <1>6, PhaseStep

\* A server that dies: what it had is lost if it had something.
LEMMA DeathStep ==
  ASSUME TypeInv, Starts, NEW s \in Servers, server[s].phase \in Alive, To(s, "dead"),
         UNCHANGED <<path, dir, dirs, disk, work>>, cmd' \in [Commands -> CommandType],
         unsaved' \in BOOLEAN, unsaved => unsaved', server[s].phase \in Up => unsaved',
         faults' \in 0..MaxFaults
  PROVE  TypeInv' /\ Starts' /\ Onward /\ DirKept
<1>1. /\ "dead" \in Phases /\ "dead" \notin Alive /\ "dead" \notin Locked /\ "dead" \notin Bound
      /\ "dead" \notin Up /\ "dead" \notin Claiming /\ "dead" \in Reached /\ Serving \subseteq Up
  BY DEF Phases, Alive, Locked, Bound, Up, Claiming, Reached, Serving
<1>2. /\ "dead" \in Alive \ {"launched"} => server[s].lock # 0
      /\ ~unsaved' /\ server[s].phase \in Serving => "dead" \in Serving
  BY <1>1
<1>. QED
  BY <1>1, <1>2, PhaseStep

LEMMA CrashStep ==
  ASSUME TypeInv, Starts, NEW s \in Servers, Crash(s)
  PROVE  TypeInv' /\ Starts' /\ Onward /\ DirKept
<1>1. /\ Fault /\ server[s].phase \in Alive /\ To(s, "dead") /\ unsaved' = TRUE
      /\ UNCHANGED <<path, dir, dirs, disk, work, cmd>>
  BY DEF Crash, dirVars
<1>2. faults' \in 0..MaxFaults /\ cmd' \in [Commands -> CommandType]
  BY <1>1, FaultCount DEF TypeInv
<1>. QED
  BY <1>1, <1>2, DeathStep

LEMMA SaveStep ==
  ASSUME TypeInv, Starts, NEW s \in Servers, Save(s)
  PROVE  TypeInv' /\ Starts' /\ Onward /\ DirKept
<1>1. /\ server[s].phase = "running" /\ disk' = server[s].mem
      /\ UNCHANGED <<server, path, dir, dirs, work, unsaved, cmd, faults>>
  BY DEF Save, Is, dirVars
<1>2. server[s] \in ServerType /\ server[s].mem <= work /\ work \in Nat
  BY DEF TypeInv
<1>3. disk' \in 0..work
  BY <1>1, <1>2 DEF ServerType
<1>4. TypeInv'
  BY <1>1, <1>3 DEF TypeInv
<1>5. ~unsaved /\ dir = 1 => disk' = work
  BY <1>1 DEF Starts, Works, Up
<1>6. /\ "running" \in Phases /\ "running" \in Alive /\ "running" \notin Locked /\ "running" \notin Claiming
      /\ "running" \in Serving
  BY DEF Phases, Alive, Up, Locked, Claiming, Serving
<1>7. server[s].lock # 0
  BY <1>1, <1>6 DEF Starts, Locks
<1>8. Starts'
  BY <1>1, <1>5, <1>6, <1>7, PhaseChange
<1>. QED
  BY <1>1, <1>4, <1>8 DEF Onward, DirKept

\* A server that has saved takes nothing with it.
LEMMA SavedExitStep ==
  ASSUME TypeInv, Starts, NEW s \in Servers, Is(s, "saving"), To(s, "dead"),
         disk' = IF dir = 0 THEN disk ELSE server[s].mem,
         UNCHANGED <<path, dir, dirs, work, unsaved, cmd, faults>>
  PROVE  TypeInv' /\ Starts' /\ Onward /\ DirKept
<1>1. /\ server[s].phase = "saving" /\ To(s, "dead")
      /\ disk' = IF dir = 0 THEN disk ELSE server[s].mem
      /\ UNCHANGED <<path, dir, dirs, work, unsaved, cmd, faults>>
  BY DEF Is
<1>2. /\ "dead" \in Phases /\ "dead" \notin Alive /\ "dead" \notin Locked /\ "dead" \notin Bound
      /\ "dead" \notin Up /\ "dead" \notin Claiming /\ "dead" \in Reached
      /\ "saving" \in Up /\ "saving" \notin {"failed", "dead"}
  BY DEF Phases, Alive, Locked, Bound, Up, Claiming, Reached
<1>3. /\ server' \in [Servers -> ServerType]
      /\ \A t \in Servers : t # s => server'[t] = server[t]
      /\ server'[s].phase = "dead" /\ server'[s].lock = server[s].lock
      /\ server'[s].mem = server[s].mem /\ server'[s].owner = server[s].owner
      /\ \A t \in Servers : server'[t].mem = server[t].mem /\ server'[t].owner = server[t].owner
  BY <1>1, <1>2, OnlyPhase
<1>4. server[s] \in ServerType /\ server[s].mem <= work /\ work \in Nat /\ disk \in 0..work
  BY DEF TypeInv
<1>5. disk' \in 0..work
  BY <1>1, <1>4 DEF ServerType
<1>6. TypeInv'
  BY <1>1, <1>3, <1>5 DEF TypeInv
<1>7. ~unsaved /\ dir = 1 => disk' = work
  BY <1>1, <1>2 DEF Starts, Works
<1>8. Starts'
  BY <1>1, <1>2, <1>3, <1>7, PhaseChange
<1>9. Onward
  BY <1>1, <1>2, <1>3 DEF Onward
<1>. QED
  BY <1>1, <1>6, <1>8, <1>9 DEF DirKept

\* The final save is written, or the server is as good as killed.
LEMMA ExitStep ==
  ASSUME TypeInv, Starts, NEW s \in Servers, Exit(s)
  PROVE  TypeInv' /\ Starts' /\ Onward /\ DirKept
<1>1. /\ Is(s, "saving") /\ To(s, "dead")
      /\ UNCHANGED <<path, dir, dirs, work, cmd>>
  BY DEF Exit, dirVars
<1>2. \/ /\ disk' = IF dir = 0 THEN disk ELSE server[s].mem
         /\ UNCHANGED <<unsaved, faults>>
      \/ Fault /\ unsaved' = TRUE /\ UNCHANGED disk
  BY DEF Exit
<1>3. CASE /\ disk' = IF dir = 0 THEN disk ELSE server[s].mem
           /\ UNCHANGED <<unsaved, faults>>
  BY <1>1, <1>3, SavedExitStep
<1>4. CASE Fault /\ unsaved' = TRUE /\ UNCHANGED disk
  <2>1. faults' \in 0..MaxFaults /\ cmd' \in [Commands -> CommandType]
    BY <1>1, <1>4, FaultCount DEF TypeInv
  <2>2. server[s].phase \in Alive
    BY <1>1 DEF Is, Alive, Up
  <2>. QED
    BY <1>1, <1>4, <2>1, <2>2, DeathStep
<1>. QED
  BY <1>2, <1>3, <1>4

LEMMA RestoreFailsStep ==
  ASSUME TypeInv, Starts, NEW s \in Servers, RestoreFails(s)
  PROVE  TypeInv' /\ Starts' /\ Onward /\ DirKept
<1>1. /\ Fault /\ server[s].phase = "restoring" /\ To(s, "failed")
      /\ path' = [p \in Sockets |-> IF path[p] = s THEN None ELSE path[p]]
      /\ UNCHANGED <<dir, dirs, disk, work, unsaved, cmd>>
  BY DEF RestoreFails, Is, dirVars, sessionVars
<1>2. /\ "failed" \in Phases /\ "failed" \notin Alive /\ "failed" \notin Locked /\ "failed" \notin Bound
      /\ "failed" \notin Up /\ "failed" \notin Claiming /\ "failed" \in Reached
      /\ "restoring" \notin Serving /\ "restoring" \notin {"failed", "dead"}
  BY DEF Phases, Alive, Locked, Bound, Up, Claiming, Reached, Serving
<1>3. /\ server' \in [Servers -> ServerType]
      /\ \A t \in Servers : t # s => server'[t] = server[t]
      /\ server'[s].phase = "failed" /\ server'[s].lock = server[s].lock
      /\ server'[s].mem = server[s].mem /\ server'[s].owner = server[s].owner
      /\ \A t \in Servers : server'[t].mem = server[t].mem /\ server'[t].owner = server[t].owner
  BY <1>1, <1>2, OnlyPhase
<1>4. path' \in [Sockets -> Servers \cup {None}] /\ faults' \in 0..MaxFaults
  BY <1>1, FaultCount DEF TypeInv
<1>5. TypeInv'
  BY <1>1, <1>3, <1>4 DEF TypeInv
<1>6. \A p \in Sockets : \/ path'[p] = path[p]
                         \/ path[p] = s /\ path'[p] = None
  BY <1>1
<1>7. Starts'
  BY <1>1, <1>2, <1>3, <1>6, PhaseChange
<1>8. Onward
  BY <1>1, <1>2, <1>3 DEF Onward
<1>. QED
  BY <1>1, <1>5, <1>7, <1>8 DEF DirKept

\* A change of the session is in the memory of its server only.
LEMMA WorkStep ==
  ASSUME TypeInv, Starts, NEW s \in Servers, Work(s)
  PROVE  TypeInv' /\ Starts' /\ Onward /\ DirKept
<1>1. /\ server[s].phase = "running" /\ work < MaxWork /\ work' = work + 1
      /\ server' = [server EXCEPT ![s].mem = work + 1]
      /\ UNCHANGED <<path, dir, dirs, disk, unsaved, cmd, faults>>
  BY DEF Work, Is, dirVars
<1>2. work \in Nat /\ MaxWork \in Nat /\ work + 1 \in 0..MaxWork /\ work' \in 0..MaxWork
  <2>1. work \in 0..MaxWork /\ MaxWork \in Nat
    BY LifecycleAssumption DEF TypeInv
  <2>. QED
    BY <1>1, <2>1
<1>3. server \in [Servers -> ServerType]
  BY DEF TypeInv
<1>4. /\ server' \in [Servers -> ServerType] /\ \A t \in Servers : t # s => server'[t] = server[t]
      /\ server'[s].mem = work + 1 /\ server'[s].phase = server[s].phase
      /\ server'[s].lock = server[s].lock /\ server'[s].owner = server[s].owner
  BY <1>1, <1>2, <1>3, MemSet
<1>5. \A t \in Servers : /\ server'[t].phase = server[t].phase /\ server'[t].lock = server[t].lock
                         /\ server'[t].owner = server[t].owner
  BY <1>4
<1>6. \A t \in Servers : server'[t].mem <= work'
  <2> SUFFICES ASSUME NEW t \in Servers
               PROVE  server'[t].mem <= work'
    OBVIOUS
  <2>1. server[t].mem <= work /\ server[t].mem \in Nat
    BY DEF TypeInv, ServerType
  <2>. QED
    BY <1>1, <1>2, <1>4, <2>1
<1>7. disk' \in 0..work'
  BY <1>1, <1>2 DEF TypeInv
<1>8. TypeInv'
  BY <1>1, <1>2, <1>4, <1>6, <1>7 DEF TypeInv
<1>9. "running" \in Up /\ "running" \in Serving
  BY DEF Up, Serving
<1>10. Locks' /\ PathsBound'
  BY <1>1, <1>5 DEF Starts, Locks, PathsBound, TypeInv
<1>11. Places' /\ Claims'
  BY <1>1, <1>5 DEF Starts, Places, Claims
<1>12. Works'
  <2> SUFFICES ASSUME dir = 1
               PROVE  Works'
    BY <1>1 DEF Works
  <2>1. \A t \in Servers : server[t].phase \in Up => t = s
    <3> SUFFICES ASSUME NEW t \in Servers, server[t].phase \in Up
                 PROVE  t = s
      OBVIOUS
    <3>1. "client" \in Sockets
      BY DEF Sockets
    <3>. QED
      BY <1>1, <1>9, <3>1, UpReached DEF Starts
  <2>. QED
    BY <1>1, <1>4, <1>5, <1>9, <2>1 DEF Works
<1>13. Onward
  BY <1>5 DEF Onward
<1>. QED
  BY <1>1, <1>8, <1>10, <1>11, <1>12, <1>13 DEF Starts, DirKept

\* A server that finds the directory gone makes another, with another lock file.
LEMMA OpenStep ==
  ASSUME TypeInv, Starts, NEW s \in Servers, Open(s)
  PROVE  TypeInv' /\ Starts' /\ Onward /\ DirKept
<1>1. /\ server[s].phase = "launched"
      /\ \/ dir # 0 /\ dir' = dir /\ dirs' = dirs
         \/ dir = 0 /\ dirs < MaxDirs /\ dirs' = dirs + 1 /\ dir' = dirs + 1
      /\ UNCHANGED <<path, disk, work, unsaved, cmd, faults>>
  BY DEF Open, Is, dirVars, sessionVars
<1>2. dirs \in Nat /\ dirs >= 1 /\ dir \in {0, dirs} /\ MaxDirs \in Nat /\ dirs <= MaxDirs
  <2>1. dirs \in 1..MaxDirs /\ dir \in {0, dirs} /\ MaxDirs \in Nat
    BY LifecycleAssumption DEF TypeInv
  <2>. QED
    BY <2>1
<1>3. /\ dirs' \in 1..MaxDirs /\ dir' = dirs' /\ dirs <= dirs' /\ dir' \in 0..MaxDirs /\ dir' # 0
      /\ dir' = 1 => dir = 1
  BY <1>1, <1>2
<1>4. /\ server' \in [Servers -> ServerType] /\ \A t \in Servers : t # s => server'[t] = server[t]
      /\ server'[s].phase = "waiting" /\ server'[s].lock = dir' /\ server'[s].mem = server[s].mem
      /\ server'[s].owner = server[s].owner
  <2> DEFINE f == [server EXCEPT ![s].phase = "waiting"]
  <2>1. server \in [Servers -> ServerType] /\ "waiting" \in Phases
    BY DEF TypeInv, Phases, Alive
  <2>2. /\ f \in [Servers -> ServerType] /\ \A t \in Servers : t # s => f[t] = server[t]
        /\ f[s].phase = "waiting" /\ f[s].mem = server[s].mem /\ f[s].owner = server[s].owner
    BY <2>1, PhaseSet
  <2>3. server' = [f EXCEPT ![s].lock = dir']
    BY DEF Open
  <2> HIDE DEF f
  <2>4. /\ [f EXCEPT ![s].lock = dir'] \in [Servers -> ServerType]
        /\ \A t \in Servers : t # s => [f EXCEPT ![s].lock = dir'][t] = f[t]
        /\ [f EXCEPT ![s].lock = dir'][s].lock = dir'
        /\ [f EXCEPT ![s].lock = dir'][s].phase = f[s].phase
        /\ [f EXCEPT ![s].lock = dir'][s].mem = f[s].mem
        /\ [f EXCEPT ![s].lock = dir'][s].owner = f[s].owner
    BY <1>3, <2>2, LockSet
  <2>. QED
    BY <2>2, <2>3, <2>4
<1>5. \A t \in Servers : server'[t].mem = server[t].mem /\ server'[t].owner = server[t].owner
  BY <1>4
<1>6. TypeInv'
  BY <1>1, <1>3, <1>4, <1>5 DEF TypeInv
<1>7. /\ \A S \in {Locked, Bound, Up, Claiming, Reached, Serving, {"failed", "dead"}} :
           "waiting" \notin S /\ "launched" \notin S
      /\ "launched" \in Alive
  BY DEF Alive, Locked, Bound, Up, Claiming, Reached, Serving
<1>8. \A t \in Servers : \A S \in {Locked, Bound, Up, Claiming, Reached, Serving, {"failed", "dead"}} :
        /\ server'[t].phase \in S <=> server[t].phase \in S
        /\ server'[t].phase \in S => server'[t].lock = server[t].lock
  BY <1>1, <1>4, <1>7
<1>9. Locks'
  <2>1. \A t \in Servers : server[t].lock \in Nat /\ server[t].lock <= dirs
    BY DEF Starts, Locks, TypeInv, ServerType
  <2>2. \A t \in Servers : server'[t].lock <= dirs'
    BY <1>2, <1>3, <1>4, <2>1
  <2>3. \A t \in Servers : server'[t].phase \in Alive \ {"launched"} => server'[t].lock # 0
    BY <1>3, <1>4 DEF Starts, Locks
  <2>4. \A t, u \in Servers :
          /\ server'[t].phase \in Locked /\ server'[u].phase \in Locked
          /\ server'[t].lock = server'[u].lock
          => t = u
    BY <1>8 DEF Starts, Locks
  <2>. QED
    BY <2>2, <2>3, <2>4 DEF Locks
<1>10. PathsBound'
  BY <1>1, <1>8 DEF Starts, PathsBound, TypeInv
<1>11. Places' /\ Claims'
  BY <1>1, <1>3, <1>8 DEF Starts, Places, Claims
<1>12. Works'
  BY <1>1, <1>3, <1>5, <1>8 DEF Starts, Works
<1>13. Onward
  BY <1>1, <1>4, <1>7 DEF Onward
<1>. QED
  BY <1>3, <1>6, <1>9, <1>10, <1>11, <1>12, <1>13 DEF Starts, DirKept

\* The holder of the lock claims a socket: nobody else is behind it, and nobody else
\* has the session that it reads.
LEMMA BindStep ==
  ASSUME TypeInv, Starts, NEW s \in Servers, NEW p \in Sockets, NEW before, NEW after,
         Bind(s, p, before, after),
         \/ p = "api" /\ before = "apiFree" /\ after = "apiBound"
         \/ p = "client" /\ before = "clientFree" /\ after = "restoring"
  PROVE  TypeInv' /\ Starts' /\ Onward /\ DirKept
<1>1. /\ server[s].phase = before
      /\ UNCHANGED <<dir, dirs, disk, work, unsaved, cmd, faults>>
      /\ \/ To(s, "failed") /\ path' = path
         \/ /\ dir # 0 /\ path' = [path EXCEPT ![p] = s]
            /\ server' = [server EXCEPT ![s].phase = after, ![s].mem = disk]
  BY DEF Bind, Is, dirVars, sessionVars
<1>2. /\ server[s].lock # 0 /\ unsaved \in BOOLEAN /\ faults \in 0..MaxFaults
      /\ cmd' \in [Commands -> CommandType]
  BY <1>1 DEF Starts, Locks, Alive, Locked, TypeInv
<1>3. /\ before \in Claiming /\ before \in Locked /\ before \in Alive
      /\ before \notin Up /\ before \notin Serving /\ before \notin {"failed", "dead", "launched"}
      /\ after \in Phases /\ after \in Locked /\ after \in Claiming /\ after \in Bound /\ after \in Reached
      /\ Claiming \subseteq Locked /\ Serving \subseteq Up /\ Up \subseteq Bound
      /\ Bound \subseteq Locked \cup Up
  BY DEF Phases, Alive, Locked, Bound, Up, Claiming, Reached, Serving
<1>4. CASE To(s, "failed") /\ path' = path
  <2>1. /\ "failed" \in Phases /\ "failed" \notin Alive /\ "failed" \notin Locked
        /\ "failed" \notin Bound /\ "failed" \notin Up /\ "failed" \notin Claiming
        /\ "failed" \in Reached
    BY DEF Phases, Alive, Locked, Bound, Up, Claiming, Reached
  <2>2. unsaved => unsaved'
    BY <1>1
  <2>. QED
    BY <1>1, <1>2, <1>3, <1>4, <2>1, <2>2, PhaseStep
<1>5. CASE /\ dir # 0 /\ path' = [path EXCEPT ![p] = s]
           /\ server' = [server EXCEPT ![s].phase = after, ![s].mem = disk]
  <2>1. disk \in Nat /\ disk <= work /\ disk \in 0..MaxWork
    <3>1. work \in 0..MaxWork /\ disk \in 0..work /\ MaxWork \in Nat
      BY LifecycleAssumption DEF TypeInv
    <3>. QED
      BY <3>1
  <2>2. /\ server' \in [Servers -> ServerType] /\ \A t \in Servers : t # s => server'[t] = server[t]
        /\ server'[s].phase = after /\ server'[s].mem = disk /\ server'[s].lock = server[s].lock
        /\ server'[s].owner = server[s].owner
    <3> DEFINE f == [server EXCEPT ![s].phase = after]
    <3>1. server \in [Servers -> ServerType]
      BY DEF TypeInv
    <3>2. /\ f \in [Servers -> ServerType] /\ \A t \in Servers : t # s => f[t] = server[t]
          /\ f[s].phase = after /\ f[s].lock = server[s].lock /\ f[s].owner = server[s].owner
      BY <1>3, <3>1, PhaseSet
    <3>3. server' = [f EXCEPT ![s].mem = disk]
      BY <1>5
    <3> HIDE DEF f
    <3>4. /\ [f EXCEPT ![s].mem = disk] \in [Servers -> ServerType]
          /\ \A t \in Servers : t # s => [f EXCEPT ![s].mem = disk][t] = f[t]
          /\ [f EXCEPT ![s].mem = disk][s].mem = disk
          /\ [f EXCEPT ![s].mem = disk][s].phase = f[s].phase
          /\ [f EXCEPT ![s].mem = disk][s].lock = f[s].lock
          /\ [f EXCEPT ![s].mem = disk][s].owner = f[s].owner
      BY <2>1, <3>2, MemSet
    <3>. QED
      BY <3>2, <3>3, <3>4
  <2>3. path' \in [Sockets -> Servers \cup {None}] /\ path'[p] = s
        /\ \A q \in Sockets : q # p => path'[q] = path[q]
    BY <1>5 DEF TypeInv
  <2>4. \A t \in Servers : server'[t].mem <= work
    BY <2>1, <2>2 DEF TypeInv
  <2>5. TypeInv'
    BY <1>1, <2>2, <2>3, <2>4 DEF TypeInv
  <2>6. Locks'
    BY <1>1, <1>2, <1>3, <2>2 DEF Starts, Locks
  <2>7. PathsBound'
    <3> SUFFICES ASSUME NEW q \in Sockets, path'[q] # None
                 PROVE  server'[path'[q]].phase \in Reached
      BY DEF PathsBound
    <3>1. CASE path'[q] = s
      BY <1>3, <2>2, <3>1
    <3>2. CASE path'[q] # s
      <4>1. path'[q] = path[q] /\ path[q] \in Servers
        BY <2>3, <3>2 DEF TypeInv
      <4>. QED
        BY <2>2, <3>2, <4>1 DEF Starts, PathsBound
    <3>. QED
      BY <3>1, <3>2
  <2>8. dir = 1 => \A t \in Servers : server[t].phase \in Bound => t = s
    <3> SUFFICES ASSUME dir = 1, NEW t \in Servers, server[t].phase \in Bound
                 PROVE  t = s
      OBVIOUS
    <3>1. CASE server[t].phase \in Up
      BY <1>1, <1>3, <3>1 DEF Starts, Claims
    <3>2. CASE server[t].phase \in Locked
      BY <1>1, <1>3, <3>2, FirstLock DEF Starts
    <3>. QED
      BY <1>3, <3>1, <3>2
  <2>9. dir = 1 => \A t \in Servers : server[t].phase \in Claiming => t = s
    BY <1>1, <1>3, FirstLock DEF Starts
  <2>10. dir = 1 => path'["api"] = s /\ (after \in Up => path'["client"] = s)
    <3>1. CASE p = "api"
      <4>1. after \notin Up
        BY <3>1 DEF Up
      <4>. QED
        BY <2>3, <3>1, <4>1
    <3>2. CASE p = "client"
      <4>1. server[s].phase \in Bound /\ "api" \in Sockets
        BY <1>1, <3>2 DEF Bound, Sockets
      <4>. QED
        BY <2>3, <3>2, <4>1 DEF Starts, Places
    <3>. QED
      BY <3>1, <3>2 DEF Sockets
  <2>11. Places'
    BY <1>1, <1>3, <2>2, <2>8, <2>10 DEF Places
  <2>12. Claims'
    BY <1>1, <1>3, <2>2, <2>8, <2>9 DEF Claims
  <2>13. Works'
    <3> SUFFICES ASSUME ~unsaved, dir = 1
                 PROVE  Works'
      BY <1>1 DEF Works
    <3>1. disk = work
      BY <1>1, <1>3, <2>8 DEF Starts, Works
    <3>2. \A t \in Servers : server'[t].phase \in Up => t = s
      BY <1>3, <2>2, <2>8
    <3>. QED
      BY <1>1, <2>2, <3>1, <3>2 DEF Works
  <2>14. Onward
    BY <1>1, <1>3, <2>2 DEF Onward
  <2>. QED
    BY <1>1, <2>5, <2>6, <2>7, <2>11, <2>12, <2>13, <2>14 DEF Starts, DirKept
<1>. QED
  BY <1>1, <1>4, <1>5

\* A step of a server leaves the commands where they are.
LEMMA ServerKeepsCommands ==
  ASSUME Inv, Onward, DirKept, cmd' = cmd
  PROVE  Contacts' /\ StopsEnd' /\ Pings' /\ Owners'
<1>1. \A c \in Commands : cmd[c] \in CommandType
  BY DEF Inv, TypeInv
<1>2. \A c \in Commands : cmd[c].pid \in Servers \cup {None} /\ cmd[c].target \in Servers \cup {None}
  BY <1>1, CommandFields
<1>3. Contacts'
  BY <1>2 DEF Inv, Contacts, Onward
<1>4. StopsEnd'
  BY <1>2 DEF Inv, StopsEnd, Onward, DirKept
<1>5. Pings'
  BY DEF Inv, Pings
<1>6. Owners'
  BY DEF Inv, Owners, Onward
<1>. QED
  BY <1>3, <1>4, <1>5, <1>6

LEMMA ServerMoves ==
  ASSUME Inv, NEW s \in Servers,
         \/ ServerStep(s) \/ Work(s) \/ Save(s) \/ Crash(s) \/ Hang(s) \/ RestoreFails(s)
  PROVE  Inv'
<1>1. cmd' = cmd
  BY DEF ServerStep, Open, Lock, Check, Reclaim, Bind, Ready, TakeStop, Exit, Work, Save, Crash, Hang,
         RestoreFails
<1>2. "api" \in Sockets /\ "client" \in Sockets /\ TypeInv /\ Starts
  BY DEF Sockets, Inv
<1>3. TypeInv' /\ Starts' /\ Onward /\ DirKept
  <2>1. CASE Open(s) \/ Lock(s) \/ Check(s)
    BY <1>2, <2>1, OpenStep, LockStep, CheckStep
  <2>2. CASE Reclaim(s, "api", "checked", "apiFree") \/ Reclaim(s, "client", "apiBound", "clientFree")
    BY <1>2, <2>2, ReclaimStep
  <2>3. CASE Bind(s, "api", "apiFree", "apiBound") \/ Bind(s, "client", "clientFree", "restoring")
    BY <1>2, <2>3, BindStep
  <2>4. CASE Ready(s) \/ TakeStop(s) \/ Hang(s)
    BY <1>2, <2>4, UpStep
  <2>5. CASE Exit(s) \/ Work(s) \/ Save(s)
    BY <1>2, <2>5, ExitStep, WorkStep, SaveStep
  <2>6. CASE Crash(s) \/ RestoreFails(s)
    BY <1>2, <2>6, CrashStep, RestoreFailsStep
  <2>. QED
    BY <2>1, <2>2, <2>3, <2>4, <2>5, <2>6 DEF ServerStep
<1>. QED
  BY <1>1, <1>3, ServerKeepsCommands DEF Inv

-----------------------------------------------------------------------------
(* The steps of commands *)

\* One command moves, to where its servers allow it.
LEMMA CommandMoves ==
  ASSUME Inv, TypeInv', DirKept, NEW c \in Commands,
         \A s \in Servers :
           /\ server[s].phase \in Reached => server'[s].phase \in Reached
           /\ server[s].phase \in {"failed", "dead"} => server'[s].phase \in {"failed", "dead"},
         \A d \in Commands : d # c => cmd'[d] = cmd[d],
         cmd'[c].verb = cmd[c].verb,
         cmd'[c].pid \in {cmd[c].pid, None} \/ server'[cmd'[c].pid].phase \in Reached,
         cmd'[c].target = cmd[c].target \/ server'[cmd'[c].target].phase \in Reached,
         cmd'[c].pc \in {"ping", "long ping"} => cmd[c].verb \notin Stopping,
         /\ dir' = 1 /\ cmd'[c].pc \in AfterStop /\ cmd[c].verb \in Stopping
         /\ cmd'[c].target # None
         => \/ cmd[c].pc \in AfterStop /\ cmd'[c].target = cmd[c].target
            \/ server'[cmd'[c].target].phase \in {"failed", "dead"},
         cmd'[c].pc \in Launching => cmd'[c].child # None,
         \A s \in Servers :
           server'[s].owner # None /\ server'[s].phase \in Alive =>
             \/ server'[s].owner = c /\ cmd'[c].pc \in Launching /\ cmd'[c].child = s
             \/ /\ server'[s].owner = server[s].owner /\ server[s].phase \in Alive
                /\ server[s].owner # c
  PROVE  Contacts' /\ StopsEnd' /\ Pings' /\ Owners'
<1>1. \A d \in Commands : cmd[d] \in CommandType
  BY DEF Inv, TypeInv
<1>2. \A d \in Commands : cmd[d].pid \in Servers \cup {None} /\ cmd[d].target \in Servers \cup {None}
  BY <1>1, CommandFields
<1>3. Contacts'
  <2> SUFFICES ASSUME NEW d \in Commands
               PROVE  /\ cmd'[d].pid # None => server'[cmd'[d].pid].phase \in Reached
                      /\ cmd'[d].target # None => server'[cmd'[d].target].phase \in Reached
    BY DEF Contacts
  <2>1. /\ cmd[d].pid # None => server'[cmd[d].pid].phase \in Reached
        /\ cmd[d].target # None => server'[cmd[d].target].phase \in Reached
    BY <1>2 DEF Inv, Contacts
  <2>. QED
    BY <2>1
<1>4. StopsEnd'
  <2> SUFFICES ASSUME dir' = 1, NEW d \in Commands,
                      cmd'[d].pc \in AfterStop, cmd'[d].verb \in Stopping, cmd'[d].target # None
               PROVE  server'[cmd'[d].target].phase \in {"failed", "dead"}
    BY DEF StopsEnd
  <2>1. cmd[d].pc \in AfterStop /\ cmd[d].verb \in Stopping /\ cmd[d].target # None
          => server'[cmd[d].target].phase \in {"failed", "dead"}
    BY <1>2 DEF Inv, StopsEnd, DirKept
  <2>. QED
    BY <2>1
<1>5. Pings'
  BY DEF Inv, Pings
<1>6. Owners'
  <2>1. \A d \in Commands : cmd'[d].pc \in Launching => cmd'[d].child # None
    BY DEF Inv, Owners
  <2>2. \A s \in Servers :
          server'[s].owner # None /\ server'[s].phase \in Alive =>
            /\ cmd'[server'[s].owner].pc \in Launching
            /\ cmd'[server'[s].owner].child = s
    <3> SUFFICES ASSUME NEW s \in Servers, server'[s].owner # None, server'[s].phase \in Alive
                 PROVE  /\ cmd'[server'[s].owner].pc \in Launching
                        /\ cmd'[server'[s].owner].child = s
      OBVIOUS
    <3>1. CASE server'[s].owner = c /\ cmd'[c].pc \in Launching /\ cmd'[c].child = s
      BY <3>1
    <3>2. CASE /\ server'[s].owner = server[s].owner /\ server[s].phase \in Alive
               /\ server[s].owner # c
      <4>1. server[s] \in ServerType
        BY DEF Inv, TypeInv
      <4>2. server[s].owner \in Commands
        BY <3>2, <4>1 DEF ServerType
      <4>. QED
        BY <3>2, <4>2 DEF Inv, Owners
    <3>. QED
      BY <3>1, <3>2
  <2>. QED
    BY <2>1, <2>2 DEF Owners
<1>. QED
  BY <1>3, <1>4, <1>5, <1>6

\* Only a launch owns a server, the one it spawned.
LEMMA OwnersLaunch ==
  ASSUME Inv, NEW c \in Commands, NEW s \in Servers, server[s].owner = c, server[s].phase \in Alive
  PROVE  cmd[c].pc \in Launching /\ cmd[c].child = s
BY LifecycleAssumption DEF Inv, Owners

\* Who finds no listener has no server left that it spoke to.
LEMMA GoneEnds ==
  ASSUME Inv, dir = 1, ~Reachable("api"), NEW c \in Commands, cmd[c].target # None
  PROVE  server[cmd[c].target].phase \in {"failed", "dead"}
<1>1. cmd[c].target \in Servers
  BY CommandFields DEF Inv, TypeInv
<1>2. server[cmd[c].target].phase \in Reached
  BY DEF Inv, Contacts
<1>3. server[cmd[c].target].phase \in Bound => path["api"] = cmd[c].target
  BY <1>1 DEF Inv, Starts, Places
<1>4. server[cmd[c].target].phase \in Bound => server[cmd[c].target].phase \in Alive
  BY DEF Bound, Alive, Locked
<1>. QED
  BY <1>2, <1>3, <1>4 DEF Reachable, Reached

\* A command notes something, and nothing else changes.
LEMMA IdleStep ==
  ASSUME Inv, NEW c \in Commands, Idle, cmd' \in [Commands -> CommandType],
         \A d \in Commands : d # c => cmd'[d] = cmd[d],
         cmd'[c].verb = cmd[c].verb, cmd'[c].child = cmd[c].child, cmd'[c].target = cmd[c].target,
         cmd'[c].pid \in {cmd[c].pid, None} \/ server[cmd'[c].pid].phase \in Reached,
         cmd'[c].pc \in Launching <=> cmd[c].pc \in Launching,
         cmd'[c].pc \in {"ping", "long ping"} => cmd[c].verb \notin Stopping,
         cmd'[c].pc \in AfterStop /\ cmd[c].verb \in Stopping =>
           cmd[c].pc \in AfterStop \/ ~Reachable("api")
  PROVE  Inv'
<1>1. UNCHANGED <<server, path, dir, dirs, disk, work, unsaved, faults>>
  BY DEF Idle, dirVars, sessionVars
<1>2. TypeInv'
  BY <1>1 DEF Inv, TypeInv
<1>3. Starts'
  BY <1>1 DEF Inv, Starts, Locks, PathsBound, Places, Claims, Works
<1>4. \A s \in Servers :
        server'[s].owner # None /\ server'[s].phase \in Alive =>
          \/ server'[s].owner = c /\ cmd'[c].pc \in Launching /\ cmd'[c].child = s
          \/ /\ server'[s].owner = server[s].owner /\ server[s].phase \in Alive
             /\ server[s].owner # c
  BY <1>1, OwnersLaunch
<1>5. cmd'[c].pc \in Launching => cmd'[c].child # None
  BY DEF Inv, Owners
<1>6. /\ dir' = 1 /\ cmd'[c].pc \in AfterStop /\ cmd[c].verb \in Stopping
      /\ cmd'[c].target # None
      => \/ cmd[c].pc \in AfterStop /\ cmd'[c].target = cmd[c].target
         \/ server'[cmd'[c].target].phase \in {"failed", "dead"}
  BY <1>1, GoneEnds
<1>7. Contacts' /\ StopsEnd' /\ Pings' /\ Owners'
  BY <1>1, <1>2, <1>4, <1>5, <1>6, CommandMoves DEF DirKept
<1>. QED
  BY <1>2, <1>3, <1>7 DEF Inv

\* A command goes on, and keeps what it knows.
LEMMA OnlyPc ==
  ASSUME TypeInv, NEW c \in Commands, NEW pc \in Pcs, Goto(c, pc)
  PROVE  /\ cmd' \in [Commands -> CommandType] /\ \A d \in Commands : d # c => cmd'[d] = cmd[d]
         /\ cmd'[c].pc = pc /\ cmd'[c].verb = cmd[c].verb /\ cmd'[c].pid = cmd[c].pid
         /\ cmd'[c].child = cmd[c].child /\ cmd'[c].target = cmd[c].target
BY PcSet DEF Goto, TypeInv

\* Where a command may go when nothing else changes.
Onto(c, pc) ==
  /\ pc \in Pcs /\ Goto(c, pc) /\ Idle
  /\ pc \in Launching <=> cmd[c].pc \in Launching
  /\ pc \in {"ping", "long ping"} => cmd[c].verb \notin Stopping
  /\ pc \in AfterStop /\ cmd[c].verb \in Stopping => cmd[c].pc \in AfterStop \/ ~Reachable("api")

LEMMA Quiet ==
  ASSUME Inv, NEW c \in Commands, NEW pc, Onto(c, pc)
  PROVE  Inv'
<1>1. /\ cmd' \in [Commands -> CommandType] /\ \A d \in Commands : d # c => cmd'[d] = cmd[d]
      /\ cmd'[c].pc = pc /\ cmd'[c].verb = cmd[c].verb /\ cmd'[c].pid = cmd[c].pid
      /\ cmd'[c].child = cmd[c].child /\ cmd'[c].target = cmd[c].target
  BY OnlyPc DEF Inv, Onto
<1>. QED
  BY <1>1, IdleStep DEF Onto

\* What the steps of a command look at first, and where they go.
LEMMA ProbeSteps ==
  ASSUME Inv, NEW c \in Commands,
         Attach(c) \/ Start(c) \/ Ping(c) \/ LongPing(c) \/ BusyPing(c) \/ WaitUp(c) \/ Delete(c)
  PROVE  Inv'
<1>. USE DEF Onto, At, Pcs, Launching, AfterStop, Stopping
<1>1. CASE Attach(c)
  <2>1. Onto(c, "ping") \/ Onto(c, "busy ping") \/ Onto(c, "spawn")
    BY <1>1 DEF Attach
  <2>. QED
    BY <2>1, Quiet
<1>2. CASE Start(c)
  <2>1. Onto(c, "wait up") \/ Onto(c, "spawn")
    BY <1>2 DEF Start
  <2>. QED
    BY <2>1, Quiet
<1>3. CASE Ping(c)
  <2>1. cmd[c].verb \notin Stopping
    BY <1>3 DEF Ping, Inv, Pings
  <2>2. Onto(c, "ok") \/ Onto(c, "long ping")
    BY <1>3, <2>1 DEF Ping
  <2>. QED
    BY <2>2, Quiet
<1>4. CASE LongPing(c)
  <2>1. cmd[c].verb \notin Stopping
    BY <1>4 DEF LongPing, Inv, Pings
  <2>2. Onto(c, "ok") \/ Onto(c, "stop")
    BY <1>4, <2>1 DEF LongPing
  <2>. QED
    BY <2>2, Quiet
<1>5. CASE BusyPing(c)
  <2>1. Onto(c, "failed") \/ Onto(c, "stop")
    BY <1>5 DEF BusyPing
  <2>. QED
    BY <2>1, Quiet
<1>6. CASE WaitUp(c)
  <2>1. Onto(c, "ok") \/ Onto(c, "failed")
    BY <1>6 DEF WaitUp
  <2>. QED
    BY <2>1, Quiet
<1>7. CASE Delete(c)
  <2>1. Onto(c, "failed") \/ Onto(c, "remove")
    BY <1>7 DEF Delete
  <2>. QED
    BY <2>1, Quiet
<1>. QED
  BY <1>1, <1>2, <1>3, <1>4, <1>5, <1>6, <1>7

\* A stop that waits: it goes on to success only when the listener is gone.
LEMMA WaitSteps ==
  ASSUME Inv, NEW c \in Commands,
         TimedOut(c) \/ Unanswered(c) \/ Confirm(c) \/ Confirmed(c) \/ WaitDown(c) \/ WaitGone(c)
  PROVE  Inv'
<1>. USE DEF Onto, At, Pcs, Launching, AfterStop
<1>1. CASE TimedOut(c)
  <2>1. Onto(c, "failed") \/ Onto(c, "kill")
    BY <1>1 DEF TimedOut
  <2>. QED
    BY <2>1, Quiet
<1>2. CASE Unanswered(c)
  <2>1. Onto(c, "wait down") \/ Onto(c, "confirm") \/ Onto(c, "kill")
    BY <1>2 DEF Unanswered
  <2>. QED
    BY <2>1, Quiet
<1>3. CASE Confirm(c)
  <2>1. Onto(c, "failed") \/ Onto(c, "confirmed")
    BY <1>3 DEF Confirm
  <2>. QED
    BY <2>1, Quiet
<1>4. CASE Confirmed(c)
  <2>1. Onto(c, "wait down") \/ Onto(c, "kill")
    BY <1>4 DEF Confirmed
  <2>. QED
    BY <2>1, Quiet
<1>5. CASE WaitDown(c)
  <2>1. Onto(c, "ok") \/ Onto(c, "spawn") \/ Onto(c, "failed")
    BY <1>5 DEF WaitDown, Gone, NotGone, After, Sockets
  <2>. QED
    BY <2>1, Quiet
<1>6. CASE WaitGone(c)
  <2>1. Onto(c, "ok") \/ Onto(c, "start") \/ Onto(c, "failed")
    BY <1>6 DEF WaitGone, Gone, NotGone, Sockets
  <2>. QED
    BY <2>1, Quiet
<1>. QED
  BY <1>1, <1>2, <1>3, <1>4, <1>5, <1>6

\* What a command notes when it goes on: the server it talks to, the one it has asked or
\* told to end, and the one it has started; and what a server notes.
Talks(c, pc, s) == cmd' = [cmd EXCEPT ![c].pid = s, ![c].pc = pc]
Ends(c, pc, s) == cmd' = [cmd EXCEPT ![c].pc = pc, ![c].target = s]
Starting(c, pc, s) == cmd' = [cmd EXCEPT ![c].pc = pc, ![c].child = s]
Asked(s, c) == server' = [server EXCEPT ![s].stop = @ \cup {c}]

LEMMA OnlyPidPc ==
  ASSUME TypeInv, NEW c \in Commands, NEW pc \in Pcs, NEW pid \in Peers, Talks(c, pc, pid)
  PROVE  /\ cmd' \in [Commands -> CommandType] /\ \A d \in Commands : d # c => cmd'[d] = cmd[d]
         /\ cmd'[c].pc = pc /\ cmd'[c].verb = cmd[c].verb /\ cmd'[c].pid = pid
         /\ cmd'[c].child = cmd[c].child /\ cmd'[c].target = cmd[c].target
<1> DEFINE f == [cmd EXCEPT ![c].pid = pid]
<1>. cmd \in [Commands -> CommandType]
  BY DEF TypeInv
<1>1. /\ f \in [Commands -> CommandType] /\ \A d \in Commands : d # c => f[d] = cmd[d]
      /\ f[c].pid = pid /\ f[c].verb = cmd[c].verb
      /\ f[c].child = cmd[c].child /\ f[c].target = cmd[c].target
  BY PidSet
<1>2. cmd' = [f EXCEPT ![c].pc = pc]
  BY DEF Talks
<1> HIDE DEF f
<1>3. LET g == [f EXCEPT ![c].pc = pc]
      IN  /\ g \in [Commands -> CommandType] /\ \A d \in Commands : d # c => g[d] = f[d]
          /\ g[c].pc = pc /\ g[c].verb = f[c].verb /\ g[c].pid = f[c].pid
          /\ g[c].child = f[c].child /\ g[c].target = f[c].target
  BY <1>1, PcSet
<1>. QED
  BY <1>1, <1>2, <1>3

LEMMA OnlyTargetPc ==
  ASSUME TypeInv, NEW c \in Commands, NEW pc \in Pcs, NEW target \in Peers, Ends(c, pc, target)
  PROVE  /\ cmd' \in [Commands -> CommandType] /\ \A d \in Commands : d # c => cmd'[d] = cmd[d]
         /\ cmd'[c].pc = pc /\ cmd'[c].verb = cmd[c].verb /\ cmd'[c].pid = cmd[c].pid
         /\ cmd'[c].child = cmd[c].child /\ cmd'[c].target = target
<1> DEFINE f == [cmd EXCEPT ![c].pc = pc]
<1>1. /\ f \in [Commands -> CommandType] /\ \A d \in Commands : d # c => f[d] = cmd[d]
      /\ f[c].pc = pc /\ f[c].verb = cmd[c].verb /\ f[c].pid = cmd[c].pid
      /\ f[c].child = cmd[c].child
  BY PcSet DEF TypeInv
<1>2. cmd' = [f EXCEPT ![c].target = target]
  BY DEF Ends
<1> HIDE DEF f
<1>3. LET g == [f EXCEPT ![c].target = target]
      IN  /\ g \in [Commands -> CommandType] /\ \A d \in Commands : d # c => g[d] = f[d]
          /\ g[c].target = target /\ g[c].verb = f[c].verb /\ g[c].pc = f[c].pc
          /\ g[c].child = f[c].child /\ g[c].pid = f[c].pid
  BY <1>1, TargetSet
<1>. QED
  BY <1>1, <1>2, <1>3

LEMMA OnlyChildPc ==
  ASSUME TypeInv, NEW c \in Commands, NEW pc \in Pcs, NEW child \in Peers, Starting(c, pc, child)
  PROVE  /\ cmd' \in [Commands -> CommandType] /\ \A d \in Commands : d # c => cmd'[d] = cmd[d]
         /\ cmd'[c].pc = pc /\ cmd'[c].verb = cmd[c].verb /\ cmd'[c].pid = cmd[c].pid
         /\ cmd'[c].child = child /\ cmd'[c].target = cmd[c].target
<1> DEFINE f == [cmd EXCEPT ![c].pc = pc]
<1>1. /\ f \in [Commands -> CommandType] /\ \A d \in Commands : d # c => f[d] = cmd[d]
      /\ f[c].pc = pc /\ f[c].verb = cmd[c].verb /\ f[c].pid = cmd[c].pid
      /\ f[c].target = cmd[c].target
  BY PcSet DEF TypeInv
<1>2. cmd' = [f EXCEPT ![c].child = child]
  BY DEF Starting
<1> HIDE DEF f
<1>3. LET g == [f EXCEPT ![c].child = child]
      IN  /\ g \in [Commands -> CommandType] /\ \A d \in Commands : d # c => g[d] = f[d]
          /\ g[c].child = child /\ g[c].verb = f[c].verb /\ g[c].pc = f[c].pc
          /\ g[c].target = f[c].target /\ g[c].pid = f[c].pid
  BY <1>1, ChildSet
<1>. QED
  BY <1>1, <1>2, <1>3

LEMMA OnlyStop ==
  ASSUME TypeInv, NEW s \in Servers, NEW c \in Commands, Asked(s, c)
  PROVE  /\ server' \in [Servers -> ServerType] /\ \A t \in Servers : t # s => server'[t] = server[t]
         /\ server'[s].owner = server[s].owner /\ server'[s].phase = server[s].phase
         /\ server'[s].lock = server[s].lock /\ server'[s].mem = server[s].mem
BY StopAsked DEF Asked, TypeInv

LEMMA BeginStopStep ==
  ASSUME Inv, NEW c \in Commands, BeginStop(c)
  PROVE  Inv'
<1>1. /\ cmd[c].pc = "begin" /\ Idle
      /\ cmd' = [cmd EXCEPT ![c].pc = "stop", ![c].sure = TRUE]
  BY DEF BeginStop, At
<1>2. /\ cmd' \in [Commands -> CommandType] /\ \A d \in Commands : d # c => cmd'[d] = cmd[d]
      /\ cmd'[c].pc = "stop" /\ cmd'[c].verb = cmd[c].verb /\ cmd'[c].pid = cmd[c].pid
      /\ cmd'[c].child = cmd[c].child /\ cmd'[c].target = cmd[c].target
  <2> DEFINE f == [cmd EXCEPT ![c].pc = "stop"]
  <2>1. cmd \in [Commands -> CommandType] /\ "stop" \in Pcs
    BY DEF Inv, TypeInv, Pcs
  <2>2. /\ f \in [Commands -> CommandType] /\ \A d \in Commands : d # c => f[d] = cmd[d]
        /\ f[c].pc = "stop" /\ f[c].verb = cmd[c].verb /\ f[c].pid = cmd[c].pid
        /\ f[c].child = cmd[c].child /\ f[c].target = cmd[c].target
    BY <2>1, PcSet
  <2>3. cmd' = [f EXCEPT ![c].sure = TRUE]
    BY <1>1
  <2> HIDE DEF f
  <2>4. LET g == [f EXCEPT ![c].sure = TRUE]
        IN  /\ g \in [Commands -> CommandType] /\ \A d \in Commands : d # c => g[d] = f[d]
            /\ g[c].child = f[c].child /\ g[c].verb = f[c].verb /\ g[c].pc = f[c].pc
            /\ g[c].target = f[c].target /\ g[c].pid = f[c].pid
    BY <2>2, SureSet
  <2>. QED
    BY <2>2, <2>3, <2>4
<1>3. "stop" \notin Launching /\ "begin" \notin Launching /\ "stop" \notin AfterStop
  BY DEF Launching, AfterStop
<1>. QED
  BY <1>1, <1>2, <1>3, IdleStep

\* A connection tells the server behind a socket, which was bound.
LEMMA ReachedSocket ==
  ASSUME Inv, NEW p \in Sockets, Reachable(p)
  PROVE  path[p] \in Servers /\ server[path[p]].phase \in Reached
BY DEF Inv, TypeInv, Starts, PathsBound, Reachable

LEMMA StopConnectStep ==
  ASSUME Inv, NEW c \in Commands, StopConnect(c)
  PROVE  Inv'
<1>1. cmd[c].pc = "stop" /\ Idle
  BY DEF StopConnect, At
<1>2. \A x \in {"stop", "request", "timed out", "kill"} :
        x \in Pcs /\ x \notin Launching /\ x \notin AfterStop /\ x \notin {"ping", "long ping"}
  BY DEF Pcs, Launching, AfterStop
<1>3. \/ \E p \in Sockets :
           /\ Reachable(p)
           /\ \/ cmd' = [cmd EXCEPT ![c].pc = "request", ![c].pid = path[p]]
              \/ \E pid \in Pids(path[p]) :
                   cmd' = [cmd EXCEPT ![c].pid = pid,
                                      ![c].pc = IF cmd[c].sure THEN "timed out" ELSE "kill"]
      \/ /\ ~Reachable("api")
         /\ Goto(c, IF cmd[c].verb = "attach" THEN "wait down" ELSE After(c))
  BY DEF StopConnect, Sockets
<1>4. CASE \E p \in Sockets :
             /\ Reachable(p)
             /\ \/ cmd' = [cmd EXCEPT ![c].pc = "request", ![c].pid = path[p]]
                \/ \E pid \in Pids(path[p]) :
                     cmd' = [cmd EXCEPT ![c].pid = pid,
                                        ![c].pc = IF cmd[c].sure THEN "timed out" ELSE "kill"]
  <2>1. PICK p \in Sockets :
          /\ Reachable(p)
          /\ \/ cmd' = [cmd EXCEPT ![c].pc = "request", ![c].pid = path[p]]
             \/ \E pid \in Pids(path[p]) :
                  cmd' = [cmd EXCEPT ![c].pid = pid,
                                     ![c].pc = IF cmd[c].sure THEN "timed out" ELSE "kill"]
    BY <1>4
  <2>2. path[p] \in Servers /\ server[path[p]].phase \in Reached
    BY <2>1, ReachedSocket
  <2>3. PICK pid \in {path[p], None}, pc \in {"request", "timed out", "kill"} :
          Talks(c, pc, pid)
    <3>1. CASE cmd' = [cmd EXCEPT ![c].pc = "request", ![c].pid = path[p]]
      <4>1. cmd[c] \in CommandType
        BY DEF Inv, TypeInv
      <4>2. cmd' = [cmd EXCEPT ![c].pid = path[p], ![c].pc = "request"]
        BY <3>1, <4>1 DEF CommandType
      <4>. QED
        BY <4>2 DEF Talks
    <3>2. CASE \E pid \in Pids(path[p]) :
                 cmd' = [cmd EXCEPT ![c].pid = pid,
                                    ![c].pc = IF cmd[c].sure THEN "timed out" ELSE "kill"]
      <4>1. Pids(path[p]) \subseteq {path[p], None}
        BY DEF Pids
      <4>. QED
        BY <3>2, <4>1 DEF Talks
    <3>. QED
      BY <2>1, <3>1, <3>2
  <2>4. pc \in Pcs /\ pid \in Peers
    BY <1>2, <2>2 DEF Peers
  <2>5. /\ cmd' \in [Commands -> CommandType] /\ \A d \in Commands : d # c => cmd'[d] = cmd[d]
        /\ cmd'[c].pc = pc /\ cmd'[c].verb = cmd[c].verb /\ cmd'[c].pid = pid
        /\ cmd'[c].child = cmd[c].child /\ cmd'[c].target = cmd[c].target
    <3>1. TypeInv
      BY DEF Inv
    <3>. QED
      BY <2>3, <2>4, <3>1, OnlyPidPc
  <2>6. cmd'[c].pid \in {cmd[c].pid, None} \/ server[cmd'[c].pid].phase \in Reached
    BY <2>2, <2>5
  <2>7. /\ cmd'[c].pc \in Launching <=> cmd[c].pc \in Launching
        /\ cmd'[c].pc \notin {"ping", "long ping"} /\ cmd'[c].pc \notin AfterStop
    BY <1>1, <1>2, <2>5
  <2>. QED
    BY <1>1, <2>5, <2>6, <2>7, IdleStep
<1>5. CASE /\ ~Reachable("api")
           /\ Goto(c, IF cmd[c].verb = "attach" THEN "wait down" ELSE After(c))
  <2>1. Onto(c, "wait down") \/ Onto(c, "ok") \/ Onto(c, "spawn")
    BY <1>1, <1>5 DEF Onto, Pcs, Launching, AfterStop, After
  <2>. QED
    BY <2>1, Quiet
<1>. QED
  BY <1>3, <1>4, <1>5

\* What a start relies on does not depend on owners and pending stops.
LEMMA SameStarts ==
  ASSUME TypeInv, Starts,
         \A s \in Servers : /\ server'[s].phase = server[s].phase /\ server'[s].lock = server[s].lock
                            /\ server'[s].mem = server[s].mem,
         UNCHANGED <<path, dir, dirs, disk, work, unsaved>>
  PROVE  Starts'
<1>1. \A p \in Sockets : path[p] # None => path[p] \in Servers
  BY DEF TypeInv
<1>2. Locks'
  BY DEF Starts, Locks
<1>3. PathsBound'
  BY <1>1 DEF Starts, PathsBound
<1>4. Places' /\ Claims'
  BY DEF Starts, Places, Claims
<1>5. Works'
  BY DEF Starts, Works
<1>. QED
  BY <1>2, <1>3, <1>4, <1>5 DEF Starts

\* A stop request stays with the server that has it.
LEMMA RequestStep ==
  ASSUME Inv, NEW c \in Commands, NEW acked, NEW silent, Request(c, acked, silent),
         acked \in {"wait down", "wait gone"}, silent \in {"unanswered", "wait gone"},
         cmd[c].pc \notin Launching
  PROVE  Inv'
<1>1. UNCHANGED <<path, dir, dirs, disk, work, unsaved, faults>>
  BY DEF Request, dirVars, sessionVars
<1>2. /\ acked \in Pcs /\ acked \notin Launching /\ acked \notin AfterStop
      /\ silent \in Pcs /\ silent \notin Launching /\ silent \notin AfterStop
      /\ acked \notin {"ping", "long ping"} /\ silent \notin {"ping", "long ping"}
  BY DEF Pcs, Launching, AfterStop
<1>3. CASE Reachable("api")
  <2>1. PICK s \in Servers : s = path["api"] /\ server[s].phase \in Reached
    BY <1>3, ReachedSocket DEF Sockets
  <2>2. Asked(s, c) /\ \E pc \in {acked, silent} : Ends(c, pc, s)
    BY <1>3, <2>1 DEF Request, Asked, Ends
  <2>3. TypeInv /\ server \in [Servers -> ServerType]
    BY DEF Inv, TypeInv
  <2>4. /\ server' \in [Servers -> ServerType] /\ \A t \in Servers : t # s => server'[t] = server[t]
        /\ server'[s].owner = server[s].owner /\ server'[s].phase = server[s].phase
        /\ server'[s].lock = server[s].lock /\ server'[s].mem = server[s].mem
    BY <2>2, <2>3, OnlyStop
  <2>5. \A t \in Servers : /\ server'[t].phase = server[t].phase /\ server'[t].lock = server[t].lock
                           /\ server'[t].mem = server[t].mem /\ server'[t].owner = server[t].owner
    BY <2>4
  <2>6. PICK pc \in {acked, silent} : Ends(c, pc, s)
    BY <2>2
  <2>7. pc \in Pcs /\ s \in Peers
    BY <1>2, <2>1 DEF Peers
  <2>8. /\ cmd' \in [Commands -> CommandType] /\ \A d \in Commands : d # c => cmd'[d] = cmd[d]
        /\ cmd'[c].pc = pc /\ cmd'[c].verb = cmd[c].verb /\ cmd'[c].pid = cmd[c].pid
        /\ cmd'[c].child = cmd[c].child /\ cmd'[c].target = s
    BY <2>3, <2>6, <2>7, OnlyTargetPc
  <2>9. TypeInv'
    BY <1>1, <2>3, <2>4, <2>5, <2>8 DEF TypeInv
  <2>10. Starts'
    BY <1>1, <2>5, SameStarts DEF Inv
  <2>11. /\ cmd'[c].pc \notin Launching /\ cmd'[c].pc \notin AfterStop
         /\ cmd'[c].pc \notin {"ping", "long ping"}
    BY <1>2, <2>8
  <2>12. \A t \in Servers :
           server'[t].owner # None /\ server'[t].phase \in Alive =>
             \/ server'[t].owner = c /\ cmd'[c].pc \in Launching /\ cmd'[c].child = t
             \/ /\ server'[t].owner = server[t].owner /\ server[t].phase \in Alive
                /\ server[t].owner # c
    BY <2>5, OwnersLaunch
  <2>13. server'[cmd'[c].target].phase \in Reached
    BY <2>1, <2>4, <2>8
  <2>14. Contacts' /\ StopsEnd' /\ Pings' /\ Owners'
    BY <1>1, <2>5, <2>8, <2>9, <2>11, <2>12, <2>13, CommandMoves DEF DirKept
  <2>. QED
    BY <2>9, <2>10, <2>14 DEF Inv
<1>4. CASE ~Reachable("api")
  <2>1. Onto(c, silent)
    BY <1>2, <1>4 DEF Onto, Request, Idle
  <2>. QED
    BY <2>1, Quiet
<1>. QED
  BY <1>3, <1>4

LEMMA StopRequestStep ==
  ASSUME Inv, NEW c \in Commands, StopRequest(c)
  PROVE  Inv'
<1>1. cmd[c].pc \notin Launching /\ Request(c, "wait down", "unanswered")
  BY DEF StopRequest, At, Launching
<1>. QED
  BY <1>1, RequestStep

LEMMA SessionStopStep ==
  ASSUME Inv, NEW c \in Commands, SessionStop(c)
  PROVE  Inv'
<1>1. cmd[c].pc = "begin" /\ cmd[c].pc \notin Launching
  BY DEF SessionStop, At, Launching
<1>2. CASE Request(c, "wait gone", "wait gone")
  BY <1>1, <1>2, RequestStep
<1>3. CASE /\ ~Reachable("api") /\ Idle
           /\ Goto(c, IF cmd[c].verb = "session stop" THEN "failed" ELSE "start")
  <2>1. Onto(c, "failed") \/ Onto(c, "start")
    BY <1>1, <1>3 DEF Onto, Pcs, Launching, AfterStop
  <2>. QED
    BY <2>1, Quiet
<1>. QED
  BY <1>2, <1>3 DEF SessionStop

\* The kernel's end of a process: its sockets stay, its session is gone.
LEMMA KillStep ==
  ASSUME TypeInv, Starts, NEW s \in Servers, server' = Killed(s), Lossy(s),
         UNCHANGED <<path, dir, dirs, disk, work>>, cmd' \in [Commands -> CommandType],
         faults' \in 0..MaxFaults
  PROVE  /\ TypeInv' /\ Starts' /\ Onward /\ DirKept /\ server'[s].phase \notin Alive
         /\ \A t \in Servers : server'[t].owner = server[t].owner
<1>1. unsaved \in BOOLEAN /\ unsaved' = (unsaved \/ server[s].phase \in Up)
  BY DEF TypeInv, Lossy
<1>2. unsaved' \in BOOLEAN /\ (unsaved => unsaved') /\ (server[s].phase \in Up => unsaved')
  BY <1>1
<1>3. CASE server[s].phase \in Alive
  <2>1. To(s, "dead")
    BY <1>3 DEF Killed, To
  <2>2. "dead" \in Phases /\ "dead" \notin Alive
    BY DEF Phases, Alive, Locked, Up
  <2>3. server'[s].phase \notin Alive /\ \A t \in Servers : server'[t].owner = server[t].owner
    BY <2>1, <2>2, OnlyPhase
  <2>. QED
    BY <1>2, <1>3, <2>1, <2>3, DeathStep
<1>4. CASE server[s].phase \notin Alive
  <2>1. server[s] \in ServerType /\ server \in [Servers -> ServerType]
    BY DEF TypeInv
  <2>2. server' = server
    BY <1>4, <2>1 DEF Killed, ServerType
  <2>3. unsaved' = unsaved
    BY <1>1, <1>4 DEF Alive
  <2>4. TypeInv'
    BY <2>2, <2>3 DEF TypeInv
  <2>5. Starts'
    BY <2>2, <2>3, SameStarts
  <2>. QED
    BY <1>4, <2>2, <2>4, <2>5 DEF Onward, DirKept
<1>. QED
  BY <1>3, <1>4

\* Kill ends the process that the command has learnt of, or fails.
LEMMA KillsPid ==
  ASSUME Inv, NEW c \in Commands, Kill(c)
  PROVE  Inv'
<1>1. cmd[c].pc = "kill" /\ UNCHANGED <<path, dir, dirs, disk, work, faults>>
  BY DEF Kill, At, dirVars
<1>2. /\ \A x \in {"kill", "wait down", "failed"} :
           x \in Pcs /\ x \notin Launching /\ x \notin AfterStop /\ x \notin {"ping", "long ping"}
  BY DEF Pcs, Launching, AfterStop
<1>3. TypeInv /\ Starts /\ faults \in 0..MaxFaults
  BY DEF Inv, TypeInv
<1>4. CASE cmd[c].pid # None /\ server[cmd[c].pid].phase \in Alive
  <2>1. PICK s \in Servers : s = cmd[c].pid /\ s \in Peers /\ server[s].phase \in Reached
    BY <1>4, CommandFields DEF Inv, TypeInv, Contacts, Peers
  <2>2. server' = Killed(s) /\ Lossy(s) /\ Ends(c, "wait down", s)
    BY <1>4, <2>1 DEF Kill, Ends
  <2>3. /\ cmd' \in [Commands -> CommandType] /\ \A d \in Commands : d # c => cmd'[d] = cmd[d]
        /\ cmd'[c].pc = "wait down" /\ cmd'[c].verb = cmd[c].verb /\ cmd'[c].pid = cmd[c].pid
        /\ cmd'[c].child = cmd[c].child /\ cmd'[c].target = s
    <3>1. "wait down" \in Pcs
      BY <1>2
    <3>. QED
      BY <1>3, <2>1, <2>2, <3>1, OnlyTargetPc
  <2>4. /\ TypeInv' /\ Starts' /\ Onward /\ DirKept
        /\ \A t \in Servers : server'[t].owner = server[t].owner
    BY <1>1, <1>3, <2>1, <2>2, <2>3, KillStep
  <2>5. \A t \in Servers :
          server'[t].owner # None /\ server'[t].phase \in Alive =>
            \/ server'[t].owner = c /\ cmd'[c].pc \in Launching /\ cmd'[c].child = t
            \/ /\ server'[t].owner = server[t].owner /\ server[t].phase \in Alive
               /\ server[t].owner # c
    <3>1. cmd[c].pc \notin Launching
      BY <1>1, <1>2
    <3>2. \A t \in Servers : server'[t].phase \in Alive => server[t].phase \in Alive
      BY <2>4 DEF Onward
    <3>. QED
      BY <2>4, <3>1, <3>2, OwnersLaunch
  <2>6. \A t \in Servers :
          /\ server[t].phase \in Reached => server'[t].phase \in Reached
          /\ server[t].phase \in {"failed", "dead"} => server'[t].phase \in {"failed", "dead"}
    BY <2>4 DEF Onward
  <2>7. server'[cmd'[c].target].phase \in Reached
    BY <2>1, <2>3, <2>6
  <2>8. /\ cmd'[c].pc \notin Launching /\ cmd'[c].pc \notin AfterStop
        /\ cmd'[c].pc \notin {"ping", "long ping"}
    BY <1>2, <2>3
  <2>9. Contacts' /\ StopsEnd' /\ Pings' /\ Owners'
    BY <2>3, <2>4, <2>5, <2>6, <2>7, <2>8, CommandMoves
  <2>. QED
    BY <2>4, <2>9 DEF Inv
<1>5. CASE ~(cmd[c].pid # None /\ server[cmd[c].pid].phase \in Alive)
  <2>1. Onto(c, "failed")
    BY <1>1, <1>2, <1>5 DEF Onto, Kill, Idle, dirVars, sessionVars
  <2>. QED
    BY <2>1, Quiet
<1>. QED
  BY <1>4, <1>5

\* A server is launched, and owned by who launches it.
Launched(s, c) == server' = [server EXCEPT ![s].phase = "launched", ![s].owner = c]
Released(s) == server' = [server EXCEPT ![s].owner = None]

LEMMA OnlyLaunch ==
  ASSUME TypeInv, NEW s \in Servers, NEW c \in Commands, Launched(s, c)
  PROVE  /\ server' \in [Servers -> ServerType] /\ \A t \in Servers : t # s => server'[t] = server[t]
         /\ server'[s].owner = c /\ server'[s].phase = "launched"
         /\ server'[s].lock = server[s].lock /\ server'[s].mem = server[s].mem
<1> DEFINE f == [server EXCEPT ![s].phase = "launched"]
<1>1. server \in [Servers -> ServerType] /\ "launched" \in Phases
  BY DEF TypeInv, Phases, Alive
<1>2. /\ f \in [Servers -> ServerType] /\ \A t \in Servers : t # s => f[t] = server[t]
      /\ f[s].phase = "launched" /\ f[s].lock = server[s].lock /\ f[s].mem = server[s].mem
  BY <1>1, PhaseSet
<1>3. server' = [f EXCEPT ![s].owner = c]
  BY DEF Launched
<1> HIDE DEF f
<1>4. LET g == [f EXCEPT ![s].owner = c]
      IN  /\ g \in [Servers -> ServerType] /\ \A t \in Servers : t # s => g[t] = f[t]
          /\ g[s].owner = c /\ g[s].phase = f[s].phase /\ g[s].lock = f[s].lock /\ g[s].mem = f[s].mem
  BY <1>2, OwnerSet
<1>. QED
  BY <1>2, <1>3, <1>4

LEMMA OnlyRelease ==
  ASSUME TypeInv, NEW s \in Servers, Released(s)
  PROVE  /\ server' \in [Servers -> ServerType] /\ \A t \in Servers : t # s => server'[t] = server[t]
         /\ server'[s].owner = None /\ server'[s].phase = server[s].phase
         /\ server'[s].lock = server[s].lock /\ server'[s].mem = server[s].mem
<1>1. server \in [Servers -> ServerType] /\ None \in Commands \cup {None}
  BY DEF TypeInv
<1>2. LET g == [server EXCEPT ![s].owner = None]
      IN  /\ g \in [Servers -> ServerType] /\ \A t \in Servers : t # s => g[t] = server[t]
          /\ g[s].owner = None /\ g[s].phase = server[s].phase /\ g[s].lock = server[s].lock
          /\ g[s].mem = server[s].mem
  BY <1>1, OwnerSet
<1>. QED
  BY <1>2 DEF Released

\* A launch that begins changes nothing for the servers that are there.
LEMMA SpawnStep ==
  ASSUME Inv, NEW c \in Commands, NEW next \in {"accept", "wait ready"}, Spawn(c, next),
         cmd[c].pc \notin Launching, cmd[c].pc \in AfterStop \/ cmd[c].verb \notin Stopping
  PROVE  Inv'
<1>1. UNCHANGED <<path, dir, dirs, disk, work, unsaved, faults>>
  BY DEF Spawn, dirVars, sessionVars
<1>2. PICK s \in Servers : server[s].phase = "none" /\ Launched(s, c) /\ Starting(c, next, s)
  BY DEF Spawn, Is, Launched, Starting
<1>3. TypeInv /\ s \in Peers /\ s # None /\ next \in Pcs /\ next \in Launching
      /\ next \notin {"ping", "long ping"}
  BY LifecycleAssumption DEF Inv, Peers, Pcs, Launching
<1>4. /\ server' \in [Servers -> ServerType] /\ \A t \in Servers : t # s => server'[t] = server[t]
      /\ server'[s].owner = c /\ server'[s].phase = "launched"
      /\ server'[s].lock = server[s].lock /\ server'[s].mem = server[s].mem
  BY <1>2, <1>3, OnlyLaunch
<1>5. /\ cmd' \in [Commands -> CommandType] /\ \A d \in Commands : d # c => cmd'[d] = cmd[d]
      /\ cmd'[c].pc = next /\ cmd'[c].verb = cmd[c].verb /\ cmd'[c].pid = cmd[c].pid
      /\ cmd'[c].child = s /\ cmd'[c].target = cmd[c].target
  BY <1>2, <1>3, OnlyChildPc
<1>6. \A t \in Servers : server'[t].lock = server[t].lock /\ server'[t].mem = server[t].mem
  BY <1>4
<1>7. TypeInv'
  BY <1>1, <1>3, <1>4, <1>5, <1>6 DEF TypeInv
<1>8. \A S \in {Alive \ {"launched"}, Locked, Bound, Up, Claiming, Reached, Serving, {"failed", "dead"}} :
        "launched" \notin S /\ "none" \notin S
  BY DEF Alive, Locked, Bound, Up, Claiming, Reached, Serving
<1>9. \A t \in Servers :
        \A S \in {Alive \ {"launched"}, Locked, Bound, Up, Claiming, Reached, Serving, {"failed", "dead"}} :
          server'[t].phase \in S <=> server[t].phase \in S
  BY <1>2, <1>4, <1>8
<1>10. Starts'
  <2>1. Locks'
    BY <1>1, <1>6, <1>9 DEF Inv, Starts, Locks
  <2>2. PathsBound'
    BY <1>1, <1>9 DEF Inv, Starts, PathsBound, TypeInv
  <2>3. Places' /\ Claims'
    BY <1>1, <1>9 DEF Inv, Starts, Places, Claims
  <2>4. Works'
    BY <1>1, <1>6, <1>9 DEF Inv, Starts, Works
  <2>. QED
    BY <2>1, <2>2, <2>3, <2>4 DEF Starts
<1>11. \A t \in Servers :
         server'[t].owner # None /\ server'[t].phase \in Alive =>
           \/ server'[t].owner = c /\ cmd'[c].pc \in Launching /\ cmd'[c].child = t
           \/ /\ server'[t].owner = server[t].owner /\ server[t].phase \in Alive
              /\ server[t].owner # c
  BY <1>3, <1>4, <1>5, OwnersLaunch
<1>12. \A t \in Servers :
         /\ server[t].phase \in Reached => server'[t].phase \in Reached
         /\ server[t].phase \in {"failed", "dead"} => server'[t].phase \in {"failed", "dead"}
  BY <1>9
<1>13. cmd'[c].pc \notin {"ping", "long ping"} /\ cmd'[c].child # None
  BY <1>3, <1>5
<1>14. Contacts' /\ StopsEnd' /\ Pings' /\ Owners'
  BY <1>1, <1>5, <1>7, <1>11, <1>12, <1>13, CommandMoves DEF DirKept
<1>. QED
  BY <1>7, <1>10, <1>14 DEF Inv

\* A launcher lets its server go.
LEMMA ReleaseStep ==
  ASSUME Inv, NEW c \in Commands, NEW pc \in {"wait up", "ok", "failed"}, cmd[c].pc \in Launching,
         server' = Release(c), Goto(c, pc), UNCHANGED <<path, dirVars, sessionVars, faults>>
  PROVE  Inv'
<1>1. UNCHANGED <<path, dir, dirs, disk, work, unsaved, faults>>
  BY DEF dirVars, sessionVars
<1>2. PICK s \in Servers : s = cmd[c].child /\ Released(s)
  <2>1. cmd[c].child \in Servers
    BY CommandFields DEF Inv, TypeInv, Owners
  <2>. QED
    BY <2>1 DEF Release, Released
<1>3. /\ TypeInv /\ pc \in Pcs /\ pc \notin Launching /\ cmd[c].pc \in AfterStop
      /\ pc \notin {"ping", "long ping"}
  BY DEF Inv, Pcs, Launching, AfterStop
<1>4. /\ server' \in [Servers -> ServerType] /\ \A t \in Servers : t # s => server'[t] = server[t]
      /\ server'[s].owner = None /\ server'[s].phase = server[s].phase
      /\ server'[s].lock = server[s].lock /\ server'[s].mem = server[s].mem
  BY <1>2, <1>3, OnlyRelease
<1>5. /\ cmd' \in [Commands -> CommandType] /\ \A d \in Commands : d # c => cmd'[d] = cmd[d]
      /\ cmd'[c].pc = pc /\ cmd'[c].verb = cmd[c].verb /\ cmd'[c].pid = cmd[c].pid
      /\ cmd'[c].child = cmd[c].child /\ cmd'[c].target = cmd[c].target
  BY <1>3, OnlyPc
<1>6. \A t \in Servers : /\ server'[t].phase = server[t].phase /\ server'[t].lock = server[t].lock
                         /\ server'[t].mem = server[t].mem
  BY <1>4
<1>7. TypeInv'
  BY <1>1, <1>3, <1>4, <1>5, <1>6 DEF TypeInv
<1>8. Starts'
  BY <1>1, <1>6, SameStarts DEF Inv
<1>9. \A t \in Servers :
        server'[t].owner # None /\ server'[t].phase \in Alive =>
          \/ server'[t].owner = c /\ cmd'[c].pc \in Launching /\ cmd'[c].child = t
          \/ /\ server'[t].owner = server[t].owner /\ server[t].phase \in Alive
             /\ server[t].owner # c
  BY <1>2, <1>4, OwnersLaunch
<1>10. cmd'[c].pc \notin {"ping", "long ping"} /\ cmd'[c].pc \notin Launching
  BY <1>3, <1>5
<1>11. Contacts' /\ StopsEnd' /\ Pings' /\ Owners'
  BY <1>1, <1>3, <1>5, <1>6, <1>7, <1>9, <1>10, CommandMoves DEF DirKept
<1>. QED
  BY <1>7, <1>8, <1>11 DEF Inv

LEMMA LaunchSteps ==
  ASSUME Inv, NEW c \in Commands, SpawnServer(c) \/ Accept(c) \/ SessionStart(c)
  PROVE  Inv'
<1>1. CASE SpawnServer(c)
  <2>1. Spawn(c, "accept") /\ cmd[c].pc = "spawn"
    BY <1>1 DEF SpawnServer, At
  <2>2. cmd[c].pc \notin Launching /\ cmd[c].pc \in AfterStop
    BY <2>1 DEF Launching, AfterStop
  <2>. QED
    BY <2>1, <2>2, SpawnStep
<1>2. CASE Accept(c)
  <2>1. /\ cmd[c].pc = "accept" /\ server' = Release(c) /\ UNCHANGED <<path, dirVars, sessionVars, faults>>
        /\ Goto(c, "wait up") \/ Goto(c, "failed")
    BY <1>2 DEF Accept, Accepted, At
  <2>2. cmd[c].pc \in Launching
    BY <2>1 DEF Launching
  <2>. QED
    BY <2>1, <2>2, ReleaseStep
<1>3. CASE SessionStart(c)
  <2>1. \/ cmd[c].pc = "start"
        \/ cmd[c].pc = "begin" /\ cmd[c].verb = "session start"
    BY <1>3 DEF SessionStart, At
  <2>2. cmd[c].pc \notin Launching /\ (cmd[c].pc \in AfterStop \/ cmd[c].verb \notin Stopping)
    BY <2>1 DEF Launching, AfterStop, Stopping
  <2>3. CASE Spawn(c, "wait ready")
    BY <2>2, <2>3, SpawnStep
  <2>4. CASE Idle /\ Goto(c, IF Answers THEN "ok" ELSE "failed")
    <3>1. Onto(c, "ok") \/ Onto(c, "failed")
      BY <2>2, <2>4 DEF Onto, Pcs, Launching
    <3>. QED
      BY <3>1, Quiet
  <2>. QED
    BY <1>3, <2>3, <2>4 DEF SessionStart
<1>. QED
  BY <1>1, <1>2, <1>3

\* Session start waits for an answer, and then lets go or gives up.
LEMMA ReadySteps ==
  ASSUME Inv, NEW c \in Commands, WaitReady(c) \/ TooLate(c)
  PROVE  Inv'
<1>1. CASE WaitReady(c)
  <2>1. /\ cmd[c].pc = "wait ready" /\ UNCHANGED <<path, dirVars, sessionVars, faults>>
        /\ \/ server' = Release(c) /\ (Goto(c, "ok") \/ Goto(c, "failed"))
           \/ Goto(c, "too late") /\ UNCHANGED server
    BY <1>1 DEF WaitReady, At
  <2>2. cmd[c].pc \in Launching
    BY <2>1 DEF Launching
  <2>3. CASE server' = Release(c) /\ (Goto(c, "ok") \/ Goto(c, "failed"))
    BY <2>1, <2>2, <2>3, ReleaseStep
  <2>4. CASE Goto(c, "too late") /\ UNCHANGED server
    <3>1. Onto(c, "too late")
      BY <2>1, <2>4 DEF Onto, Pcs, Launching, AfterStop, Idle
    <3>. QED
      BY <3>1, Quiet
  <2>. QED
    BY <2>1, <2>3, <2>4
<1>2. CASE TooLate(c)
  <2>1. /\ cmd[c].pc = "too late" /\ UNCHANGED <<path, dirVars, sessionVars, faults>>
        /\ \/ server' = Release(c) /\ Goto(c, "failed")
           \/ Goto(c, "cancel") /\ UNCHANGED server
    BY <1>2 DEF TooLate, At
  <2>2. cmd[c].pc \in Launching
    BY <2>1 DEF Launching
  <2>3. CASE server' = Release(c) /\ Goto(c, "failed")
    BY <2>1, <2>2, <2>3, ReleaseStep
  <2>4. CASE Goto(c, "cancel") /\ UNCHANGED server
    <3>1. Onto(c, "cancel")
      BY <2>1, <2>4 DEF Onto, Pcs, Launching, AfterStop, Idle
    <3>. QED
      BY <3>1, Quiet
  <2>. QED
    BY <2>1, <2>3, <2>4
<1>. QED
  BY <1>1, <1>2

\* A launch fails with its server, if it still owned one.
LEMMA AbandonStep ==
  ASSUME Inv, NEW c \in Commands, Goto(c, "failed"), UNCHANGED <<path, dir, dirs, disk, work>>,
         faults' \in 0..MaxFaults,
         \/ /\ \E s \in Servers : s = cmd[c].child /\ server' = Killed(s) /\ Lossy(s)
         \/ /\ UNCHANGED <<server, unsaved>>
            /\ \A s \in Servers : s = cmd[c].child => server[s].owner # c
  PROVE  Inv'
<1>1. /\ TypeInv /\ Starts /\ "failed" \in Pcs /\ "failed" \notin Launching /\ "failed" \notin AfterStop
      /\ "failed" \notin {"ping", "long ping"}
  BY DEF Inv, Pcs, Launching, AfterStop
<1>2. /\ cmd' \in [Commands -> CommandType] /\ \A d \in Commands : d # c => cmd'[d] = cmd[d]
      /\ cmd'[c].pc = "failed" /\ cmd'[c].verb = cmd[c].verb /\ cmd'[c].pid = cmd[c].pid
      /\ cmd'[c].child = cmd[c].child /\ cmd'[c].target = cmd[c].target
  BY <1>1, OnlyPc
<1>3. /\ TypeInv' /\ Starts' /\ Onward /\ DirKept
      /\ \A t \in Servers : server'[t].owner = server[t].owner
      /\ \A t \in Servers : server[t].owner = c => server'[t].phase \notin Alive
  <2>1. CASE \E s \in Servers : s = cmd[c].child /\ server' = Killed(s) /\ Lossy(s)
    <3>1. PICK s \in Servers : s = cmd[c].child /\ server' = Killed(s) /\ Lossy(s)
      BY <2>1
    <3>2. /\ TypeInv' /\ Starts' /\ Onward /\ DirKept /\ server'[s].phase \notin Alive
          /\ \A t \in Servers : server'[t].owner = server[t].owner
      BY <1>1, <1>2, <3>1, KillStep
    <3>3. \A t \in Servers : server'[t].phase \in Alive => server[t].phase \in Alive
      BY <3>2 DEF Onward
    <3>4. \A t \in Servers : server[t].owner = c => server'[t].phase \notin Alive
      BY <3>1, <3>2, <3>3, OwnersLaunch
    <3>. QED
      BY <3>2, <3>4
  <2>2. CASE /\ UNCHANGED <<server, unsaved>>
             /\ \A s \in Servers : s = cmd[c].child => server[s].owner # c
    <3>1. TypeInv'
      BY <1>1, <1>2, <2>2 DEF TypeInv
    <3>2. Starts'
      BY <1>1, <2>2, SameStarts
    <3>3. \A t \in Servers : server[t].owner = c => server'[t].phase \notin Alive
      BY <2>2, OwnersLaunch
    <3>. QED
      BY <2>2, <3>1, <3>2, <3>3 DEF Onward, DirKept
  <2>. QED
    BY <2>1, <2>2
<1>4. \A t \in Servers :
        server'[t].owner # None /\ server'[t].phase \in Alive =>
          \/ server'[t].owner = c /\ cmd'[c].pc \in Launching /\ cmd'[c].child = t
          \/ /\ server'[t].owner = server[t].owner /\ server[t].phase \in Alive
             /\ server[t].owner # c
  BY <1>3 DEF Onward
<1>5. \A t \in Servers :
        /\ server[t].phase \in Reached => server'[t].phase \in Reached
        /\ server[t].phase \in {"failed", "dead"} => server'[t].phase \in {"failed", "dead"}
  BY <1>3 DEF Onward
<1>6. /\ cmd'[c].pc \notin Launching /\ cmd'[c].pc \notin AfterStop
      /\ cmd'[c].pc \notin {"ping", "long ping"}
  BY <1>1, <1>2
<1>7. Contacts' /\ StopsEnd' /\ Pings' /\ Owners'
  BY <1>2, <1>3, <1>4, <1>5, <1>6, CommandMoves
<1>. QED
  BY <1>3, <1>7 DEF Inv

LEMMA CancelStep ==
  ASSUME Inv, NEW c \in Commands, Cancel(c)
  PROVE  Inv'
<1>1. /\ cmd[c].pc = "cancel" /\ Goto(c, "failed")
      /\ server' = Killed(cmd[c].child) /\ Lossy(cmd[c].child)
      /\ UNCHANGED <<path, dir, dirs, disk, work, faults>>
  BY DEF Cancel, At, dirVars
<1>2. cmd[c].child \in Servers /\ faults' \in 0..MaxFaults
  BY <1>1, CommandFields DEF Inv, TypeInv, Owners, Launching
<1>3. \E s \in Servers : s = cmd[c].child /\ server' = Killed(s) /\ Lossy(s)
  BY <1>1, <1>2
<1>. QED
  BY <1>1, <1>2, <1>3, AbandonStep

LEMMA CommandDiesStep ==
  ASSUME Inv, NEW c \in Commands, CommandDies(c)
  PROVE  Inv'
<1>1. /\ Fault /\ Goto(c, "failed") /\ UNCHANGED <<path, dir, dirs, disk, work>>
      /\ IF cmd[c].child # None /\ server[cmd[c].child].owner = c
         THEN server' = Killed(cmd[c].child) /\ Lossy(cmd[c].child)
         ELSE UNCHANGED <<server, unsaved>>
  BY DEF CommandDies, dirVars
<1>2. cmd[c].child \in Servers \cup {None} /\ faults' \in 0..MaxFaults
  BY <1>1, CommandFields, FaultCount DEF Inv, TypeInv
<1>3. \/ \E s \in Servers : s = cmd[c].child /\ server' = Killed(s) /\ Lossy(s)
      \/ /\ UNCHANGED <<server, unsaved>>
         /\ \A s \in Servers : s = cmd[c].child => server[s].owner # c
  BY <1>1, <1>2, LifecycleAssumption
<1>. QED
  BY <1>1, <1>2, <1>3, AbandonStep

\* The directory goes: nothing is promised to this session any more.
LEMMA RemoveStep ==
  ASSUME Inv, NEW c \in Commands, Remove(c)
  PROVE  Inv'
<1>1. /\ cmd[c].pc = "remove" /\ dir' = 0 /\ path' = [p \in Sockets |-> None] /\ disk' = 0
      /\ Goto(c, "ok") /\ UNCHANGED <<server, dirs, work, unsaved, faults>>
  BY DEF Remove, At
<1>2. /\ TypeInv /\ "ok" \in Pcs /\ "ok" \notin Launching /\ "remove" \notin Launching
      /\ "ok" \notin {"ping", "long ping"}
  BY DEF Inv, Pcs, Launching
<1>3. /\ cmd' \in [Commands -> CommandType] /\ \A d \in Commands : d # c => cmd'[d] = cmd[d]
      /\ cmd'[c].pc = "ok" /\ cmd'[c].verb = cmd[c].verb /\ cmd'[c].pid = cmd[c].pid
      /\ cmd'[c].child = cmd[c].child /\ cmd'[c].target = cmd[c].target
  BY <1>1, <1>2, OnlyPc
<1>4. TypeInv'
  <2>1. work \in 0..MaxWork /\ MaxWork \in Nat
    BY LifecycleAssumption DEF Inv, TypeInv
  <2>2. disk' \in 0..work'
    BY <1>1, <2>1
  <2>. QED
    BY <1>1, <1>2, <1>3, <2>2 DEF TypeInv
<1>5. Starts'
  BY <1>1 DEF Inv, Starts, Locks, PathsBound, Places, Claims, Works
<1>6. \A t \in Servers :
        server'[t].owner # None /\ server'[t].phase \in Alive =>
          \/ server'[t].owner = c /\ cmd'[c].pc \in Launching /\ cmd'[c].child = t
          \/ /\ server'[t].owner = server[t].owner /\ server[t].phase \in Alive
             /\ server[t].owner # c
  BY <1>1, <1>2, OwnersLaunch
<1>7. DirKept /\ dir' # 1 /\ server' = server
  BY <1>1 DEF DirKept
<1>8. cmd'[c].pc \notin Launching /\ cmd'[c].pc \notin {"ping", "long ping"}
  BY <1>2, <1>3
<1>9. Contacts' /\ StopsEnd' /\ Pings' /\ Owners'
  <2>1. cmd'[c].target = cmd[c].target
    BY <1>3
  <2>. QED
    BY <1>3, <1>4, <1>6, <1>7, <1>8, <2>1, CommandMoves
<1>. QED
  BY <1>4, <1>5, <1>9 DEF Inv

LEMMA CommandStepMoves ==
  ASSUME Inv, NEW c \in Commands, CommandStep(c)
  PROVE  Inv'
<1>1. CASE Attach(c) \/ Start(c) \/ Ping(c) \/ LongPing(c) \/ BusyPing(c) \/ WaitUp(c) \/ Delete(c)
  BY <1>1, ProbeSteps
<1>2. CASE TimedOut(c) \/ Unanswered(c) \/ Confirm(c) \/ Confirmed(c) \/ WaitDown(c) \/ WaitGone(c)
  BY <1>2, WaitSteps
<1>3. CASE BeginStop(c) \/ StopConnect(c) \/ StopRequest(c) \/ SessionStop(c) \/ Kill(c)
  BY <1>3, BeginStopStep, StopConnectStep, StopRequestStep, SessionStopStep, KillsPid
<1>4. CASE SpawnServer(c) \/ Accept(c) \/ SessionStart(c)
  BY <1>4, LaunchSteps
<1>5. CASE WaitReady(c) \/ TooLate(c)
  BY <1>5, ReadySteps
<1>6. CASE Cancel(c) \/ Remove(c)
  BY <1>6, CancelStep, RemoveStep
<1>. QED
  BY <1>1, <1>2, <1>3, <1>4, <1>5, <1>6 DEF CommandStep

-----------------------------------------------------------------------------
(* The theorem *)

LEMMA InitInv == Init => Inv
<1> SUFFICES ASSUME Init
             PROVE  Inv
  OBVIOUS
<1>1. PICK first \in Firsts :
        /\ server = [s \in Servers |->
                      IF s = 1 /\ first # None
                      THEN [Fresh EXCEPT !.phase = first, !.lock = 1]
                      ELSE Fresh]
        /\ path = [p \in Sockets |-> IF first = None THEN None ELSE 1]
  BY DEF Init
<1>2. first \in {"running", "hung", None} /\ MaxDirs \in Nat /\ 1 <= MaxDirs /\ MaxWork \in Nat
      /\ MaxFaults \in Nat /\ 1 \in Servers /\ None \notin Servers
  <2>1. Firsts \subseteq {"running", "hung", None} /\ MaxDirs \in Nat \ {0} /\ MaxServers \in Nat \ {0}
        /\ MaxWork \in Nat /\ MaxFaults \in Nat /\ None \notin Servers
    BY LifecycleAssumption
  <2>. QED
    BY <2>1 DEF Servers
<1>3. dir = 1 /\ dirs = 1 /\ disk = 0 /\ work = 0 /\ unsaved = FALSE /\ faults = 0
  BY DEF Init
<1>4. PICK plan \in Plans :
        cmd = [c \in Commands |-> [pc |-> "begin", verb |-> plan[c], pid |-> None,
                                   sure |-> FALSE, child |-> None, target |-> None]]
  BY DEF Init
<1>5. cmd \in [Commands -> CommandType]
  <2>1. plan \in [Commands -> Verbs]
    BY LifecycleAssumption DEF Verbs
  <2>2. \A c \in Commands : plan[c] \in Verbs
    BY <2>1
  <2>. QED
    BY <1>4, <2>2 DEF CommandType, Pcs, Peers
<1>6. \A c \in Commands : /\ cmd[c].pc = "begin" /\ cmd[c].pid = None
                          /\ cmd[c].target = None
  BY <1>4
<1>7. first \in {"running", "hung"} \/ first = None
  BY <1>2
<1>8. Fresh \in ServerType /\ Fresh.phase = "none" /\ Fresh.lock = 0 /\ Fresh.mem = 0 /\ Fresh.owner = None
  BY <1>2 DEF Fresh, ServerType, Phases
<1>9. /\ server \in [Servers -> ServerType] /\ (first # None => server[1].phase = first)
      /\ \A s \in Servers : /\ server[s].mem = 0 /\ server[s].owner = None
                            /\ \/ server[s].phase = "none" /\ server[s].lock = 0
                               \/ /\ s = 1 /\ first # None /\ server[s].phase = first
                                  /\ server[s].lock = 1
  <2>1. CASE first = None
    BY <1>1, <1>8, <2>1
  <2>2. CASE first # None
    <3> DEFINE r == [Fresh EXCEPT !.phase = first, !.lock = 1]
    <3>1. /\ r \in ServerType /\ r.phase = first /\ r.lock = 1 /\ r.mem = 0 /\ r.owner = None
      <4>1. first \in Phases /\ 1 \in 0..MaxDirs /\ 0 \in 0..MaxWork
        BY <1>2, <2>2 DEF Phases, Alive, Up
      <4>. QED
        BY <4>1 DEF Fresh, ServerType
    <3>2. /\ \A s \in Servers : server[s] = Fresh \/ (s = 1 /\ first # None /\ server[s] = r)
          /\ server[1] = r
      BY <1>1, <1>2, <2>2
    <3>3. DOMAIN server = Servers /\ server = [s \in Servers |-> server[s]]
      BY <1>1
    <3> HIDE DEF r
    <3>. QED
      BY <1>8, <3>1, <3>2, <3>3
  <2>. QED
    BY <1>7, <2>1, <2>2
<1>10. TypeInv
  <2>1. path \in [Sockets -> Servers \cup {None}]
    BY <1>1, <1>2
  <2>2. /\ dirs \in 1..MaxDirs /\ dir \in {0, dirs} /\ disk \in 0..work /\ work \in 0..MaxWork
        /\ unsaved \in BOOLEAN /\ faults \in 0..MaxFaults
    <3>1. 1 \in 1..MaxDirs /\ 0 \in 0..0 /\ 0 \in 0..MaxWork /\ 0 \in 0..MaxFaults
      BY <1>2
    <3>. QED
      BY <1>3, <3>1
  <2>3. \A s \in Servers : server[s].mem <= work
    BY <1>3, <1>9
  <2>. QED
    BY <1>5, <1>9, <2>1, <2>2, <2>3 DEF TypeInv
<1>11. /\ \A x \in {"running", "hung"} :
            /\ x \in Up /\ x \in Serving /\ x \in Bound /\ x \in Reached
            /\ x \notin Locked /\ x \notin Claiming
       /\ \A S \in {Alive, Locked, Bound, Up, Claiming, Reached} : "none" \notin S
  BY DEF Alive, Locked, Bound, Up, Claiming, Reached, Serving
<1>12. Locks
  BY <1>3, <1>7, <1>9, <1>11 DEF Locks
<1>13. PathsBound
  <2>1. CASE first = None
    BY <1>1, <2>1 DEF PathsBound
  <2>2. CASE first # None
    <3>1. server[1].phase = first /\ first \in {"running", "hung"}
      BY <1>7, <1>9, <2>2
    <3>. QED
      BY <1>1, <1>11, <2>2, <3>1 DEF PathsBound
  <2>. QED
    BY <1>7, <2>1, <2>2
<1>14. Places /\ Claims
  BY <1>1, <1>7, <1>9, <1>11 DEF Places, Claims, Sockets
<1>15. Works
  BY <1>3, <1>9 DEF Works
<1>16. Contacts /\ StopsEnd /\ Pings /\ Owners
  BY <1>6, <1>9 DEF Contacts, StopsEnd, Pings, Owners, AfterStop, Launching
<1>. QED
  BY <1>10, <1>12, <1>13, <1>14, <1>15, <1>16 DEF Inv, Starts

LEMMA InvStep == Inv /\ [Next]_vars => Inv'
<1> SUFFICES ASSUME Inv, [Next]_vars
             PROVE  Inv'
  OBVIOUS
<1>1. CASE \E s \in Servers : ServerStep(s) \/ Work(s) \/ Save(s) \/ Crash(s) \/ Hang(s) \/ RestoreFails(s)
  BY <1>1, ServerMoves
<1>2. CASE \E c \in Commands : CommandStep(c) \/ CommandDies(c)
  BY <1>2, CommandStepMoves, CommandDiesStep
<1>3. CASE UNCHANGED vars
  <2>1. UNCHANGED <<server, path, dir, dirs, disk, work, unsaved, cmd, faults>>
    BY <1>3 DEF vars
  <2>2. TypeInv'
    BY <2>1 DEF Inv, TypeInv
  <2>3. Starts'
    BY <2>1, SameStarts DEF Inv
  <2>4. Onward /\ DirKept
    BY <2>1 DEF Onward, DirKept
  <2>. QED
    BY <2>1, <2>2, <2>3, <2>4, ServerKeepsCommands DEF Inv
<1>. QED
  BY <1>1, <1>2, <1>3 DEF Next

LEMMA InvSafe == Inv => ServerSafe
<1> SUFFICES ASSUME Inv
             PROVE  ServerSafe
  OBVIOUS
<1>1. OneServer
  <2>1. "client" \in Sockets
    BY DEF Sockets
  <2>. QED
    BY <2>1, UpReached DEF Inv, Starts, OneServer
<1>2. WorkContinues
  BY DEF Inv, Starts, Works, WorkContinues
<1>3. StopIsDown
  BY DEF Inv, StopsEnd, StopIsDown, AfterStop, At, Up
<1>4. \A s \in Servers :
        server[s].owner # None /\ server[s].phase \in Alive => ~Over(server[s].owner)
  BY DEF Inv, Owners, Launching, Over
<1>5. \A c \in Commands : {cmd[c].pid, cmd[c].child, cmd[c].target} \subseteq Servers \cup {None}
  BY CommandFields DEF Inv, TypeInv
<1>6. dir \in 0..dirs /\ dirs \in 1..MaxDirs
  <2>1. dirs \in 1..MaxDirs /\ dir \in {0, dirs} /\ MaxDirs \in Nat
    BY LifecycleAssumption DEF Inv, TypeInv
  <2>. QED
    BY <2>1
<1>7. TypeOK
  BY <1>4, <1>5, <1>6 DEF Inv, TypeInv, TypeOK, ServerType, Phases
<1>. QED
  BY <1>1, <1>2, <1>3, <1>7 DEF ServerSafe

\* However many servers and commands race for a session: while it is not deleted one server
\* at a time has it, the next one goes on with everything the last one did unless that was
\* killed or crashed, and a stop that reports success has ended the server it spoke to
\* (ipc/server.rs run and acquire_server_startup_lock, main.rs, session.rs, launch.rs).
THEOREM OneServerPerSession == Spec => []ServerSafe
<1>1. Init => Inv
  BY InitInv
<1>2. Inv /\ [Next]_vars => Inv'
  BY InvStep
<1>3. Inv => ServerSafe
  BY InvSafe
<1>. QED
  BY <1>1, <1>2, <1>3, PTL DEF Spec

-----------------------------------------------------------------------------
(* The inductive invariant of RemoteFollower *)

Message == [watcher : Nat, ok : BOOLEAN, owner : Nat, sequence : Nat]

\* A message carries the number of the watcher that sent it and what the owner
\* was then.
Posted(m, last, by) ==
    m.watcher \in 1..last /\ m.owner \in 1..by /\ m.sequence \in 0..MaxEvents

InboxOK ==
    /\ inbox \in Seq(Message)
    /\ \A i \in DOMAIN inbox : Posted(inbox[i], newest, owner)

FollowerTypes ==
    /\ FollowerTypeOK
    /\ budget \in [failures : Int, refreshes : Int]
    /\ ~ up => owner <= MaxRestarts
    /\ stream = owner => lastRead[Reader] <= lastEvent
    /\ watcher = 0 => phase = "none"

\* The failure of the current watcher is its last word.
LastWord ==
    \A i \in DOMAIN inbox :
        IsCurrent(inbox[i]) /\ ~ inbox[i].ok => phase = "none"

\* The current watcher has spoken of one owner only, once it knows one.
Unheard == phase \in {"waits", "loads"}
OneOwner ==
    /\ \A i \in DOMAIN inbox :
         IsCurrent(inbox[i]) /\ inbox[i].ok => ~ Unheard /\ inbox[i].owner = known.owner
    /\ watcher # 0 /\ shown.watcher = watcher => ~ Unheard /\ shown.owner = known.owner

FollowerInv == FollowerTypes /\ InboxOK /\ ReaderJoined /\ EventsAsk /\ LastWord /\ OneOwner

LEMMA InboxAppend ==
    ASSUME NEW s \in Seq(Message), NEW m \in Message
    PROVE  /\ Append(s, m) \in Seq(Message)
           /\ \A i \in DOMAIN Append(s, m) :
                (i \in DOMAIN s /\ Append(s, m)[i] = s[i]) \/ Append(s, m)[i] = m
  OBVIOUS

LEMMA PostedStays ==
    ASSUME NEW m, NEW n \in Nat, NEW k \in Nat, NEW o \in Nat, NEW p \in Nat,
           Posted(m, n, o), n <= k, o <= p
    PROVE  Posted(m, k, p)
  BY DEF Posted

LEMMA InboxTail ==
    ASSUME NEW s \in Seq(Message), s # <<>>
    PROVE  /\ Tail(s) \in Seq(Message)
           /\ \A i \in DOMAIN Tail(s) : i + 1 \in DOMAIN s /\ Tail(s)[i] = s[i + 1]
           /\ Head(s) = s[1] /\ 1 \in DOMAIN s
  OBVIOUS

LEMMA FollowerStarts ==
    ASSUME FollowerAssumption, FollowerInit
    PROVE  FollowerInv
<1>1. FollowerTypeOK
  <2>1. /\ MaxEvents \in Nat /\ MaxRestarts \in Nat
        /\ MaxFailures \in Int /\ MaxRefreshes \in Int
    BY DEF FollowerAssumption
  <2>2. lastRead \in [{Reader} -> 0..MaxEvents]
    BY <2>1 DEF FollowerInit
  <2>3. /\ known \in [owner : 0..owner, sequence : 0..MaxEvents]
        /\ pending \in [sequence : 0..MaxEvents, resync : BOOLEAN, failed : BOOLEAN]
        /\ shown \in [owner : 0..owner, sequence : 0..MaxEvents, watcher : 0..newest]
    BY <2>1 DEF FollowerInit, Nobody, NoEvents, Nothing
  <2>4. owner \in 1..MaxRestarts + 1 /\ up \in BOOLEAN
    BY <2>1 DEF FollowerInit
  <2>5. lastEvent \in 0..MaxEvents /\ topology \subseteq 1..lastEvent
    BY <2>1 DEF FollowerInit
  <2>6. newest \in Nat /\ watcher \in {0, newest} /\ retries \in BOOLEAN
    BY DEF FollowerInit
  <2>7. phase \in WatcherPhases /\ stream \in 0..owner
    BY DEF FollowerInit, WatcherPhases, Nobody
  <2> QED
    BY <2>2, <2>3, <2>4, <2>5, <2>6, <2>7 DEF FollowerTypeOK
<1>2. FollowerTypes /\ InboxOK
  BY <1>1 DEF FollowerAssumption, FollowerInit, FollowerTypes, InboxOK, Nobody, Reader
<1> QED
  BY <1>1, <1>2 DEF FollowerInit, FollowerInv, ReaderJoined, EventsAsk, LastWord, OneOwner, Nobody,
              Connected, Unheard, Nothing, IsCurrent

LEMMA FollowerNumbers ==
    ASSUME FollowerAssumption, FollowerInv
    PROVE  /\ MaxEvents \in Nat /\ MaxRestarts \in Nat
           /\ owner \in 1..MaxRestarts + 1 /\ lastEvent \in 0..MaxEvents /\ topology \subseteq 1..lastEvent
           /\ newest \in Nat /\ watcher \in {0, newest} /\ stream \in 0..owner
           /\ known.sequence \in 0..MaxEvents /\ known.owner \in 0..owner
           /\ lastRead[Reader] \in 0..MaxEvents /\ pending.sequence \in 0..MaxEvents
           /\ shown.owner \in 0..owner /\ shown.watcher \in 0..newest
  BY DEF FollowerAssumption, FollowerInv, FollowerTypes, FollowerTypeOK

\* What the owner does takes nothing away: a new owner is none that anybody is
\* subscribed to.
LEMMA OwnerSteps ==
    ASSUME FollowerAssumption, FollowerInv, PublishEvent \/ StopOwner \/ StartOwner
    PROVE  FollowerInv'
<1>1. /\ UNCHANGED <<appVars, threadVars, inbox, budget>>
      /\ owner' \in Nat /\ owner <= owner' /\ (stream = owner' => owner = owner')
      /\ owner = owner' => lastEvent <= lastEvent'
      /\ lastEvent' \in 0..MaxEvents /\ topology' \subseteq 1..lastEvent' /\ up' \in BOOLEAN
      /\ owner' <= MaxRestarts + 1 /\ (~ up' => owner' <= MaxRestarts)
      /\ \A e \in topology' : e \in topology \/ e > lastEvent \/ owner # owner'
  <2>1. /\ MaxEvents \in Nat /\ MaxRestarts \in Nat
        /\ owner \in 1..MaxRestarts + 1 /\ lastEvent \in 0..MaxEvents /\ topology \subseteq 1..lastEvent
        /\ stream \in 0..owner /\ (~ up => owner <= MaxRestarts) /\ up \in BOOLEAN
    BY DEF FollowerAssumption, FollowerInv, FollowerTypes, FollowerTypeOK
  <2>2. CASE PublishEvent
    <3>1. /\ lastEvent' = lastEvent + 1 /\ topology' \subseteq topology \cup {lastEvent + 1}
          /\ UNCHANGED <<owner, up>>
      BY <2>2 DEF PublishEvent
    <3>2. lastEvent' \in 0..MaxEvents
      BY <2>1, <2>2 DEF PublishEvent
    <3>3. topology \cup {lastEvent + 1} \subseteq 1..lastEvent'
      BY <2>1, <3>1
    <3>4. topology' \subseteq 1..lastEvent'
      BY <3>1, <3>3
    <3>5. \A e \in topology' : e \in topology \/ e > lastEvent
      BY <2>1, <3>1
    <3>6. UNCHANGED <<appVars, threadVars, inbox, budget>>
      BY <2>2 DEF PublishEvent
    <3> QED BY <2>1, <3>1, <3>2, <3>4, <3>5, <3>6
  <2>3. CASE StopOwner
    <3>1. /\ UNCHANGED <<owner, lastEvent, topology>> /\ up' \in BOOLEAN /\ owner <= MaxRestarts
      BY <2>3 DEF StopOwner
    <3>2. UNCHANGED <<appVars, threadVars, inbox, budget>>
      BY <2>3 DEF StopOwner
    <3> QED BY <2>1, <3>1, <3>2
  <2>4. CASE StartOwner
    BY <2>1, <2>4 DEF StartOwner
  <2> QED BY <2>2, <2>3, <2>4
<1>2. FollowerTypes'
  <2>1. /\ known' \in [owner : 0..owner', sequence : 0..MaxEvents]
        /\ shown' \in [owner : 0..owner', sequence : 0..MaxEvents, watcher : 0..newest']
        /\ stream' \in 0..owner' /\ owner' \in 1..MaxRestarts + 1
    BY <1>1, FollowerNumbers DEF FollowerInv, FollowerTypes, FollowerTypeOK, appVars, threadVars
  <2>2. /\ newest' \in Nat /\ watcher' \in {0, newest'} /\ retries' \in BOOLEAN
        /\ phase' \in WatcherPhases /\ lastRead' \in [{Reader} -> 0..MaxEvents]
        /\ pending' \in [sequence : 0..MaxEvents, resync : BOOLEAN, failed : BOOLEAN]
    BY <1>1 DEF FollowerInv, FollowerTypes, FollowerTypeOK, appVars, threadVars
  <2>3. FollowerTypeOK'
    BY <1>1, <2>1, <2>2 DEF FollowerTypeOK
  <2>4. stream' = owner' => lastRead'[Reader] <= lastEvent'
    BY <1>1, FollowerNumbers DEF FollowerInv, FollowerTypes, threadVars
  <2>5. budget' = budget /\ watcher' = watcher /\ phase' = phase
    BY <1>1 DEF appVars, threadVars
  <2> QED BY <1>1, <2>3, <2>4, <2>5 DEF FollowerInv, FollowerTypes
<1>3. InboxOK'
  <2>1. inbox' = inbox /\ newest' = newest
    BY <1>1 DEF appVars
  <2> QED BY <1>1, <2>1, FollowerNumbers, PostedStays DEF FollowerInv, InboxOK
<1>4. ReaderJoined' /\ LastWord' /\ OneOwner'
  BY <1>1 DEF FollowerInv, ReaderJoined, LastWord, OneOwner, Unheard, IsCurrent, appVars, threadVars
<1>5. EventsAsk'
  <2>1. UNCHANGED <<phase, stream, lastRead, known, pending>>
    BY <1>1 DEF threadVars
  <2> QED BY <1>1, <2>1, FollowerNumbers DEF FollowerInv, FollowerTypes, EventsAsk
<1> QED BY <1>2, <1>3, <1>4, <1>5 DEF FollowerInv

\* A new watcher has sent nothing and its number is on no message.
LEMMA NewWatcher ==
    ASSUME FollowerAssumption, FollowerInv, NEW retry \in BOOLEAN, StartWatcher(retry),
           UNCHANGED <<ownerVars, shown>>,
           inbox' \in Seq(Message), \A i \in DOMAIN inbox' : \E j \in DOMAIN inbox : inbox'[i] = inbox[j],
           budget' \in [failures : Int, refreshes : Int]
    PROVE  FollowerInv'
<1>0. /\ newest' = newest + 1 /\ watcher' = newest' /\ watcher' # 0 /\ owner' = owner
      /\ newest \in Nat /\ stream' = 0
  BY FollowerNumbers DEF StartWatcher, ownerVars, Nobody
<1>1. InboxOK' /\ \A i \in DOMAIN inbox' : inbox'[i].watcher # watcher'
  <2>1. \A i \in DOMAIN inbox' : Posted(inbox'[i], newest, owner)
    BY DEF FollowerInv, InboxOK
  <2>2. \A i \in DOMAIN inbox' : Posted(inbox'[i], newest', owner')
    BY <1>0, <2>1, FollowerNumbers, PostedStays
  <2>3. \A i \in DOMAIN inbox' : inbox'[i].watcher # watcher'
    BY <1>0, <2>1 DEF Posted
  <2> QED BY <2>2, <2>3 DEF InboxOK
<1>2. FollowerTypes'
  <2>1. /\ newest' \in Nat /\ watcher' = newest' /\ newest <= newest' /\ watcher' # 0
        /\ retries' \in BOOLEAN /\ phase' \in WatcherPhases /\ stream' = 0
    BY <1>0 DEF WatcherPhases, StartWatcher
  <2>2. pending' \in [sequence : 0..MaxEvents, resync : BOOLEAN, failed : BOOLEAN]
    BY FollowerNumbers DEF StartWatcher, NoEvents
  <2>3. /\ shown' \in [owner : 0..owner', sequence : 0..MaxEvents, watcher : 0..newest']
        /\ known' \in [owner : 0..owner', sequence : 0..MaxEvents]
        /\ lastRead' \in [{Reader} -> 0..MaxEvents]
    <3>1. /\ shown \in [owner : 0..owner, sequence : 0..MaxEvents, watcher : 0..newest]
          /\ known \in [owner : 0..owner, sequence : 0..MaxEvents]
          /\ lastRead \in [{Reader} -> 0..MaxEvents]
      BY DEF FollowerInv, FollowerTypes, FollowerTypeOK
    <3>2. known' = known /\ lastRead' = lastRead /\ owner' = owner
      BY <1>0 DEF StartWatcher
    <3>3. shown' \in [owner : 0..owner', sequence : 0..MaxEvents, watcher : 0..newest']
      <4>1. shown' = shown /\ 0..newest \subseteq 0..newest'
        BY <1>0
      <4> QED BY <3>1, <3>2, <4>1
    <3> QED BY <3>1, <3>2, <3>3
  <2>4. FollowerTypeOK'
    BY <2>1, <2>2, <2>3 DEF FollowerInv, FollowerTypes, FollowerTypeOK, ownerVars
  <2> QED
    BY <2>1, <2>4, FollowerNumbers DEF FollowerInv, FollowerTypes, ownerVars
<1>3. watcher' # watcher /\ shown'.watcher # watcher'
  <2>1. watcher \in {0, newest} /\ shown.watcher \in 0..newest /\ shown' = shown
    BY FollowerNumbers
  <2> QED BY <1>0, <2>1
<1>4. ReaderJoined' /\ EventsAsk' /\ LastWord'
  <2>1. owner' # 0
    BY <1>0, FollowerNumbers
  <2>2. ReaderJoined' /\ EventsAsk'
    BY <1>0, <2>1 DEF ReaderJoined, EventsAsk, Nobody
  <2>3. LastWord'
    BY <1>1 DEF LastWord, IsCurrent
  <2> QED BY <2>2, <2>3
<1>5. OneOwner'
  BY <1>1, <1>3 DEF OneOwner, IsCurrent
<1> QED BY <1>1, <1>2, <1>4, <1>5 DEF FollowerInv

LEMMA RefreshStep ==
    ASSUME FollowerAssumption, FollowerInv, Refresh
    PROVE  FollowerInv'
<1>1. budget' \in [failures : Int, refreshes : Int]
  BY DEF FollowerInv, FollowerTypes, Refresh
<1>2. /\ StartWatcher(FALSE) /\ UNCHANGED <<ownerVars, shown, inbox>>
  BY DEF Refresh
<1> QED BY <1>1, <1>2, NewWatcher DEF FollowerInv, InboxOK

LEMMA ApplyStep ==
    ASSUME FollowerAssumption, FollowerInv, ApplyMessage
    PROVE  FollowerInv'
<1> DEFINE m == inbox[1]
<1>1. /\ inbox' \in Seq(Message)
      /\ \A i \in DOMAIN inbox' : \E j \in DOMAIN inbox : inbox'[i] = inbox[j]
      /\ m = Head(inbox) /\ 1 \in DOMAIN inbox
      /\ UNCHANGED <<ownerVars, budget>>
  BY InboxTail DEF ApplyMessage, FollowerInv, InboxOK
<1>2. m \in Message /\ Posted(m, newest, owner)
  BY <1>1 DEF FollowerInv, InboxOK
<1>3. /\ IsCurrent(m) => Discovered(m) \/ WatcherFailed(m)
      /\ ~ IsCurrent(m) => UNCHANGED <<appVars, threadVars>>
  BY <1>1 DEF ApplyMessage
<1> HIDE DEF m
<1>4. InboxOK' /\ LastWord' /\ OneOwner'
      /\ ReaderJoined' /\ EventsAsk' /\ FollowerTypes'
  <2>1. CASE ~ IsCurrent(m)
    <3>1. UNCHANGED <<appVars, threadVars>>
      BY <1>3, <2>1
    <3>2. InboxOK' /\ LastWord' /\ OneOwner'
      BY <1>1, <3>1 DEF FollowerInv, InboxOK, LastWord, OneOwner, Unheard, IsCurrent, ownerVars,
                        appVars, threadVars
    <3>3. ReaderJoined' /\ EventsAsk' /\ FollowerTypes'
      BY <1>1, <3>1 DEF FollowerInv, FollowerTypes, FollowerTypeOK, ReaderJoined, EventsAsk,
                        ownerVars, appVars, threadVars
    <3> QED BY <3>2, <3>3
  <2>2. CASE IsCurrent(m) /\ Discovered(m)
    <3>1. /\ UNCHANGED <<threadVars, watcher, newest>> /\ retries' = TRUE
          /\ shown' = [owner |-> m.owner, sequence |-> m.sequence, watcher |-> m.watcher]
      BY <2>2 DEF Discovered
    <3>2. ~ Unheard /\ m.owner = known.owner
      BY <1>1, <2>2 DEF FollowerInv, OneOwner, Discovered, m
    <3>3. InboxOK' /\ LastWord' /\ OneOwner'
      BY <1>1, <3>1, <3>2 DEF FollowerInv, InboxOK, LastWord, OneOwner, Unheard, IsCurrent, ownerVars,
                        threadVars
    <3>4. shown' \in [owner : 0..owner, sequence : 0..MaxEvents, watcher : 0..newest]
      BY <1>2, <3>1 DEF Posted, Message
    <3>5. ReaderJoined' /\ EventsAsk' /\ FollowerTypes'
      BY <1>1, <3>1, <3>4 DEF FollowerInv, FollowerTypes, FollowerTypeOK, ReaderJoined, EventsAsk,
                        ownerVars, threadVars
    <3> QED BY <3>3, <3>5
  <2>3. CASE IsCurrent(m) /\ WatcherFailed(m) /\ retries
    BY <1>1, <2>3, NewWatcher DEF FollowerInv, FollowerTypes, WatcherFailed
  <2>4. CASE IsCurrent(m) /\ WatcherFailed(m) /\ ~ retries
    <3>1. /\ watcher' = 0 /\ phase' = "none" /\ stream' = Nobody
          /\ UNCHANGED <<newest, retries, known, lastRead, pending, shown>>
      BY <2>4 DEF WatcherFailed
    <3>2. InboxOK' /\ \A i \in DOMAIN inbox' : inbox'[i].watcher # 0
      <4>1. \A i \in DOMAIN inbox' : Posted(inbox'[i], newest, owner)
        BY <1>1 DEF FollowerInv, InboxOK
      <4>2. \A i \in DOMAIN inbox' : inbox'[i].watcher # 0
        BY <4>1, FollowerNumbers DEF Posted
      <4> QED BY <1>1, <3>1, <4>1, <4>2 DEF InboxOK, ownerVars
    <3>3. FollowerTypes'
      BY <1>1, <3>1 DEF FollowerInv, FollowerTypes, FollowerTypeOK, ownerVars, Nobody, WatcherPhases
    <3>4. ReaderJoined' /\ EventsAsk' /\ LastWord' /\ OneOwner'
      BY <3>1, <3>2 DEF ReaderJoined, EventsAsk, LastWord, OneOwner, IsCurrent, Nobody, Connected
    <3> QED BY <3>2, <3>3, <3>4
  <2> QED BY <1>3, <2>1, <2>2, <2>3, <2>4 DEF FollowerInv, FollowerTypes, FollowerTypeOK
<1> QED BY <1>4 DEF FollowerInv

\* A message of the current watcher's thread.
LEMMA SendStep ==
    ASSUME FollowerAssumption, FollowerInv, NEW ok \in BOOLEAN, Send(ok), phase # "none",
           UNCHANGED <<appVars, ownerVars>>
    PROVE  /\ InboxOK'
           /\ \A i \in DOMAIN inbox' :
                \/ i \in DOMAIN inbox /\ inbox'[i] = inbox[i]
                \/ inbox'[i].ok = ok /\ inbox'[i].owner = owner
<1> DEFINE m == [watcher |-> watcher, ok |-> ok, owner |-> owner, sequence |-> lastEvent]
<1>1. watcher \in 1..newest /\ newest \in Nat /\ owner \in Nat
  BY FollowerNumbers DEF FollowerInv, FollowerTypes
<1>2. m \in Message /\ Posted(m, newest, owner) /\ m.ok = ok /\ m.owner = owner
  BY <1>1, FollowerNumbers DEF Message, Posted
<1>3. inbox' = Append(inbox, m)
  BY DEF Send
<1> HIDE DEF m
<1>4. /\ inbox' \in Seq(Message)
      /\ \A i \in DOMAIN inbox' : (i \in DOMAIN inbox /\ inbox'[i] = inbox[i]) \/ inbox'[i] = m
  BY <1>2, <1>3, InboxAppend DEF FollowerInv, InboxOK
<1>5. newest' = newest /\ owner' = owner
  BY DEF appVars, ownerVars
<1> QED
  BY <1>2, <1>4, <1>5 DEF FollowerInv, InboxOK

LEMMA CloseStep ==
    ASSUME FollowerAssumption, FollowerInv, Close, phase # "none",
           budget' \in [failures : Int, refreshes : Int]
    PROVE  FollowerInv'
<1>1. /\ UNCHANGED <<appVars, ownerVars, known, lastRead, pending>>
      /\ phase' = "none" /\ stream' = 0 /\ Send(FALSE)
  BY DEF Close, Nobody
<1>2. InboxOK' /\ \A i \in DOMAIN inbox' :
        (i \in DOMAIN inbox /\ inbox'[i] = inbox[i]) \/ inbox'[i].ok = FALSE
  BY <1>1, SendStep
<1>3. FollowerTypes'
  <2>1. FollowerTypeOK'
    BY <1>1, FollowerNumbers DEF FollowerInv, FollowerTypes, FollowerTypeOK, appVars, ownerVars, WatcherPhases
  <2> QED BY <1>1, <2>1, FollowerNumbers DEF FollowerInv, FollowerTypes, appVars, ownerVars
<1>4. ReaderJoined' /\ EventsAsk' /\ LastWord'
  BY <1>1 DEF ReaderJoined, EventsAsk, LastWord, Nobody, Connected
<1>5. OneOwner'
  BY <1>1, <1>2 DEF FollowerInv, OneOwner, Unheard, IsCurrent, appVars
<1> QED BY <1>2, <1>3, <1>4, <1>5 DEF FollowerInv

\* A step of the thread or of its reader that sends nothing.
LEMMA QuietStep ==
    ASSUME FollowerAssumption, FollowerInv, UNCHANGED <<appVars, ownerVars, inbox, known>>,
           phase # "none", phase' \in WatcherPhases \ {"none"}, Unheard' => Unheard,
           stream' \in 0..owner, lastRead' \in [{Reader} -> 0..MaxEvents],
           stream' = owner => lastRead'[Reader] <= lastEvent,
           pending' \in [sequence : 0..MaxEvents, resync : BOOLEAN, failed : BOOLEAN],
           budget' \in [failures : Int, refreshes : Int],
           ReaderJoined', EventsAsk'
    PROVE  FollowerInv'
<1>1. FollowerTypeOK'
  BY FollowerNumbers DEF FollowerInv, FollowerTypes, FollowerTypeOK, appVars, ownerVars
<1>2. FollowerTypes'
  BY <1>1 DEF FollowerInv, FollowerTypes, appVars, ownerVars
<1>3. InboxOK' /\ LastWord'
  BY DEF FollowerInv, InboxOK, LastWord, IsCurrent, appVars, ownerVars
<1>4. OneOwner'
  BY DEF FollowerInv, OneOwner, Unheard, IsCurrent, appVars
<1> QED BY <1>2, <1>3, <1>4 DEF FollowerInv

\* A snapshot is sent and known: from now on the watcher has an owner.
LEMMA LoadedStep ==
    ASSUME FollowerAssumption, FollowerInv, Send(TRUE), phase # "none",
           UNCHANGED <<appVars, ownerVars, lastRead, pending, budget>>,
           known' \in [owner : 0..owner, sequence : 0..MaxEvents],
           known'.owner = owner, known'.sequence = lastEvent, Unheard \/ known.owner = owner,
           phase' \in WatcherPhases \ {"none", "waits", "loads"},
           stream' \in {stream, 0}, stream' # 0 => phase' \in Connected
    PROVE  FollowerInv'
<1>1. InboxOK' /\ \A i \in DOMAIN inbox' :
        \/ i \in DOMAIN inbox /\ inbox'[i] = inbox[i]
        \/ inbox'[i].ok = TRUE /\ inbox'[i].owner = owner
  BY SendStep
<1>2. UNCHANGED <<owner, up, lastEvent, topology, watcher, newest, retries, shown>>
  BY DEF appVars, ownerVars
<1>3. FollowerTypeOK'
  <2>1. stream' \in 0..owner
    BY FollowerNumbers
  <2> QED BY <1>2, <2>1 DEF FollowerInv, FollowerTypes, FollowerTypeOK
<1>4. FollowerTypes'
  BY <1>2, <1>3, FollowerNumbers DEF FollowerInv, FollowerTypes
<1>5. ReaderJoined'
  BY DEF ReaderJoined, Nobody
<1>6. EventsAsk'
  BY <1>2, FollowerNumbers DEF EventsAsk
<1>7. LastWord'
  BY <1>1, <1>2 DEF FollowerInv, LastWord, IsCurrent
<1>8. OneOwner'
  BY <1>1, <1>2 DEF FollowerInv, OneOwner, Unheard, IsCurrent
<1> QED BY <1>1, <1>4, <1>5, <1>6, <1>7, <1>8 DEF FollowerInv

LEMMA ThreadStep ==
    ASSUME FollowerAssumption, FollowerInv, Thread
    PROVE  FollowerInv'
<1> USE DEF Goes
<1>0. /\ budget \in [failures : Int, refreshes : Int] /\ phase \in WatcherPhases
      /\ lastRead \in [{Reader} -> 0..MaxEvents]
      /\ pending \in [sequence : 0..MaxEvents, resync : BOOLEAN, failed : BOOLEAN]
      /\ known \in [owner : 0..owner, sequence : 0..MaxEvents]
      /\ stream = owner => lastRead[Reader] <= lastEvent
  BY DEF FollowerInv, FollowerTypes, FollowerTypeOK
<1>b. Breaks => budget' \in [failures : Int, refreshes : Int]
  BY <1>0 DEF Breaks
<1>1. CASE Wait
  <2>1. /\ phase = "waits" /\ phase' = "loads"
        /\ UNCHANGED <<appVars, ownerVars, known, stream, lastRead, pending, inbox, budget>>
    BY <1>1 DEF Wait
  <2>2. stream = 0
    BY <2>1 DEF FollowerInv, ReaderJoined, Nobody, Connected
  <2>3. ReaderJoined' /\ EventsAsk'
    BY <2>1, <2>2 DEF ReaderJoined, EventsAsk, Connected, Nobody
  <2> QED
    BY <1>0, <2>1, <2>2, <2>3, FollowerNumbers, QuietStep DEF Unheard, WatcherPhases
<1>2. CASE Load
  <2>1. /\ Send(TRUE) /\ phase = "loads" /\ phase' = "subscribes"
        /\ known' = [owner |-> owner, sequence |-> lastEvent]
        /\ UNCHANGED <<appVars, ownerVars, stream, lastRead, pending, budget>>
    BY <1>2 DEF Load
  <2>2. stream = 0
    BY <2>1 DEF FollowerInv, ReaderJoined, Nobody, Connected
  <2>3. known' \in [owner : 0..owner, sequence : 0..MaxEvents]
    BY <2>1, FollowerNumbers
  <2> QED
    BY <2>1, <2>2, <2>3, LoadedStep DEF Unheard, WatcherPhases
<1>3. CASE SubscribeFrom
  <2>1. /\ phase = "subscribes" /\ phase' = "watches" /\ stream' = owner
        /\ lastRead' = [r \in {Reader} |-> known.sequence] /\ known.sequence <= lastEvent
        /\ pending' = NoEvents
        /\ UNCHANGED <<appVars, ownerVars, known, inbox, budget>>
    BY <1>3 DEF SubscribeFrom, AfterSnapshot
  <2>2. /\ lastRead' \in [{Reader} -> 0..MaxEvents] /\ lastRead'[Reader] = known.sequence
        /\ pending' \in [sequence : 0..MaxEvents, resync : BOOLEAN, failed : BOOLEAN]
        /\ stream' \in 0..owner
    BY <2>1, FollowerNumbers DEF NoEvents
  <2>3. ReaderJoined'
    BY <2>1 DEF ReaderJoined, Connected
  <2>4. EventsAsk'
    BY <2>1, <2>2, FollowerNumbers DEF EventsAsk, ownerVars
  <2> QED
    BY <1>0, <2>1, <2>2, <2>3, <2>4, QuietStep DEF Unheard, WatcherPhases
<1>4. CASE SubscribeLate
  <2>1. /\ phase = "subscribes" /\ phase' = "resyncs" /\ Breaks
        /\ UNCHANGED <<appVars, ownerVars, known, stream, lastRead, pending, inbox>>
    BY <1>4 DEF SubscribeLate
  <2>2. stream = 0
    BY <2>1 DEF FollowerInv, ReaderJoined, Nobody, Connected
  <2>3. ReaderJoined' /\ EventsAsk'
    BY <2>1, <2>2 DEF ReaderJoined, EventsAsk, Connected, Nobody
  <2> QED
    BY <1>0, <1>b, <2>1, <2>2, <2>3, FollowerNumbers, QuietStep DEF Unheard, WatcherPhases
<1>5. CASE SubscribeInvalid
  BY <1>0, <1>5, CloseStep DEF SubscribeInvalid
<1>6. CASE TakeSnapshot
  <2>1. phase \in {"resyncs", "refreshes", "resubscribes"} /\ budget' = budget
    BY <1>6 DEF TakeSnapshot
  <2>2. CASE ~ SameOwner
    BY <1>0, <1>6, <2>1, <2>2, CloseStep DEF TakeSnapshot
  <2>3. CASE SameOwner
    <3>1. /\ Send(TRUE) /\ UNCHANGED <<appVars, ownerVars, lastRead, pending>>
          /\ known' = [known EXCEPT !.sequence = lastEvent]
          /\ phase' = IF phase = "refreshes" THEN "watches" ELSE "subscribes"
          /\ stream' = IF phase = "refreshes" THEN stream ELSE 0
      BY <1>6, <2>3 DEF TakeSnapshot, Nobody
    <3>2. /\ known' \in [owner : 0..owner, sequence : 0..MaxEvents]
          /\ known'.owner = known.owner /\ known'.sequence = lastEvent
      BY <1>0, <3>1, FollowerNumbers
    <3> QED
      BY <2>1, <2>3, <3>1, <3>2, LoadedStep DEF SameOwner, WatcherPhases, Connected
  <2> QED BY <2>2, <2>3
<1>7. CASE ConnectFails
  BY <1>b, <1>7, CloseStep DEF ConnectFails
<1>8. CASE TakeError
  BY <1>0, <1>8, CloseStep DEF TakeError
<1>9. ASSUME NEW a \in {"refreshes", "resubscribes"}, TakeEvents(a)
      PROVE  FollowerInv'
  <2>1. /\ phase = "watches" /\ phase' = a
        /\ UNCHANGED <<appVars, ownerVars, known, stream, lastRead, pending, inbox, budget>>
    BY <1>9 DEF TakeEvents
  <2>2. ReaderJoined' /\ EventsAsk'
    BY <2>1 DEF FollowerInv, ReaderJoined, EventsAsk, Connected, ownerVars
  <2> QED
    BY <1>0, <2>1, <2>2, FollowerNumbers, QuietStep DEF Unheard, WatcherPhases
<1> QED
  BY <1>1, <1>2, <1>3, <1>4, <1>5, <1>6, <1>7, <1>8, <1>9 DEF Thread

LEMMA RecordIs ==
    ASSUME FollowerAssumption, FollowerInv, NEW e \in 0..MaxEvents, NEW b \in BOOLEAN, Record(e, b)
    PROVE  /\ pending' \in [sequence : 0..MaxEvents, resync : BOOLEAN, failed : BOOLEAN]
           /\ pending'.sequence >= pending.sequence /\ pending'.sequence >= e
<1> DEFINE n == IF e > pending.sequence THEN e ELSE pending.sequence
<1>1. n \in 0..MaxEvents /\ n >= pending.sequence /\ n >= e
  BY FollowerNumbers
<1>2. pending \in [sequence : 0..MaxEvents, resync : BOOLEAN, failed : BOOLEAN]
  BY DEF FollowerInv, FollowerTypes, FollowerTypeOK
<1>3. pending' = [pending EXCEPT !.sequence = n, !.resync = pending.resync \/ b]
  BY DEF Record
<1> HIDE DEF n
<1> QED BY <1>1, <1>2, <1>3

\* What the reader takes it records, if it changes the topology.
LEMMA ReaderSteps ==
    ASSUME FollowerAssumption, FollowerInv, ReaderStep
    PROVE  FollowerInv'
<1>0. /\ budget \in [failures : Int, refreshes : Int] /\ phase \in WatcherPhases
      /\ lastRead \in [{Reader} -> 0..MaxEvents]
      /\ pending \in [sequence : 0..MaxEvents, resync : BOOLEAN, failed : BOOLEAN]
      /\ stream = owner => lastRead[Reader] <= lastEvent
      /\ owner \in 1..MaxRestarts + 1
  BY DEF FollowerInv, FollowerTypes, FollowerTypeOK
<1>1. Reads /\ UNCHANGED <<appVars, ownerVars, phase, known, inbox>>
  BY DEF ReaderStep, ReadEvent, ReadResync, ReadFails, OwnerStream!Learn, ownerVars
<1>2. phase # "none" /\ phase' \in WatcherPhases \ {"none"} /\ (Unheard' => Unheard)
  BY <1>1, <1>0 DEF Reads, Connected, Unheard
<1>b. Breaks => budget' \in [failures : Int, refreshes : Int]
  BY <1>0 DEF Breaks
<1>4. CASE ReadEvent
  <2>1. PICK e \in lastRead[Reader]..lastEvent :
          /\ \A f \in OwnerStream!Wanted(Reader) : f <= lastRead[Reader] \/ f >= e
          /\ lastRead' = [lastRead EXCEPT ![Reader] = e]
    BY <1>4 DEF ReadEvent, OwnerStream!Learn
  <2>2. \A f \in topology : f <= lastRead[Reader] \/ f >= e
    BY <2>1 DEF OwnerStream!Wanted
  <2>3. /\ lastRead' \in [{Reader} -> 0..MaxEvents] /\ lastRead'[Reader] = e /\ e \in 0..MaxEvents
        /\ e <= lastEvent
    BY <1>0, <2>1, FollowerNumbers
  <2>4. /\ UNCHANGED <<stream, budget>> /\ stream = owner
        /\ IF e \in topology THEN Record(e, FALSE) ELSE UNCHANGED pending
    BY <1>4, <2>3 DEF ReadEvent
  <2>5. /\ pending' \in [sequence : 0..MaxEvents, resync : BOOLEAN, failed : BOOLEAN]
        /\ pending'.sequence >= pending.sequence
        /\ e \in topology => pending'.sequence >= e
    <3>1. CASE e \in topology
      BY <2>3, <2>4, <3>1, RecordIs
    <3>2. CASE e \notin topology
      BY <1>0, <2>4, <3>2, FollowerNumbers
    <3> QED BY <3>1, <3>2
  <2>6. ReaderJoined'
    BY <1>1, <2>4 DEF FollowerInv, ReaderJoined
  <2>7. EventsAsk'
    <3> SUFFICES ASSUME NEW f \in topology, f <= e, f > known.sequence
                 PROVE  f <= pending'.sequence
      BY <1>1, <2>3, <2>4 DEF EventsAsk, ownerVars
    <3>1. f \in Nat /\ pending.sequence \in Nat /\ pending'.sequence \in Nat
      BY <2>5, FollowerNumbers
    <3>2. CASE f <= lastRead[Reader]
      <4>1. f <= pending.sequence
        BY <1>1, <2>4, <3>2 DEF FollowerInv, EventsAsk, Reads
      <4> QED BY <2>5, <3>1, <4>1
    <3>3. CASE f >= e
      BY <2>3, <2>5, <3>1, <3>3
    <3> QED BY <2>2, <3>2, <3>3
  <2> QED
    BY <1>0, <1>1, <1>2, <2>3, <2>4, <2>5, <2>6, <2>7, FollowerNumbers, QuietStep
<1>5. CASE ReadResync \/ ReadFails
  <2>1. stream' = 0 /\ lastRead' = lastRead /\ budget' \in [failures : Int, refreshes : Int]
    BY <1>0, <1>b, <1>5 DEF ReadResync, ReadFails, Nobody
  <2>2. pending' \in [sequence : 0..MaxEvents, resync : BOOLEAN, failed : BOOLEAN]
    <3>1. CASE ReadFails
      BY <1>0, <3>1 DEF ReadFails
    <3>2. CASE ReadResync
      <4>1. PICK lost \in lastRead[Reader] + 1..lastEvent : Record(lost, TRUE)
        BY <3>2 DEF ReadResync
      <4>2. lost \in 0..MaxEvents
        BY FollowerNumbers
      <4> QED BY <4>1, <4>2, RecordIs
    <3> QED BY <1>5, <3>1, <3>2
  <2>3. ReaderJoined' /\ EventsAsk'
    BY <1>0, <1>1, <2>1 DEF ReaderJoined, EventsAsk, Nobody, ownerVars
  <2> QED
    BY <1>0, <1>1, <1>2, <2>1, <2>2, <2>3, FollowerNumbers, QuietStep
<1> QED BY <1>4, <1>5 DEF ReaderStep

LEMMA FollowerSteps ==
    ASSUME FollowerAssumption, FollowerInv, [FollowerNext]_followerVars
    PROVE  FollowerInv'
<1>1. CASE UNCHANGED followerVars
  BY <1>1 DEF FollowerInv, FollowerTypes, FollowerTypeOK, InboxOK, ReaderJoined, EventsAsk, LastWord,
       OneOwner, Unheard, IsCurrent, followerVars, ownerVars, appVars, threadVars
<1> QED
  BY <1>1, OwnerSteps, RefreshStep, ApplyStep, ThreadStep, ReaderSteps DEF FollowerNext

\* A watcher goes when its thread has ended, or by a refresh.
LEMMA WatcherStep ==
    ASSUME FollowerAssumption, FollowerInv, [FollowerNext]_followerVars
    PROVE  [phase = "none" \/ budget.refreshes # budget'.refreshes]_watcher
<1> SUFFICES ASSUME watcher' # watcher
             PROVE  phase = "none" \/ budget.refreshes # budget'.refreshes
  OBVIOUS
<1>1. CASE Refresh
  BY <1>1 DEF Refresh, FollowerInv, FollowerTypes
<1>2. CASE ApplyMessage
  <2>1. 1 \in DOMAIN inbox /\ inbox[1] = Head(inbox)
    BY <1>2, InboxTail DEF ApplyMessage, FollowerInv, InboxOK
  <2>2. IsCurrent(inbox[1]) /\ ~ inbox[1].ok
    BY <1>2, <2>1 DEF ApplyMessage, Discovered, WatcherFailed, appVars
  <2> QED BY <2>1, <2>2 DEF FollowerInv, LastWord
<1>3. CASE Thread \/ ReaderStep
  BY <1>3 DEF Thread, ReaderStep, Wait, Load, SubscribeFrom, SubscribeLate, SubscribeInvalid, TakeSnapshot,
       ConnectFails, TakeError, TakeEvents, ReadEvent, ReadResync, ReadFails, Goes, Close, appVars
<1>4. CASE PublishEvent \/ StopOwner \/ StartOwner \/ UNCHANGED followerVars
  BY <1>4 DEF PublishEvent, StopOwner, StartOwner, followerVars, appVars
<1> QED BY <1>1, <1>2, <1>3, <1>4 DEF FollowerNext

\* Another owner is shown by another watcher.
LEMMA ShownStep ==
    ASSUME FollowerAssumption, FollowerInv, [FollowerNext]_followerVars
    PROVE  [shown'.owner # shown.owner => shown'.watcher # shown.watcher]_shown
<1> SUFFICES ASSUME shown' # shown, shown'.watcher = shown.watcher
             PROVE  shown'.owner = shown.owner
  OBVIOUS
<1>1. CASE ApplyMessage
  <2>1. 1 \in DOMAIN inbox /\ inbox[1] = Head(inbox) /\ Posted(inbox[1], newest, owner)
    BY <1>1, InboxTail DEF ApplyMessage, FollowerInv, InboxOK
  <2>2. IsCurrent(inbox[1]) /\ inbox[1].ok
        /\ shown'.owner = inbox[1].owner /\ shown'.watcher = inbox[1].watcher
    <3>1. Discovered(inbox[1]) /\ IsCurrent(inbox[1])
      BY <1>1, <2>1 DEF ApplyMessage, WatcherFailed, appVars
    <3> QED BY <3>1 DEF Discovered
  <2>3. watcher # 0 /\ shown.watcher = watcher
    BY <2>1, <2>2, FollowerNumbers DEF IsCurrent, Posted
  <2> QED BY <2>1, <2>2, <2>3 DEF FollowerInv, OneOwner
<1>2. CASE Refresh \/ PublishEvent \/ StopOwner \/ StartOwner \/ UNCHANGED followerVars
  BY <1>2 DEF Refresh, PublishEvent, StopOwner, StartOwner, followerVars, appVars
<1>3. CASE Thread \/ ReaderStep
  BY <1>3 DEF Thread, ReaderStep, Wait, Load, SubscribeFrom, SubscribeLate, SubscribeInvalid, TakeSnapshot,
       ConnectFails, TakeError, TakeEvents, ReadEvent, ReadResync, ReadFails, Goes, Close, appVars
<1> QED BY <1>1, <1>2, <1>3 DEF FollowerNext

\* Whatever the connection loses and whenever the owner restarts, a watcher that
\* has subscribed takes no event without a snapshot after it
\* (watch_remote_session), a live watcher is replaced only by an explicit refresh
\* (discover_remote_session), and a topology of another owner is shown only under
\* another watcher (refresh_snapshot's owner fence).
THEOREM WatchersFollow == FollowerAssumption => (FollowerSpec => FollowerSafe)
<1> SUFFICES ASSUME FollowerAssumption PROVE FollowerSpec => FollowerSafe
  OBVIOUS
<1>1. FollowerInit => FollowerInv
  BY FollowerStarts
<1>2. FollowerInv /\ [FollowerNext]_followerVars => FollowerInv'
  BY FollowerSteps
<1>3. FollowerInv => FollowerTypeOK /\ ReaderJoined /\ EventsAsk
  BY DEF FollowerInv, FollowerTypes
<1>4. FollowerInv /\ [FollowerNext]_followerVars =>
        [phase = "none" \/ budget.refreshes # budget'.refreshes]_watcher
  BY WatcherStep
<1>5. FollowerInv /\ [FollowerNext]_followerVars =>
        [shown'.owner # shown.owner => shown'.watcher # shown.watcher]_shown
  BY ShownStep
<1> QED
  BY <1>1, <1>2, <1>3, <1>4, <1>5, PTL DEF FollowerSpec, FollowerSafe, LiveWatcherKept, OwnerFence
=============================================================================
