--------------------------- MODULE ServerLifecycle --------------------------
(***************************************************************************)
(* The processes of one session name: servers that start under a lock      *)
(* (ipc/server.rs run, ipc/transport.rs), and the commands that attach to, *)
(* start, stop, restart and delete the session (main.rs, session.rs,       *)
(* session/launch.rs), on Unix.  A server binds two sockets under the      *)
(* lock, restores the saved session, then answers until it is stopped,     *)
(* killed, crashes or stops answering.  Commands see the sockets, whether  *)
(* pings are answered, and process ids; each of their probes is a step.    *)
(***************************************************************************)
EXTENDS Integers, FiniteSets

CONSTANTS
    MaxServers,     \* bound: server processes
    Commands,       \* command processes
    Plans,          \* what they may be started to do
    None,           \* no process
    Firsts,         \* phases of a server that is there already, or None
    MaxWork,        \* bound: changes of the session
    MaxDirs,        \* bound: creations of the session directory
    MaxFaults       \* bound: crashes, hangs, failed restores and final
                    \* saves, dead commands

Stopping == {"stop", "session stop", "restart", "session restart"}

\* Server processes, in the order of their launches.
Servers == 1..MaxServers

ASSUME LifecycleAssumption ==
    /\ None \notin Servers \cup Commands
    /\ Plans \subseteq [Commands -> Stopping \cup
                    {"attach", "start", "session start", "delete"}]
    /\ MaxServers \in Nat \ {0} /\ Firsts \subseteq {"running", "hung", None}
    /\ MaxWork \in Nat /\ MaxDirs \in Nat \ {0} /\ MaxFaults \in Nat

VARIABLES
    server,         \* its phase, lock file, session and pending stops
    path,           \* the server behind each socket file, dead or alive
    dir,            \* the session directory's lock file, 0 when deleted
    dirs,           \* directories so far
    disk,           \* the saved session
    work,           \* changes so far
    unsaved,        \* a server ended without its final save
    cmd,            \* the commands
    faults          \* faults so far

vars == <<server, path, dir, dirs, disk, work, unsaved, cmd, faults>>
dirVars == <<dir, dirs>>
sessionVars == <<disk, work, unsaved>>

Sockets == {"api", "client"}

\* Phases in which a server holds the startup lock it opened.
Locked == {"locked", "checked", "apiFree", "apiBound", "clientFree",
           "restoring"}
\* Phases with a session in memory.
Up == {"restoring", "running", "hung", "saving"}
Alive == Locked \cup Up \cup {"launched", "waiting"}

Fresh == [phase |-> "none", lock |-> 0, mem |-> 0, owner |-> None,
          stop |-> {}]

Init ==
    /\ \E first \in Firsts :
        /\ server = [s \in Servers |->
                      IF s = 1 /\ first # None
                      THEN [Fresh EXCEPT !.phase = first, !.lock = 1]
                      ELSE Fresh]
        /\ path = [p \in Sockets |-> IF first = None THEN None ELSE 1]
    /\ dir = 1 /\ dirs = 1
    /\ disk = 0 /\ work = 0 /\ unsaved = FALSE
    /\ \E plan \in Plans :
        cmd = [c \in Commands |->
                 [pc |-> "begin", verb |-> plan[c], pid |-> None,
                  sure |-> FALSE, child |-> None, target |-> None]]
    /\ faults = 0

Is(s, at) == server[s].phase = at
To(s, at) == server' = [server EXCEPT ![s].phase = at]

\* A connection is accepted, or waits in the backlog of a live listener.
Reachable(p) == path[p] # None /\ server[path[p]].phase \in Alive

Answers == path["api"] # None /\ Is(path["api"], "running")

-----------------------------------------------------------------------------
(* A server process: ipc/server.rs run                                     *)

\* ensure_server_session_dir and the lock file.
Open(s) ==
    /\ Is(s, "launched")
    /\ \/ dir # 0 /\ UNCHANGED dirVars
       \/ /\ dir = 0 /\ dirs < MaxDirs
          /\ dirs' = dirs + 1 /\ dir' = dirs + 1
    /\ server' = [server EXCEPT ![s].phase = "waiting", ![s].lock = dir']
    /\ UNCHANGED <<path, sessionVars, cmd, faults>>

\* Nobody waits for the lock.
LockShared(s) ==
    /\ Is(s, "waiting") /\ To(s, "locked")
    /\ UNCHANGED <<path, dirVars, sessionVars, cmd, faults>>

\* acquire_server_startup_lock; the kernel releases the locks of the dead.
Lock(s) ==
    /\ Is(s, "waiting")
    /\ \A t \in Servers :
        server[t].phase \in Locked => server[t].lock # server[s].lock
    /\ To(s, "locked")
    /\ UNCHANGED <<path, dirVars, sessionVars, cmd, faults>>

\* The loser of a start exits, successfully.
Check(s) ==
    /\ Is(s, "locked")
    /\ IF \E p \in Sockets : Reachable(p)
       THEN To(s, "lost") ELSE To(s, "checked")
    /\ UNCHANGED <<path, dirVars, sessionVars, cmd, faults>>

\* reclaim_stale_socket, up to the test of the listener.
Reclaim(s, p, before, after) ==
    /\ Is(s, before)
    /\ IF Reachable(p) THEN To(s, "failed") ELSE To(s, after)
    /\ UNCHANGED <<path, dirVars, sessionVars, cmd, faults>>

\* The stale socket is removed and a new one bound; the session is read as
\* soon as both are.
Bind(s, p, before, after) ==
    /\ Is(s, before)
    /\ IF dir = 0
       THEN To(s, "failed") /\ UNCHANGED path
       ELSE /\ path' = [path EXCEPT ![p] = s]
            /\ server' = [server EXCEPT ![s].phase = after, ![s].mem = disk]
    /\ UNCHANGED <<dirVars, sessionVars, cmd, faults>>

\* App::restore_or_new is done, the lock is released, the loop runs.
Ready(s) ==
    /\ Is(s, "restoring") /\ To(s, "running")
    /\ UNCHANGED <<path, dirVars, sessionVars, cmd, faults>>

Work(s) ==
    /\ Is(s, "running") /\ work < MaxWork
    /\ work' = work + 1
    /\ server' = [server EXCEPT ![s].mem = work + 1]
    /\ UNCHANGED <<path, dirVars, disk, unsaved, cmd, faults>>

\* schedule_session_save
Save(s) ==
    /\ Is(s, "running") /\ server[s].mem # disk /\ dir # 0
    /\ disk' = server[s].mem
    /\ UNCHANGED <<server, path, dirVars, work, unsaved, cmd, faults>>

\* api_server_stop: should_quit ends the loop.
TakeStop(s) ==
    /\ Is(s, "running") /\ server[s].stop # {} /\ To(s, "saving")
    /\ UNCHANGED <<path, dirVars, sessionVars, cmd, faults>>

Fault == faults < MaxFaults /\ faults' = faults + 1

\* finish_session_persistence, then the process ends, also when the save failed
\* or took more than two seconds: it prints a line, and a stop that waits for
\* it succeeds all the same.
Exit(s) ==
    /\ Is(s, "saving") /\ To(s, "dead")
    /\ \/ /\ disk' = IF dir = 0 THEN disk ELSE server[s].mem
          /\ UNCHANGED <<unsaved, faults>>
       \/ Fault /\ unsaved' = TRUE /\ UNCHANGED disk
    /\ UNCHANGED <<path, dirVars, work, cmd>>

Crash(s) ==
    /\ Fault /\ server[s].phase \in Alive
    /\ To(s, "dead") /\ unsaved' = TRUE
    /\ UNCHANGED <<path, dirVars, disk, work, cmd>>

\* The loop stops answering; the listener threads go on.
Hang(s) ==
    /\ Fault /\ Is(s, "running") /\ To(s, "hung")
    /\ UNCHANGED <<path, dirVars, sessionVars, cmd>>

\* Both sockets are removed while the lock is held.
RestoreFails(s) ==
    /\ Fault /\ Is(s, "restoring") /\ To(s, "failed")
    /\ path' = [p \in Sockets |-> IF path[p] = s THEN None ELSE path[p]]
    /\ UNCHANGED <<dirVars, sessionVars, cmd>>

ServerStep(s) ==
    \/ Open(s) \/ Lock(s) \/ Check(s)
    \/ Reclaim(s, "api", "checked", "apiFree")
    \/ Bind(s, "api", "apiFree", "apiBound")
    \/ Reclaim(s, "client", "apiBound", "clientFree")
    \/ Bind(s, "client", "clientFree", "restoring")
    \/ Ready(s) \/ TakeStop(s) \/ Exit(s)

-----------------------------------------------------------------------------
(* Steps that commands share                                               *)

At(c, pc) == cmd[c].pc = pc
Over(c) == cmd[c].pc \in {"ok", "failed"}
Goto(c, pc) == cmd' = [cmd EXCEPT ![c].pc = pc]
Idle == UNCHANGED <<server, path, dirVars, sessionVars, faults>>

\* launch.rs: the helper owns the server it spawned until it is accepted.
Spawn(c, next) ==
    /\ \E s \in Servers :
        /\ Is(s, "none") /\ \A t \in 1..s - 1 : ~ Is(t, "none")
        /\ server' = [server EXCEPT ![s].phase = "launched", ![s].owner = c]
        /\ cmd' = [cmd EXCEPT ![c].pc = next, ![c].child = s]
    /\ UNCHANGED <<path, dirVars, sessionVars, faults>>

Release(c) ==
    [server EXCEPT ![cmd[c].child].owner = None]

\* Nobody kills what is over.
Killed(s) == [server EXCEPT ![s].phase = IF @ \in Alive THEN "dead" ELSE @]
Lossy(s) == unsaved' = (unsaved \/ server[s].phase \in Up)

\* wait_for_shutdown and the polls of stop_session: both endpoints are gone.
Gone(c, next) ==
    /\ \A p \in Sockets : ~ Reachable(p)
    /\ Goto(c, next) /\ Idle

\* A server that was asked to stop makes it in time: its final save has two
\* seconds, the wait more.
NotGone(c) ==
    /\ \E p \in Sockets :
        /\ Reachable(p) /\ ~ Is(path[p], "saving")
        /\ (Is(path[p], "running") => server[path[p]].stop = {})
    /\ Goto(c, "failed") /\ Idle

-----------------------------------------------------------------------------
(* luvus (attach), luvus server start, stop, restart: main.rs              *)

\* ensure_server_ready
Attach(c) ==
    /\ At(c, "begin") /\ cmd[c].verb = "attach"
    /\ \/ Reachable("client") /\ Goto(c, "ping")
       \/ Reachable("client") /\ Goto(c, "busy ping")
       \/ ~ Reachable("client") /\ Goto(c, "spawn")
    /\ Idle

\* server_start
Start(c) ==
    /\ At(c, "begin") /\ cmd[c].verb = "start"
    /\ Goto(c, IF Reachable("client") THEN "wait up" ELSE "spawn")
    /\ Idle

\* The ordinary probe, then the longer one.
Ping(c) ==
    /\ At(c, "ping")
    /\ \/ Answers /\ Goto(c, "ok")
       \/ Goto(c, "long ping")
    /\ Idle

LongPing(c) ==
    /\ At(c, "long ping")
    /\ IF Answers THEN Goto(c, "ok") ELSE Goto(c, "stop")
    /\ Idle

\* The listener is saturated, the loop need not be.
BusyPing(c) ==
    /\ At(c, "busy ping")
    /\ IF Answers THEN Goto(c, "failed") ELSE Goto(c, "stop")
    /\ Idle

BeginStop(c) ==
    /\ At(c, "begin") /\ cmd[c].verb \in {"stop", "restart"}
    /\ cmd' = [cmd EXCEPT ![c].pc = "stop", ![c].sure = TRUE]
    /\ Idle

\* What follows a stop.
After(c) == IF cmd[c].verb \in {"stop", "session stop"} THEN "ok" ELSE "spawn"

\* A connection that timed out tells no process: the pid file does, which a
\* server writes when it is ready.
Pids(s) ==
    {s} \cup IF server[s].phase \in {"running", "hung", "saving"}
             THEN {} ELSE {None}

\* send_server_stop_with_evidence: the first connection tells the process.
StopConnect(c) ==
    /\ At(c, "stop")
    /\ \/ \E p \in Sockets :
            /\ Reachable(p) /\ (p = "client" => ~ Reachable("api"))
            /\ \/ cmd' = [cmd EXCEPT ![c].pc = "request", ![c].pid = path[p]]
               \/ \E pid \in Pids(path[p]) :
                    cmd' = [cmd EXCEPT ![c].pid = pid,
                        ![c].pc = IF cmd[c].sure THEN "timed out" ELSE "kill"]
       \/ /\ \A p \in Sockets : ~ Reachable(p)
          /\ Goto(c, IF cmd[c].verb = "attach" THEN "wait down"
                     ELSE After(c))
    /\ Idle

\* sure is RequireConfirmation.
TimedOut(c) ==
    /\ At(c, "timed out")
    /\ IF Answers THEN Goto(c, "failed") ELSE Goto(c, "kill")
    /\ Idle

\* The request stays with the listener also when its answer is too late.
Request(c, acked, silent) ==
    /\ LET s == path["api"]
       IN  IF Reachable("api")
           THEN /\ server' = [server EXCEPT ![s].stop = @ \cup {c}]
                /\ \E pc \in {silent} \cup (IF Answers THEN {acked} ELSE {}) :
                    cmd' = [cmd EXCEPT ![c].pc = pc, ![c].target = s]
           ELSE Goto(c, silent) /\ UNCHANGED server
    /\ UNCHANGED <<path, dirVars, sessionVars, faults>>

StopRequest(c) == At(c, "request") /\ Request(c, "wait down", "unanswered")

Unanswered(c) ==
    /\ At(c, "unanswered")
    /\ IF \A p \in Sockets : ~ Reachable(p) THEN Goto(c, "wait down")
       ELSE IF cmd[c].sure THEN Goto(c, "confirm") ELSE Goto(c, "kill")
    /\ Idle

Confirm(c) ==
    /\ At(c, "confirm")
    /\ IF Answers THEN Goto(c, "failed") ELSE Goto(c, "confirmed")
    /\ Idle

Confirmed(c) ==
    /\ At(c, "confirmed")
    /\ Goto(c, IF \A p \in Sockets : ~ Reachable(p) THEN "wait down"
               ELSE "kill")
    /\ Idle

\* force_stop_unresponsive
Kill(c) ==
    /\ At(c, "kill")
    /\ LET s == cmd[c].pid
       IN  IF s # None /\ server[s].phase \in Alive
           THEN /\ server' = Killed(s) /\ Lossy(s)
                /\ cmd' = [cmd EXCEPT ![c].pc = "wait down",
                                      ![c].target = s]
           ELSE Goto(c, "failed") /\ UNCHANGED <<server, unsaved>>
    /\ UNCHANGED <<path, dirVars, disk, work, faults>>

\* A replacement is started at once.
WaitNotDown(c) ==
    /\ At(c, "wait down")
    /\ Goto(c, After(c)) /\ Idle

WaitDown(c) ==
    /\ At(c, "wait down")
    /\ \/ Gone(c, After(c))
       \/ NotGone(c)

\* spawn_session_server accepts its child at once; a launch that was lost to
\* another counts as a success, a killed one as a failure.
SpawnServer(c) ==
    /\ At(c, "spawn") /\ cmd[c].verb \in {"attach", "start", "restart"}
    /\ Spawn(c, "accept")

Accepted(c, servers) ==
    /\ At(c, "accept")
    /\ server' = servers
    /\ \/ ~ Is(cmd[c].child, "failed") /\ Goto(c, "wait up")
       \/ /\ server[cmd[c].child].phase \in {"failed", "dead"}
          /\ Goto(c, "failed")
    /\ UNCHANGED <<path, dirVars, sessionVars, faults>>

Accept(c) == Accepted(c, Release(c))

\* wait_for_socket: five seconds for an answer.
WaitUp(c) ==
    /\ At(c, "wait up")
    /\ IF Answers THEN Goto(c, "ok") ELSE Goto(c, "failed")
    /\ Idle

-----------------------------------------------------------------------------
(* luvus session start, stop, restart, delete: session.rs                  *)

\* stop_session writes the request and does not wait for an answer.
SessionStop(c) ==
    /\ At(c, "begin") /\ cmd[c].verb \in {"session stop", "session restart"}
    /\ \/ Reachable("api") /\ Request(c, "wait gone", "wait gone")
       \/ /\ ~ Reachable("api") /\ Idle
          /\ Goto(c, IF cmd[c].verb = "session stop" THEN "failed"
                     ELSE "start")

WaitGone(c) ==
    /\ At(c, "wait gone")
    /\ \/ Gone(c, IF cmd[c].verb = "session stop" THEN "ok" ELSE "start")
       \/ NotGone(c)

\* start_session
SessionStart(c) ==
    /\ \/ At(c, "start")
       \/ At(c, "begin") /\ cmd[c].verb = "session start"
    /\ \/ /\ Reachable("api") /\ Idle
          /\ Goto(c, IF Answers THEN "ok" ELSE "failed")
       \/ ~ Reachable("api") /\ Spawn(c, "wait ready")

WaitReady(c) ==
    /\ At(c, "wait ready")
    /\ LET child == cmd[c].child
       IN  \/ /\ Answers /\ server' = Release(c)
              /\ Goto(c, IF Is(child, "failed") THEN "failed" ELSE "ok")
           \/ /\ ~ Answers /\ server[child].phase \in {"failed", "dead"}
              /\ server' = Release(c) /\ Goto(c, "failed")
           \/ ~ Answers /\ Goto(c, "too late") /\ UNCHANGED server
    /\ UNCHANGED <<path, dirVars, sessionVars, faults>>

\* A server that is bound by now is left running.
TooLate(c) ==
    /\ At(c, "too late")
    /\ IF Reachable("api")
       THEN server' = Release(c) /\ Goto(c, "failed")
       ELSE Goto(c, "cancel") /\ UNCHANGED server
    /\ UNCHANGED <<path, dirVars, sessionVars, faults>>

\* The helper kills the child it still owns.
Cancel(c) ==
    /\ At(c, "cancel")
    /\ server' = Killed(cmd[c].child) /\ Lossy(cmd[c].child)
    /\ Goto(c, "failed")
    /\ UNCHANGED <<path, dirVars, disk, work, faults>>

\* delete_session: refused while the session runs...
Delete(c) ==
    /\ At(c, "begin") /\ cmd[c].verb = "delete"
    /\ Goto(c, IF Reachable("api") THEN "failed" ELSE "remove")
    /\ Idle

\* ...then the directory goes, with its sockets and its lock file.
Remove(c) ==
    /\ At(c, "remove")
    /\ dir' = 0 /\ path' = [p \in Sockets |-> None] /\ disk' = 0
    /\ Goto(c, "ok")
    /\ UNCHANGED <<server, dirs, work, unsaved, faults>>

\* The launcher sees its command go and kills what was not accepted.
CommandDies(c) ==
    /\ Fault /\ ~ At(c, "begin") /\ ~ Over(c)
    /\ Goto(c, "failed")
    /\ LET child == cmd[c].child
       IN  IF child # None /\ server[child].owner = c
           THEN server' = Killed(child) /\ Lossy(child)
           ELSE UNCHANGED <<server, unsaved>>
    /\ UNCHANGED <<path, dirVars, disk, work>>

CommandStep(c) ==
    \/ Attach(c) \/ Start(c) \/ Ping(c) \/ LongPing(c) \/ BusyPing(c)
    \/ BeginStop(c) \/ StopConnect(c) \/ TimedOut(c) \/ StopRequest(c)
    \/ Unanswered(c) \/ Confirm(c) \/ Confirmed(c) \/ Kill(c) \/ WaitDown(c)
    \/ SpawnServer(c) \/ Accept(c) \/ WaitUp(c)
    \/ SessionStop(c) \/ WaitGone(c) \/ SessionStart(c) \/ WaitReady(c)
    \/ TooLate(c) \/ Cancel(c) \/ Delete(c) \/ Remove(c)

-----------------------------------------------------------------------------
Next ==
    \/ \E s \in Servers :
        ServerStep(s) \/ Work(s) \/ Save(s) \/ Crash(s) \/ Hang(s)
        \/ RestoreFails(s)
    \/ \E c \in Commands : CommandStep(c) \/ CommandDies(c)

Spec == Init /\ [][Next]_vars

\* Processes run; a lock that is free again and again is taken.
FairSpec ==
    /\ Spec
    /\ \A s \in Servers : WF_vars(ServerStep(s)) /\ SF_vars(Lock(s))
    /\ \A c \in Commands : WF_vars(CommandStep(c))

-----------------------------------------------------------------------------
(* Properties                                                              *)

TypeOK ==
    /\ server \in [Servers -> [phase : Alive \cup {"none", "lost", "failed",
                                                   "dead"},
                               lock : 0..MaxDirs, mem : 0..MaxWork,
                               owner : Commands \cup {None},
                               stop : SUBSET Commands]]
    /\ path \in [Sockets -> Servers \cup {None}]
    /\ dirs \in 1..MaxDirs /\ dir \in 0..dirs
    /\ disk \in 0..work /\ work \in 0..MaxWork /\ unsaved \in BOOLEAN
    /\ \A c \in Commands :
        {cmd[c].pid, cmd[c].child, cmd[c].target}
            \subseteq Servers \cup {None}
    /\ \A s \in Servers :
        server[s].owner # None /\ server[s].phase \in Alive =>
            ~ Over(server[s].owner)
    /\ faults \in 0..MaxFaults

\* Each session name has one server process: no second one restores it while
\* the first has it, as long as nobody deletes the session.
OneServer ==
    dir = 1 => \A s, t \in Servers :
        server[s].phase \in Up /\ server[t].phase \in Up => s = t

\* Unless a server ended without its final save (it was killed, it crashed, or
\* that save failed or came too late), or the session was deleted, the next one
\* goes on with everything the last one did.
WorkContinues ==
    ~ unsaved /\ dir = 1 =>
        \A s \in Servers : server[s].phase \in Up => server[s].mem = work

\* A stop or restart that reports success has ended the server it spoke to,
\* unless somebody deleted the session, and its sockets, under that server.
StopIsDown ==
    dir = 1 => \A c \in Commands :
        At(c, "ok") /\ cmd[c].verb \in Stopping /\ cmd[c].target # None =>
            server[cmd[c].target].phase \notin Up

\* When every attach, start and restart reported success, a server is there
\* to stay, whatever they did to each other's servers, unless one failed.
Wanted(c) == cmd[c].verb \notin {"stop", "session stop", "delete"}
SuccessLasts ==
    <>[](faults = 0 /\ \A c \in Commands : Wanted(c) /\ At(c, "ok")) =>
        <>[](\E s \in Servers : Is(s, "running"))

\* No launched server waits for the startup lock for ever.
LaunchSettles == []<>(\A s \in Servers : ~ Is(s, "waiting"))

\* One server has the session, goes on with its work, and is down when a stop has
\* reported so.
ServerSafe == TypeOK /\ OneServer /\ WorkContinues /\ StopIsDown

\* A server that was asked for stays, and every launch comes to an end.
ServerLive == SuccessLasts /\ LaunchSettles
=============================================================================
