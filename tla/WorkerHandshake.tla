--------------------------- MODULE WorkerHandshake ---------------------------
(***************************************************************************)
(* How the agent of a started task comes to run (src/src/orch/worker.rs,   *)
(* src/src/automation/worker.rs, src/src/app/board.rs).                    *)
(*                                                                         *)
(* task.start opens a pane, stages a one-use launch record, types a short  *)
(* runner command into the pane's shell and only then claims the task.     *)
(* The shell runs while the handler does, so the runner may read the       *)
(* record before the claim: it waits for its pane to own the running task, *)
(* takes the record and starts the agent.  A manual runner whose agent     *)
(* cannot start reports that with a fenced task.update; the runner of a    *)
(* scheduled task has no record, outlives its agent and settles the task   *)
(* with a task.get and an unfenced update.                                 *)
(*                                                                         *)
(* One task.  Every start has a pane of its own.  `loop` is the pane of    *)
(* the start the event loop is in, or None; a call of a runner is answered *)
(* only when the loop is free, the file system and the shell do not wait.  *)
(***************************************************************************)
EXTENDS Naturals, FiniteSets

CONSTANTS Panes,        \* one per start
          Kinds,        \* TRUE: the task may belong to an automation run
          Updates,      \* statuses an operator sets with task.update
          MaxLosses,    \* bound: calls of a runner that fail in transport
          OperatorEdits,     \* bound: changes made by the operator
          MaxReruns,    \* bound: runner commands typed again by hand
          None

Statuses == {"queued", "claimed", "running", "blocked", "review", "failed", "done"}

ASSUME HandshakeAssumption ==
  /\ None \notin Panes
  /\ Kinds \subseteq BOOLEAN
  /\ Updates \subseteq Statuses
  /\ {MaxLosses, OperatorEdits, MaxReruns} \subseteq Nat

VARIABLES task,      \* the ledger's record
          loop,      \* the start whose handler is running, or None
          open,      \* panes that are open
          fresh,     \* panes no start has used
          staged,    \* panes with a launch record on disk
          typed,     \* runner commands waiting in the pane's shell
          runner,    \* the runner in the foreground of each pane
          agent,     \* the process the runner started
          launched,  \* how often an agent was started in a pane
          left       \* what the bounds still allow

handshakeVars == <<task, loop, open, fresh, staged, typed, runner, agent, launched, left>>

Idle == [phase |-> "idle", attempt |-> 0]
At(phase, attempt) == [phase |-> phase, attempt |-> attempt]

Free == loop = None
Owns(p) == task.status = "running" /\ task.assignee = p
Complete == task.status = "done"

HandshakeInit ==
  /\ \E auto \in Kinds :
       task = [status |-> "queued", assignee |-> None, attempt |-> 1, auto |-> auto]
  /\ loop = None /\ open = {} /\ fresh = Panes /\ staged = {}
  /\ typed = [p \in Panes |-> 0]
  /\ runner = [p \in Panes |-> Idle]
  /\ agent = [p \in Panes |-> "none"]
  /\ launched = [p \in Panes |-> 0]
  /\ left = [edits |-> OperatorEdits, reruns |-> MaxReruns, losses |-> MaxLosses]

-----------------------------------------------------------------------------
(* The server.                                                             *)

\* task.start up to the admitted runner command; a start whose record or
\* command is not accepted discards the record and closes the pane.
Start(p) ==
  /\ Free /\ p \in fresh /\ task.assignee = None /\ ~Complete
  /\ fresh' = fresh \ {p}
  /\ \/ /\ loop' = p
        /\ open' = open \cup {p}
        /\ staged' = IF task.auto THEN staged ELSE staged \cup {p}
        /\ typed' = [typed EXCEPT ![p] = 1]
     \/ UNCHANGED <<loop, open, staged, typed>>
  /\ UNCHANGED <<task, runner, agent, launched, left>>

\* ... claim, running, reply
Commit ==
  /\ ~Free
  /\ task' = [task EXCEPT !.status = "running", !.assignee = loop]
  /\ loop' = None
  /\ UNCHANGED <<open, fresh, staged, typed, runner, agent, launched, left>>

EditTask(new) ==
  /\ Free /\ left.edits > 0
  /\ left' = [left EXCEPT !.edits = @ - 1]
  /\ task' = new
  /\ UNCHANGED <<loop, fresh, launched>>

\* task.update without a fence
Update(status) ==
  /\ EditTask([task EXCEPT !.status = status])
  /\ UNCHANGED <<open, staged, typed, runner, agent>>

\* task.release
Release ==
  /\ task.status \in {"claimed", "running", "blocked", "review", "failed"}
  /\ EditTask([task EXCEPT !.status = "queued", !.assignee = None])
  /\ UNCHANGED <<open, staged, typed, runner, agent>>

\* task.retry: scheduled tasks are retried as a new run, with a task of its own
Retry ==
  /\ ~task.auto /\ task.status \in {"done", "failed", "review", "blocked"}
  /\ EditTask([task EXCEPT !.status = "queued", !.assignee = None, !.attempt = @ + 1])
  /\ UNCHANGED <<open, staged, typed, runner, agent>>

\* Closing a pane ends its processes and discards its record; a report that is
\* already on its way still arrives.  A scheduled task is interrupted.
ClosePane(p) ==
  /\ p \in open
  /\ EditTask(IF task.assignee # p THEN task
          ELSE [task EXCEPT !.assignee = None,
                            !.status = IF task.auto /\ @ \in {"claimed", "running", "blocked", "review"}
                                       THEN "failed" ELSE @])
  /\ open' = open \ {p}
  /\ staged' = staged \ {p}
  /\ typed' = [typed EXCEPT ![p] = 0]
  /\ runner' = IF runner[p].phase \in {"report", "done", "failed"} THEN runner
               ELSE [runner EXCEPT ![p] = Idle]
  /\ agent' = IF agent[p] = "running" THEN [agent EXCEPT ![p] = "ended"] ELSE agent

-----------------------------------------------------------------------------
(* The runner of a manual task.                                            *)

Become(p, new) ==
  /\ runner' = [runner EXCEPT ![p] = new]
  /\ UNCHANGED <<loop, open, fresh, left>>

\* A call that fails in transport.
Lose(p, phase) ==
  /\ left.losses > 0
  /\ left' = [left EXCEPT !.losses = @ - 1]
  /\ runner' = [runner EXCEPT ![p] = At(phase, 0)]
  /\ UNCHANGED <<loop, open, fresh>>

\* Someone repeats the command from the shell's history.
TypeAgain(p) ==
  /\ p \in open /\ left.reruns > 0
  /\ left' = [left EXCEPT !.reruns = @ - 1]
  /\ typed' = [typed EXCEPT ![p] = @ + 1]
  /\ UNCHANGED <<task, loop, open, fresh, staged, runner, agent, launched>>

\* The runner does not wait for its owner.
PeekTakes(p) ==
  /\ runner[p] = Idle /\ typed[p] > 0
  /\ typed' = [typed EXCEPT ![p] = @ - 1]
  /\ Become(p, IF p \in staged THEN At("take", task.attempt) ELSE Idle)
  /\ UNCHANGED <<task, staged, agent, launched>>

\* The shell runs the next command: peek at the record.
Peek(p) ==
  /\ runner[p] = Idle /\ typed[p] > 0
  /\ typed' = [typed EXCEPT ![p] = @ - 1]
  /\ Become(p, IF task.auto THEN At("snapshot", 0)
               ELSE IF p \in staged THEN At("wait", 0) ELSE Idle)
  /\ UNCHANGED <<task, staged, agent, launched>>

\* wait_for_owner: own it, wait and perhaps time out, or refuse
Poll(p) ==
  /\ Free /\ runner[p].phase = "wait"
  /\ \/ Owns(p) /\ Become(p, At("take", task.attempt))
     \/ /\ \/ task.status = "queued" /\ task.assignee = None
           \/ task.status = "claimed" /\ task.assignee = p
        /\ \E next \in {runner[p], Idle} : Become(p, next)
     \/ /\ ~Owns(p)
        /\ ~(task.status = "queued" /\ task.assignee = None)
        /\ ~(task.status = "claimed" /\ task.assignee = p)
        /\ Become(p, Idle)
     \/ Lose(p, "idle")
  /\ UNCHANGED <<task, staged, typed, agent, launched>>

\* take: the rename gives the record to one runner only
Take(p) ==
  /\ runner[p].phase = "take"
  /\ staged' = staged \ {p}
  /\ Become(p, IF p \in staged THEN At("launch", runner[p].attempt) ELSE Idle)
  /\ UNCHANGED <<task, typed, agent, launched>>

LaunchAgent(p) ==
  /\ runner[p].phase = "launch"
  /\ \/ /\ Become(p, At("agent", runner[p].attempt))
        /\ agent' = [agent EXCEPT ![p] = "running"]
        /\ launched' = [launched EXCEPT ![p] = @ + 1]
     \/ /\ Become(p, IF task.auto THEN At("read", 0) ELSE At("report", runner[p].attempt))
        /\ UNCHANGED <<agent, launched>>
  /\ UNCHANGED <<task, staged, typed>>

\* The report carries no fence.
ReportUnfenced(p) ==
  /\ Free /\ runner[p].phase = "report"
  /\ task' = [task EXCEPT !.status = "failed"]
  /\ Become(p, Idle)
  /\ UNCHANGED <<staged, typed, agent, launched>>

\* The fence expects the task to be claimed, not running.
ReportByStatus(p) ==
  /\ Free /\ runner[p].phase = "report"
  /\ task' = IF task.status = "claimed" /\ task.assignee = p
             THEN [task EXCEPT !.status = "failed"] ELSE task
  /\ Become(p, Idle)
  /\ UNCHANGED <<staged, typed, agent, launched>>

\* fail_unstarted: task.update with the fence if_running
Report(p) ==
  /\ Free /\ runner[p].phase = "report"
  /\ task' = IF Owns(p) /\ task.attempt = runner[p].attempt
             THEN [task EXCEPT !.status = "failed"] ELSE task
  /\ Become(p, Idle)
  /\ UNCHANGED <<staged, typed, agent, launched>>

\* The exit status is the runner's; that of a scheduled agent has a meaning.
AgentEnds(p) ==
  /\ runner[p].phase = "agent"
  /\ agent' = [agent EXCEPT ![p] = "ended"]
  /\ \E phase \in IF task.auto THEN {"read", "readok"} ELSE {"idle"} :
       Become(p, At(phase, 0))
  /\ UNCHANGED <<task, staged, typed, launched>>

-----------------------------------------------------------------------------
(* The runner of a scheduled task.                                         *)

\* automation.history: the run still names the task
CheckRun(p) ==
  /\ Free /\ runner[p].phase = "snapshot"
  /\ \/ Become(p, At("launch", 0))
     \/ Lose(p, "read")
  /\ UNCHANGED <<task, staged, typed, agent, launched>>

\* settle_success and settle_failure look at the task first ...
ReadStatus(p) ==
  /\ Free /\ runner[p].phase \in {"read", "readok"}
  /\ \/ Become(p, IF task.status \in {"done", "failed", "blocked", "review"} THEN Idle
                  ELSE At(IF runner[p].phase = "readok" THEN "done" ELSE "failed", 0))
     \/ Lose(p, "idle")
  /\ UNCHANGED <<task, staged, typed, agent, launched>>

\* ... and then call task.done or task.update, whatever has become of it
Settle(p) ==
  /\ Free /\ runner[p].phase \in {"done", "failed"}
  /\ task' = [task EXCEPT !.status = runner[p].phase]
  /\ Become(p, Idle)
  /\ UNCHANGED <<staged, typed, agent, launched>>

RunnerStep(p) ==
  \/ Peek(p) \/ Poll(p) \/ Take(p) \/ LaunchAgent(p) \/ Report(p)
  \/ CheckRun(p) \/ ReadStatus(p) \/ Settle(p)

HandshakeNext ==
  \/ Commit \/ Release \/ Retry
  \/ \E status \in Updates : Update(status)
  \/ \E p \in Panes : Start(p) \/ ClosePane(p) \/ TypeAgain(p) \/ AgentEnds(p) \/ RunnerStep(p)

HandshakeSpec == HandshakeInit /\ [][HandshakeNext]_handshakeVars

\* The event loop finishes its handler and a process that can go on does; an
\* agent need not end and an operator need not act.
HandshakeFairness == WF_handshakeVars(Commit) /\ \A p \in Panes : WF_handshakeVars(RunnerStep(p))

FairSpec == HandshakeSpec /\ HandshakeFairness

-----------------------------------------------------------------------------
(* Properties.                                                             *)

Phases == {"idle", "wait", "take", "launch", "agent", "report", "snapshot", "read", "readok",
           "done", "failed"}

\* The state stays within the types of its records.
HandshakeTypeOK ==
  /\ task.status \in Statuses
  /\ task.assignee \in Panes \cup {None} /\ task.attempt \in Nat \ {0} /\ task.auto \in Kinds
  /\ loop \in Panes \cup {None}
  /\ open \subseteq Panes /\ fresh \subseteq Panes \ open /\ staged \subseteq open
  /\ typed \in [Panes -> Nat]
  /\ \A p \in Panes : runner[p].phase \in Phases /\ runner[p].attempt \in 0..task.attempt
  /\ agent \in [Panes -> {"none", "running", "ended"}]
  /\ launched \in [Panes -> Nat]

\* A manual start runs at most one agent, however often its command is repeated and
\* whichever of the repeated runners sees the task owned.
OneAgentPerStart == ~task.auto => \A p \in Panes : launched[p] <= 1

\* No agent runs for a start the server has not recorded: a pane whose start is
\* still in its handler has launched nothing.
AgentAfterCommit == ~Free /\ ~task.auto => launched[loop] = 0

\* What a runner that could not start its agent reports never fails the task
\* under the running agent of a later start.
LateReportHarmless ==
  [][\A p \in Panes :
       runner[p].phase = "report" /\ Report(p) /\ task' # task
         => task.assignee = None \/ agent[task.assignee] # "running"]_handshakeVars

\* The task counts as running and nothing runs: its agent has not started, or
\* was a scheduled one and has exited.
Deserted ==
  /\ task.status = "running" /\ task.assignee # None
  /\ \/ agent[task.assignee] = "none"
     \/ task.auto /\ agent[task.assignee] = "ended"

\* A recorded start comes to an end of its own: its agent starts, or the task
\* does not stay running; and a scheduled agent that exits does so "without
\* leaving its automation task permanently Running".  (A runner whose call was
\* lost leaves without a report.)
RunningHasAgent ==
  Deserted ~> (~Deserted \/ left.losses < MaxLosses)

\* One agent per start, and none before its start is recorded.
StartSafe == HandshakeTypeOK /\ OneAgentPerStart /\ AgentAfterCommit
=============================================================================
