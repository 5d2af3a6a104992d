----------------------------- MODULE MCOrchJobs -----------------------------
(***************************************************************************)
(* Gated work that operators start and integrate, the task of a scheduled  *)
(* run, and the deadlines of the definition it comes from.  Independent    *)
(* systems in one run: `part` says which of them runs, the others keep     *)
(* their initial state.                                                    *)
(*                                                                         *)
(* Days of six units; a gap and a fold at midday.  An interval of 970      *)
(* passes the largest time after its first occurrence.                     *)
(***************************************************************************)
EXTENDS MCOrchLedger

CONSTANTS Day, Triggers, Policies, Grace, Opening, MaxNow, Naps, MaxTime, None
VARIABLES def, now, last, lost

\* One scheduled task, and all that may happen to it while two panes live.
Scheduled == INSTANCE OrchLedger WITH
  Templates <- ScheduledTemplates, Reports <- {TRUE},
  UpdateTo <- {"running", "blocked", "done"},
  MaxIds <- 1, MaxPanes <- 2

Definition == INSTANCE Schedule WITH Start <- Opening

Utc    == [at |-> 0,  before |-> 0, after |-> 0]
Spring == [at |-> 50, before |-> 0, after |-> 1]
Fall   == [at |-> 50, before |-> 1, after |-> 0]

Daily(zones, seconds) == [kind : {"daily"}, zone : zones, second : seconds]
Weekly(zones, days) ==
  [kind : {"weekly"}, zone : zones, second : {2}, days : days]

AllTriggers ==
  [kind : {"once"}, at : {38, 54}]
  \cup [kind : {"interval"}, every : {4, 7, 970}, anchor : {33, 44}]
  \cup Daily({Utc}, {0}) \cup Daily({Spring, Fall}, {2, 3})
  \cup Weekly({Utc}, {{4, 6}}) \cup Weekly({Spring, Fall}, {{5}})

-----------------------------------------------------------------------------
VARIABLE part

definition == <<def, now, last, lost>>

JobsInit ==
  Init /\ Definition!Init /\ part \in {"jobs", "scheduled", "schedule"}

LedgerStep == part = "jobs" /\ Next /\ UNCHANGED <<part, definition>>
ScheduledStep ==
  part = "scheduled" /\ Scheduled!Next /\ UNCHANGED <<part, definition>>
ScheduleStep ==
  part = "schedule" /\ Definition!Next /\ UNCHANGED <<part, vars>>

JobsNext == LedgerStep \/ ScheduledStep \/ ScheduleStep

JobsSpec ==
  JobsInit /\ [][JobsNext]_<<part, vars, definition>>

\* The property of the definition, stated in Schedule.
DefinitionRight == Definition!DefinitionRight
=============================================================================
