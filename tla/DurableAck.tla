----------------------------- MODULE DurableAck -----------------------------
(***************************************************************************)
(* What the automation ledger promises its callers: a call that changes    *)
(* the ledger is answered "ok" only once the change is on disk, so no       *)
(* restart takes back what was acknowledged.  How saves are scheduled,     *)
(* coalesced and retried is left to AutomationCheckpoint.                  *)
(***************************************************************************)
CONSTANT Calls

VARIABLES
  accepted,  \* calls whose change is in memory
  durable,   \* calls whose change a restart would find
  answer     \* what each caller was told

Answers == {"none", "waiting", "ok", "failed", "busy", "lost"}

Init ==
  /\ accepted = {}
  /\ durable = {}
  /\ answer = [c \in Calls |-> "none"]

Tell(c, a) == answer' = [answer EXCEPT ![c] = a]

\* The change is in memory and its caller waits.
Accept(c) ==
  /\ answer[c] \notin {"waiting", "ok"}
  /\ accepted' = accepted \cup {c}
  /\ Tell(c, "waiting")
  /\ UNCHANGED durable

\* Nothing has changed; the caller may try again.
Refuse(c) ==
  /\ answer[c] \notin {"waiting", "ok"}
  /\ Tell(c, "busy")
  /\ UNCHANGED <<accepted, durable>>

\* Any save that loses nothing: what it leaves behind stays accepted.
Save ==
  /\ \E more \in SUBSET accepted : durable' = durable \cup more
  /\ UNCHANGED <<accepted, answer>>

Acknowledge(c) ==
  /\ c \in durable
  /\ Tell(c, "ok")
  /\ UNCHANGED <<accepted, durable>>

Fail(c) ==
  /\ answer[c] = "waiting"
  /\ Tell(c, "failed")
  /\ UNCHANGED <<accepted, durable>>

LoseCallers == answer' = [c \in Calls |-> IF answer[c] = "waiting" THEN "lost" ELSE answer[c]]

\* A stop may still save; a restart goes on from what was saved.
Stop ==
  /\ \E more \in SUBSET accepted : durable' = durable \cup more
  /\ LoseCallers
  /\ UNCHANGED accepted

Restart ==
  /\ accepted' = durable
  /\ LoseCallers
  /\ UNCHANGED durable

Next ==
  \/ \E c \in Calls : Accept(c) \/ Refuse(c) \/ Acknowledge(c) \/ Fail(c)
  \/ Save \/ Stop \/ Restart

Spec == Init /\ [][Next]_<<accepted, durable, answer>>
=============================================================================
