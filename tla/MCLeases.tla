------------------------------ MODULE MCLeases ------------------------------
(***************************************************************************)
(* Leases on real patterns.  The overlap of the paths that OrchLedger      *)
(* takes as a constant is here what PathOverlap computes for them, so that *)
(* a lease can be compared with the files its patterns cover.              *)
(*                                                                         *)
(* Two independent systems in one run: `part` says whether the ledger      *)
(* runs or somebody types two patterns; the other keeps its initial state. *)
(***************************************************************************)
EXTENDS OrchLedger, PathOverlap, TLC

ASSUME PatternsAssumed == PatternAssumption

\* Two names of which one begins with the other, and three glob segments.
AllStars == ("*" :> {"a", "ab"} @@ "ab*" :> {"ab"} @@ "**" :> {})

\* "a/*" and "a/ab*" overlap without being equal, the third stands apart.
LeasePaths == {<<"a", "*">>, <<"a", "ab*">>, <<"ab">>}
LeaseOverlap == {<<p, q>> \in LeasePaths \X LeasePaths :
                   paths_overlap(normalize_path(p), normalize_path(q))}

\* validate_paths accepts them (the hypothesis of LeasedFilesApart).
ASSUME PathsAccepted ==
  \A p \in LeasePaths : p \in Seq(Segments) /\ ~Blank(p) /\ InFront(p)

\* Two workspaces that are unrelated, and a task without a project.
LeaseProjects == {"main", "other"}
LeasePairs == {<<p, p>> : p \in LeaseProjects}
Nowhere == "none"

Template(paths, project) ==
  [paths |-> paths, gate |-> FALSE, project |-> project, auto |-> FALSE]

LeaseTemplates ==
  {Template({<<"a", "*">>}, "main"), Template({<<"a", "ab*">>}, Nowhere)}
LeaseSets == {{<<"a", "ab*">>}}

-----------------------------------------------------------------------------
VARIABLE part

LeasesInit == Init /\ PatternInit /\ part \in {"ledger", "patterns"}

LedgerStep == part = "ledger" /\ Next /\ UNCHANGED <<part, patternVars>>
TypeStep == part = "patterns" /\ TypeSegment /\ UNCHANGED <<part, vars>>

LeasesNext == LedgerStep \/ TypeStep

LeasesSpec == LeasesInit /\ [][LeasesNext]_<<part, vars, patternVars>>
=============================================================================
