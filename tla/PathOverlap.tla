----------------------------- MODULE PathOverlap -----------------------------
(***************************************************************************)
(* When two path patterns of leases are taken to overlap                   *)
(* (paths_overlap, glob_prefix and normalize_path in src/src/orch/mod.rs): *)
(* OrchState takes the answer as its constant Overlap.                     *)
(*                                                                         *)
(* A path is the sequence of what stands between its slashes: "a//b" is    *)
(* <<"a", "", "b">>, "/" is <<"", "">> and the empty text is <<"">>.  A    *)
(* segment with a glob character is one of Globs.  Someone types two       *)
(* patterns, segment by segment.                                           *)
(***************************************************************************)
EXTENDS Naturals, Sequences, SequencesExt

CONSTANTS Names,      \* segments that name a file or a directory
          Stars,      \* the names each glob segment, "**" among them, stands for
          Fillers,    \* further segments: subset of {"", "."}
          MaxLen      \* bound: segments in a pattern

Globs == DOMAIN Stars
Segments == Names \cup Globs \cup Fillers

\* What the constants stand for.
PatternAssumption ==
  /\ Fillers \subseteq {"", "."}
  /\ "**" \in Globs /\ Names \cap Globs = {} /\ (Names \cup Globs) \cap {"", "."} = {}
  /\ MaxLen \in Nat

VARIABLES one, two    \* the two patterns

patternVars == <<one, two>>

-----------------------------------------------------------------------------
(* The code.                                                               *)

\* while let Some(stripped) = path.strip_prefix("./"): a last "." stays.
StripHere(path) ==
  LET kept == {i \in 1..Len(path) : path[i] # "." \/ i = Len(path)}
  IN  IF path = <<>> THEN path ELSE SubSeq(path, Min(kept), Len(path))

\* while path.contains("//"): of empty segments in a row one is left at an end
\* and none within.
Collapse(path) ==
  LET out[i \in 0..Len(path)] ==
        IF i = 0 THEN <<>>
        ELSE IF i \in 2..Len(path) - 1 /\ path[i] = "" THEN out[i - 1]
        ELSE Append(out[i - 1], path[i])
  IN  out[Len(path)]

normalize_path(path) == Collapse(StripHere(path))

TrimEnd(path) ==
  SubSeq(path, 1, Max({1} \cup {i \in 1..Len(path) : path[i] # ""}))

\* Everything before the first segment with a glob character
Literal(path) ==
  LET globs == {i \in 1..Len(path) : path[i] \in Globs}
  IN  SubSeq(path, 1, Min(globs \cup {Len(path) + 1}) - 1)

glob_prefix(p) ==
  LET literal == Literal(normalize_path(p))
  IN  IF literal = <<>> THEN <<"">> ELSE TrimEnd(literal)

Empty(prefix) == prefix = <<"">>

\* Only the shorter pattern first.
OverlapsDown(a, b) ==
  LET x == glob_prefix(a)
      y == glob_prefix(b)
  IN  Empty(x) \/ Empty(y) \/ IsPrefix(x, y)

paths_overlap(a, b) ==
  LET x == glob_prefix(a)
      y == glob_prefix(b)
  IN  Empty(x) \/ Empty(y) \/ IsPrefix(x, y) \/ IsPrefix(y, x)

\* validate_paths refuses a blank path
Blank(path) == path = <<>> \/ normalize_path(path) = <<"">>

PatternInit == one = <<>> /\ two = <<>>

TypeSegment ==
  \E s \in Segments :
    \/ Len(one) < MaxLen /\ one' = Append(one, s) /\ two' = two
    \/ Len(two) < MaxLen /\ two' = Append(two, s) /\ one' = one

PatternSpec == PatternInit /\ [][TypeSegment]_patternVars

-----------------------------------------------------------------------------
(* The reference: the files of a repository a pattern covers.  A directory *)
(* covers what is below it, "." and empty segments change nothing.         *)

Files == UNION {[1..n -> Names] : n \in 1..MaxLen}

\* A segment covers the names of a file between two cuts.
Between(segment, file, from, to) ==
  \/ segment \in {"", "."} /\ to = from
  \/ segment = "**" /\ to >= from
  \/ /\ to = from + 1
     /\ \/ segment = file[to]
        \/ segment \in Globs /\ file[to] \in Stars[segment]

\* Where a file can be cut after each segment of the pattern.
Cuts(pattern, file) ==
  LET cuts[i \in 0..Len(pattern)] ==
        IF i = 0 THEN {0}
        ELSE {to \in 0..Len(file) :
                \E from \in cuts[i - 1] : Between(pattern[i], file, from, to)}
  IN  cuts

Covers(pattern, file) == Cuts(pattern, file)[Len(pattern)] # {}

\* A pattern that is typed with a slash in front is no path of the repository.
Covered(pattern) == {f \in Files : pattern[1] # "" /\ Covers(pattern, f)}

-----------------------------------------------------------------------------
(* Properties.                                                             *)

Accepted == ~Blank(one) /\ ~Blank(two)

\* "Conservative directory-prefix overlap between two path patterns": patterns
\* that cover a common file overlap, so that two workers never get leases on
\* the same file.  The code misses some with ".": to it "." and "a/./b" are not
\* above or at "a/b", and ".//a" is "/a", as "./" is stripped before "//" is
\* collapsed.
Conservative ==
  Accepted /\ ~paths_overlap(one, two) => Covered(one) \cap Covered(two) = {}

\* "." is written in front only, with one slash after it: "./a".
InFront(pattern) ==
  \A i \in 1..Len(pattern) : pattern[i] = "." =>
    /\ \A j \in 1..i : pattern[j] = "."
    /\ i < Len(pattern) /\ pattern[i + 1] # ""

\* For such patterns the overlap is conservative.
SharedFilesOverlap == InFront(one) /\ InFront(two) => Conservative

\* The answer does not depend on which of the two was held first.
Symmetric == Accepted => (paths_overlap(one, two) <=> paths_overlap(two, one))

\* Leases are not refused without need: plain paths to different files that are
\* not below each other do not overlap ("src/a" and "src/ab").
PlainApart ==
  (Accepted /\ ToSet(one) \cup ToSet(two) \subseteq Names
   /\ ~IsPrefix(one, two) /\ ~IsPrefix(two, one)) => ~paths_overlap(one, two)

\* A stored path is found again: normalising is done once and for all, by the
\* first normalize_path (bind_task_paths compares stored paths).
NormalStays == Accepted => normalize_path(normalize_path(one)) = normalize_path(one)

\* paths_overlap recognises every pair with a common file, in either order, and
\* no plain pair without one; stored paths are normal.
OverlapSound == SharedFilesOverlap /\ Symmetric /\ PlainApart /\ NormalStays
=============================================================================
