---------------------------- MODULE PatchGrammar -----------------------------
(***************************************************************************)
(* What a patch is that validate_patch of gitops.py may accept: a grammar  *)
(* that looks at the whole text at once.  A line has no meaning of its own:*)
(* "--- a/x" is a header or the removal of "-- a/x".  A text is a patch if *)
(* its lines can be given roles that follow each other as they should, so  *)
(* that every hunk holds what it declares.                                 *)
(***************************************************************************)
EXTENDS Naturals, Sequences, FiniteSets

CONSTANTS
    Paths,              \* well-formed paths the workspace allows
    MaxChanged,         \* maximum_changed_lines
    MaxCount            \* bound: line counts in hunk headers

ASSUME GrammarAssumption == MaxChanged \in Nat /\ MaxCount \in Nat

\* Kinds of lines.  "removed" and "added" stand for every other line with that
\* first character, headers with unusable paths included; "other" for anything
\* else, forbidden metadata and malformed headers included.
Line ==
    [kind : {"diff"}, before : Paths, after : Paths]
    \cup [kind : {"old", "new"}, path : Paths]
    \cup [kind : {"hunk"}, old : 0..MaxCount, new : 0..MaxCount]
    \cup [kind : {"context", "removed", "added", "marker", "index", "other"}]

OldSide(l) == l.kind \in {"context", "removed", "old"}
NewSide(l) == l.kind \in {"context", "added", "new"}
Change(l)  == l.kind \in {"removed", "old", "added", "new"}

----------------------------------------------------------------------------
(* The role of a line is its kind, or "body".                               *)

\* Only header-like lines have a choice: b is the set of those in hunk bodies.
HeaderLike(t) == {i \in DOMAIN t : t[i].kind \in {"old", "new"}}

Role(t, i, b) ==
    IF i \in b \/ t[i].kind \in {"context", "removed", "added"} THEN "body" ELSE t[i].kind

Assignments(t) == {[i \in DOMAIN t |-> Role(t, i, b)] : b \in SUBSET HeaderLike(t)}

GitFormat(t) == t[1].kind = "diff"

\* What may come before a line with that role; "start" is before the first.
Before(t, role) ==
    CASE role = "diff"   -> IF GitFormat(t) THEN {"start", "hunk", "body", "marker"} ELSE {}
      [] role = "index"  -> {"diff"}
      [] role = "old"    -> IF GitFormat(t) THEN {"diff", "index"}
                            ELSE {"start", "hunk", "body", "marker"}
      [] role = "new"    -> {"old"}
      [] role = "hunk"   -> {"new", "hunk", "body", "marker"}
      [] role = "body"   -> {"hunk", "body", "marker"}
      [] role = "marker" -> {"hunk", "body"}
      [] role = "other"  -> {}

With(f, role) == {i \in DOMAIN f : f[i] = role}

\* The lines of the hunk whose header is line h.
Lines(f, h) ==
    {i \in With(f, "body") : i > h /\ \A j \in (h + 1)..i : f[j] \in {"body", "marker"}}

OldLines(t, f, h) == Cardinality({i \in Lines(f, h) : OldSide(t[i])})
NewLines(t, f, h) == Cardinality({i \in Lines(f, h) : NewSide(t[i])})

Exact(t, f, h)  == OldLines(t, f, h) = t[h].old /\ NewLines(t, f, h) = t[h].new
Within(t, f, h) == OldLines(t, f, h) <= t[h].old /\ NewLines(t, f, h) <= t[h].new

Changes(t, f) == {i \in With(f, "body") : Change(t[i])}

\* The roles of the first lines of t, as many as f has, follow each other, and no
\* hunk holds too much.
Shape(t, f) ==
    /\ \A i \in DOMAIN f : (IF i = 1 THEN "start" ELSE f[i - 1]) \in Before(t, f[i])
    /\ \A i \in With(f, "marker") : f[i - 1] = "hunk" => t[i - 1].old + t[i - 1].new = 0
    /\ \A h \in With(f, "hunk") :
          /\ Within(t, f, h)
          /\ (\E i \in DOMAIN f : i > h /\ f[i] \notin {"body", "marker"}) => Exact(t, f, h)
    /\ \A i \in With(f, "diff") : t[i].before = t[i].after
    /\ \A i \in With(f, "old") : /\ GitFormat(t) => \A d \in {i - 1, i - 2} \cap With(f, "diff") :
                                                         t[d].before = t[i].path
                                 /\ i + 1 \in DOMAIN f => t[i + 1].path = t[i].path
    /\ \A i, j \in With(f, "new") : t[i].path = t[j].path => i = j

\* A text that could still become a patch of no more than that many files.
Viable(t, f, files) ==
    /\ Shape(t, f)
    /\ Cardinality(With(f, "new")) <= files
    /\ Cardinality(Changes(t, f)) <= MaxChanged

Complete(t, f, files) ==
    /\ Viable(t, f, files)
    /\ f[Len(t)] \in {"hunk", "body", "marker"}
    /\ \A h \in With(f, "hunk") : Exact(t, f, h)
    /\ Changes(t, f) # {}
=============================================================================
