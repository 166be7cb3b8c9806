----------------------------- MODULE PatchParser -----------------------------
(***************************************************************************)
(* validate_patch of gitops.py: the line-by-line parser that decides what a*)
(* proposed patch is, which files it changes and how many lines, before Git*)
(* ever sees it.  Its difficulty is that a line has no meaning of its own: *)
(* "--- a/x" is a header or the removal of "-- a/x", as the counts of the  *)
(* hunk header before it say.                                              *)
(*                                                                         *)
(* Lines are drawn from kinds; the parser is compared with the grammar of   *)
(* whole texts in PatchGrammar.                                             *)
(***************************************************************************)
EXTENDS PatchGrammar

CONSTANTS
    FileLimits,         \* values of maximum_files
    MaxLines,           \* bound: lines of a patch
    None

ASSUME ParserAssumption ==
    /\ None \notin Paths
    /\ FileLimits \subseteq Nat
    /\ MaxLines \in Nat

VARIABLES
    maximumFiles,       \* the limit of this call
    text, ended,        \* the lines read so far; nothing follows them
    at, index,          \* what is expected next, and how many lines are consumed
    paths, changed,     \* the plan so far
    path,               \* the path the headers of this section must have, or None
    hunks, want, seen,  \* hunks of the section; the counts of the open one
    marker,             \* a no-newline marker may follow
    verdict             \* "none", "accepted" or "rejected"

vars == <<maximumFiles, text, ended, at, index, paths, changed, path, hunks, want, seen, marker,
          verdict>>

Git == GitFormat(text)

Counts == [old : Nat, new : Nat]

TypeOK ==
    /\ maximumFiles \in FileLimits
    /\ text \in Seq(Line) /\ ended \in BOOLEAN
    /\ at \in {"section", "index", "old", "new", "hunks", "body"}
    /\ index \in 0..Len(text)
    /\ paths \in Seq(Paths) /\ changed \in Nat
    /\ path \in Paths \cup {None}
    /\ hunks \in Nat /\ want \in Counts
    /\ seen \in [old : 0..want.old, new : 0..want.new]
    /\ marker \in BOOLEAN
    /\ verdict \in {"none", "accepted", "rejected"}

Zero == [old |-> 0, new |-> 0]

Init ==
    /\ maximumFiles \in FileLimits
    /\ text = <<>> /\ ended = FALSE
    /\ at = "section" /\ index = 0
    /\ paths = <<>> /\ changed = 0 /\ path = None
    /\ hunks = 0 /\ want = Zero /\ seen = Zero
    /\ marker = FALSE
    /\ verdict = "none"

----------------------------------------------------------------------------
(* The parser.  A line becomes known when the parser looks at it.           *)

plan == <<paths, changed>>
section == <<path, hunks, want, seen, marker>>

Running == verdict = "none"

\* An empty patch is refused before it is parsed.
More ==
    /\ Running /\ ~ended /\ index = Len(text)
    /\ \/ Len(text) < MaxLines /\ (\E l \in Line : text' = Append(text, l)) /\ UNCHANGED ended
       \/ text # <<>> /\ ended' = TRUE /\ UNCHANGED text
    /\ UNCHANGED <<maximumFiles, at, index, plan, section, verdict>>

AtEnd == ended /\ index = Len(text)
HasLine == index < Len(text)
Current == text[index + 1]
Looks(stage) ==
    Running /\ at = stage /\ (HasLine \/ AtEnd) /\ UNCHANGED <<maximumFiles, text, ended>>

\* Slip: the lines of a hunk are counted and not passed.
Linger(stage) ==
    at' = stage /\ index' = (IF stage = "body" THEN index ELSE index + 1) /\ UNCHANGED verdict

Consume(stage) == at' = stage /\ index' = index + 1 /\ UNCHANGED verdict
Skip(stage) == at' = stage /\ UNCHANGED <<index, verdict>>
Refuse == verdict' = "rejected" /\ UNCHANGED <<at, index, plan, section>>

\* The end of the text, where a section could start.
Finish ==
    /\ Looks("section") /\ AtEnd
    /\ verdict' = IF paths # <<>> /\ changed > 0 THEN "accepted" ELSE "rejected"
    /\ UNCHANGED <<at, index, plan, section>>

\* A section: "diff --git" with one path in a Git patch, "---" otherwise.
Section ==
    /\ Looks("section") /\ HasLine
    /\ \/ /\ Git /\ Current.kind = "diff" /\ Current.before = Current.after
          /\ path' = Current.before /\ Consume("index")
          /\ UNCHANGED <<plan, hunks, want, seen, marker>>
       \/ /\ ~Git /\ Current.kind = "old"
          /\ path' = None /\ Skip("old")
          /\ UNCHANGED <<plan, hunks, want, seen, marker>>
       \/ /\ IF Git THEN Current.kind = "diff" => Current.before # Current.after
                    ELSE Current.kind # "old"
          /\ Refuse

\* The optional index line.
Index ==
    /\ Looks("index")
    /\ IF HasLine /\ Current.kind = "index" THEN Consume("old") ELSE Skip("old")
    /\ UNCHANGED <<plan, section>>

\* _headers: "---" with the expected path,
OldHeader ==
    /\ Looks("old")
    /\ IF HasLine /\ Current.kind = "old" /\ path \in {None, Current.path}
       THEN /\ path' = Current.path /\ Consume("new")
            /\ UNCHANGED <<plan, hunks, want, seen, marker>>
       ELSE Refuse

\* Slip: a file may come again.
AnyPath == Current.path = path

\* then "+++" with the same path, of a file not seen before.
NewPath == Current.path = path /\ \A i \in DOMAIN paths : paths[i] # path

NewHeader ==
    /\ Looks("new")
    /\ IF HasLine /\ Current.kind = "new" /\ NewPath
       THEN /\ paths' = Append(paths, path) /\ hunks' = 0 /\ Consume("hunks")
            /\ UNCHANGED <<changed, path, want, seen, marker>>
       ELSE Refuse

\* A hunk header, or the end of the section and the limits.
Hunks ==
    /\ Looks("hunks")
    /\ IF HasLine /\ Current.kind = "hunk"
       THEN /\ want' = [old |-> Current.old, new |-> Current.new] /\ seen' = Zero
            /\ hunks' = hunks + 1 /\ marker' = FALSE
            /\ Consume("body") /\ UNCHANGED <<plan, path>>
       ELSE IF hunks > 0 /\ Len(paths) <= maximumFiles /\ changed <= MaxChanged
       THEN Skip("section") /\ UNCHANGED <<plan, section>>
       ELSE Refuse

Open == seen.old < want.old \/ seen.new < want.new

After(l) == [old |-> seen.old + (IF OldSide(l) THEN 1 ELSE 0),
             new |-> seen.new + (IF NewSide(l) THEN 1 ELSE 0)]

\* Slip: a hunk may have more lines on one side than it declares.
FitsEither(l) == OldSide(l) \/ NewSide(l)

\* Slip: what looks like a header is one, also in a hunk.
FitsUnlikeHeader(l) ==
    /\ l.kind \in {"context", "removed", "added"}
    /\ After(l).old <= want.old /\ After(l).new <= want.new

\* A line of the open hunk: it counts on its sides, up to the declared numbers.
Fits(l) ==
    /\ OldSide(l) \/ NewSide(l)
    /\ After(l).old <= want.old /\ After(l).new <= want.new

\* A no-newline marker, after a body line.
Marks(l) == l.kind = "marker" /\ marker

Body ==
    /\ Looks("body") /\ Open
    /\ \/ /\ HasLine /\ Fits(Current)
          /\ seen' = After(Current) /\ marker' = TRUE
          /\ changed' = changed + (IF Change(Current) THEN 1 ELSE 0)
          /\ Consume("body") /\ UNCHANGED <<paths, path, hunks, want>>
       \/ /\ HasLine /\ Marks(Current)
          /\ marker' = FALSE
          /\ Consume("body") /\ UNCHANGED <<plan, path, hunks, want, seen>>
       \/ ~(HasLine /\ (Fits(Current) \/ Marks(Current))) /\ Refuse

\* The hunk is complete; one more marker may follow.
HunkEnd ==
    /\ Looks("body") /\ ~Open
    /\ IF HasLine /\ Current.kind = "marker" THEN Consume("hunks") ELSE Skip("hunks")
    /\ UNCHANGED <<plan, section>>

\* The next patch.
Again ==
    /\ ~Running
    /\ maximumFiles' \in FileLimits
    /\ text' = <<>> /\ ended' = FALSE
    /\ at' = "section" /\ index' = 0
    /\ paths' = <<>> /\ changed' = 0 /\ path' = None
    /\ hunks' = 0 /\ want' = Zero /\ seen' = Zero
    /\ marker' = FALSE
    /\ verdict' = "none"

Next ==
    \/ More \/ Finish \/ Section \/ Index \/ OldHeader \/ NewHeader \/ Hunks
    \/ Body \/ HunkEnd \/ Again

Spec == Init /\ [][Next]_vars

----------------------------------------------------------------------------
(* Properties.                                                               *)

\* What is accepted is a patch to the last line, and the plan that is reviewed and
\* authorised names its files, in order, and the number of lines it changes.
AcceptedIsPatch ==
    verdict = "accepted" =>
       \E f \in Assignments(text) :
          /\ Complete(text, f, maximumFiles)
          /\ changed = Cardinality(Changes(text, f))
          /\ Len(paths) = Cardinality(With(f, "new"))
          /\ \A i \in With(f, "new") :
                text[i].path = paths[Cardinality({j \in With(f, "new") : j <= i})]

\* What is refused is no patch, and could not have become one: the parser never
\* refuses because it lost its place.
RefusedIsNone ==
    verdict = "rejected" =>
       ~\E f \in Assignments(text) : IF AtEnd THEN Complete(text, f, maximumFiles)
                                     ELSE Viable(text, f, maximumFiles)

\* How far the parser is.  Between two lines it comes through the stages in this
\* order: the loop over hunks ends where the loop over sections goes on.
Order == [body |-> 0, hunks |-> 1, section |-> 2, index |-> 3, old |-> 4, new |-> 5]
Place == 6 * index + Order[at]

\* None of the nested loops goes round without moving on: every step on a known text
\* gets further in it, so a text of n lines takes at most 6 * (n + 1) of them.
NeverLoops ==
    [][Running /\ Running' /\ UNCHANGED <<text, ended>> => Place' > Place]_vars
=============================================================================
