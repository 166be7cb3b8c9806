-------------------------- MODULE PatchGrammarProofs --------------------------
(***************************************************************************)
(* The grammar of patches read from the first line to the last: when the   *)
(* roles of the first n + 1 lines have the shape of a patch, given those of*)
(* the first n.  The parser decides line by line; these lemmas are what its*)
(* decisions mean for the whole text.                                      *)
(***************************************************************************)
EXTENDS PatchGrammar, FiniteSetTheorems, WellFoundedInduction, TLAPS

LEMMA Bounds == MaxChanged \in Nat /\ MaxCount \in Nat
BY GrammarAssumption

\* A set of natural numbers has a least one: what stands in for induction.
LEMMA Least ==
    ASSUME NEW T \in SUBSET Nat, T # {}
    PROVE  \E m \in T : \A k \in T : m <= k
<1> DEFINE R == {x \in Nat \X Nat : x[1] < x[2]}
<1>1. IsWellFoundedOn(OpToRel(<, Nat), Nat)
  BY NatLessThanWellFounded, Zenon
<1>2. IsWellFoundedOn(R, Nat)
  BY <1>1, Zenon DEF OpToRel
<1>3. \A x, y \in Nat : y < x => <<y, x>> \in R
  OBVIOUS
<1> HIDE DEF R
<1>4. \E x \in T : \A y \in T : ~(<<y, x>> \in R)
  BY <1>2, WFMin
<1>5. \A x, y \in Nat : ~(y < x) => x <= y
  OBVIOUS
<1> QED BY <1>3, <1>4, <1>5

----------------------------------------------------------------------------
(* Lines and their roles.                                                    *)

Roles == {"diff", "index", "old", "new", "hunk", "body", "marker", "other"}

\* The roles a line may have.
May(l) ==
    (IF l.kind \in {"context", "removed", "added"} THEN {} ELSE {l.kind})
    \cup (IF OldSide(l) \/ NewSide(l) THEN {"body"} ELSE {})

LEMMA LineKinds ==
    ASSUME NEW l \in Line
    PROVE  l.kind \in {"diff", "old", "new", "hunk", "context", "removed", "added", "marker",
                       "index", "other"}
BY DEF Line

LEMMA HunkLine ==
    ASSUME NEW l \in Line, l.kind = "hunk"
    PROVE  l.old \in 0..MaxCount /\ l.new \in 0..MaxCount /\ l.old \in Nat /\ l.new \in Nat
BY Bounds DEF Line

LEMMA HeaderLine ==
    ASSUME NEW l \in Line, l.kind \in {"old", "new"}
    PROVE  l.path \in Paths
BY DEF Line

LEMMA DiffLine ==
    ASSUME NEW l \in Line, l.kind = "diff"
    PROVE  l.before \in Paths
BY DEF Line

\* A line is what it says it is, or a line of a hunk.
LEMMA RoleOfLine ==
    ASSUME NEW l \in Line, NEW r \in May(l)
    PROVE  /\ r \in Roles
           /\ r # "body" => l.kind = r
           /\ r = "body" => OldSide(l) \/ NewSide(l)
BY LineKinds DEF May, Roles, OldSide, NewSide

\* The ways to read the first n lines.
Readings(t, n) == {f \in [1..n -> Roles] : \A i \in 1..n : f[i] \in May(t[i])}

\* The assignments of the grammar are the ways to read the whole text.
LEMMA AssignmentsAreReadings ==
    ASSUME NEW t \in Seq(Line)
    PROVE  Assignments(t) = Readings(t, Len(t))
<1>1. DOMAIN t = 1..Len(t) /\ Len(t) \in Nat /\ \A i \in 1..Len(t) : t[i] \in Line
  OBVIOUS
<1>2. ASSUME NEW b \in SUBSET HeaderLike(t)
      PROVE  [i \in DOMAIN t |-> Role(t, i, b)] \in Readings(t, Len(t))
  <2>1. ASSUME NEW i \in 1..Len(t)
        PROVE  Role(t, i, b) \in May(t[i]) /\ Role(t, i, b) \in Roles
    <3>1. i \in b => t[i].kind \in {"old", "new"}
      BY <1>2 DEF HeaderLike
    <3>2. t[i].kind \in {"diff", "old", "new", "hunk", "context", "removed", "added", "marker",
                         "index", "other"}
      BY <1>1, LineKinds
    <3> HIDE DEF HeaderLike
    <3> QED BY <3>1, <3>2 DEF Role, May, Roles, OldSide, NewSide
  <2> QED BY <1>1, <2>1 DEF Readings
<1>3. ASSUME NEW f \in Readings(t, Len(t))
      PROVE  f \in Assignments(t)
  <2> DEFINE b == {i \in HeaderLike(t) : f[i] = "body"}
  <2>1. f \in [1..Len(t) -> Roles] /\ \A i \in 1..Len(t) : f[i] \in May(t[i])
    BY DEF Readings
  <2>2. ASSUME NEW i \in 1..Len(t)
        PROVE  f[i] = Role(t, i, b)
    <3>1. i \in b <=> (t[i].kind \in {"old", "new"} /\ f[i] = "body")
      BY <1>1 DEF HeaderLike
    <3>2. t[i].kind \in {"diff", "old", "new", "hunk", "context", "removed", "added", "marker",
                         "index", "other"}
      BY <1>1, LineKinds
    <3>3. f[i] \in May(t[i])
      BY <2>1
    <3> HIDE DEF b
    <3> QED BY <3>1, <3>2, <3>3 DEF Role, May, OldSide, NewSide
  <2>3. b \in SUBSET HeaderLike(t)
    OBVIOUS
  <2> HIDE DEF b
  <2>4. f = [i \in DOMAIN t |-> Role(t, i, b)]
    BY <1>1, <2>1, <2>2
  <2> QED BY <2>3, <2>4 DEF Assignments
<1> QED BY <1>2, <1>3 DEF Assignments

----------------------------------------------------------------------------
(* One more line: f reads the first n + 1 lines, its First(f, n) the others.  *)

First(f, n) == [i \in 1..n |-> f[i]]
Then(g, n, r) == [i \in 1..(n + 1) |-> IF i = n + 1 THEN r ELSE g[i]]

\* The role of the line before the next.
Last(g, n) == IF n = 0 THEN "start" ELSE g[n]

\* The next line can belong to the hunk of header h.
Reaches(g, n, h) == h \in With(g, "hunk") /\ \A j \in (h + 1)..n : g[j] \in {"body", "marker"}

One(b) == IF b THEN 1 ELSE 0

\* The line after the first n may have role r.
Follows(t, g, n, r) ==
    /\ Last(g, n) \in Before(t, r)
    /\ r = "marker" /\ Last(g, n) = "hunk" => t[n].old + t[n].new = 0
    /\ \A h \in With(g, "hunk") :
          /\ r = "body" /\ Reaches(g, n, h) =>
                /\ OldLines(t, g, h) + One(OldSide(t[n + 1])) <= t[h].old
                /\ NewLines(t, g, h) + One(NewSide(t[n + 1])) <= t[h].new
          /\ r \notin {"body", "marker"} => Exact(t, g, h)
    /\ r = "diff" => t[n + 1].before = t[n + 1].after
    /\ r = "old" /\ GitFormat(t) =>
          \A d \in {n, n - 1} \cap With(g, "diff") : t[d].before = t[n + 1].path
    /\ Last(g, n) = "old" => t[n + 1].path = t[n].path
    /\ r = "new" => \A j \in With(g, "new") : t[j].path # t[n + 1].path

LEMMA ReadingType ==
    ASSUME NEW t, NEW n \in Nat, NEW f \in Readings(t, n)
    PROVE  /\ f \in [1..n -> Roles] /\ DOMAIN f = 1..n
           /\ \A i \in 1..n : f[i] \in May(t[i])
           /\ \A role : With(f, role) \subseteq 1..n
           /\ \A role, i : i \in With(f, role) <=> i \in 1..n /\ f[i] = role
BY DEF Readings, With

LEMMA FirstType ==
    ASSUME NEW t, NEW n \in Nat, NEW f \in Readings(t, n + 1)
    PROVE  /\ First(f, n) \in Readings(t, n)
           /\ \A i \in 1..n : First(f, n)[i] = f[i]
           /\ f[n + 1] \in May(t[n + 1]) /\ f[n + 1] \in Roles
           /\ f = Then(First(f, n), n, f[n + 1])
<1>1. f \in [1..(n + 1) -> Roles] /\ \A i \in 1..(n + 1) : f[i] \in May(t[i])
  BY DEF Readings
<1>2. 1..n \subseteq 1..(n + 1) /\ n + 1 \in 1..(n + 1) /\ \A i \in 1..(n + 1) : i = n + 1 \/ i \in 1..n
  OBVIOUS
<1>3. First(f, n) \in [1..n -> Roles] /\ \A i \in 1..n : First(f, n)[i] = f[i]
  BY <1>1, <1>2 DEF First
<1>4. First(f, n) \in Readings(t, n)
  BY <1>1, <1>2, <1>3 DEF Readings
<1>5. \A i \in 1..(n + 1) : f[i] = Then(First(f, n), n, f[n + 1])[i]
  BY <1>2, <1>3 DEF Then
<1>6. f = Then(First(f, n), n, f[n + 1])
  BY <1>1, <1>5 DEF Then
<1> QED BY <1>1, <1>2, <1>3, <1>4, <1>6

LEMMA ThenType ==
    ASSUME NEW t, NEW n \in Nat, NEW g \in Readings(t, n),
           NEW r \in May(t[n + 1]) \cap Roles
    PROVE  /\ Then(g, n, r) \in Readings(t, n + 1)
           /\ First(Then(g, n, r), n) = g
           /\ Then(g, n, r)[n + 1] = r
           /\ \A i \in 1..n : Then(g, n, r)[i] = g[i]
<1>1. g \in [1..n -> Roles] /\ \A i \in 1..n : g[i] \in May(t[i])
  BY DEF Readings
<1>2. n + 1 \notin 1..n /\ n + 1 \in 1..(n + 1) /\ 1..n \subseteq 1..(n + 1)
      /\ \A i \in 1..(n + 1) : i = n + 1 \/ i \in 1..n
  OBVIOUS
<1>3. /\ Then(g, n, r) \in [1..(n + 1) -> Roles]
      /\ Then(g, n, r)[n + 1] = r /\ \A i \in 1..n : Then(g, n, r)[i] = g[i]
  BY <1>1, <1>2 DEF Then
<1>4. Then(g, n, r) \in Readings(t, n + 1)
  BY <1>1, <1>2, <1>3 DEF Readings
<1>5. First(Then(g, n, r), n) = g
  BY <1>1, <1>3 DEF First
<1> QED BY <1>3, <1>4, <1>5

\* The lines with a role, and those of a hunk, one line further.
LEMMA WithStep ==
    ASSUME NEW t, NEW n \in Nat, NEW f \in Readings(t, n + 1), NEW role
    PROVE  /\ With(f, role) = With(First(f, n), role) \cup (IF f[n + 1] = role THEN {n + 1} ELSE {})
           /\ n + 1 \notin With(First(f, n), role)
<1>1. First(f, n) \in Readings(t, n) /\ \A i \in 1..n : First(f, n)[i] = f[i]
  BY FirstType
<1>2. n + 1 \notin 1..n /\ n + 1 \in Nat /\ \A i : i \in 1..(n + 1) <=> i = n + 1 \/ i \in 1..n
  OBVIOUS
<1>3. \A i : i \in With(f, role) <=> i \in 1..(n + 1) /\ f[i] = role
  BY <1>2, ReadingType
<1>4. \A i : i \in With(First(f, n), role) <=> i \in 1..n /\ First(f, n)[i] = role
  BY <1>1, ReadingType
<1> QED BY <1>1, <1>2, <1>3, <1>4

LEMMA HunkLines ==
    ASSUME NEW t, NEW n \in Nat, NEW f \in Readings(t, n), NEW h, NEW i
    PROVE  i \in Lines(f, h) <=> /\ i \in 1..n /\ f[i] = "body" /\ i > h
                                 /\ \A j \in (h + 1)..i : f[j] \in {"body", "marker"}
BY ReadingType DEF Lines

LEMMA LinesStep ==
    ASSUME NEW t, NEW n \in Nat, NEW f \in Readings(t, n + 1),
           NEW h \in With(First(f, n), "hunk")
    PROVE  /\ Lines(f, h) = Lines(First(f, n), h)
                            \cup (IF f[n + 1] = "body" /\ Reaches(First(f, n), n, h) THEN {n + 1} ELSE {})
           /\ n + 1 \notin Lines(First(f, n), h)
<1> DEFINE g == First(f, n)
<1>1. g \in Readings(t, n) /\ \A i \in 1..n : g[i] = f[i]
  BY FirstType
<1>2. h \in 1..n
  BY <1>1, ReadingType
<1> HIDE DEF g
<1>3. \A i : i \in 1..(n + 1) <=> i = n + 1 \/ i \in 1..n
  BY <1>2
<1>4. ASSUME NEW i \in 1..n
      PROVE  i \in Lines(f, h) <=> i \in Lines(g, h)
  <2>1. \A j \in (h + 1)..i : j \in 1..n
    BY <1>2, <1>4
  <2>2. \A j \in (h + 1)..i : g[j] = f[j]
    BY <1>1, <2>1
  <2>3. i \in 1..(n + 1) /\ n + 1 \in Nat
    BY <1>3
  <2>4. i \in Lines(f, h) <=> f[i] = "body" /\ i > h /\ \A j \in (h + 1)..i : f[j] \in {"body", "marker"}
    BY <2>3, HunkLines
  <2>5. i \in Lines(g, h) <=> g[i] = "body" /\ i > h /\ \A j \in (h + 1)..i : g[j] \in {"body", "marker"}
    BY <1>1, HunkLines
  <2> QED BY <1>1, <2>2, <2>4, <2>5
<1>5. n + 1 \in Lines(f, h) <=> f[n + 1] = "body" /\ Reaches(g, n, h)
  <2>1. n + 1 \in Lines(f, h) <=> f[n + 1] = "body" /\ \A j \in (h + 1)..(n + 1) : f[j] \in {"body", "marker"}
    BY <1>2, HunkLines
  <2>2. \A j : j \in (h + 1)..(n + 1) <=> j = n + 1 \/ j \in (h + 1)..n
    BY <1>2
  <2>3. \A j \in (h + 1)..n : j \in 1..n
    BY <1>2
  <2>4. \A j \in (h + 1)..n : g[j] = f[j]
    BY <1>1, <2>3
  <2>5. h \in With(g, "hunk")
    BY DEF g
  <2> QED BY <2>1, <2>2, <2>4, <2>5 DEF Reaches
<1>6. Lines(f, h) \subseteq 1..(n + 1)
  BY HunkLines
<1>7. Lines(g, h) \subseteq 1..n /\ n + 1 \notin 1..n
  BY <1>1, HunkLines
<1>8. Lines(f, h) = Lines(g, h) \cup (IF f[n + 1] = "body" /\ Reaches(g, n, h) THEN {n + 1} ELSE {})
  BY <1>3, <1>4, <1>5, <1>6, <1>7
<1> QED BY <1>7, <1>8 DEF g

\* Whatever is counted grows by at most one line.
LEMMA CountStep ==
    ASSUME NEW n \in Nat, NEW S \in SUBSET (1..n), NEW b \in BOOLEAN, NEW x, x \notin S
    PROVE  /\ Cardinality(S \cup (IF b THEN {x} ELSE {})) = Cardinality(S) + One(b)
           /\ Cardinality(S) \in Nat /\ IsFiniteSet(S)
<1>1. IsFiniteSet(1..n)
  BY FS_Interval
<1>2. IsFiniteSet(S)
  BY <1>1, FS_Subset
<1>3. Cardinality(S) \in Nat
  BY <1>2, FS_CardinalityType
<1>4. Cardinality(S \cup {x}) = Cardinality(S) + 1
  BY <1>2, FS_AddElement
<1>5. S \cup {} = S
  OBVIOUS
<1>6. CASE b
  BY <1>2, <1>3, <1>4, <1>6 DEF One
<1>7. CASE ~b
  BY <1>2, <1>3, <1>5, <1>7 DEF One
<1> QED BY <1>6, <1>7

LEMMA HunkCounts ==
    ASSUME NEW t, NEW n \in Nat, NEW f \in Readings(t, n), NEW h
    PROVE  OldLines(t, f, h) \in Nat /\ NewLines(t, f, h) \in Nat
<1>1. Lines(f, h) \subseteq 1..n
  BY HunkLines
<1>2. /\ {i \in Lines(f, h) : OldSide(t[i])} \in SUBSET (1..n)
      /\ {i \in Lines(f, h) : NewSide(t[i])} \in SUBSET (1..n)
  BY <1>1
<1>3. n + 1 \notin 1..n
  OBVIOUS
<1>4. \A S \in SUBSET (1..n) : Cardinality(S) \in Nat
  <2>1. TAKE S \in SUBSET (1..n)
  <2>2. TRUE \in BOOLEAN /\ n + 1 \notin S
    BY <1>3
  <2> QED BY <2>2, CountStep
<1> QED BY <1>2, <1>4 DEF OldLines, NewLines

\* The counts of a hunk, one line further.
LEMMA HunkCountsStep ==
    ASSUME NEW t, NEW n \in Nat, NEW f \in Readings(t, n + 1),
           NEW h \in With(First(f, n), "hunk"),
           NEW b, b = (f[n + 1] = "body" /\ Reaches(First(f, n), n, h))
    PROVE  /\ OldLines(t, f, h) = OldLines(t, First(f, n), h) + One(b /\ OldSide(t[n + 1]))
           /\ NewLines(t, f, h) = NewLines(t, First(f, n), h) + One(b /\ NewSide(t[n + 1]))
<1> DEFINE g == First(f, n)
<1>0. b \in BOOLEAN
  OBVIOUS
<1>1. Lines(f, h) = Lines(g, h) \cup (IF b THEN {n + 1} ELSE {}) /\ n + 1 \notin Lines(g, h)
  <2>1. /\ Lines(f, h) = Lines(g, h)
                          \cup (IF f[n + 1] = "body" /\ Reaches(g, n, h) THEN {n + 1} ELSE {})
        /\ n + 1 \notin Lines(g, h)
    BY LinesStep
  <2> HIDE DEF g
  <2>2. CASE b
    <3>1. f[n + 1] = "body" /\ Reaches(g, n, h)
      BY <2>2 DEF g
    <3> QED BY <2>1, <2>2, <3>1
  <2>3. CASE ~b
    <3>1. ~(f[n + 1] = "body" /\ Reaches(g, n, h))
      BY <2>3 DEF g
    <3> QED BY <2>1, <2>3, <3>1
  <2> QED BY <1>0, <2>2, <2>3
<1>2. g \in Readings(t, n)
  BY FirstType
<1> HIDE DEF g
<1>3. Lines(g, h) \subseteq 1..n
  BY <1>2, HunkLines
<1> DEFINE O == {i \in Lines(g, h) : OldSide(t[i])}
           N == {i \in Lines(g, h) : NewSide(t[i])}
<1>4. {i \in Lines(f, h) : OldSide(t[i])} = O \cup (IF b /\ OldSide(t[n + 1]) THEN {n + 1} ELSE {})
  BY <1>1
<1>5. {i \in Lines(f, h) : NewSide(t[i])} = N \cup (IF b /\ NewSide(t[n + 1]) THEN {n + 1} ELSE {})
  BY <1>1
<1>6. O \in SUBSET (1..n) /\ N \in SUBSET (1..n) /\ n + 1 \notin O /\ n + 1 \notin N
  BY <1>1, <1>3
<1>7. (b /\ OldSide(t[n + 1])) \in BOOLEAN /\ (b /\ NewSide(t[n + 1])) \in BOOLEAN
  BY <1>0 DEF OldSide, NewSide
<1> HIDE DEF O, N
<1>8. /\ Cardinality(O \cup (IF b /\ OldSide(t[n + 1]) THEN {n + 1} ELSE {}))
           = Cardinality(O) + One(b /\ OldSide(t[n + 1]))
      /\ Cardinality(N \cup (IF b /\ NewSide(t[n + 1]) THEN {n + 1} ELSE {}))
           = Cardinality(N) + One(b /\ NewSide(t[n + 1]))
  BY <1>6, <1>7, CountStep
<1> USE DEF O, N
<1> QED BY <1>4, <1>5, <1>8 DEF OldLines, NewLines, g

----------------------------------------------------------------------------
(* The shape of a text, one line further.                                    *)

\* A reading of one more line has the shape of a patch exactly if that of the
\* others has and the line may follow them.
LEMMA ShapeStep ==
    ASSUME NEW t \in Seq(Line), NEW n \in Nat, n < Len(t), NEW f \in Readings(t, n + 1)
    PROVE  Shape(t, f) <=> Shape(t, First(f, n)) /\ Follows(t, First(f, n), n, f[n + 1])
<1> DEFINE g == First(f, n)
           r == f[n + 1]
           Ordered(k) == \A i \in DOMAIN k : (IF i = 1 THEN "start" ELSE k[i - 1]) \in Before(t, k[i])
           Marked(k) == \A i \in With(k, "marker") : k[i - 1] = "hunk" => t[i - 1].old + t[i - 1].new = 0
           Counted(k) == \A h \in With(k, "hunk") :
                            /\ Within(t, k, h)
                            /\ (\E i \in DOMAIN k : i > h /\ k[i] \notin {"body", "marker"}) => Exact(t, k, h)
           Renames(k) == \A i \in With(k, "diff") : t[i].before = t[i].after
           Agrees(k) == \A i \in With(k, "old") :
                           /\ GitFormat(t) => \A d \in {i - 1, i - 2} \cap With(k, "diff") : t[d].before = t[i].path
                           /\ i + 1 \in DOMAIN k => t[i + 1].path = t[i].path
           Once(k) == \A i, j \in With(k, "new") : t[i].path = t[j].path => i = j
<1>1. \A k : Shape(t, k) <=> /\ Ordered(k) /\ Marked(k) /\ Counted(k) /\ Renames(k) /\ Agrees(k) /\ Once(k)
  BY DEF Shape
<1>2. /\ g \in Readings(t, n) /\ \A i \in 1..n : g[i] = f[i]
      /\ r \in May(t[n + 1])
  BY FirstType
<1>3. /\ DOMAIN f = 1..(n + 1) /\ DOMAIN g = 1..n
      /\ \A role : With(g, role) \subseteq 1..n
      /\ \A role, i : i \in With(g, role) <=> i \in 1..n /\ g[i] = role
  BY <1>2, ReadingType
<1>4. /\ n + 1 \notin 1..n
      /\ \A i : i \in 1..(n + 1) <=> i = n + 1 \/ i \in 1..n
      /\ \A i \in 1..n : i \in Nat /\ i > 0 /\ i < n + 1
  OBVIOUS
<1>5. \A role : With(f, role) = With(g, role) \cup (IF r = role THEN {n + 1} ELSE {})
  BY WithStep
<1>6. t[n + 1] \in Line /\ \A i \in 1..n : t[i] \in Line
  OBVIOUS
<1> HIDE DEF g, r
<1> DEFINE last == Last(g, n)
<1>7. Ordered(f) <=> Ordered(g) /\ last \in Before(t, r)
  <2>1. \A i \in 1..n : i # 1 => i - 1 \in 1..n
    OBVIOUS
  <2>2. \A i \in 1..n : (IF i = 1 THEN "start" ELSE f[i - 1]) = (IF i = 1 THEN "start" ELSE g[i - 1])
    BY <1>2, <2>1
  <2>3. (IF n + 1 = 1 THEN "start" ELSE f[(n + 1) - 1]) = last
    <3>1. n + 1 = 1 <=> n = 0
      OBVIOUS
    <3>2. n # 0 => n \in 1..n /\ (n + 1) - 1 = n
      OBVIOUS
    <3> QED BY <1>2, <3>1, <3>2 DEF Last
  <2> QED BY <1>2, <1>3, <1>4, <2>2, <2>3 DEF r
<1>8. ASSUME last \in Before(t, r), Ordered(g)
      PROVE  Marked(f) <=> Marked(g) /\ (r = "marker" /\ last = "hunk" => t[n].old + t[n].new = 0)
  <2>1. \A i \in With(g, "marker") : i # 1
    <3>1. TAKE i \in With(g, "marker")
    <3>2. SUFFICES ASSUME i = 1 PROVE FALSE
      OBVIOUS
    <3>3. "start" \in Before(t, "marker")
      BY <1>3, <1>8, <3>2
    <3> QED BY <3>3 DEF Before
  <2>2. \A i \in With(g, "marker") : i - 1 \in 1..n
    BY <1>3, <1>4, <2>1
  <2>3. \A i \in With(g, "marker") : f[i - 1] = g[i - 1]
    BY <1>2, <2>2
  <2>4. r = "marker" => n # 0
    BY <1>8 DEF Last, Before
  <2>5. r = "marker" => (n + 1) - 1 = n /\ f[(n + 1) - 1] = last
    <3>1. n # 0 => n \in 1..n
      OBVIOUS
    <3>2. (n + 1) - 1 = n
      OBVIOUS
    <3> QED BY <1>2, <2>4, <3>1, <3>2 DEF Last
  <2> HIDE DEF last
  <2> QED BY <1>5, <2>3, <2>5
<1>9. Counted(f) <=>
         /\ Counted(g)
         /\ \A h \in With(g, "hunk") :
               /\ r = "body" /\ Reaches(g, n, h) =>
                     /\ OldLines(t, g, h) + One(OldSide(t[n + 1])) <= t[h].old
                     /\ NewLines(t, g, h) + One(NewSide(t[n + 1])) <= t[h].new
               /\ r \notin {"body", "marker"} => Exact(t, g, h)
  <2> DEFINE P(h) ==
               /\ r = "body" /\ Reaches(g, n, h) =>
                     /\ OldLines(t, g, h) + One(OldSide(t[n + 1])) <= t[h].old
                     /\ NewLines(t, g, h) + One(NewSide(t[n + 1])) <= t[h].new
               /\ r \notin {"body", "marker"} => Exact(t, g, h)
             Good(k, h) == /\ Within(t, k, h)
                           /\ (\E i \in DOMAIN k : i > h /\ k[i] \notin {"body", "marker"}) => Exact(t, k, h)
  <2>1. ASSUME NEW h \in With(g, "hunk")
        PROVE  Good(f, h) <=> Good(g, h) /\ P(h)
    <3> DEFINE b == (r = "body" /\ Reaches(g, n, h))
    <3>1. /\ OldLines(t, f, h) = OldLines(t, g, h) + One(b /\ OldSide(t[n + 1]))
          /\ NewLines(t, f, h) = NewLines(t, g, h) + One(b /\ NewSide(t[n + 1]))
      BY HunkCountsStep DEF g, r
    <3>2. OldLines(t, g, h) \in Nat /\ NewLines(t, g, h) \in Nat
      BY <1>2, HunkCounts
    <3>3. h \in 1..n /\ g[h] = "hunk"
      BY <1>3
    <3>4. t[h].kind = "hunk"
      BY <1>2, <1>3, <1>6, <3>3, ReadingType, RoleOfLine
    <3>5. t[h].old \in Nat /\ t[h].new \in Nat
      BY <1>6, <3>3, <3>4, HunkLine
    <3>6. (\E i \in DOMAIN f : i > h /\ f[i] \notin {"body", "marker"})
             <=> (\E i \in DOMAIN g : i > h /\ g[i] \notin {"body", "marker"}) \/ r \notin {"body", "marker"}
      <4>1. n + 1 > h
        BY <3>3
      <4> QED BY <1>2, <1>3, <1>4, <4>1 DEF r
    <3>7. CASE b
      <4>1. ~\E i \in DOMAIN g : i > h /\ g[i] \notin {"body", "marker"}
        <5>1. \A j \in (h + 1)..n : g[j] \in {"body", "marker"}
          BY <3>7 DEF Reaches
        <5>2. \A i \in 1..n : i > h => i \in (h + 1)..n
          BY <3>3
        <5> QED BY <1>3, <5>1, <5>2
      <4>2. r = "body" /\ Reaches(g, n, h)
        BY <3>7
      <4>3. /\ OldLines(t, f, h) = OldLines(t, g, h) + One(OldSide(t[n + 1]))
            /\ NewLines(t, f, h) = NewLines(t, g, h) + One(NewSide(t[n + 1]))
        BY <3>1, <4>2 DEF One
      <4>4. One(OldSide(t[n + 1])) \in 0..1 /\ One(NewSide(t[n + 1])) \in 0..1
        BY DEF One
      <4>5. P(h) <=> Within(t, f, h)
        BY <4>2, <4>3 DEF Within
      <4>6. Within(t, f, h) => Within(t, g, h)
        BY <3>2, <3>5, <4>3, <4>4 DEF Within
      <4> HIDE DEF P
      <4> QED BY <3>6, <4>1, <4>2, <4>5, <4>6
    <3>8. CASE ~b
      <4>1. OldLines(t, f, h) = OldLines(t, g, h) /\ NewLines(t, f, h) = NewLines(t, g, h)
        BY <3>1, <3>2, <3>8 DEF One
      <4>2. (Within(t, f, h) <=> Within(t, g, h)) /\ (Exact(t, f, h) <=> Exact(t, g, h))
        BY <4>1 DEF Within, Exact
      <4> QED BY <3>6, <3>8, <4>2
    <3> QED BY <3>7, <3>8
  <2>2. r = "hunk" => Good(f, n + 1)
    <3>1. SUFFICES ASSUME r = "hunk" PROVE Good(f, n + 1)
      OBVIOUS
    <3>2. Lines(f, n + 1) = {}
      BY HunkLines
    <3>3. OldLines(t, f, n + 1) = 0 /\ NewLines(t, f, n + 1) = 0
      <4>1. /\ {i \in Lines(f, n + 1) : OldSide(t[i])} = {}
            /\ {i \in Lines(f, n + 1) : NewSide(t[i])} = {}
        BY <3>2
      <4> QED BY <4>1, FS_EmptySet DEF OldLines, NewLines
    <3>4. t[n + 1].old \in Nat /\ t[n + 1].new \in Nat
      BY <1>2, <1>6, <3>1, RoleOfLine, HunkLine
    <3>5. ~\E i \in DOMAIN f : i > n + 1 /\ f[i] \notin {"body", "marker"}
      BY <1>3
    <3>6. Within(t, f, n + 1)
      BY <3>3, <3>4 DEF Within
    <3> QED BY <3>5, <3>6
  <2> HIDE DEF Good, P
  <2>3. (\A h \in With(f, "hunk") : Good(f, h)) <=> (\A h \in With(g, "hunk") : Good(g, h) /\ P(h))
    BY <1>5, <2>1, <2>2
  <2> USE DEF Good, P
  <2> QED BY <2>3
<1>10. Renames(f) <=> Renames(g) /\ (r = "diff" => t[n + 1].before = t[n + 1].after)
  BY <1>5
<1>11. ASSUME last \in Before(t, r), Ordered(g)
       PROVE Agrees(f) <=>
               /\ Agrees(g)
               /\ r = "old" /\ GitFormat(t) =>
                     \A d \in {n, n - 1} \cap With(g, "diff") : t[d].before = t[n + 1].path
               /\ last = "old" => t[n + 1].path = t[n].path
  <2> DEFINE A(k, i) == GitFormat(t) => \A d \in {i - 1, i - 2} \cap With(k, "diff") : t[d].before = t[i].path
             B(k, i) == i + 1 \in DOMAIN k => t[i + 1].path = t[i].path
  <2>1. \A i \in 1..n : {i - 1, i - 2} \cap With(f, "diff") = {i - 1, i - 2} \cap With(g, "diff")
    BY <1>4, <1>5
  <2>2. {(n + 1) - 1, (n + 1) - 2} \cap With(f, "diff") = {n, n - 1} \cap With(g, "diff")
    BY <1>4, <1>5
  <2>3. \A i \in With(g, "old") : A(f, i) <=> A(g, i)
    BY <1>3, <2>1
  <2>4. A(f, n + 1) <=> (GitFormat(t) => \A d \in {n, n - 1} \cap With(g, "diff") : t[d].before = t[n + 1].path)
    BY <2>2
  <2>5. ~(n + 2 \in DOMAIN f) /\ (n + 1) + 1 = n + 2
    BY <1>3
  <2>6. \A i \in 1..n : (i + 1 \in DOMAIN f <=> i + 1 \in DOMAIN g \/ i = n)
    BY <1>3
  <2>7. last = "old" <=> n \in With(g, "old")
    BY <1>3 DEF Last
  <2>8. (\A i \in With(g, "old") : B(f, i)) <=>
           (\A i \in With(g, "old") : B(g, i)) /\ (last = "old" => t[n + 1].path = t[n].path)
    BY <1>3, <2>6, <2>7
  <2>9. B(f, n + 1)
    BY <2>5
  <2>10. Agrees(f) <=> \A i \in With(f, "old") : A(f, i) /\ B(f, i)
    OBVIOUS
  <2>11. Agrees(g) <=> \A i \in With(g, "old") : A(g, i) /\ B(g, i)
    OBVIOUS
  <2> HIDE DEF Agrees, A, B, last
  <2>12. Agrees(f) <=> /\ \A i \in With(g, "old") : A(f, i) /\ B(f, i)
                       /\ r = "old" => A(f, n + 1)
    BY <1>5, <2>9, <2>10
  <2> QED BY <2>3, <2>4, <2>8, <2>11, <2>12
<1>12. Once(f) <=> Once(g) /\ (r = "new" => \A j \in With(g, "new") : t[j].path # t[n + 1].path)
  <2>1. \A j \in With(g, "new") : j # n + 1
    BY <1>3, <1>4
  <2> QED BY <1>5, <2>1
<1> HIDE DEF Ordered, Marked, Counted, Renames, Agrees, Once
<1>13. Follows(t, g, n, r) <=>
         /\ last \in Before(t, r)
         /\ r = "marker" /\ last = "hunk" => t[n].old + t[n].new = 0
         /\ \A h \in With(g, "hunk") :
               /\ r = "body" /\ Reaches(g, n, h) =>
                     /\ OldLines(t, g, h) + One(OldSide(t[n + 1])) <= t[h].old
                     /\ NewLines(t, g, h) + One(NewSide(t[n + 1])) <= t[h].new
               /\ r \notin {"body", "marker"} => Exact(t, g, h)
         /\ r = "diff" => t[n + 1].before = t[n + 1].after
         /\ r = "old" /\ GitFormat(t) =>
               \A d \in {n, n - 1} \cap With(g, "diff") : t[d].before = t[n + 1].path
         /\ last = "old" => t[n + 1].path = t[n].path
         /\ r = "new" => \A j \in With(g, "new") : t[j].path # t[n + 1].path
  BY DEF Follows
<1>14. Shape(t, f) <=> Shape(t, g) /\ Follows(t, g, n, r)
  BY <1>1, <1>7, <1>8, <1>9, <1>10, <1>11, <1>12, <1>13
<1> QED BY <1>14 DEF g, r

\* What was read does not change with what follows it.
LEMMA ShapeOfPrefix ==
    ASSUME NEW t \in Seq(Line), NEW u \in Seq(Line), NEW n \in Nat,
           \A i \in 1..n : u[i] = t[i],
           NEW g
    PROVE  /\ Readings(u, n) = Readings(t, n)
           /\ g \in Readings(t, n) => /\ Shape(u, g) <=> Shape(t, g)
                                      /\ Changes(u, g) = Changes(t, g)
                                      /\ \A h : OldLines(u, g, h) = OldLines(t, g, h)
                                      /\ \A h : NewLines(u, g, h) = NewLines(t, g, h)
<1>1. Readings(u, n) = Readings(t, n)
  BY DEF Readings
<1> SUFFICES ASSUME g \in Readings(t, n)
             PROVE  /\ Shape(u, g) <=> Shape(t, g)
                    /\ Changes(u, g) = Changes(t, g)
                    /\ \A h : OldLines(u, g, h) = OldLines(t, g, h)
                    /\ \A h : NewLines(u, g, h) = NewLines(t, g, h)
  BY <1>1
<1>2. /\ DOMAIN g = 1..n
      /\ \A role : With(g, role) \subseteq 1..n
      /\ \A role, i : i \in With(g, role) <=> i \in 1..n /\ g[i] = role
  BY ReadingType
<1>3. Changes(u, g) = Changes(t, g)
  BY <1>2 DEF Changes
<1>4. ASSUME NEW h
      PROVE  OldLines(u, g, h) = OldLines(t, g, h) /\ NewLines(u, g, h) = NewLines(t, g, h)
  <2>1. \A i \in Lines(g, h) : u[i] = t[i]
    BY HunkLines
  <2>2. /\ {i \in Lines(g, h) : OldSide(u[i])} = {i \in Lines(g, h) : OldSide(t[i])}
        /\ {i \in Lines(g, h) : NewSide(u[i])} = {i \in Lines(g, h) : NewSide(t[i])}
    BY <2>1
  <2> QED BY <2>2 DEF OldLines, NewLines
<1>5. CASE n = 0
  <2>1. DOMAIN g = {} /\ \A role : With(g, role) = {}
    BY <1>2, <1>5
  <2>2. Shape(u, g) /\ Shape(t, g)
    BY <2>1 DEF Shape
  <2> QED BY <1>3, <1>4, <2>2
<1>6. CASE n # 0
  <2>0. 1 \in 1..n
    BY <1>6
  <2>1. GitFormat(u) = GitFormat(t) /\ \A a, b : Before(u, a) = Before(t, a)
    BY <2>0 DEF GitFormat, Before
  <2> DEFINE Ordered(v) == \A i \in DOMAIN g : (IF i = 1 THEN "start" ELSE g[i - 1]) \in Before(v, g[i])
             Marked(v) == \A i \in With(g, "marker") : g[i - 1] = "hunk" => v[i - 1].old + v[i - 1].new = 0
             Counted(v) == \A h \in With(g, "hunk") :
                            /\ Within(v, g, h)
                            /\ (\E i \in DOMAIN g : i > h /\ g[i] \notin {"body", "marker"}) => Exact(v, g, h)
             Renames(v) == \A i \in With(g, "diff") : v[i].before = v[i].after
             Agrees(v) == \A i \in With(g, "old") :
                           /\ GitFormat(v) => \A d \in {i - 1, i - 2} \cap With(g, "diff") : v[d].before = v[i].path
                           /\ i + 1 \in DOMAIN g => v[i + 1].path = v[i].path
             Once(v) == \A i, j \in With(g, "new") : v[i].path = v[j].path => i = j
  <2>2. \A v : Shape(v, g) <=> /\ Ordered(v) /\ Marked(v) /\ Counted(v) /\ Renames(v) /\ Agrees(v) /\ Once(v)
    BY DEF Shape
  <2>3. Ordered(u) <=> Ordered(t)
    BY <2>1
  <2>4. ASSUME Ordered(t)
        PROVE  Marked(u) <=> Marked(t)
    <3>1. \A i \in With(g, "marker") : i - 1 \in 1..n
      <4>1. TAKE i \in With(g, "marker")
      <4>2. i \in 1..n /\ g[i] = "marker"
        BY <1>2
      <4>3. i # 1
        BY <1>2, <2>4, <4>2 DEF Before
      <4> QED BY <4>2, <4>3
    <3> QED BY <3>1
  <2>5. Counted(u) <=> Counted(t)
    <3>1. \A h \in With(g, "hunk") : u[h] = t[h]
      BY <1>2
    <3>2. \A h \in With(g, "hunk") : (Within(u, g, h) <=> Within(t, g, h)) /\ (Exact(u, g, h) <=> Exact(t, g, h))
      BY <1>4, <3>1 DEF Within, Exact
    <3> QED BY <3>2
  <2>6. (Renames(u) <=> Renames(t)) /\ (Once(u) <=> Once(t))
    BY <1>2
  <2>7. Agrees(u) <=> Agrees(t)
    <3>1. \A i \in With(g, "old") : u[i] = t[i] /\ (i + 1 \in DOMAIN g => u[i + 1] = t[i + 1])
      BY <1>2
    <3>2. \A d \in With(g, "diff") : u[d] = t[d]
      BY <1>2
    <3> DEFINE A(v, i) == \A d \in {i - 1, i - 2} \cap With(g, "diff") : v[d].before = v[i].path
               B(v, i) == i + 1 \in DOMAIN g => v[i + 1].path = v[i].path
    <3>3. \A i \in With(g, "old") : (A(u, i) <=> A(t, i)) /\ (B(u, i) <=> B(t, i))
      BY <3>1, <3>2
    <3>4. \A v : Agrees(v) <=> \A i \in With(g, "old") : (GitFormat(v) => A(v, i)) /\ B(v, i)
      OBVIOUS
    <3> HIDE DEF A, B, Agrees
    <3> QED BY <2>1, <3>3, <3>4
  <2> HIDE DEF Ordered, Marked, Counted, Renames, Agrees, Once
  <2>8. Shape(u, g) <=> Shape(t, g)
    BY <2>2, <2>3, <2>4, <2>5, <2>6, <2>7
  <2> QED BY <1>3, <1>4, <2>8
<1> QED BY <1>5, <1>6

\* The numbers the limits are about, one line further.
LEMMA ChangesStep ==
    ASSUME NEW t, NEW n \in Nat, NEW f \in Readings(t, n + 1)
    PROVE  /\ Cardinality(Changes(t, f))
                = Cardinality(Changes(t, First(f, n))) + One(f[n + 1] = "body" /\ Change(t[n + 1]))
           /\ Cardinality(Changes(t, First(f, n))) \in Nat
<1> DEFINE g == First(f, n)
           b == f[n + 1] = "body" /\ Change(t[n + 1])
<1>1. g \in Readings(t, n)
  BY FirstType
<1>2. With(f, "body") = With(g, "body") \cup (IF f[n + 1] = "body" THEN {n + 1} ELSE {})
      /\ n + 1 \notin With(g, "body")
  BY WithStep
<1>3. With(g, "body") \subseteq 1..n
  BY <1>1, ReadingType
<1> HIDE DEF g
<1>4. Changes(t, f) = Changes(t, g) \cup (IF b THEN {n + 1} ELSE {})
  BY <1>2 DEF Changes
<1>5. Changes(t, g) \in SUBSET (1..n) /\ n + 1 \notin Changes(t, g)
  BY <1>2, <1>3 DEF Changes
<1>6. b \in BOOLEAN
  BY DEF Change
<1> HIDE DEF b
<1>7. Cardinality(Changes(t, f)) = Cardinality(Changes(t, g)) + One(b) /\ Cardinality(Changes(t, g)) \in Nat
  BY <1>4, <1>5, <1>6, CountStep
<1> QED BY <1>7 DEF b, g

LEMMA FilesStep ==
    ASSUME NEW t, NEW n \in Nat, NEW f \in Readings(t, n + 1)
    PROVE  /\ Cardinality(With(f, "new")) = Cardinality(With(First(f, n), "new")) + One(f[n + 1] = "new")
           /\ Cardinality(With(First(f, n), "new")) \in Nat
<1> DEFINE g == First(f, n)
           b == f[n + 1] = "new"
<1>1. g \in Readings(t, n)
  BY FirstType
<1>2. With(f, "new") = With(g, "new") \cup (IF b THEN {n + 1} ELSE {})
      /\ n + 1 \notin With(g, "new")
  BY WithStep
<1>3. With(g, "new") \in SUBSET (1..n)
  BY <1>1, ReadingType
<1>4. b \in BOOLEAN
  OBVIOUS
<1> HIDE DEF g, b
<1>5. Cardinality(With(f, "new")) = Cardinality(With(g, "new")) + One(b)
      /\ Cardinality(With(g, "new")) \in Nat
  BY <1>2, <1>3, <1>4, CountStep
<1> QED BY <1>5 DEF g, b

\* ps are the paths of the files, in their order.
Names(t, f, ps) ==
    /\ Len(ps) = Cardinality(With(f, "new"))
    /\ \A i \in With(f, "new") : t[i].path = ps[Cardinality({j \in With(f, "new") : j <= i})]
    /\ \A k \in 1..Len(ps) : \E i \in With(f, "new") : t[i].path = ps[k]

LEMMA NamesOfPrefix ==
    ASSUME NEW t, NEW u, NEW n \in Nat, \A i \in 1..n : u[i] = t[i],
           NEW g \in Readings(t, n), NEW ps
    PROVE  Names(u, g, ps) <=> Names(t, g, ps)
<1>1. \A i \in With(g, "new") : u[i] = t[i]
  BY ReadingType
<1> QED BY <1>1 DEF Names

LEMMA NamesKept ==
    ASSUME NEW t, NEW n \in Nat, NEW f \in Readings(t, n + 1), f[n + 1] # "new", NEW ps,
           Names(t, First(f, n), ps)
    PROVE  Names(t, f, ps)
<1>1. With(f, "new") = With(First(f, n), "new") \cup (IF f[n + 1] = "new" THEN {n + 1} ELSE {})
  BY WithStep
<1>2. With(f, "new") = With(First(f, n), "new")
  BY <1>1
<1> QED BY <1>2 DEF Names

LEMMA NamesStep ==
    ASSUME NEW t, NEW n \in Nat, NEW f \in Readings(t, n + 1), f[n + 1] = "new",
           NEW ps \in Seq(Paths), NEW p \in Paths, t[n + 1].path = p,
           Names(t, First(f, n), ps)
    PROVE  Names(t, f, Append(ps, p))
<1> DEFINE g == First(f, n)
           G == With(g, "new")
           F == With(f, "new")
           qs == Append(ps, p)
<1>1. g \in Readings(t, n)
  BY FirstType
<1>2. F = G \cup {n + 1} /\ n + 1 \notin G
  BY WithStep
<1>3. G \in SUBSET (1..n)
  BY <1>1, ReadingType
<1>4. Cardinality(F) = Cardinality(G) + 1 /\ Cardinality(G) \in Nat /\ IsFiniteSet(G)
  <2>1. TRUE \in BOOLEAN
    OBVIOUS
  <2>2. Cardinality(G \cup {n + 1}) = Cardinality(G) + 1 /\ Cardinality(G) \in Nat /\ IsFiniteSet(G)
    <3> HIDE DEF G
    <3>1. /\ Cardinality(G \cup (IF TRUE THEN {n + 1} ELSE {})) = Cardinality(G) + One(TRUE)
          /\ Cardinality(G) \in Nat /\ IsFiniteSet(G)
      BY <1>2, <1>3, <2>1, CountStep
    <3> QED BY <3>1 DEF One
  <2> QED BY <1>2, <2>2
<1>5. /\ Len(qs) = Len(ps) + 1 /\ qs[Len(ps) + 1] = p
      /\ \A k \in 1..Len(ps) : qs[k] = ps[k]
      /\ Len(ps) \in Nat
  OBVIOUS
<1>6. /\ Len(ps) = Cardinality(G)
      /\ \A i \in G : t[i].path = ps[Cardinality({j \in G : j <= i})]
      /\ \A k \in 1..Len(ps) : \E i \in G : t[i].path = ps[k]
  BY DEF Names
<1> HIDE DEF g, G, F, qs
<1>7. Len(qs) = Cardinality(F)
  BY <1>4, <1>5, <1>6
<1>8. ASSUME NEW i \in F
      PROVE  t[i].path = qs[Cardinality({j \in F : j <= i})]
  <2>1. CASE i = n + 1
    <3>1. {j \in F : j <= i} = F
      <4>1. \A j \in F : j \in 1..n \/ j = n + 1
        BY <1>2, <1>3
      <4>2. \A j \in F : j <= i
        BY <2>1, <4>1
      <4> QED BY <4>2
    <3> QED BY <1>4, <1>5, <1>6, <2>1, <3>1
  <2>2. CASE i \in G
    <3>1. {j \in F : j <= i} = {j \in G : j <= i}
      BY <1>2, <1>3, <2>2
    <3> DEFINE B == {j \in G : j <= i}
    <3>2. B \in SUBSET G /\ i \in B
      BY <1>3, <2>2
    <3> HIDE DEF B
    <3>3. IsFiniteSet(B) /\ Cardinality(B) <= Cardinality(G) /\ Cardinality(B) \in Nat /\ Cardinality(B) # 0
      BY <1>4, <3>2, FS_Subset, FS_CardinalityType, FS_EmptySet
    <3>4. Cardinality(B) \in 1..Len(ps)
      BY <1>4, <1>6, <3>3
    <3>5. t[i].path = ps[Cardinality(B)]
      BY <1>6, <2>2 DEF B
    <3>6. t[i].path = qs[Cardinality(B)]
      BY <1>5, <3>4, <3>5
    <3> QED BY <3>1, <3>6 DEF B
  <2> QED BY <1>2, <2>1, <2>2
<1>9. ASSUME NEW k \in 1..Len(qs)
      PROVE  \E i \in F : t[i].path = qs[k]
  <2>1. k \in 1..Len(ps) \/ k = Len(ps) + 1
    BY <1>5
  <2> QED BY <1>2, <1>5, <1>6, <2>1
<1>10. Names(t, f, qs)
  BY <1>7, <1>8, <1>9 DEF Names, F
<1> QED BY <1>10 DEF qs

\* A file that was read is in the list.
LEMMA NamesIn ==
    ASSUME NEW t, NEW n \in Nat, NEW g \in Readings(t, n), NEW ps \in Seq(Paths), Names(t, g, ps),
           NEW i \in With(g, "new")
    PROVE  \E k \in DOMAIN ps : ps[k] = t[i].path
<1> DEFINE G == With(g, "new")
           B == {j \in G : j <= i}
<1>1. G \in SUBSET (1..n) /\ i \in B /\ B \in SUBSET G
  <2>1. G \in SUBSET (1..n)
    BY ReadingType
  <2> QED BY <2>1
<1>2. Len(ps) = Cardinality(G) /\ t[i].path = ps[Cardinality(B)] /\ DOMAIN ps = 1..Len(ps)
  BY DEF Names
<1> HIDE DEF G, B
<1>3. IsFiniteSet(1..n)
  BY FS_Interval
<1>4. IsFiniteSet(G)
  BY <1>1, <1>3, FS_Subset
<1>5. Cardinality(B) \in Nat /\ Cardinality(G) \in Nat /\ Cardinality(B) <= Cardinality(G) /\ Cardinality(B) # 0
  BY <1>1, <1>4, FS_Subset, FS_CardinalityType, FS_EmptySet
<1>6. Cardinality(B) \in DOMAIN ps
  BY <1>2, <1>5
<1> QED BY <1>2, <1>6

----------------------------------------------------------------------------
(* What the next line may be.                                                *)

AllExact(t, g) == \A h \in With(g, "hunk") : Exact(t, g, h)

InSection == {"hunk", "body", "marker"}

LEMMA ReachesBounds ==
    ASSUME NEW t \in Seq(Line), NEW n \in Nat, n <= Len(t), NEW g \in Readings(t, n),
           NEW h \in With(g, "hunk")
    PROVE  h \in 1..n /\ t[h] \in Line /\ t[h].kind = "hunk" /\ t[h].old \in Nat /\ t[h].new \in Nat
<1>1. h \in 1..n /\ g[h] = "hunk" /\ g[h] \in May(t[h])
  BY ReadingType
<1>2. t[h] \in Line
  BY <1>1
<1>3. t[h].kind = "hunk"
  BY <1>1, <1>2, RoleOfLine
<1> QED BY <1>1, <1>2, <1>3, HunkLine

\* The first lines of a text that has the shape of a patch have it, too.
LEMMA ShapeOfFirst ==
    ASSUME NEW t \in Seq(Line), NEW m \in Nat, m <= Len(t), NEW n \in 0..m,
           NEW f \in Readings(t, m), Shape(t, f)
    PROVE  /\ First(f, n) \in Readings(t, n) /\ Shape(t, First(f, n))
           /\ \A role : With(First(f, n), role) \subseteq With(f, role)
<1> DEFINE g == First(f, n)
<1>1. /\ f \in [1..m -> Roles] /\ DOMAIN f = 1..m /\ \A i \in 1..m : f[i] \in May(t[i])
      /\ \A role, i : i \in With(f, role) <=> i \in 1..m /\ f[i] = role
  BY ReadingType
<1>2. 1..n \subseteq 1..m /\ n \in Nat
  OBVIOUS
<1>3. g \in [1..n -> Roles] /\ \A i \in 1..n : g[i] = f[i]
  BY <1>1, <1>2 DEF First
<1>4. g \in Readings(t, n)
  BY <1>1, <1>2, <1>3 DEF Readings
<1> HIDE DEF g
<1>5. /\ DOMAIN g = 1..n
      /\ \A role, i : i \in With(g, role) <=> i \in 1..n /\ g[i] = role
  BY <1>2, <1>4, ReadingType
<1>6. \A role : With(g, role) \subseteq With(f, role)
  BY <1>1, <1>2, <1>3, <1>5
<1>7. \A i \in DOMAIN g : (IF i = 1 THEN "start" ELSE g[i - 1]) \in Before(t, g[i])
  <2>1. TAKE i \in DOMAIN g
  <2>2. (IF i = 1 THEN "start" ELSE f[i - 1]) \in Before(t, f[i])
    BY <1>1, <1>2, <1>5 DEF Shape
  <2>3. i # 1 => i - 1 \in 1..n
    BY <1>5
  <2> QED BY <1>3, <1>5, <2>2, <2>3
<1>8. \A i \in With(g, "marker") : g[i - 1] = "hunk" => t[i - 1].old + t[i - 1].new = 0
  <2>1. TAKE i \in With(g, "marker")
  <2>2. i # 1
    BY <1>5, <1>7, <2>1 DEF Before
  <2>3. i - 1 \in 1..n
    BY <1>5, <2>1, <2>2
  <2>4. f[i - 1] = "hunk" => t[i - 1].old + t[i - 1].new = 0
    BY <1>6, <2>1 DEF Shape
  <2> QED BY <1>3, <2>3, <2>4
<1>9. ASSUME NEW h \in With(g, "hunk")
      PROVE  /\ Within(t, g, h)
             /\ (\E i \in DOMAIN g : i > h /\ g[i] \notin {"body", "marker"}) => Exact(t, g, h)
  <2>1. h \in 1..n /\ h \in 1..m /\ h \in With(f, "hunk")
    BY <1>2, <1>5, <1>6, <1>9
  <2>2. \A i \in 1..n : i \in Lines(g, h) <=> i \in Lines(f, h)
    <3>1. TAKE i \in 1..n
    <3>2. \A j \in (h + 1)..i : j \in 1..n
      BY <2>1, <3>1
    <3>3. \A j \in (h + 1)..i : g[j] = f[j]
      BY <1>3, <3>2
    <3>4. i \in Lines(f, h) <=> f[i] = "body" /\ i > h /\ \A j \in (h + 1)..i : f[j] \in {"body", "marker"}
      BY <1>2, <3>1, HunkLines
    <3>5. i \in Lines(g, h) <=> g[i] = "body" /\ i > h /\ \A j \in (h + 1)..i : g[j] \in {"body", "marker"}
      BY <1>2, <1>4, <3>1, HunkLines
    <3> QED BY <1>3, <3>1, <3>3, <3>4, <3>5
  <2>3. Lines(g, h) \subseteq 1..n /\ Lines(f, h) \subseteq 1..m
    BY <1>2, <1>4, HunkLines
  <2>4. Lines(g, h) \subseteq Lines(f, h)
    BY <2>2, <2>3
  <2>5. OldLines(t, g, h) <= OldLines(t, f, h) /\ NewLines(t, g, h) <= NewLines(t, f, h)
    <3>1. IsFiniteSet(1..m)
      BY FS_Interval
    <3> DEFINE O == {i \in Lines(f, h) : OldSide(t[i])}
               N == {i \in Lines(f, h) : NewSide(t[i])}
    <3>2. IsFiniteSet(O) /\ IsFiniteSet(N)
      BY <2>3, <3>1, FS_Subset
    <3>3. /\ {i \in Lines(g, h) : OldSide(t[i])} \in SUBSET O
          /\ {i \in Lines(g, h) : NewSide(t[i])} \in SUBSET N
      BY <2>4
    <3> HIDE DEF O, N
    <3>4. /\ Cardinality({i \in Lines(g, h) : OldSide(t[i])}) <= Cardinality(O)
          /\ Cardinality({i \in Lines(g, h) : NewSide(t[i])}) <= Cardinality(N)
      BY <3>2, <3>3, FS_Subset
    <3> QED BY <3>4 DEF OldLines, NewLines, O, N
  <2>6. Within(t, f, h) /\ ((\E i \in DOMAIN f : i > h /\ f[i] \notin {"body", "marker"}) => Exact(t, f, h))
    BY <2>1 DEF Shape
  <2>7. Within(t, g, h)
    <3>1. /\ OldLines(t, g, h) \in Nat /\ NewLines(t, g, h) \in Nat
          /\ OldLines(t, f, h) \in Nat /\ NewLines(t, f, h) \in Nat
      BY <1>2, <1>4, HunkCounts
    <3>2. t[h].old \in Nat /\ t[h].new \in Nat
      BY <2>1, ReachesBounds
    <3> QED BY <2>5, <2>6, <3>1, <3>2 DEF Within
  <2>8. ASSUME NEW i \in DOMAIN g, i > h, g[i] \notin {"body", "marker"}
        PROVE  Exact(t, g, h)
    <3>1. i \in 1..n /\ f[i] \notin {"body", "marker"} /\ i \in DOMAIN f
      BY <1>1, <1>2, <1>3, <1>5, <2>8
    <3>2. Exact(t, f, h)
      BY <2>6, <2>8, <3>1
    <3>3. \A k \in Lines(f, h) : k \in 1..n
      <4>1. TAKE k \in Lines(f, h)
      <4>2. k \in 1..m /\ \A j \in (h + 1)..k : f[j] \in {"body", "marker"}
        BY HunkLines
      <4>3. i \notin (h + 1)..k
        BY <3>1, <4>2
      <4> QED BY <2>1, <2>8, <3>1, <4>2, <4>3
    <3>4. Lines(g, h) = Lines(f, h)
      BY <2>2, <2>4, <3>3
    <3> QED BY <3>2, <3>4 DEF Exact, OldLines, NewLines
  <2> QED BY <2>7, <2>8
<1>10. \A i \in With(g, "diff") : t[i].before = t[i].after
  BY <1>6 DEF Shape
<1>11. \A i \in With(g, "old") : /\ GitFormat(t) => \A d \in {i - 1, i - 2} \cap With(g, "diff") :
                                                       t[d].before = t[i].path
                                 /\ i + 1 \in DOMAIN g => t[i + 1].path = t[i].path
  <2>1. DOMAIN g \subseteq DOMAIN f
    BY <1>1, <1>2, <1>5
  <2> QED BY <1>6, <2>1 DEF Shape
<1>12. \A i, j \in With(g, "new") : t[i].path = t[j].path => i = j
  BY <1>6 DEF Shape
<1>13. Shape(t, g)
  BY <1>7, <1>8, <1>9, <1>10, <1>11, <1>12 DEF Shape
<1> QED BY <1>4, <1>6, <1>13 DEF g

LEMMA ReachesStep ==
    ASSUME NEW t, NEW n \in Nat, NEW f \in Readings(t, n + 1), NEW h
    PROVE  Reaches(f, n + 1, h) <=>
              \/ f[n + 1] = "hunk" /\ h = n + 1
              \/ f[n + 1] \in {"body", "marker"} /\ Reaches(First(f, n), n, h)
<1> DEFINE g == First(f, n)
<1>1. g \in Readings(t, n) /\ \A i \in 1..n : g[i] = f[i]
  BY FirstType
<1>2. With(f, "hunk") = With(g, "hunk") \cup (IF f[n + 1] = "hunk" THEN {n + 1} ELSE {})
      /\ n + 1 \notin With(g, "hunk")
  BY WithStep
<1>3. With(g, "hunk") \subseteq 1..n
  BY <1>1, ReadingType
<1> HIDE DEF g
<1>4. CASE h = n + 1
  <2>1. \A j \in ((n + 1) + 1)..(n + 1) : FALSE
    OBVIOUS
  <2>2. ~Reaches(g, n, h)
    BY <1>2, <1>4 DEF Reaches
  <2>3. Reaches(f, n + 1, h) <=> f[n + 1] = "hunk"
    BY <1>2, <1>4, <2>1 DEF Reaches
  <2> QED BY <1>4, <2>2, <2>3 DEF g
<1>5. CASE h \in With(g, "hunk")
  <2>1. h \in 1..n /\ h # n + 1
    BY <1>2, <1>3, <1>5
  <2>2. \A j : j \in (h + 1)..(n + 1) <=> j = n + 1 \/ j \in (h + 1)..n
    BY <2>1
  <2>3. \A j \in (h + 1)..n : g[j] = f[j]
    BY <1>1, <2>1
  <2>4. Reaches(f, n + 1, h) <=> f[n + 1] \in {"body", "marker"} /\ Reaches(g, n, h)
    BY <1>2, <1>5, <2>2, <2>3 DEF Reaches
  <2> QED BY <2>1, <2>4 DEF g
<1>6. CASE h # n + 1 /\ h \notin With(g, "hunk")
  BY <1>2, <1>6 DEF Reaches, g
<1> QED BY <1>4, <1>5, <1>6

\* Only the last hunk can be incomplete.
LEMMA OthersExact ==
    ASSUME NEW t, NEW n \in Nat, NEW g \in Readings(t, n), Shape(t, g),
           NEW h, Reaches(g, n, h), NEW k \in With(g, "hunk"), k # h
    PROVE  Exact(t, g, k) /\ ~Reaches(g, n, k)
<1>1. h \in 1..n /\ g[h] = "hunk" /\ k \in 1..n /\ g[k] = "hunk" /\ DOMAIN g = 1..n
  BY ReadingType DEF Reaches
<1>2. h > k
  <2> SUFFICES ASSUME k > h PROVE FALSE
    BY <1>1
  <2>1. k \in (h + 1)..n
    BY <1>1
  <2> QED BY <1>1, <2>1 DEF Reaches
<1>3. Exact(t, g, k)
  <2>1. \E i \in DOMAIN g : i > k /\ g[i] \notin {"body", "marker"}
    BY <1>1, <1>2
  <2> QED BY <2>1 DEF Shape
<1>4. ~Reaches(g, n, k)
  <2>1. h \in (k + 1)..n
    BY <1>1, <1>2
  <2> QED BY <1>1, <2>1 DEF Reaches
<1> QED BY <1>3, <1>4

\* A hunk whose header is the last line has no lines.
LEMMA EmptyHunk ==
    ASSUME NEW t, NEW n \in Nat, NEW g \in Readings(t, n),
           NEW h, Reaches(g, n, h), Last(g, n) = "hunk"
    PROVE  h = n /\ OldLines(t, g, h) = 0 /\ NewLines(t, g, h) = 0
<1>1. h \in 1..n /\ n # 0 /\ g[n] = "hunk"
  BY ReadingType DEF Reaches, Last
<1>2. h = n
  <2> SUFFICES ASSUME h # n PROVE FALSE
    OBVIOUS
  <2>1. n \in (h + 1)..n
    BY <1>1
  <2> QED BY <1>1, <2>1 DEF Reaches
<1>3. Lines(g, h) = {}
  BY <1>2, HunkLines
<1>4. {i \in Lines(g, h) : OldSide(t[i])} = {} /\ {i \in Lines(g, h) : NewSide(t[i])} = {}
  BY <1>3
<1> QED BY <1>2, <1>4, FS_EmptySet DEF OldLines, NewLines

\* After a line of a hunk, there is the hunk.
LEMMA HunkOpen ==
    ASSUME NEW t, NEW n \in Nat, NEW g \in Readings(t, n), Shape(t, g), Last(g, n) \in InSection
    PROVE  \E h : Reaches(g, n, h)
<1>0. /\ DOMAIN g = 1..n
      /\ \A role, i : i \in With(g, role) <=> i \in 1..n /\ g[i] = role
  BY ReadingType
<1>1. n \in 1..n /\ g[n] \in InSection
  BY DEF Last, InSection
<1>2. CASE g[n] = "hunk"
  <2>1. \A j \in (n + 1)..n : FALSE
    OBVIOUS
  <2> QED BY <1>0, <1>1, <1>2, <2>1 DEF Reaches
<1>3. CASE g[n] \in {"body", "marker"}
  <2> DEFINE T == {i \in 1..n : \A j \in i..n : g[j] \in {"body", "marker"}}
  <2>1. n \in T
    <3>1. \A j \in n..n : j = n
      OBVIOUS
    <3> QED BY <1>1, <1>3, <3>1
  <2>2. T \in SUBSET Nat
    OBVIOUS
  <2>3. PICK m \in T : \A k \in T : m <= k
    BY <2>1, <2>2, Least
  <2>4. m \in 1..n /\ m \in m..n /\ \A j \in m..n : g[j] \in {"body", "marker"}
    OBVIOUS
  <2>5. (IF m = 1 THEN "start" ELSE g[m - 1]) \in InSection
    <3>1. (IF m = 1 THEN "start" ELSE g[m - 1]) \in Before(t, g[m])
      BY <1>0, <2>4 DEF Shape
    <3> QED BY <2>4, <3>1 DEF Before, InSection
  <2>6. m # 1 /\ g[m - 1] \in InSection /\ m - 1 \in 1..n
    BY <2>4, <2>5 DEF InSection
  <2>7. g[m - 1] \notin {"body", "marker"}
    <3>1. SUFFICES ASSUME g[m - 1] \in {"body", "marker"} PROVE FALSE
      OBVIOUS
    <3>2. \A j \in (m - 1)..n : j = m - 1 \/ j \in m..n
      BY <2>4
    <3>3. m - 1 \in T
      BY <2>4, <2>6, <3>1, <3>2
    <3> QED BY <2>3, <2>4, <3>3
  <2>8. g[m - 1] = "hunk"
    BY <2>6, <2>7 DEF InSection
  <2>9. (m - 1) + 1 = m
    BY <2>4
  <2> QED BY <1>0, <2>4, <2>6, <2>8, <2>9 DEF Reaches
<1> QED BY <1>1, <1>2, <1>3 DEF InSection

\* When every hunk has what it declares, the next line is what it says it is.
LEMMA ClosedLine ==
    ASSUME NEW t \in Seq(Line), NEW n \in Nat, n < Len(t), NEW g \in Readings(t, n),
           Shape(t, g), AllExact(t, g),
           NEW r \in May(t[n + 1]), Follows(t, g, n, r)
    PROVE  r = t[n + 1].kind
<1>1. t[n + 1] \in Line
  OBVIOUS
<1>2. SUFFICES ASSUME r = "body" PROVE FALSE
  BY <1>1, RoleOfLine
<1>3. Last(g, n) \in InSection
  BY <1>2 DEF Follows, Before, InSection
<1>4. PICK h : Reaches(g, n, h)
  BY <1>3, HunkOpen
<1>5. OldSide(t[n + 1]) \/ NewSide(t[n + 1])
  BY <1>1, <1>2, RoleOfLine
<1>6. h \in With(g, "hunk")
  BY <1>4 DEF Reaches
<1>7. /\ OldLines(t, g, h) + One(OldSide(t[n + 1])) <= t[h].old
      /\ NewLines(t, g, h) + One(NewSide(t[n + 1])) <= t[h].new
  BY <1>2, <1>4, <1>6 DEF Follows
<1>8. OldLines(t, g, h) = t[h].old /\ NewLines(t, g, h) = t[h].new
  BY <1>6 DEF AllExact, Exact
<1>9. t[h].old \in Nat /\ t[h].new \in Nat
  BY <1>6, ReachesBounds
<1>10. (OldSide(t[n + 1]) => One(OldSide(t[n + 1])) = 1) /\ (NewSide(t[n + 1]) => One(NewSide(t[n + 1])) = 1)
  BY DEF One
<1> QED BY <1>5, <1>7, <1>8, <1>9, <1>10

\* While a hunk lacks lines, the next line is one of it or a marker.
LEMMA OpenLine ==
    ASSUME NEW t, NEW n, NEW g, NEW h, Reaches(g, n, h), ~Exact(t, g, h),
           NEW r, Follows(t, g, n, r)
    PROVE  r \in {"body", "marker"}
BY DEF Follows, Reaches

\* What comes before a line decides its role: the counts of the hunk header do.
LEMMA OneRole ==
    ASSUME NEW t \in Seq(Line), NEW n \in Nat, n < Len(t), NEW g \in Readings(t, n), Shape(t, g),
           NEW q \in May(t[n + 1]), Follows(t, g, n, q),
           NEW r \in May(t[n + 1]), Follows(t, g, n, r)
    PROVE  q = r
<1>0. t[n + 1] \in Line
  OBVIOUS
<1>1. q # "body" /\ r # "body" => q = r
  BY <1>0, RoleOfLine
<1>2. ASSUME NEW a \in May(t[n + 1]), Follows(t, g, n, a), a = "body",
             NEW b \in May(t[n + 1]), Follows(t, g, n, b)
      PROVE  b = "body"
  <2>1. Last(g, n) \in InSection
    BY <1>2 DEF Follows, Before, InSection
  <2>2. PICK h : Reaches(g, n, h)
    BY <2>1, HunkOpen
  <2>3. h \in With(g, "hunk")
    BY <2>2 DEF Reaches
  <2>4. OldSide(t[n + 1]) \/ NewSide(t[n + 1])
    BY <1>0, <1>2, RoleOfLine
  <2>5. ~Exact(t, g, h)
    <3>1. /\ OldLines(t, g, h) + One(OldSide(t[n + 1])) <= t[h].old
          /\ NewLines(t, g, h) + One(NewSide(t[n + 1])) <= t[h].new
      BY <1>2, <2>2, <2>3 DEF Follows
    <3>2. t[h].old \in Nat /\ t[h].new \in Nat
      BY <2>3, ReachesBounds
    <3>3. (OldSide(t[n + 1]) => One(OldSide(t[n + 1])) = 1) /\ (NewSide(t[n + 1]) => One(NewSide(t[n + 1])) = 1)
      BY DEF One
    <3> QED BY <2>4, <3>1, <3>2, <3>3 DEF Exact
  <2>6. b \in {"body", "marker"}
    BY <1>2, <2>2, <2>5, OpenLine
  <2>7. b # "marker"
    <3>1. b = "marker" => t[n + 1].kind = "marker"
      BY <1>0, <1>2, RoleOfLine
    <3> QED BY <2>4, <3>1 DEF OldSide, NewSide
  <2> QED BY <2>6, <2>7
<1> QED BY <1>1, <1>2

\* A text has at most one reading that has the shape of a patch: "--- a/x" is a
\* header in it, or the removal of "-- a/x", but never either.
LEMMA OneReading ==
    ASSUME NEW t \in Seq(Line), NEW n \in Nat, n <= Len(t),
           NEW f \in Readings(t, n), Shape(t, f), NEW g \in Readings(t, n), Shape(t, g)
    PROVE  f = g
<1>1. SUFFICES ASSUME f # g PROVE FALSE
  OBVIOUS
<1>2. f \in [1..n -> Roles] /\ g \in [1..n -> Roles]
  BY ReadingType
<1> DEFINE T == {i \in 1..n : f[i] # g[i]}
<1>3. T \in SUBSET Nat /\ T # {}
  BY <1>1, <1>2
<1>4. PICK m \in T : \A k \in T : m <= k
  BY <1>3, Least
<1>5. PICK j \in Nat : m = j + 1
  <2>1. m \in 1..n
    OBVIOUS
  <2>2. m - 1 \in Nat /\ m = (m - 1) + 1
    BY <2>1
  <2> QED BY <2>2
<1>6. j + 1 <= n /\ j + 1 \in 0..n /\ j < Len(t) /\ j + 1 \in 1..n /\ j \in 0..(j + 1)
  BY <1>4, <1>5
<1>7. \A i \in 1..j : f[i] = g[i]
  <2>1. \A i \in 1..j : i \in 1..n /\ ~(m <= i)
    BY <1>5, <1>6
  <2> QED BY <1>4, <2>1
<1>8. PICK a, b : a = First(f, j + 1) /\ b = First(g, j + 1)
  OBVIOUS
<1>9. a \in Readings(t, j + 1) /\ Shape(t, a) /\ b \in Readings(t, j + 1) /\ Shape(t, b)
  BY <1>6, <1>8, ShapeOfFirst
<1>10. a[j + 1] = f[j + 1] /\ b[j + 1] = g[j + 1] /\ First(a, j) = First(b, j)
  <2>1. \A i \in 1..(j + 1) : a[i] = f[i] /\ b[i] = g[i]
    BY <1>8 DEF First
  <2>2. j + 1 \in 1..(j + 1) /\ \A i \in 1..j : i \in 1..(j + 1)
    OBVIOUS
  <2>3. \A i \in 1..j : a[i] = b[i]
    BY <1>7, <2>1, <2>2
  <2> QED BY <2>1, <2>2, <2>3 DEF First
<1>11. PICK c : c = First(a, j)
  OBVIOUS
<1>12. /\ Shape(t, c) /\ c \in Readings(t, j)
       /\ Follows(t, c, j, f[j + 1]) /\ f[j + 1] \in May(t[j + 1])
       /\ Follows(t, c, j, g[j + 1]) /\ g[j + 1] \in May(t[j + 1])
  BY <1>6, <1>9, <1>10, <1>11, ShapeStep, FirstType
<1>13. f[j + 1] = g[j + 1]
  BY <1>6, <1>12, OneRole
<1> QED BY <1>4, <1>5, <1>13

\* The grammar is unambiguous.
THEOREM Unambiguous ==
    ASSUME NEW t \in Seq(Line),
           NEW f \in Assignments(t), Shape(t, f), NEW g \in Assignments(t), Shape(t, g)
    PROVE  f = g
BY AssignmentsAreReadings, OneReading

----------------------------------------------------------------------------
(* What a reader knows after n lines: how they read, how many lines change,  *)
(* and which files.                                                          *)

Parsed(t, n, g, c, ps) ==
    /\ g \in Readings(t, n) /\ Shape(t, g)
    /\ c = Cardinality(Changes(t, g))
    /\ Names(t, g, ps)

LEMMA NothingParsed ==
    ASSUME NEW t \in Seq(Line)
    PROVE  Parsed(t, 0, [i \in 1..0 |-> "body"], 0, <<>>)
<1> DEFINE g == [i \in 1..0 |-> "body"]
<1>1. 1..0 = {}
  OBVIOUS
<1>2. g \in Readings(t, 0)
  BY <1>1 DEF Readings
<1>3. DOMAIN g = {} /\ \A role : With(g, role) = {}
  BY <1>1 DEF With
<1> HIDE DEF g
<1>4. Shape(t, g)
  BY <1>3 DEF Shape
<1>5. Changes(t, g) = {}
  BY <1>3 DEF Changes
<1>6. Names(t, g, <<>>)
  <2>1. Cardinality(With(g, "new")) = 0 /\ With(g, "new") = {} /\ Len(<<>>) = 0
    BY <1>3, FS_EmptySet
  <2> QED BY <1>1, <2>1 DEF Names
<1>7. Parsed(t, 0, g, 0, <<>>)
  BY <1>2, <1>4, <1>5, <1>6, FS_EmptySet DEF Parsed
<1> QED BY <1>7 DEF g

LEMMA ParsedOfPrefix ==
    ASSUME NEW t \in Seq(Line), NEW u \in Seq(Line), NEW n \in Nat,
           \A i \in 1..n : u[i] = t[i],
           NEW g, NEW c, NEW ps, Parsed(t, n, g, c, ps)
    PROVE  Parsed(u, n, g, c, ps)
<1>1. g \in Readings(t, n)
  BY DEF Parsed
<1>2. g \in Readings(u, n) /\ (Shape(u, g) <=> Shape(t, g)) /\ Changes(u, g) = Changes(t, g)
  BY <1>1, ShapeOfPrefix
<1>3. Names(u, g, ps) <=> Names(t, g, ps)
  BY <1>1, NamesOfPrefix
<1> QED BY <1>2, <1>3 DEF Parsed

\* Reading on.
LEMMA ParsedStep ==
    ASSUME NEW t \in Seq(Line), NEW n \in Nat, n < Len(t),
           NEW g, NEW c, NEW ps \in Seq(Paths), Parsed(t, n, g, c, ps),
           NEW r \in May(t[n + 1]), Follows(t, g, n, r)
    PROVE  Parsed(t, n + 1, Then(g, n, r), c + One(r = "body" /\ Change(t[n + 1])),
                  IF r = "new" THEN Append(ps, t[n + 1].path) ELSE ps)
<1> DEFINE k == Then(g, n, r)
<1>1. g \in Readings(t, n) /\ Shape(t, g)
  BY DEF Parsed
<1>2. t[n + 1] \in Line /\ r \in Roles /\ (r # "body" => t[n + 1].kind = r)
  <2>1. t[n + 1] \in Line
    OBVIOUS
  <2> QED BY <2>1, RoleOfLine
<1>3. k \in Readings(t, n + 1) /\ First(k, n) = g /\ k[n + 1] = r
  BY <1>1, <1>2, ThenType
<1> HIDE DEF k
<1>4. Shape(t, k)
  BY <1>1, <1>3, ShapeStep
<1>5. c + One(r = "body" /\ Change(t[n + 1])) = Cardinality(Changes(t, k))
  BY <1>3, ChangesStep DEF Parsed
<1>6. Names(t, k, IF r = "new" THEN Append(ps, t[n + 1].path) ELSE ps)
  <2>1. Names(t, g, ps)
    BY DEF Parsed
  <2>2. CASE r = "new"
    <3>1. t[n + 1].path \in Paths
      BY <1>2, <2>2, HeaderLine
    <3> QED BY <1>3, <2>1, <2>2, <3>1, NamesStep
  <2>3. CASE r # "new"
    BY <1>3, <2>1, <2>3, NamesKept
  <2> QED BY <2>2, <2>3
<1>7. Parsed(t, n + 1, k, c + One(r = "body" /\ Change(t[n + 1])),
             IF r = "new" THEN Append(ps, t[n + 1].path) ELSE ps)
  BY <1>3, <1>4, <1>5, <1>6 DEF Parsed
<1> QED BY <1>7 DEF k

\* At the end of the text there is one reading,
LEMMA ParsedAll ==
    ASSUME NEW t \in Seq(Line), NEW g, NEW c, NEW ps, Parsed(t, Len(t), g, c, ps)
    PROVE  /\ g \in Assignments(t)
           /\ \A f \in Assignments(t) : Shape(t, f) => f = g
BY AssignmentsAreReadings, OneReading DEF Parsed

\* and none when nothing follows but a line is left.
LEMMA NothingFollows ==
    ASSUME NEW t \in Seq(Line), NEW n \in Nat, Len(t) = n + 1,
           NEW g, NEW c, NEW ps, Parsed(t, n, g, c, ps),
           \A r \in May(t[n + 1]) : ~Follows(t, g, n, r)
    PROVE  \A f \in Assignments(t) : ~Shape(t, f)
<1>1. SUFFICES ASSUME NEW f \in Readings(t, n + 1), Shape(t, f) PROVE FALSE
  BY AssignmentsAreReadings
<1>2. Shape(t, First(f, n)) /\ Follows(t, First(f, n), n, f[n + 1])
  BY <1>1, ShapeStep
<1>3. First(f, n) \in Readings(t, n) /\ f[n + 1] \in May(t[n + 1])
  BY FirstType
<1>4. First(f, n) = g
  BY <1>2, <1>3, OneReading DEF Parsed
<1> QED BY <1>2, <1>3, <1>4

\* What exceeds a limit stays above it.
LEMMA LimitsGrow ==
    ASSUME NEW t \in Seq(Line), NEW n \in Nat, Len(t) \in {n, n + 1},
           NEW g, NEW c, NEW ps, Parsed(t, n, g, c, ps),
           NEW f \in Assignments(t), Shape(t, f)
    PROVE  /\ Cardinality(With(f, "new")) \in Nat /\ Cardinality(With(f, "new")) >= Len(ps)
           /\ Cardinality(Changes(t, f)) \in Nat /\ Cardinality(Changes(t, f)) >= c
           /\ Len(ps) \in Nat /\ c \in Nat
<1>0. g \in Readings(t, n)
  BY DEF Parsed
<1>1. c = Cardinality(Changes(t, g)) /\ Len(ps) = Cardinality(With(g, "new"))
  BY DEF Parsed, Names
<1>2. CASE Len(t) = n
  <2>1. f = g
    BY <1>2, ParsedAll
  <2>2. Changes(t, g) \in SUBSET (1..n) /\ With(g, "new") \in SUBSET (1..n)
    BY <1>0, ReadingType DEF Changes
  <2>3. TRUE \in BOOLEAN /\ n + 1 \notin Changes(t, g) /\ n + 1 \notin With(g, "new")
    BY <2>2
  <2>4. Cardinality(Changes(t, g)) \in Nat /\ Cardinality(With(g, "new")) \in Nat
    BY <2>2, <2>3, CountStep
  <2> QED BY <1>1, <2>1, <2>4
<1>3. CASE Len(t) = n + 1
  <2>1. f \in Readings(t, n + 1)
    BY <1>3, AssignmentsAreReadings
  <2>2. First(f, n) = g
    <3>1. Shape(t, First(f, n)) /\ First(f, n) \in Readings(t, n)
      BY <1>3, <2>1, ShapeStep, FirstType
    <3> QED BY <1>3, <3>1, OneReading DEF Parsed
  <2>3. /\ Cardinality(Changes(t, f)) = Cardinality(Changes(t, g)) + One(f[n + 1] = "body" /\ Change(t[n + 1]))
        /\ Cardinality(Changes(t, g)) \in Nat
    BY <2>1, <2>2, ChangesStep
  <2>4. /\ Cardinality(With(f, "new")) = Cardinality(With(g, "new")) + One(f[n + 1] = "new")
        /\ Cardinality(With(g, "new")) \in Nat
    BY <2>1, <2>2, FilesStep
  <2>5. \A b : One(b) \in {0, 1}
    BY DEF One
  <2> QED BY <1>1, <2>3, <2>4, <2>5
<1> QED BY <1>2, <1>3

\* Only a line of a hunk changes its counts.
LEMMA CountsKept ==
    ASSUME NEW t, NEW n \in Nat, NEW f \in Readings(t, n + 1), f[n + 1] # "body"
    PROVE  /\ \A h \in With(First(f, n), "hunk") : Exact(t, f, h) <=> Exact(t, First(f, n), h)
           /\ \A h \in With(First(f, n), "hunk") : /\ OldLines(t, f, h) = OldLines(t, First(f, n), h)
                                                   /\ NewLines(t, f, h) = NewLines(t, First(f, n), h)
           /\ f[n + 1] # "hunk" => (AllExact(t, f) <=> AllExact(t, First(f, n)))
<1> DEFINE g == First(f, n)
<1>1. g \in Readings(t, n)
  BY FirstType
<1>2. ASSUME NEW h \in With(g, "hunk")
      PROVE  OldLines(t, f, h) = OldLines(t, g, h) /\ NewLines(t, f, h) = NewLines(t, g, h)
  <2>1. /\ OldLines(t, f, h) = OldLines(t, g, h) + One(FALSE /\ OldSide(t[n + 1]))
        /\ NewLines(t, f, h) = NewLines(t, g, h) + One(FALSE /\ NewSide(t[n + 1]))
    BY HunkCountsStep
  <2>2. One(FALSE /\ OldSide(t[n + 1])) = 0 /\ One(FALSE /\ NewSide(t[n + 1])) = 0
    BY DEF One
  <2>3. OldLines(t, g, h) \in Nat /\ NewLines(t, g, h) \in Nat
    BY <1>1, HunkCounts
  <2> HIDE DEF g
  <2> QED BY <2>1, <2>2, <2>3
<1>3. With(f, "hunk") = With(g, "hunk") \cup (IF f[n + 1] = "hunk" THEN {n + 1} ELSE {})
  BY WithStep
<1> HIDE DEF g
<1>4. \A h \in With(g, "hunk") : Exact(t, f, h) <=> Exact(t, g, h)
  BY <1>2 DEF Exact
<1>5. f[n + 1] # "hunk" => With(f, "hunk") = With(g, "hunk")
  BY <1>3
<1>6. f[n + 1] # "hunk" => (AllExact(t, f) <=> AllExact(t, g))
  BY <1>4, <1>5 DEF AllExact
<1> QED BY <1>2, <1>4, <1>6 DEF g


\* A text that is no longer viable has no future: every beginning t of a viable text
\* u, and so of every patch, is viable.
THEOREM BeginningsAreViable ==
    ASSUME NEW t \in Seq(Line), NEW u \in Seq(Line), Len(t) <= Len(u),
           \A i \in 1..Len(t) : u[i] = t[i],
           NEW files \in Nat, NEW f \in Assignments(u), Viable(u, f, files)
    PROVE  \E g \in Assignments(t) : Viable(t, g, files)
<1>1. PICK n : n = Len(t)
  OBVIOUS
<1>2. n \in Nat /\ Len(u) \in Nat /\ n \in 0..Len(u)
  BY <1>1
<1>3. f \in Readings(u, Len(u)) /\ Shape(u, f)
  BY AssignmentsAreReadings DEF Viable
<1>4. PICK g : g = First(f, n)
  OBVIOUS
<1>5. g \in Readings(u, n) /\ Shape(u, g) /\ \A role : With(g, role) \subseteq With(f, role)
  BY <1>2, <1>3, <1>4, ShapeOfFirst
<1>6. g \in Readings(t, n) /\ Shape(t, g) /\ Changes(t, g) = Changes(u, g)
  BY <1>1, <1>2, <1>5, ShapeOfPrefix
<1>7. g \in Assignments(t)
  BY <1>1, <1>6, AssignmentsAreReadings
<1>8. IsFiniteSet(With(f, "new")) /\ IsFiniteSet(Changes(u, f))
  <2>1. IsFiniteSet(1..Len(u))
    BY <1>2, FS_Interval
  <2>2. With(f, "new") \in SUBSET (1..Len(u)) /\ Changes(u, f) \in SUBSET (1..Len(u))
    BY <1>2, <1>3, ReadingType DEF Changes
  <2> QED BY <2>1, <2>2, FS_Subset
<1>9. With(g, "new") \in SUBSET With(f, "new") /\ Changes(u, g) \in SUBSET Changes(u, f)
  BY <1>5 DEF Changes
<1>10. /\ Cardinality(With(g, "new")) <= Cardinality(With(f, "new"))
       /\ Cardinality(Changes(u, g)) <= Cardinality(Changes(u, f))
  BY <1>8, <1>9, FS_Subset
<1>11. /\ Cardinality(With(g, "new")) \in Nat /\ Cardinality(With(f, "new")) \in Nat
       /\ Cardinality(Changes(u, g)) \in Nat /\ Cardinality(Changes(u, f)) \in Nat
  <2>1. IsFiniteSet(With(g, "new")) /\ IsFiniteSet(Changes(u, g))
    BY <1>8, <1>9, FS_Subset
  <2> QED BY <1>8, <2>1, FS_CardinalityType
<1>12. Viable(t, g, files)
  BY <1>6, <1>10, <1>11, Bounds DEF Viable
<1> QED BY <1>7, <1>12
=============================================================================
