-------------------------- MODULE PatchParserProofs ----------------------------
(***************************************************************************)
(* The counts of the patch parser, for every set of paths, every limit and *)
(* patches of any length.                                                  *)
(***************************************************************************)
EXTENDS PatchParser, PatchGrammarProofs

LEMMA Limits == FileLimits \subseteq Nat /\ MaxChanged \in Nat /\ MaxCount \in Nat /\ MaxLines \in Nat
BY ParserAssumption, GrammarAssumption

\* The line the parser looks at is one of the text.
LEMMA CurrentLine ==
    ASSUME TypeOK, HasLine
    PROVE  Current \in Line /\ index + 1 \in 0..Len(text)
BY DEF TypeOK, HasLine, Current

\* Types hold: the parser never looks beyond the text, no side of a hunk gets more
\* lines than its header declares, and a path is only kept when it is allowed.
THEOREM ParserTypes == Spec => []TypeOK
<1>0. /\ Zero \in Counts /\ Zero \in [old : 0..Zero.old, new : 0..Zero.new]
      /\ \A w \in Counts : Zero \in [old : 0..w.old, new : 0..w.new]
  BY DEF Zero, Counts
<1>3. <<>> \in Seq(Line) /\ <<>> \in Seq(Paths) /\ 0 \in 0..Len(<<>>)
  OBVIOUS
<1>1. Init => TypeOK
  <2> SUFFICES ASSUME Init PROVE TypeOK
    OBVIOUS
  <2>1. want \in Counts /\ seen \in [old : 0..want.old, new : 0..want.new]
    BY <1>0 DEF Init
  <2>2. text \in Seq(Line) /\ paths \in Seq(Paths) /\ index \in 0..Len(text)
    BY <1>3 DEF Init
  <2> QED BY <2>1, <2>2 DEF Init, TypeOK
<1>2. TypeOK /\ [Next]_vars => TypeOK'
  <2> SUFFICES ASSUME TypeOK, [Next]_vars PROVE TypeOK'
    OBVIOUS
  <2>1. CASE More
    <3>1. /\ text' \in Seq(Line) /\ Len(text) \in Nat /\ index \in 0..Len(text')
          /\ ended' \in BOOLEAN
      <4>1. text \in Seq(Line) /\ Len(text) \in Nat /\ index = Len(text)
        BY <2>1 DEF More, TypeOK
      <4>2. CASE \E l \in Line : text' = Append(text, l) /\ UNCHANGED ended
        <5>1. PICK l \in Line : text' = Append(text, l)
          BY <4>2
        <5>2. Len(text') = Len(text) + 1 /\ text' \in Seq(Line)
          BY <4>1, <5>1
        <5> QED BY <4>1, <4>2, <5>2 DEF TypeOK
      <4>3. CASE ended' = TRUE /\ UNCHANGED text
        BY <4>1, <4>3
      <4> QED BY <2>1, <4>2, <4>3 DEF More
    <3> QED BY <2>1, <3>1 DEF More, TypeOK, plan, section
  <2>2. CASE Finish
    BY <2>2 DEF Finish, Looks, TypeOK, plan, section
  <2>3. CASE Section
    <3>1. HasLine /\ UNCHANGED <<maximumFiles, text, ended>> /\ Current \in Line /\ index + 1 \in 0..Len(text)
      BY <2>3, CurrentLine DEF Section, Looks
    <3>2. Current.kind = "diff" => Current.before \in Paths
      BY <3>1, DiffLine
    <3> HIDE DEF Current
    <3> QED BY <2>3, <3>1, <3>2 DEF Section, TypeOK, plan, section, Consume, Skip, Refuse
  <2>4. CASE Index
    <3>1. /\ UNCHANGED <<maximumFiles, text, ended, plan, section, verdict>> /\ at' = "old"
          /\ index' = index \/ (HasLine /\ index' = index + 1)
      BY <2>4 DEF Index, Looks, Consume, Skip
    <3>2. index' \in 0..Len(text)
      BY <3>1, CurrentLine DEF TypeOK
    <3> QED BY <3>1, <3>2 DEF TypeOK, plan, section
  <2>5. CASE OldHeader
    <3>1. HasLine /\ Current.kind = "old" => Current.path \in Paths /\ index + 1 \in 0..Len(text)
      BY CurrentLine, HeaderLine
    <3> HIDE DEF Current, HasLine
    <3>2. UNCHANGED <<maximumFiles, text, ended>>
      BY <2>5 DEF OldHeader, Looks
    <3>3. CASE HasLine /\ Current.kind = "old" /\ path' = Current.path /\ Consume("new")
               /\ UNCHANGED <<plan, hunks, want, seen, marker>>
      BY <3>1, <3>2, <3>3 DEF TypeOK, plan, Consume
    <3>4. CASE Refuse
      BY <3>2, <3>4 DEF TypeOK, plan, section, Refuse
    <3> QED BY <2>5, <3>3, <3>4 DEF OldHeader
  <2>6. CASE NewHeader
    <3>1. HasLine /\ Current.kind = "new" => Current.path \in Paths /\ index + 1 \in 0..Len(text)
      BY CurrentLine, HeaderLine
    <3>2. HasLine /\ Current.kind = "new" /\ NewPath => Append(paths, path) \in Seq(Paths)
      BY <3>1 DEF NewPath, TypeOK
    <3> HIDE DEF Current, HasLine
    <3>3. UNCHANGED <<maximumFiles, text, ended>>
      BY <2>6 DEF NewHeader, Looks
    <3>4. CASE /\ HasLine /\ Current.kind = "new" /\ NewPath
               /\ paths' = Append(paths, path) /\ hunks' = 0 /\ Consume("hunks")
               /\ UNCHANGED <<changed, path, want, seen, marker>>
      BY <3>1, <3>2, <3>3, <3>4 DEF TypeOK, Consume
    <3>5. CASE Refuse
      BY <3>3, <3>5 DEF TypeOK, plan, section, Refuse
    <3> QED BY <2>6, <3>4, <3>5 DEF NewHeader
  <2>7. CASE Hunks
    <3>1. HasLine /\ Current.kind = "hunk" =>
             Current.old \in Nat /\ Current.new \in Nat /\ index + 1 \in 0..Len(text)
      BY CurrentLine, HunkLine, Limits
    <3>2. CASE HasLine /\ Current.kind = "hunk"
      <4>1. /\ want' = [old |-> Current.old, new |-> Current.new] /\ seen' = Zero
            /\ hunks' = hunks + 1 /\ marker' = FALSE /\ Consume("body")
            /\ UNCHANGED <<paths, changed, path, maximumFiles, text, ended>>
        BY <2>7, <3>2 DEF Hunks, Looks, plan
      <4>2. want' \in Counts
        BY <3>1, <3>2, <4>1 DEF Counts
      <4>3. seen' \in [old : 0..want'.old, new : 0..want'.new]
        BY <1>0, <4>1, <4>2
      <4>4. hunks' \in Nat /\ index' \in 0..Len(text)
        BY <3>1, <3>2, <4>1 DEF TypeOK, Consume
      <4> QED BY <4>1, <4>2, <4>3, <4>4 DEF TypeOK, Consume
    <3>3. CASE ~(HasLine /\ Current.kind = "hunk")
      BY <2>7, <3>3 DEF Hunks, Looks, TypeOK, plan, section, Skip, Refuse
    <3> QED BY <3>2, <3>3
  <2>8. CASE Body
    <3>0. UNCHANGED <<maximumFiles, text, ended>>
      BY <2>8 DEF Body, Looks
    <3>1. CASE HasLine /\ Fits(Current) /\ seen' = After(Current) /\ marker' = TRUE
               /\ changed' = changed + (IF Change(Current) THEN 1 ELSE 0)
               /\ Consume("body") /\ UNCHANGED <<paths, path, hunks, want>>
      <4>1. After(Current) \in [old : 0..want.old, new : 0..want.new]
        BY <3>1 DEF Fits, After, TypeOK, Counts
      <4>2. changed' \in Nat /\ index' \in 0..Len(text)
        BY <3>1, CurrentLine DEF TypeOK, Consume
      <4> QED BY <3>0, <3>1, <4>1, <4>2 DEF TypeOK, Consume
    <3>2. CASE HasLine /\ marker' = FALSE /\ Consume("body") /\ UNCHANGED <<plan, path, hunks, want, seen>>
      BY <3>0, <3>2, CurrentLine DEF TypeOK, Consume, plan
    <3>3. CASE Refuse
      BY <3>0, <3>3 DEF TypeOK, Refuse, plan, section
    <3> QED BY <2>8, <3>1, <3>2, <3>3 DEF Body
  <2>9. CASE HunkEnd
    BY <2>9, CurrentLine DEF HunkEnd, Looks, TypeOK, plan, section, Consume, Skip
  <2>10. CASE Again
    BY <1>0, <1>3, <2>10 DEF Again, TypeOK
  <2>11. CASE UNCHANGED vars
    BY <2>11 DEF vars, TypeOK
  <2> QED
    BY <2>1, <2>2, <2>3, <2>4, <2>5, <2>6, <2>7, <2>8, <2>9, <2>10, <2>11 DEF Next
<1> QED BY <1>1, <1>2, PTL DEF Spec

----------------------------------------------------------------------------
(* The parser is right: the lines it has consumed can be read (and by the     *)
(* theorem Unambiguous in only one way), its plan is what they say, and where *)
(* it stands fits the last of them.                                           *)

\* The parser looks at most one line ahead.
Window ==
    /\ Len(text) \in {index, index + 1}
    /\ ended => index = Len(text) /\ text # <<>>

NotNext(kind) == AtEnd \/ (HasLine /\ Current.kind # kind)

AtSection(g) ==
    /\ Last(g, index) \in {"start"} \cup InSection
    /\ Len(paths) <= maximumFiles /\ changed <= MaxChanged
    /\ index > 0 => /\ paths # <<>> /\ NotNext("hunk")
                    /\ Last(g, index) # "marker" => NotNext("marker")

AtIndex(g) == Git /\ Last(g, index) = "diff" /\ path = text[index].before

AtOld(g) ==
    IF Git
    THEN /\ Last(g, index) \in {"diff", "index"} /\ path \in Paths
         /\ \A d \in {index, index - 1} \cap With(g, "diff") : text[d].before = path
         /\ {index, index - 1} \cap With(g, "diff") # {}
         /\ Last(g, index) = "diff" => NotNext("index")
    ELSE /\ Last(g, index) \in {"start"} \cup InSection /\ path = None
         /\ HasLine /\ Current.kind = "old"

AtNew(g) == Last(g, index) = "old" /\ path = text[index].path

AtHunks(g) ==
    /\ paths # <<>>
    /\ hunks = 0 => Last(g, index) = "new"
    /\ hunks > 0 => /\ Last(g, index) \in InSection
                    /\ Last(g, index) # "marker" => NotNext("marker")

AtBody(g) ==
    /\ paths # <<>> /\ hunks > 0 /\ Last(g, index) \in InSection
    /\ marker <=> Last(g, index) = "body"
    /\ Last(g, index) = "marker" => Open
    /\ \E h : /\ Reaches(g, index, h)
              /\ want.old = text[h].old /\ want.new = text[h].new
              /\ seen.old = OldLines(text, g, h) /\ seen.new = NewLines(text, g, h)

Here(g) ==
    /\ at # "body" => AllExact(text, g)
    /\ at # "section" => text # <<>>
    /\ at = "section" => AtSection(g)
    /\ at = "index" => AtIndex(g)
    /\ at = "old" => AtOld(g)
    /\ at = "new" => AtNew(g)
    /\ at = "hunks" => AtHunks(g)
    /\ at = "body" => AtBody(g)

Now(g) == Parsed(text, index, g, changed, paths)

Sound == Window /\ (\E g : Now(g) /\ Here(g)) /\ AcceptedIsPatch /\ RefusedIsNone

\* The last line and its role agree.
LEMMA LastLine ==
    ASSUME TypeOK, NEW g, Now(g)
    PROVE  /\ index \in Nat /\ index <= Len(text) /\ Len(text) \in Nat
           /\ text \in Seq(Line) /\ g \in Readings(text, index) /\ Shape(text, g)
           /\ index # 0 => /\ index \in 1..index /\ text[index] \in Line
                           /\ Last(g, index) = g[index] /\ Last(g, index) \in Roles
                           /\ Last(g, index) # "body" => text[index].kind = Last(g, index)
<1>1. /\ index \in Nat /\ index <= Len(text) /\ Len(text) \in Nat
      /\ text \in Seq(Line)
  BY DEF TypeOK
<1>2. g \in Readings(text, index) /\ Shape(text, g)
  BY DEF Now, Parsed
<1>3. SUFFICES ASSUME index # 0
               PROVE  /\ index \in 1..index /\ text[index] \in Line
                      /\ Last(g, index) = g[index] /\ Last(g, index) \in Roles
                      /\ Last(g, index) # "body" => text[index].kind = Last(g, index)
  BY <1>1, <1>2
<1>4. index \in 1..index /\ text[index] \in Line
  BY <1>1, <1>3
<1>5. g[index] \in May(text[index])
  BY <1>1, <1>2, <1>4, ReadingType
<1> QED BY <1>3, <1>4, <1>5, RoleOfLine DEF Last

\* Consuming a line that may have the role the parser gives it.
LEMMA Advance ==
    ASSUME TypeOK, HasLine, NEW g, Now(g), NEW r \in May(Current),
           Follows(text, g, index, r),
           UNCHANGED text, index' = index + 1,
           changed' = changed + One(r = "body" /\ Change(Current)),
           paths' = IF r = "new" THEN Append(paths, Current.path) ELSE paths
    PROVE  \E k : /\ Now(k)' /\ k \in Readings(text, index + 1)
                  /\ First(k, index) = g /\ k[index + 1] = r /\ Last(k, index + 1) = r
<1>0. PICK k : k = Then(g, index, r)
  OBVIOUS
<1>1. /\ index \in Nat /\ index < Len(text) /\ text \in Seq(Line) /\ paths \in Seq(Paths)
      /\ text[index + 1] = Current /\ Current \in Line
  BY CurrentLine DEF TypeOK, HasLine, Current
<1>2. g \in Readings(text, index) /\ r \in Roles
  BY <1>1, RoleOfLine DEF Now, Parsed
<1>3. k \in Readings(text, index + 1) /\ First(k, index) = g /\ k[index + 1] = r
  BY <1>0, <1>1, <1>2, ThenType
<1>4. Last(k, index + 1) = r
  BY <1>1, <1>3 DEF Last
<1>5. Parsed(text, index + 1, k, changed + One(r = "body" /\ Change(Current)),
             IF r = "new" THEN Append(paths, Current.path) ELSE paths)
  BY <1>0, <1>1, ParsedStep DEF Now
<1>6. Now(k)'
  BY <1>5 DEF Now
<1> QED BY <1>3, <1>4, <1>6

\* The line ahead, when every hunk so far has what it declares.
LEMMA ClosedCurrent ==
    ASSUME TypeOK, HasLine, NEW g, Now(g), AllExact(text, g),
           NEW r \in May(Current), Follows(text, g, index, r)
    PROVE  r = Current.kind
<1>1. /\ index \in Nat /\ index < Len(text) /\ text \in Seq(Line) /\ text[index + 1] = Current
  BY DEF TypeOK, HasLine, Current
<1>2. g \in Readings(text, index) /\ Shape(text, g)
  BY DEF Now, Parsed
<1> QED BY <1>1, <1>2, ClosedLine

\* When nothing can follow, or the text ends where it must not, there is no patch.
NoPatch ==
    ~\E f \in Assignments(text) : IF AtEnd THEN Complete(text, f, maximumFiles)
                                  ELSE Viable(text, f, maximumFiles)

LEMMA NoneFollows ==
    ASSUME TypeOK, Window, HasLine, NEW g, Now(g),
           \A r \in May(Current) : ~Follows(text, g, index, r)
    PROVE  NoPatch
<1>1. /\ index \in Nat /\ Len(text) = index + 1 /\ text \in Seq(Line) /\ text[index + 1] = Current
      /\ ~AtEnd
  BY DEF TypeOK, HasLine, Current, Window, AtEnd
<1>2. \A f \in Assignments(text) : ~Shape(text, f)
  BY <1>1, NothingFollows DEF Now
<1> QED BY <1>1, <1>2 DEF NoPatch, Viable

LEMMA Incomplete ==
    ASSUME TypeOK, AtEnd, NEW g, Now(g), ~Complete(text, g, maximumFiles)
    PROVE  NoPatch
<1>1. text \in Seq(Line) /\ index = Len(text)
  BY DEF TypeOK, AtEnd
<1>2. \A f \in Assignments(text) : Shape(text, f) => f = g
  BY <1>1, ParsedAll DEF Now
<1> QED BY <1>2 DEF NoPatch, Complete, Viable

\* What ends a patch that is complete.
LEMMA EndOfPatch ==
    ASSUME TypeOK, AtEnd, text # <<>>, NEW g, Now(g), Complete(text, g, maximumFiles)
    PROVE  Last(g, index) \in InSection /\ AllExact(text, g)
<1>1. index = Len(text) /\ Len(text) # 0
  BY DEF TypeOK, AtEnd
<1> QED BY <1>1 DEF Complete, Last, InSection, AllExact

\* Where the parser is does not change with what it leaves alone.
LEMMA Refusal ==
    ASSUME TypeOK, Sound, Refuse, UNCHANGED <<maximumFiles, text, ended>>, NoPatch
    PROVE  Sound'
<1>1. PICK g : Now(g) /\ Here(g)
  BY DEF Sound
<1>2. UNCHANGED <<maximumFiles, text, ended, at, index, paths, changed, path, hunks, want, seen, marker>>
      /\ verdict' = "rejected"
  BY DEF Refuse, plan, section
<1>3. Now(g)'
  BY <1>1, <1>2 DEF Now
<1>4. /\ AtSection(g)' <=> AtSection(g)
      /\ AtIndex(g)' <=> AtIndex(g)
      /\ AtOld(g)' <=> AtOld(g)
      /\ AtNew(g)' <=> AtNew(g)
      /\ AtHunks(g)' <=> AtHunks(g)
      /\ AtBody(g)' <=> AtBody(g)
  BY <1>2 DEF AtSection, AtIndex, AtOld, AtNew, AtHunks, AtBody, NotNext, HasLine, AtEnd, Current, Git, Open
<1>5. Here(g)'
  BY <1>1, <1>2, <1>4 DEF Here
<1>6. Window' /\ AcceptedIsPatch'
  BY <1>2 DEF Sound, Window, AcceptedIsPatch
<1>7. RefusedIsNone'
  BY <1>2 DEF NoPatch, RefusedIsNone, AtEnd
<1> QED BY <1>3, <1>5, <1>6, <1>7 DEF Sound

\* No verdict, no claim.
LEMMA Undecided ==
    ASSUME verdict' = "none"
    PROVE  AcceptedIsPatch' /\ RefusedIsNone'
BY DEF AcceptedIsPatch, RefusedIsNone

\* The window moves over one line.
LEMMA WindowMoves ==
    ASSUME TypeOK, Window, HasLine, UNCHANGED <<text, ended>>, index' = index + 1
    PROVE  Window'
BY DEF TypeOK, Window, HasLine

LEMMA WindowStays ==
    ASSUME Window, UNCHANGED <<text, ended, index>>
    PROVE  Window'
BY DEF Window

LEMMA MoreSound ==
    ASSUME TypeOK, Sound, More
    PROVE  Sound'
<1>0. PICK g : Now(g) /\ Here(g)
  BY DEF Sound
<1>1. /\ UNCHANGED <<maximumFiles, at, index, paths, changed, path, hunks, want, seen, marker, verdict>>
      /\ verdict = "none" /\ ~ended /\ index = Len(text) /\ ~AtEnd /\ ~HasLine
      /\ text \in Seq(Line) /\ index \in Nat
  BY DEF More, Running, plan, section, AtEnd, HasLine, TypeOK
<1>2. /\ text' \in Seq(Line) /\ Len(text') \in {index, index + 1}
      /\ \A i \in 1..index : text'[i] = text[i]
      /\ text # <<>> => text' # <<>> /\ text'[1] = text[1]
      /\ ended' => index = Len(text') /\ text' # <<>>
  <2>1. CASE \E l \in Line : text' = Append(text, l) /\ UNCHANGED ended
    <3>1. PICK l \in Line : text' = Append(text, l)
      BY <2>1
    <3>2. Len(text') = index + 1 /\ text' \in Seq(Line) /\ \A i \in 1..index : text'[i] = text[i]
      BY <1>1, <3>1
    <3>3. text # <<>> => 1 \in 1..index
      BY <1>1
    <3> QED BY <1>1, <2>1, <3>2, <3>3
  <2>2. CASE text # <<>> /\ ended' = TRUE /\ UNCHANGED text
    BY <1>1, <2>2
  <2> QED BY <2>1, <2>2 DEF More
<1>3. Window'
  BY <1>1, <1>2 DEF Window
<1>4. Now(g)'
  <2>1. Parsed(text', index, g, changed, paths)
    BY <1>0, <1>1, <1>2, ParsedOfPrefix DEF Now
  <2> QED BY <1>1, <2>1 DEF Now
<1>5. g \in Readings(text, index) /\ Shape(text, g)
  BY <1>0 DEF Now, Parsed
<1>6. /\ \A h : OldLines(text', g, h) = OldLines(text, g, h)
      /\ \A h : NewLines(text', g, h) = NewLines(text, g, h)
  BY <1>1, <1>2, <1>5, ShapeOfPrefix
<1>7. \A role : With(g, role) \subseteq 1..index
  BY <1>1, <1>5, ReadingType
<1>8. \A h \in With(g, "hunk") : text'[h] = text[h]
  BY <1>2, <1>7
<1>9. AllExact(text, g) => AllExact(text', g)
  BY <1>6, <1>8 DEF AllExact, Exact
<1>10. ~NotNext("hunk") /\ ~NotNext("marker") /\ ~NotNext("index")
  BY <1>1 DEF NotNext
<1>11. text # <<>> => (Git' <=> Git)
  BY <1>2 DEF Git, GitFormat
<1>12. index # 0 => text'[index] = text[index]
  BY <1>1, <1>2
<1>13. AtSection(g) => AtSection(g)'
  BY <1>1, <1>10 DEF AtSection
<1>14. text # <<>> /\ AtIndex(g) => AtIndex(g)'
  <2>1. Last(g, index) = "diff" => index # 0
    BY DEF Last
  <2> QED BY <1>1, <1>11, <1>12, <2>1 DEF AtIndex
<1>15. text # <<>> /\ AtOld(g) => AtOld(g)'
  <2>1. SUFFICES ASSUME text # <<>>, AtOld(g) PROVE AtOld(g)'
    OBVIOUS
  <2>2. Git /\ Git'
    BY <1>1, <1>11, <2>1 DEF AtOld
  <2>3. \A d \in {index, index - 1} \cap With(g, "diff") : text'[d] = text[d]
    BY <1>2, <1>7
  <2> QED BY <1>1, <1>10, <2>1, <2>2, <2>3 DEF AtOld
<1>16. AtNew(g) => AtNew(g)'
  <2>1. Last(g, index) = "old" => index # 0
    BY DEF Last
  <2> QED BY <1>1, <1>12, <2>1 DEF AtNew
<1>17. AtHunks(g) => AtHunks(g)'
  BY <1>1, <1>10 DEF AtHunks
<1>18. AtBody(g) => AtBody(g)'
  <2>1. SUFFICES ASSUME AtBody(g) PROVE AtBody(g)'
    OBVIOUS
  <2>2. PICK h : /\ Reaches(g, index, h)
                 /\ want.old = text[h].old /\ want.new = text[h].new
                 /\ seen.old = OldLines(text, g, h) /\ seen.new = NewLines(text, g, h)
    BY <2>1 DEF AtBody
  <2>3. text'[h] = text[h]
    BY <1>8, <2>2 DEF Reaches
  <2>4. \E k : /\ Reaches(g, index, k)
               /\ want.old = text'[k].old /\ want.new = text'[k].new
               /\ seen.old = OldLines(text', g, k) /\ seen.new = NewLines(text', g, k)
    BY <1>6, <2>2, <2>3
  <2> QED BY <1>1, <2>1, <2>4 DEF AtBody, Open
<1>19. Here(g)'
  BY <1>0, <1>1, <1>2, <1>9, <1>13, <1>14, <1>15, <1>16, <1>17, <1>18 DEF Here
<1> QED BY <1>1, <1>3, <1>4, <1>19, Undecided DEF Sound

LEMMA FinishSound ==
    ASSUME TypeOK, Sound, Finish
    PROVE  Sound'
<1>0. PICK g : Now(g) /\ Here(g)
  BY DEF Sound
<1>1. /\ UNCHANGED <<maximumFiles, text, ended, at, index, paths, changed, path, hunks, want, seen, marker>>
      /\ verdict' = IF paths # <<>> /\ changed > 0 THEN "accepted" ELSE "rejected"
      /\ at = "section" /\ AtEnd
  BY DEF Finish, Looks, plan, section
<1>2. text # <<>> /\ index = Len(text) /\ index > 0 /\ text \in Seq(Line)
  BY <1>1 DEF Sound, Window, AtEnd, TypeOK
<1>3. AtSection(g) /\ AllExact(text, g)
  BY <1>0, <1>1 DEF Here
<1>4. paths # <<>> /\ Last(g, index) = g[Len(text)] /\ g[Len(text)] \in InSection
  BY <1>0, <1>2, <1>3, LastLine DEF AtSection, Roles
<1>5. /\ changed = Cardinality(Changes(text, g)) /\ Names(text, g, paths) /\ Shape(text, g)
  BY <1>0 DEF Now, Parsed
<1>6. CASE changed > 0
  <2>1. Cardinality(With(g, "new")) = Len(paths)
    BY <1>5 DEF Names
  <2>2. Viable(text, g, maximumFiles)
    BY <1>3, <1>5, <2>1 DEF Viable, AtSection
  <2>3. Changes(text, g) # {}
    BY <1>5, <1>6, FS_EmptySet
  <2>4. Complete(text, g, maximumFiles)
    BY <1>3, <1>4, <2>2, <2>3 DEF Complete, AllExact, InSection
  <2>5. g \in Assignments(text)
    BY <1>0, <1>2, ParsedAll DEF Now
  <2>6. AcceptedIsPatch'
    BY <1>1, <1>5, <2>4, <2>5 DEF AcceptedIsPatch, Names
  <2>7. verdict' = "accepted"
    BY <1>1, <1>4, <1>6
  <2>8. Window' /\ Now(g)' /\ Here(g)' /\ RefusedIsNone'
    <3>1. Window' /\ Now(g)' /\ RefusedIsNone'
      BY <1>0, <1>1, <2>7 DEF Sound, Window, Now, RefusedIsNone
    <3>2. AtSection(g)'
      BY <1>1, <1>3 DEF AtSection, NotNext, HasLine, AtEnd, Current
    <3> QED BY <1>1, <1>3, <3>1, <3>2 DEF Here
  <2> QED BY <2>6, <2>8 DEF Sound
<1>7. CASE ~(changed > 0)
  <2>1. ~Complete(text, g, maximumFiles)
    <3>1. g \in Readings(text, index)
      BY <1>0 DEF Now, Parsed
    <3>2. Changes(text, g) \subseteq 1..index /\ index \in Nat
      BY <1>2, <3>1, ReadingType DEF Changes, TypeOK
    <3>3. IsFiniteSet(Changes(text, g))
      <4>1. IsFiniteSet(1..index)
        BY <3>2, FS_Interval
      <4> QED BY <3>2, <4>1, FS_Subset
    <3>4. changed = 0
      BY <1>7 DEF TypeOK
    <3>5. Changes(text, g) = {}
      BY <1>5, <3>3, <3>4, FS_EmptySet
    <3> QED BY <3>5 DEF Complete
  <2>2. NoPatch
    BY <1>0, <1>1, <2>1, Incomplete
  <2>3. Refuse
    BY <1>1, <1>7 DEF Refuse, plan, section
  <2> QED BY <1>1, <2>2, <2>3, Refusal
<1> QED BY <1>6, <1>7

\* Consuming a header, or a marker, when every hunk has what it declares.
LEMMA ClosedAdvance ==
    ASSUME TypeOK, Window, HasLine, NEW g, Now(g), AllExact(text, g),
           NEW r \in {"diff", "index", "old", "new", "hunk", "marker"}, Current.kind = r,
           Follows(text, g, index, r),
           UNCHANGED <<text, ended, changed>>, index' = index + 1,
           paths' = IF r = "new" THEN Append(paths, Current.path) ELSE paths
    PROVE  /\ Window'
           /\ \E k : /\ Now(k)' /\ k \in Readings(text, index + 1)
                     /\ First(k, index) = g /\ k[index + 1] = r /\ Last(k, index + 1) = r
                     /\ r # "hunk" => AllExact(text, k)
<1>1. r \in May(Current)
  BY DEF May
<1>2. changed' = changed + One(r = "body" /\ Change(Current))
  BY DEF One, TypeOK
<1>3. PICK k : /\ Now(k)' /\ k \in Readings(text, index + 1)
               /\ First(k, index) = g /\ k[index + 1] = r /\ Last(k, index + 1) = r
  BY <1>1, <1>2, Advance
<1>4. r # "hunk" => AllExact(text, k)
  BY <1>3, CountsKept DEF TypeOK
<1> QED BY <1>3, <1>4, WindowMoves

LEMMA SectionSound ==
    ASSUME TypeOK, Sound, Section
    PROVE  Sound'
<1>0. PICK g : Now(g) /\ Here(g)
  BY DEF Sound
<1>1. /\ UNCHANGED <<maximumFiles, text, ended>> /\ at = "section" /\ HasLine /\ verdict = "none"
      /\ Window /\ ~AtEnd /\ index \in Nat /\ text # <<>>
      /\ Current \in Line /\ text[index + 1] = Current
  BY CurrentLine DEF Section, Looks, Running, Sound, HasLine, AtEnd, TypeOK, Current
<1>2. AllExact(text, g) /\ AtSection(g)
  BY <1>0, <1>1 DEF Here
<1>3. CASE /\ Git /\ Current.kind = "diff" /\ Current.before = Current.after
           /\ path' = Current.before /\ Consume("index")
           /\ UNCHANGED <<plan, hunks, want, seen, marker>>
  <2>1. Follows(text, g, index, "diff")
    BY <1>1, <1>2, <1>3 DEF Follows, AllExact, AtSection, InSection, Before, Git
  <2>2. Window' /\ \E k : /\ Now(k)' /\ Last(k, index + 1) = "diff" /\ AllExact(text, k)
    BY <1>0, <1>1, <1>2, <1>3, <2>1, ClosedAdvance DEF Consume, plan
  <2>3. PICK k : /\ Now(k)' /\ Last(k, index + 1) = "diff" /\ AllExact(text, k)
    BY <2>2
  <2>4. at' = "index" /\ index' = index + 1 /\ verdict' = "none"
    BY <1>1, <1>3 DEF Consume
  <2>5. AtIndex(k)'
    BY <1>1, <1>3, <2>3, <2>4 DEF AtIndex, Git
  <2>6. Here(k)'
    BY <1>1, <2>3, <2>4, <2>5 DEF Here
  <2> QED BY <2>2, <2>3, <2>4, <2>6, Undecided DEF Sound
<1>4. CASE /\ ~Git /\ Current.kind = "old"
           /\ path' = None /\ Skip("old")
           /\ UNCHANGED <<plan, hunks, want, seen, marker>>
  <2>1. at' = "old" /\ verdict' = "none" /\ UNCHANGED <<index, paths, changed>>
    BY <1>1, <1>4 DEF Skip, plan
  <2>2. Now(g)'
    BY <1>0, <1>1, <2>1 DEF Now
  <2>3. AtOld(g)'
    BY <1>1, <1>2, <1>4, <2>1 DEF AtOld, AtSection, Git, HasLine, Current
  <2>4. Here(g)'
    BY <1>1, <1>2, <2>1, <2>3 DEF Here
  <2> QED BY <1>1, <2>1, <2>2, <2>4, Undecided, WindowStays DEF Sound
<1>5. CASE /\ IF Git THEN Current.kind = "diff" => Current.before # Current.after
                     ELSE Current.kind # "old"
           /\ Refuse
  <2>1. ASSUME NEW r \in May(Current), Follows(text, g, index, r)
        PROVE  FALSE
    <3>1. r = Current.kind /\ r \in Roles /\ r # "body"
      <4>1. r = Current.kind
        BY <1>0, <1>1, <1>2, <2>1, ClosedCurrent
      <4> QED BY <1>1, <2>1, <4>1, RoleOfLine, LineKinds
    <3>2. Last(g, index) \in Before(text, r) /\ (r = "diff" => Current.before = Current.after)
      BY <1>1, <2>1 DEF Follows
    <3>3. Last(g, index) = "start" \/ Last(g, index) \in InSection
      BY <1>2 DEF AtSection
    <3>4. Last(g, index) \in InSection => index > 0
      BY <1>1 DEF Last, InSection
    <3>5. Last(g, index) \in InSection =>
             Current.kind # "hunk" /\ (Last(g, index) # "marker" => Current.kind # "marker")
      BY <1>1, <1>2, <3>4 DEF AtSection, NotNext
    <3>6. Git => r # "diff"
      BY <1>5, <3>1, <3>2
    <3>7. ~Git => r # "old"
      BY <1>5, <3>1
    <3> HIDE DEF Git
    <3> QED BY <3>1, <3>2, <3>3, <3>5, <3>6, <3>7 DEF Before, Roles, InSection, Git
  <2>2. NoPatch
    BY <1>0, <1>1, <2>1, NoneFollows
  <2> QED BY <1>1, <1>5, <2>2, Refusal
<1> QED BY <1>3, <1>4, <1>5 DEF Section

LEMMA IndexSound ==
    ASSUME TypeOK, Sound, Index
    PROVE  Sound'
<1>0. PICK g : Now(g) /\ Here(g)
  BY DEF Sound
<1>1. /\ UNCHANGED <<maximumFiles, text, ended, paths, changed, path, hunks, want, seen, marker>>
      /\ at = "index" /\ verdict = "none" /\ Window /\ index \in Nat /\ (HasLine \/ AtEnd)
  BY DEF Index, Looks, Running, Sound, TypeOK, plan, section
<1>2. AllExact(text, g) /\ AtIndex(g) /\ text # <<>>
  BY <1>0, <1>1 DEF Here
<1>3. index # 0 /\ index \in 1..index /\ g[index] = "diff" /\ text[index] \in Line /\ text[index].kind = "diff"
  BY <1>0, <1>2, LastLine DEF AtIndex, Last
<1>4. path \in Paths
  BY <1>2, <1>3, DiffLine DEF AtIndex
<1>5. g \in Readings(text, index) /\ Shape(text, g)
  BY <1>0 DEF Now, Parsed
<1>6. index \in With(g, "diff") /\ index - 1 \notin With(g, "diff")
  <2>1. /\ \A i : i \in With(g, "diff") <=> i \in 1..index /\ g[i] = "diff"
        /\ DOMAIN g = 1..index
    BY <1>1, <1>5, ReadingType
  <2>2. SUFFICES ASSUME index - 1 \in 1..index, g[index - 1] = "diff" PROVE FALSE
    BY <1>3, <2>1
  <2>3. index # 1
    BY <1>1, <2>2
  <2>4. "diff" \in Before(text, "diff")
    BY <1>3, <1>5, <2>1, <2>2, <2>3 DEF Shape
  <2> QED BY <2>4 DEF Before
<1>7. CASE HasLine /\ Current.kind = "index"
  <2>1. at' = "old" /\ index' = index + 1 /\ verdict' = "none"
    BY <1>1, <1>7 DEF Index, Consume
  <2>2. Follows(text, g, index, "index")
    BY <1>2 DEF Follows, AllExact, AtIndex, Before
  <2>3. PICK k : /\ Now(k)' /\ k \in Readings(text, index + 1) /\ First(k, index) = g
                 /\ k[index + 1] = "index" /\ Last(k, index + 1) = "index" /\ AllExact(text, k)
    BY <1>0, <1>1, <1>2, <1>7, <2>1, <2>2, ClosedAdvance
  <2>4. Window'
    BY <1>0, <1>1, <1>2, <1>7, <2>1, <2>2, ClosedAdvance
  <2>5. With(k, "diff") = With(g, "diff") /\ index + 1 \notin With(g, "diff")
    <3>1. /\ With(k, "diff") = With(g, "diff") \cup (IF k[index + 1] = "diff" THEN {index + 1} ELSE {})
          /\ index + 1 \notin With(g, "diff")
      BY <1>1, <2>3, WithStep
    <3> QED BY <2>3, <3>1
  <2>6. AtOld(k)'
    <3>1. (index + 1) - 1 = index
      BY <1>1
    <3>2. \A d \in {index + 1, index} \cap With(k, "diff") : text[d].before = path
      BY <1>2, <2>5 DEF AtIndex
    <3>3. index \in {index + 1, index} \cap With(k, "diff")
      BY <1>6, <2>5
    <3>4. Git'
      BY <1>1, <1>2 DEF AtIndex, Git
    <3> QED BY <1>1, <1>4, <2>1, <2>3, <3>1, <3>2, <3>3, <3>4 DEF AtOld
  <2>7. Here(k)'
    BY <1>1, <1>2, <2>1, <2>3, <2>6 DEF Here
  <2> QED BY <2>1, <2>3, <2>4, <2>7, Undecided DEF Sound
<1>8. CASE ~(HasLine /\ Current.kind = "index")
  <2>1. at' = "old" /\ index' = index /\ verdict' = "none"
    BY <1>1, <1>8 DEF Index, Skip
  <2>2. Now(g)'
    BY <1>0, <1>1, <2>1 DEF Now
  <2>3. NotNext("index")'
    BY <1>1, <1>8, <2>1 DEF NotNext, HasLine, AtEnd, Current
  <2>4. Git'
    BY <1>1, <1>2 DEF AtIndex, Git
  <2>5. AtOld(g)'
    BY <1>1, <1>2, <1>4, <1>6, <2>1, <2>3, <2>4 DEF AtOld, AtIndex
  <2>6. Here(g)'
    BY <1>1, <1>2, <2>1, <2>5 DEF Here
  <2> QED BY <1>1, <2>1, <2>2, <2>6, Undecided, WindowStays DEF Sound
<1> QED BY <1>7, <1>8

LEMMA OldHeaderSound ==
    ASSUME TypeOK, Sound, OldHeader
    PROVE  Sound'
<1>0. PICK g : Now(g) /\ Here(g)
  BY DEF Sound
<1>1. /\ UNCHANGED <<maximumFiles, text, ended>> /\ at = "old" /\ verdict = "none" /\ Window
      /\ index \in Nat /\ (HasLine \/ AtEnd) /\ (HasLine => ~AtEnd)
  BY DEF OldHeader, Looks, Running, Sound, TypeOK, HasLine, AtEnd
<1>2. AllExact(text, g) /\ AtOld(g) /\ text # <<>>
  BY <1>0, <1>1 DEF Here
<1>3. HasLine => Current \in Line /\ text[index + 1] = Current
  BY CurrentLine DEF Current
<1>4. None \notin Paths
  BY ParserAssumption
<1>5. CASE /\ HasLine /\ Current.kind = "old" /\ path \in {None, Current.path}
           /\ path' = Current.path /\ Consume("new")
           /\ UNCHANGED <<plan, hunks, want, seen, marker>>
  <2>1. at' = "new" /\ index' = index + 1 /\ verdict' = "none" /\ UNCHANGED <<paths, changed>>
    BY <1>1, <1>5 DEF Consume, plan
  <2>2. Last(g, index) \in Before(text, "old") /\ Last(g, index) # "old"
    BY <1>2 DEF AtOld, Before, Git, InSection
  <2>3. Git => \A d \in {index, index - 1} \cap With(g, "diff") : text[d].before = Current.path
    BY <1>2, <1>4, <1>5 DEF AtOld
  <2>4. Follows(text, g, index, "old")
    BY <1>2, <1>3, <1>5, <2>2, <2>3 DEF Follows, AllExact, Git
  <2>5. Window' /\ \E k : Now(k)' /\ Last(k, index + 1) = "old" /\ AllExact(text, k)
    BY <1>0, <1>1, <1>2, <1>5, <2>1, <2>4, ClosedAdvance
  <2>6. PICK k : Now(k)' /\ Last(k, index + 1) = "old" /\ AllExact(text, k)
    BY <2>5
  <2>7. AtNew(k)'
    BY <1>1, <1>3, <1>5, <2>1, <2>6 DEF AtNew
  <2>8. Here(k)'
    BY <1>1, <1>2, <2>1, <2>6, <2>7 DEF Here
  <2> QED BY <2>1, <2>5, <2>6, <2>8, Undecided DEF Sound
<1>6. CASE ~(HasLine /\ Current.kind = "old" /\ path \in {None, Current.path}) /\ Refuse
  <2>1. Git
    BY <1>2, <1>6 DEF AtOld
  <2>2. CASE AtEnd
    <3>1. Last(g, index) \notin InSection
      BY <1>2, <2>1 DEF AtOld, InSection
    <3>2. ~Complete(text, g, maximumFiles)
      BY <1>0, <1>2, <2>2, <3>1, EndOfPatch
    <3>3. NoPatch
      BY <1>0, <2>2, <3>2, Incomplete
    <3> QED BY <1>1, <1>6, <3>3, Refusal
  <2>3. CASE HasLine
    <3>1. ASSUME NEW r \in May(Current), Follows(text, g, index, r)
          PROVE  FALSE
      <4>1. r = Current.kind
        BY <1>0, <1>2, <2>3, <3>1, ClosedCurrent
      <4>2. r \in Roles /\ r # "body"
        BY <1>3, <2>3, <3>1, <4>1, RoleOfLine, LineKinds
      <4>3. Last(g, index) \in Before(text, r) /\ Last(g, index) \in {"diff", "index"} /\ GitFormat(text)
        BY <1>2, <2>1, <3>1 DEF Follows, AtOld, Git
      <4>4. r \in {"index", "old"}
        BY <4>2, <4>3 DEF Before, Roles
      <4>5. r # "index"
        BY <1>1, <1>2, <2>1, <2>3, <4>1, <4>3 DEF Before, AtOld, NotNext
      <4>6. \A d \in {index, index - 1} \cap With(g, "diff") : text[d].before = Current.path
        BY <1>3, <2>3, <3>1, <4>3, <4>4, <4>5 DEF Follows
      <4>7. path = Current.path
        BY <1>2, <2>1, <4>6 DEF AtOld
      <4> QED BY <1>6, <2>3, <4>1, <4>4, <4>5, <4>7
    <3>2. NoPatch
      BY <1>0, <1>1, <2>3, <3>1, NoneFollows
    <3> QED BY <1>1, <1>6, <3>2, Refusal
  <2> QED BY <1>1, <2>2, <2>3
<1> QED BY <1>5, <1>6 DEF OldHeader

LEMMA NewHeaderSound ==
    ASSUME TypeOK, Sound, NewHeader
    PROVE  Sound'
<1>0. PICK g : Now(g) /\ Here(g)
  BY DEF Sound
<1>1. /\ UNCHANGED <<maximumFiles, text, ended>> /\ at = "new" /\ verdict = "none" /\ Window
      /\ index \in Nat /\ (HasLine \/ AtEnd) /\ (HasLine => ~AtEnd)
  BY DEF NewHeader, Looks, Running, Sound, TypeOK, HasLine, AtEnd
<1>2. AllExact(text, g) /\ AtNew(g) /\ text # <<>>
  BY <1>0, <1>1 DEF Here
<1>3. HasLine => Current \in Line /\ text[index + 1] = Current
  BY CurrentLine DEF Current
<1>4. g \in Readings(text, index) /\ Names(text, g, paths) /\ paths \in Seq(Paths)
  BY <1>0 DEF Now, Parsed, TypeOK
<1>5. CASE /\ HasLine /\ Current.kind = "new" /\ NewPath
           /\ paths' = Append(paths, path) /\ hunks' = 0 /\ Consume("hunks")
           /\ UNCHANGED <<changed, path, want, seen, marker>>
  <2>1. /\ at' = "hunks" /\ index' = index + 1 /\ verdict' = "none" /\ UNCHANGED changed
        /\ paths' = Append(paths, Current.path) /\ hunks' = 0
    BY <1>1, <1>5 DEF Consume, NewPath
  <2>2. \A j \in With(g, "new") : text[j].path # Current.path
    <3>1. TAKE j \in With(g, "new")
    <3>2. \E k \in DOMAIN paths : paths[k] = text[j].path
      BY <1>1, <1>4, NamesIn
    <3> QED BY <1>5, <3>2 DEF NewPath
  <2>3. Current.path = text[index].path
    BY <1>2, <1>5 DEF AtNew, NewPath
  <2>4. Follows(text, g, index, "new")
    BY <1>2, <1>3, <1>5, <2>2, <2>3 DEF Follows, AllExact, AtNew, Before
  <2>5. Window' /\ \E k : Now(k)' /\ Last(k, index + 1) = "new" /\ AllExact(text, k)
    BY <1>0, <1>1, <1>2, <1>5, <2>1, <2>4, ClosedAdvance
  <2>6. PICK k : Now(k)' /\ Last(k, index + 1) = "new" /\ AllExact(text, k)
    BY <2>5
  <2>7. paths' # <<>>
    BY <1>4, <2>1
  <2>8. AtHunks(k)'
    BY <2>1, <2>6, <2>7 DEF AtHunks
  <2>9. Here(k)'
    BY <1>1, <1>2, <2>1, <2>6, <2>8 DEF Here
  <2> QED BY <2>1, <2>5, <2>6, <2>9, Undecided DEF Sound
<1>6. CASE ~(HasLine /\ Current.kind = "new" /\ NewPath) /\ Refuse
  <2>2. CASE AtEnd
    <3>1. Last(g, index) \notin InSection
      BY <1>2 DEF AtNew, InSection
    <3>2. ~Complete(text, g, maximumFiles)
      BY <1>0, <1>2, <2>2, <3>1, EndOfPatch
    <3>3. NoPatch
      BY <1>0, <2>2, <3>2, Incomplete
    <3> QED BY <1>1, <1>6, <3>3, Refusal
  <2>3. CASE HasLine
    <3>1. ASSUME NEW r \in May(Current), Follows(text, g, index, r)
          PROVE  FALSE
      <4>1. r = Current.kind
        BY <1>0, <1>2, <2>3, <3>1, ClosedCurrent
      <4>2. r \in Roles /\ r # "body"
        BY <1>3, <2>3, <3>1, <4>1, RoleOfLine, LineKinds
      <4>3. Last(g, index) \in Before(text, r) /\ Last(g, index) = "old"
        BY <1>2, <3>1 DEF Follows, AtNew
      <4>4. r = "new"
        BY <4>2, <4>3 DEF Before, Roles
      <4>5. Current.path = path /\ \A j \in With(g, "new") : text[j].path # Current.path
        BY <1>2, <1>3, <2>3, <3>1, <4>3, <4>4 DEF Follows, AtNew
      <4>6. \A k \in DOMAIN paths : paths[k] # path
        BY <1>4, <4>5 DEF Names
      <4> QED BY <1>6, <2>3, <4>1, <4>4, <4>5, <4>6 DEF NewPath
    <3>2. NoPatch
      BY <1>0, <1>1, <2>3, <3>1, NoneFollows
    <3> QED BY <1>1, <1>6, <3>2, Refusal
  <2> QED BY <1>1, <2>2, <2>3
<1> QED BY <1>5, <1>6 DEF NewHeader

LEMMA HunksSound ==
    ASSUME TypeOK, Sound, Hunks
    PROVE  Sound'
<1>0. PICK g : Now(g) /\ Here(g)
  BY DEF Sound
<1>1. /\ UNCHANGED <<maximumFiles, text, ended>> /\ at = "hunks" /\ verdict = "none" /\ Window
      /\ index \in Nat /\ (HasLine \/ AtEnd) /\ (HasLine => ~AtEnd) /\ hunks \in Nat
  BY DEF Hunks, Looks, Running, Sound, TypeOK, HasLine, AtEnd
<1>2. AllExact(text, g) /\ AtHunks(g) /\ text # <<>>
  BY <1>0, <1>1 DEF Here
<1>3. HasLine => Current \in Line /\ text[index + 1] = Current
  BY CurrentLine DEF Current
<1>4. CASE HasLine /\ Current.kind = "hunk"
  <2>1. /\ at' = "body" /\ index' = index + 1 /\ verdict' = "none" /\ UNCHANGED <<paths, changed>>
        /\ want' = [old |-> Current.old, new |-> Current.new] /\ seen' = Zero
        /\ hunks' = hunks + 1 /\ marker' = FALSE
    BY <1>1, <1>4 DEF Hunks, Consume, plan
  <2>2. Last(g, index) \in {"new"} \cup InSection
    BY <1>1, <1>2 DEF AtHunks
  <2>3. Follows(text, g, index, "hunk")
    BY <1>2, <2>2 DEF Follows, AllExact, Before, InSection
  <2>4. Window' /\ \E k : /\ Now(k)' /\ k \in Readings(text, index + 1)
                          /\ k[index + 1] = "hunk" /\ Last(k, index + 1) = "hunk"
    BY <1>0, <1>1, <1>2, <1>4, <2>1, <2>3, ClosedAdvance
  <2>5. PICK k : /\ Now(k)' /\ k \in Readings(text, index + 1)
                 /\ k[index + 1] = "hunk" /\ Last(k, index + 1) = "hunk"
    BY <2>4
  <2>6. Reaches(k, index + 1, index + 1)
    BY <1>1, <2>5, ReachesStep
  <2>7. OldLines(text, k, index + 1) = 0 /\ NewLines(text, k, index + 1) = 0
    BY <1>1, <2>5, <2>6, EmptyHunk
  <2>8. AtBody(k)'
    <3>1. /\ want'.old = text[index + 1].old /\ want'.new = text[index + 1].new
          /\ seen'.old = 0 /\ seen'.new = 0
      BY <1>3, <1>4, <2>1 DEF Zero
    <3>2. \E h : /\ Reaches(k, index + 1, h)
                 /\ want'.old = text[h].old /\ want'.new = text[h].new
                 /\ seen'.old = OldLines(text, k, h) /\ seen'.new = NewLines(text, k, h)
      BY <2>6, <2>7, <3>1
    <3>3. paths' # <<>> /\ hunks' > 0
      BY <1>1, <1>2, <2>1 DEF AtHunks
    <3> QED BY <1>1, <2>1, <2>5, <3>2, <3>3 DEF AtBody, InSection
  <2>9. Here(k)'
    BY <1>1, <1>2, <2>1, <2>8 DEF Here
  <2> QED BY <2>1, <2>4, <2>5, <2>9, Undecided DEF Sound
<1>5. CASE /\ ~(HasLine /\ Current.kind = "hunk")
           /\ hunks > 0 /\ Len(paths) <= maximumFiles /\ changed <= MaxChanged
  <2>1. /\ at' = "section" /\ verdict' = "none"
        /\ UNCHANGED <<index, paths, changed, path, hunks, want, seen, marker>>
    BY <1>1, <1>5 DEF Hunks, Skip, plan, section
  <2>2. Now(g)'
    BY <1>0, <1>1, <2>1 DEF Now
  <2>3. UNCHANGED <<HasLine, AtEnd, Current>>
    BY <1>1, <2>1 DEF HasLine, AtEnd, Current
  <2>4. NotNext("hunk")
    BY <1>1, <1>5 DEF NotNext
  <2>5. AtSection(g)'
    BY <1>1, <1>2, <1>5, <2>1, <2>3, <2>4 DEF AtSection, AtHunks, NotNext
  <2>6. Here(g)'
    BY <1>1, <1>2, <2>1, <2>5 DEF Here
  <2> QED BY <1>1, <2>1, <2>2, <2>6, Undecided, WindowStays DEF Sound
<1>6. CASE /\ ~(HasLine /\ Current.kind = "hunk")
           /\ ~(hunks > 0 /\ Len(paths) <= maximumFiles /\ changed <= MaxChanged)
  <2>1. Refuse
    BY <1>6 DEF Hunks
  <2>2. CASE hunks = 0 /\ AtEnd
    <3>1. Last(g, index) \notin InSection
      BY <1>2, <2>2 DEF AtHunks, InSection
    <3>2. ~Complete(text, g, maximumFiles)
      BY <1>0, <1>2, <2>2, <3>1, EndOfPatch
    <3>3. NoPatch
      BY <1>0, <2>2, <3>2, Incomplete
    <3> QED BY <1>1, <2>1, <3>3, Refusal
  <2>3. CASE hunks = 0 /\ HasLine
    <3>1. ASSUME NEW r \in May(Current), Follows(text, g, index, r)
          PROVE  FALSE
      <4>1. r = Current.kind
        BY <1>0, <1>2, <2>3, <3>1, ClosedCurrent
      <4>2. r \in Roles /\ r # "body"
        BY <1>3, <2>3, <3>1, <4>1, RoleOfLine, LineKinds
      <4>3. Last(g, index) \in Before(text, r) /\ Last(g, index) = "new"
        BY <1>2, <2>3, <3>1 DEF Follows, AtHunks
      <4>4. r = "hunk"
        BY <4>2, <4>3 DEF Before, Roles
      <4> QED BY <1>6, <2>3, <4>1, <4>4
    <3>2. NoPatch
      BY <1>0, <1>1, <2>3, <3>1, NoneFollows
    <3> QED BY <1>1, <2>1, <3>2, Refusal
  <2>4. CASE hunks # 0
    <3>1. ~(Len(paths) <= maximumFiles) \/ ~(changed <= MaxChanged)
      BY <1>1, <1>6, <2>4
    <3>2. ASSUME NEW f \in Assignments(text), Viable(text, f, maximumFiles)
          PROVE  FALSE
      <4>1. Shape(text, f)
        BY <3>2 DEF Viable
      <4>2. /\ Cardinality(With(f, "new")) \in Nat /\ Cardinality(With(f, "new")) >= Len(paths)
            /\ Cardinality(Changes(text, f)) \in Nat /\ Cardinality(Changes(text, f)) >= changed
            /\ Len(paths) \in Nat /\ changed \in Nat
        <5>1. text \in Seq(Line) /\ Len(text) \in {index, index + 1}
          BY <1>1 DEF TypeOK, Window
        <5> QED BY <1>0, <1>1, <4>1, <5>1, LimitsGrow DEF Now
      <4>3. maximumFiles \in Nat /\ MaxChanged \in Nat
        BY Limits DEF TypeOK
      <4> QED BY <3>1, <3>2, <4>2, <4>3 DEF Viable
    <3>3. NoPatch
      BY <3>2 DEF NoPatch, Complete
    <3> QED BY <1>1, <2>1, <3>3, Refusal
  <2> QED BY <1>1, <2>2, <2>3, <2>4
<1> QED BY <1>4, <1>5, <1>6

LEMMA BodySound ==
    ASSUME TypeOK, Sound, Body
    PROVE  Sound'
<1>0. PICK g : Now(g) /\ Here(g)
  BY DEF Sound
<1>1. /\ UNCHANGED <<maximumFiles, text, ended>> /\ at = "body" /\ verdict = "none" /\ Window /\ Open
      /\ index \in Nat /\ index <= Len(text) /\ (HasLine \/ AtEnd) /\ (HasLine => ~AtEnd)
      /\ (HasLine => index < Len(text))
      /\ text \in Seq(Line) /\ want.old \in Nat /\ want.new \in Nat
      /\ seen.old \in Nat /\ seen.new \in Nat /\ changed \in Nat
  BY DEF Body, Looks, Running, Sound, TypeOK, HasLine, AtEnd, Counts
<1>2. AtBody(g) /\ text # <<>>
  BY <1>0, <1>1 DEF Here
<1>3. HasLine => Current \in Line /\ text[index + 1] = Current
  BY CurrentLine DEF Current
<1>4. g \in Readings(text, index) /\ Shape(text, g)
  BY <1>0 DEF Now, Parsed
<1>5. PICK h : /\ Reaches(g, index, h)
               /\ want.old = text[h].old /\ want.new = text[h].new
               /\ seen.old = OldLines(text, g, h) /\ seen.new = NewLines(text, g, h)
  BY <1>2 DEF AtBody
<1>6. ~Exact(text, g, h)
  BY <1>1, <1>5 DEF Exact, Open
<1>7. h \in With(g, "hunk")
  BY <1>5 DEF Reaches
<1>8. \A l : After(l).old = seen.old + One(OldSide(l)) /\ After(l).new = seen.new + One(NewSide(l))
  BY DEF After, One
<1>9. CASE /\ HasLine /\ Fits(Current)
           /\ seen' = After(Current) /\ marker' = TRUE
           /\ changed' = changed + (IF Change(Current) THEN 1 ELSE 0)
           /\ Consume("body") /\ UNCHANGED <<paths, path, hunks, want>>
  <2>1. /\ at' = "body" /\ index' = index + 1 /\ verdict' = "none"
        /\ UNCHANGED <<paths, path, hunks, want>> /\ seen' = After(Current) /\ marker' = TRUE
    BY <1>1, <1>9 DEF Consume
  <2>2. "body" \in May(Current)
    BY <1>9 DEF May, Fits
  <2>3. Follows(text, g, index, "body")
    <3>1. Last(g, index) \in Before(text, "body") /\ Last(g, index) # "old"
      BY <1>2 DEF AtBody, Before, InSection
    <3>2. ASSUME NEW k \in With(g, "hunk"), Reaches(g, index, k)
          PROVE  /\ OldLines(text, g, k) + One(OldSide(text[index + 1])) <= text[k].old
                 /\ NewLines(text, g, k) + One(NewSide(text[index + 1])) <= text[k].new
      <4>1. k = h
        BY <1>1, <1>4, <1>5, <3>2, OthersExact
      <4> QED BY <1>3, <1>5, <1>8, <1>9, <4>1 DEF Fits
    <3> QED BY <3>1, <3>2 DEF Follows
  <2>4. /\ changed' = changed + One("body" = "body" /\ Change(Current))
        /\ paths' = IF "body" = "new" THEN Append(paths, Current.path) ELSE paths
    <3>1. changed' = changed + One(Change(Current))
      BY <1>9 DEF One
    <3>2. One("body" = "body" /\ Change(Current)) = One(Change(Current))
      BY DEF One, Change
    <3>3. "body" # "new"
      OBVIOUS
    <3> QED BY <2>1, <3>1, <3>2, <3>3
  <2>5. PICK k : /\ Now(k)' /\ k \in Readings(text, index + 1)
                 /\ First(k, index) = g /\ k[index + 1] = "body" /\ Last(k, index + 1) = "body"
    BY <1>0, <1>1, <1>9, <2>1, <2>2, <2>3, <2>4, Advance
  <2>6. Reaches(k, index + 1, h)
    BY <1>1, <1>5, <2>5, ReachesStep
  <2>7. /\ OldLines(text, k, h) = seen.old + One(OldSide(Current))
        /\ NewLines(text, k, h) = seen.new + One(NewSide(Current))
    <3> DEFINE b == k[index + 1] = "body" /\ Reaches(g, index, h)
    <3>0. b = (k[index + 1] = "body" /\ Reaches(First(k, index), index, h))
      BY <2>5
    <3>1. b
      BY <1>5, <2>5
    <3> HIDE DEF b
    <3>2. /\ OldLines(text, k, h) = OldLines(text, g, h) + One(b /\ OldSide(text[index + 1]))
          /\ NewLines(text, k, h) = NewLines(text, g, h) + One(b /\ NewSide(text[index + 1]))
      BY <1>1, <1>7, <2>5, <3>0, HunkCountsStep
    <3>3. /\ One(b /\ OldSide(text[index + 1])) = One(OldSide(Current))
          /\ One(b /\ NewSide(text[index + 1])) = One(NewSide(Current))
      BY <1>3, <1>9, <3>1 DEF One
    <3> QED BY <1>5, <3>2, <3>3
  <2>8. AtBody(k)'
    <3>1. /\ Reaches(k, index + 1, h)
          /\ want'.old = text[h].old /\ want'.new = text[h].new
          /\ seen'.old = OldLines(text, k, h) /\ seen'.new = NewLines(text, k, h)
      BY <1>5, <1>8, <2>1, <2>6, <2>7
    <3>2. paths' # <<>> /\ hunks' > 0
      BY <1>2, <2>1 DEF AtBody
    <3> QED BY <1>1, <2>1, <2>5, <3>1, <3>2 DEF AtBody, InSection
  <2>9. Here(k)'
    BY <1>1, <1>2, <2>1, <2>8 DEF Here
  <2>10. Window'
    BY <1>1, <1>9, <2>1, WindowMoves
  <2> QED BY <2>1, <2>5, <2>9, <2>10, Undecided DEF Sound
<1>10. CASE /\ HasLine /\ Marks(Current)
            /\ marker' = FALSE
            /\ Consume("body") /\ UNCHANGED <<plan, path, hunks, want, seen>>
  <2>1. /\ at' = "body" /\ index' = index + 1 /\ verdict' = "none"
        /\ UNCHANGED <<paths, changed, path, hunks, want, seen>> /\ marker' = FALSE
    BY <1>1, <1>10 DEF Consume, plan
  <2>2. Current.kind = "marker" /\ Last(g, index) = "body"
    BY <1>2, <1>10 DEF Marks, AtBody
  <2>3. "marker" \in May(Current)
    BY <2>2 DEF May
  <2>4. Follows(text, g, index, "marker")
    BY <2>2 DEF Follows, Before
  <2>5. /\ changed' = changed + One("marker" = "body" /\ Change(Current))
        /\ paths' = IF "marker" = "new" THEN Append(paths, Current.path) ELSE paths
    BY <1>1, <2>1 DEF One
  <2>6. PICK k : /\ Now(k)' /\ k \in Readings(text, index + 1)
                 /\ First(k, index) = g /\ k[index + 1] = "marker" /\ Last(k, index + 1) = "marker"
    BY <1>0, <1>1, <1>10, <2>1, <2>3, <2>4, <2>5, Advance
  <2>7. Reaches(k, index + 1, h)
    BY <1>1, <1>5, <2>6, ReachesStep
  <2>8. OldLines(text, k, h) = seen.old /\ NewLines(text, k, h) = seen.new
    BY <1>1, <1>5, <1>7, <2>6, CountsKept
  <2>9. AtBody(k)'
    <3>1. /\ Reaches(k, index + 1, h)
          /\ want'.old = text[h].old /\ want'.new = text[h].new
          /\ seen'.old = OldLines(text, k, h) /\ seen'.new = NewLines(text, k, h)
      BY <1>5, <2>1, <2>7, <2>8
    <3>2. paths' # <<>> /\ hunks' > 0 /\ Open'
      BY <1>1, <1>2, <2>1 DEF AtBody, Open
    <3> QED BY <1>1, <2>1, <2>6, <3>1, <3>2 DEF AtBody, InSection
  <2>10. Here(k)'
    BY <1>1, <1>2, <2>1, <2>9 DEF Here
  <2>11. Window'
    BY <1>1, <1>10, <2>1, WindowMoves
  <2> QED BY <2>1, <2>6, <2>10, <2>11, Undecided DEF Sound
<1>11. CASE ~(HasLine /\ (Fits(Current) \/ Marks(Current))) /\ Refuse
  <2>1. CASE AtEnd
    <3>1. ~Complete(text, g, maximumFiles)
      BY <1>6, <1>7 DEF Complete
    <3>2. NoPatch
      BY <1>0, <2>1, <3>1, Incomplete
    <3> QED BY <1>1, <1>11, <3>2, Refusal
  <2>2. CASE HasLine
    <3>1. ASSUME NEW r \in May(Current), Follows(text, g, index, r)
          PROVE  FALSE
      <4>1. r \in {"body", "marker"}
        BY <1>5, <1>6, <3>1, OpenLine
      <4>2. CASE r = "body"
        <5>1. OldSide(Current) \/ NewSide(Current)
          BY <1>3, <2>2, <3>1, <4>2, RoleOfLine
        <5>2. /\ OldLines(text, g, h) + One(OldSide(Current)) <= text[h].old
              /\ NewLines(text, g, h) + One(NewSide(Current)) <= text[h].new
          BY <1>3, <1>5, <1>7, <2>2, <3>1, <4>2 DEF Follows
        <5>3. Fits(Current)
          BY <1>5, <1>8, <5>1, <5>2 DEF Fits
        <5> QED BY <1>11, <2>2, <5>3
      <4>3. CASE r = "marker"
        <5>1. Current.kind = "marker"
          BY <1>3, <2>2, <3>1, <4>3, RoleOfLine
        <5>2. Last(g, index) \in {"hunk", "body"}
          BY <3>1, <4>3 DEF Follows, Before
        <5>3. Last(g, index) = "hunk"
          BY <1>2, <1>11, <2>2, <5>1, <5>2 DEF Marks, AtBody
        <5>4. text[index].old + text[index].new = 0
          BY <3>1, <4>3, <5>3 DEF Follows
        <5>5. h = index
          BY <1>1, <1>4, <1>5, <5>3, EmptyHunk
        <5> QED BY <1>1, <1>5, <5>4, <5>5 DEF Open
      <4> QED BY <4>1, <4>2, <4>3
    <3>2. NoPatch
      BY <1>0, <1>1, <2>2, <3>1, NoneFollows
    <3> QED BY <1>1, <1>11, <3>2, Refusal
  <2> QED BY <1>1, <2>1, <2>2
<1> QED BY <1>9, <1>10, <1>11 DEF Body

LEMMA HunkEndSound ==
    ASSUME TypeOK, Sound, HunkEnd
    PROVE  Sound'
<1>0. PICK g : Now(g) /\ Here(g)
  BY DEF Sound
<1>1. /\ UNCHANGED <<maximumFiles, text, ended, paths, changed, path, hunks, want, seen, marker>>
      /\ at = "body" /\ verdict = "none" /\ Window /\ ~Open
      /\ index \in Nat /\ index <= Len(text) /\ (HasLine \/ AtEnd)
      /\ text \in Seq(Line) /\ want.old \in Nat /\ want.new \in Nat
      /\ seen.old \in 0..want.old /\ seen.new \in 0..want.new /\ hunks \in Nat
  BY DEF HunkEnd, Looks, Running, Sound, TypeOK, Counts, plan, section
<1>2. AtBody(g) /\ text # <<>>
  BY <1>0, <1>1 DEF Here
<1>3. g \in Readings(text, index) /\ Shape(text, g)
  BY <1>0 DEF Now, Parsed
<1>4. PICK h : /\ Reaches(g, index, h)
               /\ want.old = text[h].old /\ want.new = text[h].new
               /\ seen.old = OldLines(text, g, h) /\ seen.new = NewLines(text, g, h)
  BY <1>2 DEF AtBody
<1>5. seen.old = want.old /\ seen.new = want.new
  BY <1>1 DEF Open
<1>6. AllExact(text, g)
  <2>1. Exact(text, g, h)
    BY <1>4, <1>5 DEF Exact
  <2>2. ASSUME NEW k \in With(g, "hunk"), k # h
        PROVE  Exact(text, g, k)
    BY <1>1, <1>3, <1>4, <2>2, OthersExact
  <2> QED BY <2>1, <2>2 DEF AllExact
<1>7. Last(g, index) \in {"hunk", "body"}
  BY <1>1, <1>2 DEF AtBody, InSection
<1>8. CASE HasLine /\ Current.kind = "marker"
  <2>1. at' = "hunks" /\ index' = index + 1 /\ verdict' = "none"
    BY <1>1, <1>8 DEF HunkEnd, Consume
  <2>2. Last(g, index) = "hunk" => text[index].old + text[index].new = 0
    <3>1. SUFFICES ASSUME Last(g, index) = "hunk" PROVE text[index].old + text[index].new = 0
      OBVIOUS
    <3>2. h = index /\ OldLines(text, g, h) = 0 /\ NewLines(text, g, h) = 0
      BY <1>1, <1>3, <1>4, <3>1, EmptyHunk
    <3>3. want.old = 0 /\ want.new = 0
      BY <1>4, <1>5, <3>2
    <3>4. text[index].old = 0 /\ text[index].new = 0
      BY <1>4, <3>2, <3>3
    <3> QED BY <3>4
  <2>3. Follows(text, g, index, "marker")
    BY <1>7, <2>2 DEF Follows, Before
  <2>4. Window' /\ \E k : Now(k)' /\ Last(k, index + 1) = "marker" /\ AllExact(text, k)
    BY <1>0, <1>1, <1>6, <1>8, <2>1, <2>3, ClosedAdvance
  <2>5. PICK k : Now(k)' /\ Last(k, index + 1) = "marker" /\ AllExact(text, k)
    BY <2>4
  <2>6. AtHunks(k)'
    BY <1>1, <1>2, <2>1, <2>5 DEF AtHunks, AtBody, InSection
  <2>7. Here(k)'
    BY <1>1, <1>2, <2>1, <2>5, <2>6 DEF Here
  <2> QED BY <2>1, <2>4, <2>5, <2>7, Undecided DEF Sound
<1>9. CASE ~(HasLine /\ Current.kind = "marker")
  <2>1. at' = "hunks" /\ index' = index /\ verdict' = "none"
    BY <1>1, <1>9 DEF HunkEnd, Skip
  <2>2. Now(g)'
    BY <1>0, <1>1, <2>1 DEF Now
  <2>3. NotNext("marker")'
    BY <1>1, <1>9, <2>1 DEF NotNext, HasLine, AtEnd, Current
  <2>4. AtHunks(g)'
    BY <1>1, <1>2, <2>1, <2>3 DEF AtHunks, AtBody
  <2>5. Here(g)'
    BY <1>1, <1>2, <1>6, <2>1, <2>4 DEF Here
  <2> QED BY <1>1, <2>1, <2>2, <2>5, Undecided, WindowStays DEF Sound
<1> QED BY <1>8, <1>9

\* Before the first line.
LEMMA StartSound == Init => Sound
<1>0. SUFFICES ASSUME Init PROVE Sound
  OBVIOUS
<1> USE DEF Init
<1>1. PICK g : g = [i \in 1..0 |-> "body"]
  OBVIOUS
<1>2. Now(g)
  <2>1. <<>> \in Seq(Line)
    OBVIOUS
  <2>2. Parsed(<<>>, 0, g, 0, <<>>)
    BY <1>1, <2>1, NothingParsed
  <2> QED BY <1>0, <2>2 DEF Now
<1>3. AllExact(text, g)
  BY <1>1 DEF AllExact, With
<1>4. AtSection(g)
  <2>1. Last(g, index) = "start"
    BY <1>0 DEF Last
  <2>2. Len(paths) = 0 /\ maximumFiles \in Nat /\ MaxChanged \in Nat
    BY <1>0, Limits
  <2> QED BY <1>0, <2>1, <2>2 DEF AtSection
<1>5. Here(g)
  BY <1>0, <1>3, <1>4 DEF Here
<1>6. Window /\ AcceptedIsPatch /\ RefusedIsNone
  BY <1>0 DEF Window, AcceptedIsPatch, RefusedIsNone
<1> QED BY <1>2, <1>5, <1>6 DEF Sound

LEMMA StartAgain == Init' => Sound'
BY StartSound, PTL

LEMMA SoundStep == TypeOK /\ Sound /\ [Next]_vars => Sound'
<1> SUFFICES ASSUME TypeOK, Sound, [Next]_vars PROVE Sound'
  OBVIOUS
<1>1. CASE More        BY <1>1, MoreSound
<1>2. CASE Finish      BY <1>2, FinishSound
<1>3. CASE Section     BY <1>3, SectionSound
<1>4. CASE Index       BY <1>4, IndexSound
<1>5. CASE OldHeader   BY <1>5, OldHeaderSound
<1>6. CASE NewHeader   BY <1>6, NewHeaderSound
<1>7. CASE Hunks       BY <1>7, HunksSound
<1>8. CASE Body        BY <1>8, BodySound
<1>9. CASE HunkEnd     BY <1>9, HunkEndSound
<1>10. CASE Again
  <2>1. Init'
    BY <1>10 DEF Again, Init
  <2> QED BY <2>1, StartAgain
<1>11. CASE UNCHANGED vars
  <2>1. PICK g : Now(g) /\ Here(g)
    BY DEF Sound
  <2>2. Now(g)'
    BY <1>11, <2>1 DEF vars, Now
  <2>3. Here(g)'
    BY <1>11, <2>1 DEF vars, Here, AtSection, AtIndex, AtOld, AtNew, AtHunks, AtBody, NotNext,
                       HasLine, AtEnd, Current, Git, Open
  <2>4. Window' /\ AcceptedIsPatch' /\ RefusedIsNone'
    BY <1>11 DEF vars, Sound, Window, AcceptedIsPatch, RefusedIsNone, AtEnd
  <2> QED BY <2>2, <2>3, <2>4 DEF Sound
<1> QED BY <1>1, <1>2, <1>3, <1>4, <1>5, <1>6, <1>7, <1>8, <1>9, <1>10, <1>11 DEF Next

\* The parser never loses its place: the lines it has consumed have a reading with
\* the shape of a patch, its plan says what that reading says, and what it expects
\* next is what can follow.
THEOREM ParserSound == Spec => []Sound
BY StartSound, SoundStep, ParserTypes, PTL DEF Spec

\* What validate_patch accepts is a patch to the last line, and its plan names the
\* files, in their order, and counts the lines it changes.
THEOREM AcceptedAreParsed == Spec => []AcceptedIsPatch
<1>1. Sound => AcceptedIsPatch
  BY DEF Sound
<1> QED BY <1>1, ParserSound, PTL

\* What validate_patch refuses is no patch, and if it stops at a line, could not have
\* become one whatever followed that line.
THEOREM RefusedAreNone == Spec => []RefusedIsNone
<1>1. Sound => RefusedIsNone
  BY DEF Sound
<1> QED BY <1>1, ParserSound, PTL

\* A refusal in the middle of a text is for good: no text that begins with the lines
\* read so far is a patch, however long and whatever follows.
HopelessWhenRefused ==
    verdict = "rejected" =>
       \A u \in Seq(Line) :
          /\ Len(text) <= Len(u) /\ \A i \in 1..Len(text) : u[i] = text[i]
          /\ AtEnd => u = text
          => ~\E f \in Assignments(u) : Complete(u, f, maximumFiles)

\* What validate_patch refuses could not have become a patch: it may stop at the first
\* line that does not fit, without a look at the rest.
THEOREM RefusedForGood == Spec => []HopelessWhenRefused
<1>1. TypeOK /\ RefusedIsNone => HopelessWhenRefused
  <2> SUFFICES ASSUME TypeOK, RefusedIsNone, verdict = "rejected",
                      NEW u \in Seq(Line), Len(text) <= Len(u),
                      \A i \in 1..Len(text) : u[i] = text[i],
                      AtEnd => u = text,
                      NEW f \in Assignments(u), Complete(u, f, maximumFiles)
               PROVE  FALSE
    BY DEF HopelessWhenRefused
  <2>1. CASE AtEnd
    BY <2>1 DEF RefusedIsNone
  <2>2. CASE ~AtEnd
    <3>1. text \in Seq(Line) /\ maximumFiles \in Nat /\ Viable(u, f, maximumFiles)
      BY Limits DEF TypeOK, Complete
    <3>2. \E g \in Assignments(text) : Viable(text, g, maximumFiles)
      BY <3>1, BeginningsAreViable
    <3> QED BY <2>2, <3>2 DEF RefusedIsNone
  <2> QED BY <2>1, <2>2
<1> QED BY <1>1, ParserTypes, RefusedAreNone, PTL

\* Within a line the stages are numbered from 0 to 5, so that a line consumed counts
\* more than any change of stage.
LEMMA Orders ==
    /\ Order["body"] = 0 /\ Order["hunks"] = 1 /\ Order["section"] = 2
    /\ Order["index"] = 3 /\ Order["old"] = 4 /\ Order["new"] = 5
BY DEF Order

LEMMA Consumed ==
    ASSUME TypeOK, NEW stage \in {"section", "index", "old", "new", "hunks", "body"},
           Consume(stage)
    PROVE  Place' > Place
<1>1. index \in Nat /\ index' = index + 1 /\ at' = stage
  BY DEF TypeOK, Consume
<1>2. Order[at] \in 0..5 /\ Order[stage] \in 0..5
  BY Orders DEF TypeOK
<1>3. Place = 6 * index + Order[at] /\ Place' = 6 * (index + 1) + Order[stage]
  BY <1>1 DEF Place
<1> HIDE DEF Order, Place
<1> QED BY <1>1, <1>2, <1>3

LEMMA Skipped ==
    ASSUME TypeOK, NEW stage, Skip(stage), Order[stage] \in Nat, Order[at] \in Nat,
           Order[stage] > Order[at]
    PROVE  Place' > Place
<1>1. index \in Nat /\ Place = 6 * index + Order[at] /\ Place' = 6 * index + Order[stage]
  BY DEF TypeOK, Skip, Place
<1> HIDE DEF Order, Place
<1> QED BY <1>1

\* The loops of validate_patch and _parse_hunks end on every text: each step of the
\* parser on a known text consumes a line or comes closer to consuming one.
THEOREM ParserMovesOn == Spec => NeverLoops
<1>1. ASSUME TypeOK, Next, Running, Running', UNCHANGED <<text, ended>>
      PROVE  Place' > Place
  <2>1. CASE More
    <3>1. text \in Seq(Line) /\ ~ended
      BY <1>1, <2>1 DEF More, TypeOK
    <3>2. ASSUME NEW l \in Line PROVE Append(text, l) # text
      <4>1. Len(Append(text, l)) = Len(text) + 1 /\ Len(text) \in Nat
        BY <3>1
      <4> QED BY <4>1
    <3> QED BY <1>1, <2>1, <3>1, <3>2 DEF More
  <2>2. CASE Finish
    BY <1>1, <2>2 DEF Finish, Running
  <2>3. CASE Section
    <3>1. Skip("old") \/ Consume("index")
      BY <1>1, <2>3 DEF Section, Refuse, Running
    <3>2. at = "section"
      BY <2>3 DEF Section, Looks
    <3> QED BY <1>1, <3>1, <3>2, Consumed, Skipped, Orders
  <2>4. CASE Index
    <3>1. at = "index" /\ (Skip("old") \/ Consume("old"))
      BY <2>4 DEF Index, Looks
    <3> QED BY <1>1, <3>1, Consumed, Skipped, Orders
  <2>5. CASE OldHeader
    <3>1. Consume("new")
      BY <1>1, <2>5 DEF OldHeader, Refuse, Running
    <3> QED BY <1>1, <3>1, Consumed
  <2>6. CASE NewHeader
    <3>1. Consume("hunks")
      BY <1>1, <2>6 DEF NewHeader, Refuse, Running
    <3> QED BY <1>1, <3>1, Consumed
  <2>7. CASE Hunks
    <3>1. at = "hunks" /\ (Skip("section") \/ Consume("body"))
      BY <1>1, <2>7 DEF Hunks, Looks, Refuse, Running
    <3> QED BY <1>1, <3>1, Consumed, Skipped, Orders
  <2>8. CASE Body
    <3>1. Consume("body")
      BY <1>1, <2>8 DEF Body, Refuse, Running
    <3> QED BY <1>1, <3>1, Consumed
  <2>9. CASE HunkEnd
    <3>1. at = "body" /\ (Skip("hunks") \/ Consume("hunks"))
      BY <2>9 DEF HunkEnd, Looks
    <3> QED BY <1>1, <3>1, Consumed, Skipped, Orders
  <2>10. CASE Again
    BY <1>1, <2>10 DEF Again
  <2> QED BY <1>1, <2>1, <2>2, <2>3, <2>4, <2>5, <2>6, <2>7, <2>8, <2>9, <2>10 DEF Next
<1>2. TypeOK /\ [Next]_vars
      => [Running /\ Running' /\ UNCHANGED <<text, ended>> => Place' > Place]_vars
  BY <1>1
<1> QED BY <1>2, ParserTypes, PTL DEF Spec, NeverLoops
=============================================================================
