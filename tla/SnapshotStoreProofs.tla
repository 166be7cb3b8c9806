------------------------- MODULE SnapshotStoreProofs --------------------------
(***************************************************************************)
(* The snapshot store keeps its limits, its markers and its records in     *)
(* step, for any number of requests, builders, deleters and listers.       *)
(***************************************************************************)
EXTENDS SnapshotStore, FiniteSetTheorems, TLAPS

----------------------------------------------------------------------------
(* Counting directories.                                                    *)

LEMMA CountAtMost ==
    ASSUME NEW S \in SUBSET Requests, NEW T \in SUBSET Requests, S \subseteq T
    PROVE  Cardinality(S) \in Nat /\ Cardinality(T) \in Nat /\ Cardinality(S) <= Cardinality(T)
<1>1. IsFiniteSet(T)
  BY LimitAssumption, FS_Subset
<1> QED BY <1>1, FS_Subset, FS_CardinalityType

LEMMA CountOneMore ==
    ASSUME NEW S \in SUBSET Requests, NEW T \in SUBSET Requests, NEW r \in Requests,
           S \subseteq T \cup {r}
    PROVE  Cardinality(S) \in Nat /\ Cardinality(T) \in Nat /\ Cardinality(S) <= Cardinality(T) + 1
<1>1. IsFiniteSet(T)
  BY LimitAssumption, FS_Subset
<1>2. /\ T \cup {r} \in SUBSET Requests
      /\ Cardinality(T \cup {r}) <= Cardinality(T) + 1
      /\ Cardinality(T) \in Nat
  <2>1. Cardinality(T) \in Nat
    BY <1>1, FS_CardinalityType
  <2>2. CASE r \in T
    <3>1. T \cup {r} = T
      BY <2>2
    <3> QED BY <2>1, <3>1
  <2>3. CASE r \notin T
    <3>1. Cardinality(T \cup {r}) = Cardinality(T) + 1
      BY <1>1, <2>3, FS_AddElement
    <3> QED BY <2>1, <3>1
  <2> QED BY <2>2, <2>3
<1>3. Cardinality(S) \in Nat /\ Cardinality(T \cup {r}) \in Nat
      /\ Cardinality(S) <= Cardinality(T \cup {r})
  BY <1>2, CountAtMost
<1> QED BY <1>2, <1>3

LEMMA Limits == MaxRetained \in Nat /\ MaxTombstones \in Nat
BY LimitAssumption

----------------------------------------------------------------------------
(* Types, and what the processes in a stage hold.                           *)

\* Deleters that are past taking the lock.
Locked == {"mark", "announce", "clear", "finish", "verify", "commit", "unmark"}

Holders ==
    /\ \A b \in Builders : /\ bstage[b] # "idle" => building[b] \in Requests
                           /\ bstage[b] = "build" => lock = b /\ staging > 0
                           /\ bstage[b] = "published" => lock = b /\ dir[building[b]] \in Dir
    /\ \A d \in Deleters : /\ dstage[d] # "idle" => deleting[d] \in Requests
                           /\ dstage[d] \in Locked => lock = d /\ dir[deleting[d]] \in Dir
    /\ \A l \in Listers : listed[l] # None => listed[l] \in Requests /\ dir[listed[l]] \in Dir
    /\ \A r \in Requests : work[r] # "none" => dir[r] \in Dir

Typed == TypeOK /\ Holders

\* What a lister has read.
Reading ==
    \A l \in Listers : /\ Len(reads[l]) \in 0..6
                       /\ reads[l] # <<>> => listed[l] # None

\* A change of one field of a directory.
LEMMA MarkerChanged ==
    ASSUME NEW entry \in Dir, NEW v \in Marker
    PROVE  /\ [entry EXCEPT !["pending"] = v] \in Dir
           /\ [entry EXCEPT !["complete"] = v] \in Dir
BY DEF Dir

LEMMA PayloadChanged ==
    ASSUME NEW entry \in Dir, NEW v \in {"whole", "cut", "empty"}
    PROVE  [entry EXCEPT !["payload"] = v] \in Dir
BY DEF Dir

LEMMA DirChanged ==
    ASSUME NEW d \in Deleters, deleting[d] \in Requests, dir \in [Requests -> Dir \cup {None}],
           NEW f, NEW v, [dir[deleting[d]] EXCEPT ![f] = v] \in Dir, Mark(d, f, v)
    PROVE  /\ dir' \in [Requests -> Dir \cup {None}]
           /\ \A r \in Requests : dir[r] \in Dir => dir'[r] \in Dir
BY DEF Mark

LEMMA MarkTyped ==
    ASSUME Typed, NEW d \in Deleters, dstage[d] \in Locked,
           NEW v \in Marker, Mark(d, "pending", v) \/ Mark(d, "complete", v)
    PROVE  /\ dir' \in [Requests -> Dir \cup {None}]
           /\ \A r \in Requests : dir[r] \in Dir => dir'[r] \in Dir
<1>1. deleting[d] \in Requests /\ dir[deleting[d]] \in Dir /\ dir \in [Requests -> Dir \cup {None}]
  BY DEF Typed, Holders, TypeOK, Locked
<1> QED BY <1>1, MarkerChanged, DirChanged

LEMMA PayloadTyped ==
    ASSUME Typed, NEW d \in Deleters, dstage[d] \in Locked,
           NEW v \in {"cut", "empty"}, Mark(d, "payload", v)
    PROVE  /\ dir' \in [Requests -> Dir \cup {None}]
           /\ \A r \in Requests : dir[r] \in Dir => dir'[r] \in Dir
<1>1. deleting[d] \in Requests /\ dir[deleting[d]] \in Dir /\ dir \in [Requests -> Dir \cup {None}]
  BY DEF Typed, Holders, TypeOK, Locked
<1> QED BY <1>1, PayloadChanged, DirChanged

LEMMA WriteFailsTyped ==
    ASSUME Typed, NEW d \in Deleters, dstage[d] \in Locked,
           WriteFails(d, "pending") \/ WriteFails(d, "complete")
    PROVE  /\ dir' \in [Requests -> Dir \cup {None}]
           /\ \A r \in Requests : dir[r] \in Dir => dir'[r] \in Dir
<1>1. d \in Marker /\ "torn" \in Marker
  BY DEF Marker
<1>2. CASE UNCHANGED dir
  BY <1>2 DEF Typed, TypeOK
<1>3. CASE \E m \in {"torn", d} : Mark(d, "pending", m) \/ Mark(d, "complete", m)
  BY <1>1, <1>3, MarkTyped
<1> QED BY <1>2, <1>3 DEF WriteFails

\* A step of the directories alone.
LEMMA DirsOnly ==
    ASSUME Typed, UNCHANGED <<requestVars, staging, trail, lock, builderVars, deleterVars, listerVars, work>>,
           dir' \in [Requests -> Dir \cup {None}],
           \A r \in Requests : dir[r] \in Dir => dir'[r] \in Dir
    PROVE  Typed'
<1>1. TypeOK'
  BY DEF Typed, TypeOK, requestVars, builderVars, deleterVars, listerVars
<1>2. Holders'
  BY DEF Typed, Holders, builderVars, deleterVars, listerVars, Locked
<1> QED BY <1>1, <1>2 DEF Typed

\* What clearing a published snapshot leaves.
LEMMA Clearing ==
    ASSUME Typed, NEW r \in Requests, dir[r] \in Dir, Clears(r)
    PROVE  /\ dir' \in [Requests -> Dir \cup {None}]
           /\ \A q \in Requests : dir[q] \in Dir => dir'[q] \in Dir
           /\ \A q \in Requests : q # r => dir'[q] = dir[q]
           /\ dir'[r].pending = dir[r].pending /\ dir'[r].complete = dir[r].complete
<1>1. PICK left \in {"whole", "cut", "empty"} : dir' = [dir EXCEPT ![r].payload = left]
  BY DEF Clears
<1>2. dir'[r] = [dir[r] EXCEPT !.payload = left] /\ \A q \in Requests : q # r => dir'[q] = dir[q]
  BY <1>1 DEF Typed, TypeOK
<1>3. dir'[r] \in Dir /\ dir'[r].pending = dir[r].pending /\ dir'[r].complete = dir[r].complete
  BY <1>2 DEF Dir
<1>4. dir' \in [Requests -> Dir \cup {None}]
  BY <1>1, <1>2, <1>3 DEF Typed, TypeOK
<1> QED BY <1>2, <1>3, <1>4

\* What the end of a command makes of the work.
LEMMA WorkEnding ==
    ASSUME Typed, NEW r \in Requests, NEW left \in Works \ {"none"}, WorkEnds(r, left)
    PROVE  /\ work' \in [Requests -> Works]
           /\ \A q \in Requests : q # r \/ work[q] # "runs" => work'[q] = work[q]
           /\ \A q \in Requests : work'[q] # "none" => work[q] # "none"
           /\ work[r] = "runs" => work'[r] \in {left, "over"}
<1>1. work \in [Requests -> Works]
  BY DEF Typed, TypeOK
<1>2. CASE work[r] = "runs"
  <2>1. PICK w \in {left, "over"} : work' = [work EXCEPT ![r] = w]
    BY <1>2 DEF WorkEnds
  <2>2. w \in Works \ {"none"}
    BY DEF Works
  <2> QED BY <1>1, <1>2, <2>1, <2>2
<1>3. CASE work[r] # "runs"
  BY <1>1, <1>3 DEF WorkEnds
<1> QED BY <1>2, <1>3

LEMMA DirsStay ==
    ASSUME Typed, NEW d \in Deleters, DeleterStep(d) \/ DeleterDies(d), dstage[d] \in Locked
    PROVE  /\ dir' \in [Requests -> Dir \cup {None}]
           /\ \A r \in Requests : dir[r] \in Dir => dir'[r] \in Dir
<1>0. ~Bind(d)
  BY DEF Bind, Locked
<1>1. d \in Marker /\ None \in Marker
  BY DEF Marker
<1>2. CASE UNCHANGED dir
  BY <1>2 DEF Typed, TypeOK
<1>3. CASE MarkPending(d)
  BY <1>1, <1>3, MarkTyped, WriteFailsTyped DEF MarkPending, Write
<1>4. CASE Announce(d)
  BY <1>1, <1>2, <1>4, MarkTyped DEF Announce
<1>5. CASE Clear(d)
  BY <1>2, <1>5, PayloadTyped DEF Clear
<1>6. CASE MarkComplete(d)
  BY <1>1, <1>6, MarkTyped, WriteFailsTyped DEF MarkComplete, Write
<1>7. CASE Unmark(d)
  BY <1>1, <1>2, <1>7, MarkTyped DEF Unmark
<1>8. CASE DeleterDies(d)
  BY <1>2, <1>8, WriteFailsTyped DEF DeleterDies
<1> QED
  BY <1>0, <1>2, <1>3, <1>4, <1>5, <1>6, <1>7, <1>8 DEF DeleterStep, Verify, CommitDeletion

\* What the steps of builders and deleters do to the stages of the others.
LEMMA DeleterLeaving ==
    ASSUME Typed, NEW d \in Deleters, DeleterLeaves(d),
           UNCHANGED <<staging, builderVars, listerVars, work>>,
           dir' \in [Requests -> Dir \cup {None}],
           \A r \in Requests : dir[r] \in Dir => dir'[r] \in Dir
    PROVE  Holders' /\ dstage' \in [Deleters -> DeleterStages]
           /\ deleting' \in [Deleters -> Requests \cup {None}]
           /\ lock' \in Builders \cup Deleters \cup {None}
BY ProcessAssumption DEF Typed, TypeOK, Holders, DeleterLeaves, Unlock, Locked, DeleterStages,
   builderVars, listerVars

LEMMA DeleterGoing ==
    ASSUME Typed, NEW d \in Deleters, dstage[d] \in Locked, NEW s \in Locked, Delete(d, s),
           UNCHANGED <<staging, builderVars, listerVars, work, lock>>,
           dir' \in [Requests -> Dir \cup {None}],
           \A r \in Requests : dir[r] \in Dir => dir'[r] \in Dir
    PROVE  Holders' /\ dstage' \in [Deleters -> DeleterStages]
           /\ deleting' \in [Deleters -> Requests \cup {None}]
           /\ lock' \in Builders \cup Deleters \cup {None}
BY ProcessAssumption DEF Typed, TypeOK, Holders, Delete, Locked, DeleterStages,
   builderVars, listerVars

\* A lister's next read.
LEMMA NextRead ==
    ASSUME Typed, Reading, NEW l \in Listers, ReadNext(l),
           NEW value, value = Look(dir[listed[l]], ReadOrder[Len(reads[l]) + 1])
    PROVE  /\ value \in {"sole", "more"} \cup Deleters \cup {None}
           /\ Len(Append(reads[l], value)) = Len(reads[l]) + 1 /\ Len(reads[l]) \in 0..5
           /\ Append(reads[l], value) \in Seq({"sole", "more"} \cup Deleters \cup {None})
           /\ \A i \in 1..Len(reads[l]) : Append(reads[l], value)[i] = reads[l][i]
           /\ Append(reads[l], value)[Len(reads[l]) + 1] = value
<1> DEFINE Values == {"sole", "more"} \cup Deleters \cup {None}
           n == Len(reads[l])
           what == ReadOrder[n + 1]
<1>1. reads[l] \in Seq(Values)
  BY DEF Typed, TypeOK
<1>2. n \in 0..6 /\ n # 6
  BY DEF Reading, ReadNext, Hides, ReadOrder
<1>3. n + 1 \in 1..6 /\ n \in 0..5
  <2>1. \A i \in 0..6 : i # 6 => i + 1 \in 1..6 /\ i \in 0..5
    OBVIOUS
  <2> QED BY <1>2, <2>1
<1>4. what \in {"names", "pending", "complete"}
  BY <1>3 DEF ReadOrder
<1>5. dir[listed[l]] \in Dir
  BY DEF Typed, Holders, ReadNext
<1>6. value \in Values
  BY <1>4, <1>5 DEF Look, Valid, Dir, Marker
<1> QED BY <1>1, <1>3, <1>6

LEMMA HoldersKnown == Spec => [](Typed /\ Reading)
<1>0. Init => Reading
  BY DEF Init, Reading
<1>1. Init => Typed
  BY Limits, ProcessAssumption DEF Init, Typed, TypeOK, Holders, Lifecycle!Init, Lifecycle!States, Locked,
     BuilderStages, DeleterStages, Works
<1>2. Typed /\ Reading /\ [Next]_vars => Typed' /\ Reading'
  <2> SUFFICES ASSUME Typed, Reading, [Next]_vars PROVE Typed' /\ Reading'
    OBVIOUS
  <2> USE DEF Typed
  <2>1. ASSUME NEW r \in Requests, Submit(r) PROVE Typed'
    BY <2>1 DEF Submit, TypeOK, Holders, Lifecycle!Record, Lifecycle!Move, Lifecycle!States,
               builderVars, deleterVars, listerVars
  <2>2. ASSUME RecoverInterrupted PROVE Typed'
    BY <2>2 DEF RecoverInterrupted, TypeOK, Holders, Lifecycle!Sweep, Lifecycle!States, Works,
               builderVars, deleterVars, listerVars
  <2>3. ASSUME NEW b \in Builders, NEW r \in Requests, Claim(b, r) PROVE Typed'
    BY <2>3 DEF Claim, TypeOK, Holders, Lifecycle!Claim, Lifecycle!Move, Lifecycle!States,
               deleterVars, listerVars, BuilderStages
  <2>4. ASSUME NEW b \in Builders, ArchiveFails(b) PROVE Typed'
    BY <2>4 DEF ArchiveFails, Build, TypeOK, Holders, requestVars, deleterVars, listerVars, BuilderStages
  <2>5. ASSUME NEW b \in Builders, Reserve(b) PROVE Typed'
    <3>1. CASE HasSpace /\ lock' = b /\ staging' = staging + 1 /\ Build(b, "build")
      <4>1. Cardinality(Retained) \in Nat
        BY CountAtMost DEF Retained, Existing
      <4>2. staging' \in 0..MaxRetained /\ staging' > 0
        BY <3>1, <4>1, Limits DEF HasSpace, TypeOK
      <4> QED
        BY <2>5, <3>1, <4>2, ProcessAssumption DEF Reserve, Build, TypeOK, Holders, requestVars,
           deleterVars, listerVars, BuilderStages, Locked
    <3>2. CASE UNCHANGED <<lock, staging>> /\ Build(b, "failed")
      BY <2>5, <3>2 DEF Reserve, Build, TypeOK, Holders, requestVars, deleterVars, listerVars, BuilderStages
    <3> QED BY <2>5, <3>1, <3>2 DEF Reserve
  <2>6. ASSUME NEW b \in Builders, BuildFails(b) PROVE Typed'
    BY <2>6, ProcessAssumption DEF BuildFails, Build, TypeOK, Holders, requestVars, deleterVars, listerVars,
       BuilderStages, Locked
  <2>7. ASSUME NEW b \in Builders, Publish(b) PROVE Typed'
    <3>1. Fresh \in Dir
      BY DEF Fresh, Dir, Marker
    <3>2. staging' \in 0..MaxRetained
      BY <2>7, Limits DEF Publish, TypeOK, Holders
    <3> QED
      BY <2>7, <3>1, <3>2, ProcessAssumption DEF Publish, Build, TypeOK, Holders, requestVars, deleterVars,
         listerVars, BuilderStages, Locked
  <2>8. ASSUME NEW r \in Requests, Work(r) PROVE Typed'
    <3>1. /\ dir' \in [Requests -> Dir \cup {None}]
          /\ \A q \in Requests : dir[q] \in Dir => dir'[q] \in Dir
      <4>1. dir[r] \in Dir
        BY <2>8 DEF Work, Holders
      <4>2. [dir[r] EXCEPT !.payload = "cut"] \in Dir
        BY <4>1 DEF Dir
      <4> QED BY <2>8, <4>2 DEF Work, TypeOK
    <3>2. UNCHANGED <<requestVars, staging, trail, lock, builderVars, deleterVars, listerVars, work>>
      BY <2>8 DEF Work
    <3> QED BY <3>1, <3>2, DirsOnly
  <2>9. ASSUME NEW b \in Builders, Finish(b) PROVE Typed'
    <3>1. state' \in [Requests -> Lifecycle!States] /\ DOMAIN log' = Requests
      BY ZenonT(60), <2>9 DEF Finish, TypeOK, requestVars, Lifecycle!End, Lifecycle!Move, Lifecycle!EndState,
                 Lifecycle!Endings, Lifecycle!States
    <3>2. building[b] \in Requests
      BY <2>9 DEF Finish, Holders
    <3>3. work' \in [Requests -> Works] /\ \A r \in Requests : work'[r] # "none" => work[r] # "none"
      BY <2>9, <3>2, WorkEnding DEF Finish, Works
    <3> QED
      BY <2>9, <3>1, <3>3 DEF Finish, BuilderLeaves, TypeOK, Holders, deleterVars, listerVars, BuilderStages
  <2>10. ASSUME NEW b \in Builders, BuilderDies(b) PROVE Typed'
    <3>1. building[b] \in Requests
      BY <2>10 DEF BuilderDies, Holders
    <3>2. work' \in [Requests -> Works] /\ \A r \in Requests : work'[r] # "none" => work[r] # "none"
      BY <2>10, <3>1, WorkEnding DEF BuilderDies, Works
    <3>3. /\ dir' \in [Requests -> Dir \cup {None}]
          /\ \A r \in Requests : dir[r] \in Dir => dir'[r] \in Dir
      BY <2>10, <3>1, Clearing DEF BuilderDies, Holders, TypeOK
    <3> QED
      BY <2>10, <3>2, <3>3, ProcessAssumption DEF BuilderDies, BuilderLeaves, Unlock, TypeOK, Holders, requestVars,
         deleterVars, listerVars, BuilderStages, Locked
  <2>22. ASSUME NEW b \in Builders, Retract(b) PROVE Typed'
    <3>1. /\ dir' \in [Requests -> Dir \cup {None}]
          /\ \A r \in Requests : dir[r] \in Dir => dir'[r] \in Dir
      BY <2>22, Clearing DEF Retract, Holders
    <3> QED
      BY <2>22, <3>1, ProcessAssumption DEF Retract, Build, TypeOK, Holders, requestVars, deleterVars, listerVars,
         BuilderStages, Locked
  <2>23. ASSUME NEW b \in Builders, HandOver(b) PROVE Typed'
    <3>1. work' \in [Requests -> Works] /\ \A r \in Requests : work'[r] # "none" => dir[r] \in Dir
      BY <2>23 DEF HandOver, TypeOK, Holders, Works
    <3> QED
      BY <2>23, <3>1, ProcessAssumption DEF HandOver, Build, TypeOK, Holders, requestVars, deleterVars, listerVars,
         BuilderStages, Locked
  <2>11. ASSUME NEW d \in Deleters, NEW r \in Requests, ReadState(d, r) PROVE Typed'
    BY <2>11 DEF ReadState, TypeOK, Holders, requestVars, builderVars, listerVars, DeleterStages, Locked
  <2>12. ASSUME NEW d \in Deleters, Bind(d) PROVE Typed'
    <3>1. CASE dir[deleting[d]] # None /\ lock' = d /\ Delete(d, "mark")
      BY <2>12, <3>1, ProcessAssumption DEF Bind, Delete, TypeOK, Holders, requestVars, builderVars, listerVars,
         DeleterStages, Locked
    <3>2. CASE DeleterLeaves(d)
      BY <2>12, <3>2, DeleterLeaving DEF Bind, TypeOK, requestVars, builderVars, listerVars
    <3> QED BY <2>12, <3>1, <3>2 DEF Bind
  <2>13. ASSUME NEW d \in Deleters, DeleterStep(d) \/ DeleterDies(d), dstage[d] # "bind"
         PROVE  Typed'
    <3>1. dstage[d] \in Locked
      BY <2>13 DEF TypeOK, DeleterStages, Locked, DeleterStep, DeleterDies, Bind, MarkPending, Announce,
                  Clear, MarkComplete, Verify, CommitDeletion, Unmark
    <3>0. ~Bind(d)
      BY <2>13 DEF Bind
    <3>2. /\ dir' \in [Requests -> Dir \cup {None}]
          /\ \A r \in Requests : dir[r] \in Dir => dir'[r] \in Dir
      BY <2>13, <3>1, DirsStay
    <3>3. trail' \in [Requests -> Seq({"snapshot.deletion_requested", "snapshot.deleted"})]
      <4>1. deleting[d] \in Requests
        BY <3>1 DEF Holders, Locked
      <4>2. CASE UNCHANGED trail
        BY <4>2 DEF TypeOK
      <4>3. CASE Demand(d)
        BY <4>1, <4>3 DEF Demand, TypeOK
      <4>4. CASE trail' = [trail EXCEPT ![deleting[d]] = Append(@, "snapshot.deleted")]
        BY <4>1, <4>4 DEF TypeOK
      <4> QED
        BY <2>13, <3>0, <4>2, <4>3, <4>4 DEF DeleterStep, DeleterDies, MarkPending, Announce, Clear,
                  MarkComplete, Verify, CommitDeletion, Unmark
    <3>4. UNCHANGED <<requestVars, staging, builderVars, listerVars, work>>
      BY <2>13, <3>0 DEF DeleterStep, DeleterDies, MarkPending, Announce, Clear, MarkComplete, Verify,
                  CommitDeletion, Unmark
    <3>5. DeleterLeaves(d) \/ (UNCHANGED lock /\ \E s \in Locked : Delete(d, s))
      BY <2>13, <3>0, <3>1 DEF DeleterStep, DeleterDies, MarkPending, Announce, Clear, MarkComplete, Verify,
                  CommitDeletion, Unmark, Locked, Delete, deleterVars, TypeOK
    <3> QED
      BY <3>1, <3>2, <3>3, <3>4, <3>5, DeleterLeaving, DeleterGoing
         DEF TypeOK, requestVars, builderVars, listerVars
  <2>14. ASSUME NEW d \in Deleters, DeleterDies(d), dstage[d] = "bind" PROVE Typed'
    BY <2>14, DeleterLeaving DEF DeleterDies, TypeOK, requestVars, builderVars, listerVars
  <2>15. ASSUME NEW l \in Listers, NEW r \in Requests, List(l, r) PROVE Typed'
    BY <2>15 DEF List, TypeOK, Holders, requestVars, builderVars, deleterVars
  <2>16. ASSUME NEW l \in Listers, ReadNext(l) \/ Hide(l) PROVE Typed' /\ Reading'
    <3>1. CASE ListerLeaves(l)
      <4>1. Typed'
        BY <2>16, <3>1 DEF ReadNext, Hide, ListerLeaves, TypeOK, Holders, requestVars, builderVars, deleterVars
      <4>2. Reading'
        BY <3>1 DEF ListerLeaves, TypeOK, Reading
      <4> QED BY <4>1, <4>2
    <3>2. CASE ReadNext(l) /\ ~ListerLeaves(l)
      <4> DEFINE value == Look(dir[listed[l]], ReadOrder[Len(reads[l]) + 1])
      <4>1. /\ reads' = [reads EXCEPT ![l] = Append(reads[l], value)] /\ listed' = listed
            /\ listed[l] # None
            /\ UNCHANGED <<requestVars, dir, staging, trail, lock, builderVars, deleterVars, work>>
        BY <3>2 DEF ReadNext
      <4>2. /\ Append(reads[l], value) \in Seq({"sole", "more"} \cup Deleters \cup {None})
            /\ Len(Append(reads[l], value)) \in 0..6
        <5>1. value = Look(dir[listed[l]], ReadOrder[Len(reads[l]) + 1])
          OBVIOUS
        <5> HIDE DEF value
        <5>2. /\ Append(reads[l], value) \in Seq({"sole", "more"} \cup Deleters \cup {None})
              /\ Len(Append(reads[l], value)) = Len(reads[l]) + 1 /\ Len(reads[l]) \in 0..5
          BY <3>2, <5>1, NextRead
        <5>3. \A i \in 0..5 : i + 1 \in 0..6
          OBVIOUS
        <5> QED BY <5>2, <5>3
      <4> HIDE DEF value
      <4>3. Typed'
        BY <4>1, <4>2 DEF TypeOK, Holders, requestVars, builderVars, deleterVars
      <4>4. Reading'
        BY <4>1, <4>2 DEF TypeOK, Reading
      <4> QED BY <4>3, <4>4
    <3> QED BY <2>16, <3>1, <3>2 DEF Hide
  <2>17. ASSUME UNCHANGED vars PROVE Typed'
    BY <2>17 DEF vars, TypeOK, Holders, requestVars, builderVars, deleterVars, listerVars
  <2>18. ASSUME NEW d \in Deleters, DeleterStep(d) \/ DeleterDies(d) PROVE Typed'
    <3>1. CASE dstage[d] = "bind"
      BY <2>18, <3>1, <2>12, <2>14 DEF DeleterStep, MarkPending, Announce, Clear, MarkComplete, Verify,
         CommitDeletion, Unmark
    <3> QED BY <2>18, <3>1, <2>13
  <2>19. CASE \E l \in Listers : \E r \in Requests : List(l, r)
    <3>1. PICK l \in Listers, r \in Requests : List(l, r)
      BY <2>19
    <3>2. Reading'
      BY <3>1 DEF List, TypeOK, Reading
    <3> QED BY <3>1, <3>2, <2>15
  <2>20. CASE UNCHANGED listerVars
    <3>1. Reading'
      BY <2>20 DEF Reading, listerVars
    <3>2. Typed'
      BY <2>1, <2>2, <2>3, <2>4, <2>5, <2>6, <2>7, <2>8, <2>9, <2>10, <2>11, <2>15, <2>16, <2>17, <2>18, <2>22, <2>23
         DEF Next, BuilderStep, BuilderMishap
    <3> QED BY <3>1, <3>2
  <2>21. UNCHANGED listerVars \/ \E l \in Listers : (\E r \in Requests : List(l, r)) \/ ReadNext(l) \/ Hide(l)
    BY DEF Next, Submit, RecoverInterrupted, Claim, BuilderStep, BuilderMishap, ArchiveFails, Reserve, BuildFails, Publish,
       Retract, HandOver, Work, Finish, BuilderDies, ReadState, DeleterStep, Bind, MarkPending, Announce, Clear, MarkComplete, Verify,
       CommitDeletion, Unmark, DeleterDies, vars, listerVars
  <2> QED BY <2>16, <2>19, <2>20, <2>21
<1> QED BY <1>0, <1>1, <1>2, PTL DEF Spec

\* Types hold, whoever holds the lock is known, and what a process works on exists.
THEOREM SnapshotTypes == Spec => []TypeOK
<1>1. Typed => TypeOK
  BY DEF Typed
<1> QED BY <1>1, HoldersKnown, PTL

----------------------------------------------------------------------------
(* The states of the requests that builders and deleters work on.           *)

Deletable == {"succeeded", "failed", "uncertain"}

\* The request of a builder, and what is said of its work.
BuildersLive ==
    /\ \A b \in Builders :
          bstage[b] # "idle" => state[building[b]] \in {"executing"} \cup Deletable
    /\ \A b, c \in Builders :
          bstage[b] # "idle" /\ bstage[c] # "idle" /\ building[b] = building[c] => b = c
    /\ \A b \in Builders :
          bstage[b] \in {"reserve", "build", "published", "failed"} => work[building[b]] = "none"
    /\ \A r \in Requests :
          /\ work[r] # "none" => state[r] \in {"executing"} \cup Deletable
          /\ work[r] = "runs" => state[r] = "executing"
          /\ work[r] = "outlives" => state[r] \in Deletable

DeletersLate == \A d \in Deleters : dstage[d] # "idle" => state[deleting[d]] \in Deletable

DeletedLate == \A r \in Requests : Recorded(r, "snapshot.deleted") => state[r] \in Deletable

\* A state in Deletable is final.
LEMMA Final ==
    ASSUME Typed, BuildersLive, [Next]_vars, NEW r \in Requests, state[r] \in Deletable
    PROVE  state'[r] = state[r]
<1> USE DEF Typed, TypeOK, Deletable
<1>1. CASE \E q \in Requests : Submit(q)
  BY <1>1 DEF Submit, Lifecycle!Record, Lifecycle!Move
<1>2. CASE RecoverInterrupted
  BY <1>2 DEF RecoverInterrupted, Lifecycle!Sweep
<1>3. CASE \E b \in Builders : \E q \in Requests : Claim(b, q)
  BY <1>3 DEF Claim, Lifecycle!Claim, Lifecycle!Move
<1>4. CASE \E b \in Builders : Finish(b)
  BY <1>4 DEF Finish, requestVars, Lifecycle!End, Lifecycle!Move
<1>5. CASE UNCHANGED requestVars
  BY <1>5 DEF requestVars
<1> QED
  BY <1>1, <1>2, <1>3, <1>4, <1>5
     DEF Next, BuilderStep, BuilderMishap, ArchiveFails, Reserve, BuildFails, Publish, Retract, HandOver, Work,
         BuilderDies, ReadState, DeleterStep,
         Bind, MarkPending, Announce, Clear, MarkComplete, Verify, CommitDeletion, Unmark, DeleterDies, List,
         ReadNext, Hide, vars

LEMMA StatesKnown == Spec => []BuildersLive
<1>1. Init => BuildersLive
  BY DEF Init, BuildersLive
<1>2. Typed /\ BuildersLive /\ [Next]_vars => BuildersLive'
  <2> SUFFICES ASSUME Typed, BuildersLive, [Next]_vars PROVE BuildersLive'
    OBVIOUS
  <2>0. /\ \A b \in Builders : bstage[b] # "idle" => building[b] \in Requests
        /\ DOMAIN work = Requests /\ DOMAIN state = Requests
        /\ DOMAIN bstage = Builders /\ DOMAIN building = Builders
    BY DEF Typed, TypeOK, Holders
  <2>1. CASE \E q \in Requests : Submit(q)
    <3>1. PICK q \in Requests : Submit(q)
      BY <2>1
    <3>2. /\ state[q] = "absent" /\ UNCHANGED <<work, bstage, building>>
          /\ \A r \in Requests : r # q => state'[r] = state[r]
      BY <2>0, <3>1 DEF Submit, Lifecycle!Record, Lifecycle!Move, builderVars
    <3>3. work[q] = "none" /\ \A b \in Builders : bstage[b] # "idle" => building[b] # q
      BY <3>2 DEF BuildersLive, Deletable
    <3> QED BY <2>0, <3>2, <3>3 DEF BuildersLive
  <2>2. CASE RecoverInterrupted
    <3>1. /\ \A r \in Requests : state'[r] = IF state[r] = "executing" THEN "uncertain" ELSE state[r]
          /\ \A r \in Requests : work'[r] = IF work[r] = "runs" THEN "outlives" ELSE work[r]
          /\ UNCHANGED <<bstage, building>>
      BY <2>0, <2>2 DEF RecoverInterrupted, Lifecycle!Sweep, builderVars
    <3> QED BY <2>0, <3>1 DEF BuildersLive, Deletable
  <2>3. ASSUME NEW b \in Builders, NEW q \in Requests, Claim(b, q) PROVE BuildersLive'
    <3>1. /\ state[q] = "pending" /\ state'[q] = "executing" /\ UNCHANGED work
          /\ \A r \in Requests : r # q => state'[r] = state[r]
      BY <2>0, <2>3 DEF Claim, Lifecycle!Claim, Lifecycle!Move
    <3>2. work[q] = "none" /\ \A c \in Builders : bstage[c] # "idle" => building[c] # q
      BY <2>0, <3>1 DEF BuildersLive, Deletable
    <3>3. /\ bstage'[b] = "reserve" /\ building'[b] = q
          /\ \A c \in Builders : c # b => bstage'[c] = bstage[c] /\ building'[c] = building[c]
      BY <2>0, <2>3 DEF Claim
    <3> QED BY <2>0, <3>1, <3>2, <3>3 DEF BuildersLive
  <2>4. ASSUME NEW b \in Builders, Finish(b) PROVE BuildersLive'
    <3>0. PICK r \in Requests : r = building[b]
      BY <2>0, <2>4 DEF Finish
    <3>1. \A q \in Requests : q # r => state'[q] = state[q]
      BY <2>0, <2>4, <3>0 DEF Finish, requestVars, Lifecycle!End, Lifecycle!Move
    <3>2. state'[r] \in Deletable
      <4>1. CASE state[r] = "executing"
        <5>1. PICK e \in Lifecycle!Endings \cup {"request.failed"} : Lifecycle!End(r, e)
          BY <2>0, <2>4, <3>0, <4>1 DEF Finish
        <5> QED BY <2>0, <5>1 DEF Lifecycle!End, Lifecycle!Move, Lifecycle!EndState, Lifecycle!Endings, Deletable
      <4>2. CASE state[r] # "executing"
        BY <2>0, <2>4, <3>0, <4>2, Final DEF Finish, BuildersLive
      <4> QED BY <4>1, <4>2
    <3>3. /\ \A q \in Requests : q # r => work'[q] = work[q]
          /\ work'[r] = "none" => work[r] = "none"
          /\ work'[r] # "runs"
      BY <2>0, <2>4, <3>0, WorkEnding DEF Finish, Works
    <3>4. /\ bstage'[b] = "idle"
          /\ \A c \in Builders : c # b => bstage'[c] = bstage[c] /\ building'[c] = building[c]
      BY <2>0, <2>4 DEF Finish, BuilderLeaves
    <3>5. \A c \in Builders : c # b /\ bstage[c] # "idle" => building[c] \in Requests /\ building[c] # r
      BY <2>0, <2>4, <3>0 DEF Finish, BuildersLive
    <3> QED BY <2>0, <3>1, <3>2, <3>3, <3>4, <3>5 DEF BuildersLive
  <2>5. ASSUME NEW b \in Builders, BuilderDies(b) PROVE BuildersLive'
    <3>0. PICK r \in Requests : r = building[b]
      BY <2>0, <2>5 DEF BuilderDies
    <3>1. /\ \A q \in Requests : q # r => work'[q] = work[q]
          /\ work'[r] = work[r] \/ (work[r] = "runs" /\ work'[r] \in {"runs", "over"})
      BY <2>0, <2>5, <3>0, WorkEnding DEF BuilderDies, Works
    <3>2. /\ bstage'[b] = "idle" /\ UNCHANGED state
          /\ \A c \in Builders : c # b => bstage'[c] = bstage[c] /\ building'[c] = building[c]
      BY <2>0, <2>5 DEF BuilderDies, BuilderLeaves, requestVars
    <3>3. \A c \in Builders : c # b /\ bstage[c] # "idle" => building[c] \in Requests /\ building[c] # r
      BY <2>0, <2>5, <3>0 DEF BuilderDies, BuildersLive
    <3> QED BY <2>0, <3>1, <3>2, <3>3 DEF BuildersLive
  <2>6. ASSUME NEW b \in Builders, ArchiveFails(b) \/ Reserve(b) \/ BuildFails(b) \/ Publish(b) \/ Retract(b)
        PROVE  BuildersLive'
    <3>1. /\ UNCHANGED <<state, work, building>> /\ bstage[b] \in {"reserve", "build", "published"}
          /\ bstage'[b] \in {"build", "published", "failed"}
          /\ \A c \in Builders : c # b => bstage'[c] = bstage[c]
      BY <2>0, <2>6 DEF ArchiveFails, Reserve, BuildFails, Publish, Retract, Build, requestVars
    <3> QED BY <2>0, <3>1 DEF BuildersLive
  <2>7. ASSUME NEW b \in Builders, HandOver(b) PROVE BuildersLive'
    <3>0. PICK r \in Requests : r = building[b]
      BY <2>0, <2>7 DEF HandOver
    <3>1. /\ UNCHANGED <<state, building>> /\ bstage[b] = "published" /\ bstage'[b] = "work"
          /\ \A c \in Builders : c # b => bstage'[c] = bstage[c]
          /\ \A q \in Requests : q # r => work'[q] = work[q]
          /\ work'[r] = IF state[r] = "executing" THEN "runs" ELSE "outlives"
      BY <2>0, <2>7, <3>0 DEF HandOver, Build, requestVars
    <3>2. /\ state[r] \in {"executing"} \cup Deletable
          /\ \A c \in Builders : c # b /\ bstage[c] # "idle" => building[c] \in Requests /\ building[c] # r
      BY <2>0, <3>0, <3>1 DEF BuildersLive
    <3> QED BY <2>0, <3>1, <3>2 DEF BuildersLive, Deletable
  <2>8. CASE UNCHANGED <<requestVars, builderVars, work>>
    BY <2>0, <2>8 DEF BuildersLive, requestVars, builderVars
  <2> QED
    BY <2>1, <2>2, <2>3, <2>4, <2>5, <2>6, <2>7, <2>8
       DEF Next, BuilderStep, BuilderMishap, Work, ReadState, DeleterStep, Bind, MarkPending, Announce, Clear,
           MarkComplete, Verify, CommitDeletion, Unmark, DeleterDies, List, ReadNext, Hide, vars
<1> QED BY <1>1, <1>2, HoldersKnown, PTL DEF Spec

LEMMA DeletersKnown == Spec => []DeletersLate
<1>1. Init => DeletersLate
  BY DEF Init, DeletersLate
<1>2. Typed /\ BuildersLive /\ DeletersLate /\ [Next]_vars => DeletersLate'
  <2> SUFFICES ASSUME Typed, BuildersLive, DeletersLate, [Next]_vars, NEW d \in Deleters, dstage'[d] # "idle"
               PROVE  state'[deleting'[d]] \in Deletable
    BY DEF DeletersLate
  <2>1. deleting'[d] \in Requests /\ state[deleting'[d]] \in Deletable
    <3>1. CASE \E q \in Requests : ReadState(d, q)
      BY <3>1 DEF ReadState, Deletable, Typed, TypeOK
    <3>2. CASE dstage[d] # "idle" /\ deleting'[d] = deleting[d]
      BY <3>2 DEF DeletersLate, Typed, Holders
    <3>3. \/ \E q \in Requests : ReadState(d, q)
          \/ dstage[d] # "idle" /\ deleting'[d] = deleting[d]
      <4>1. \/ UNCHANGED deleterVars
            \/ \E e \in Deleters : \/ \E q \in Requests : ReadState(e, q)
                                   \/ dstage[e] # "idle" /\ (DeleterStep(e) \/ DeleterDies(e))
        <5>1. ASSUME NEW e \in Deleters, DeleterStep(e) \/ DeleterDies(e) PROVE dstage[e] # "idle"
          BY <5>1 DEF DeleterStep, Bind, MarkPending, Announce, Clear, MarkComplete, Verify, CommitDeletion,
             Unmark, DeleterDies
        <5>2. ASSUME NEW b \in Builders, BuilderStep(b) \/ BuilderMishap(b) PROVE UNCHANGED deleterVars
          BY <5>2 DEF BuilderStep, BuilderMishap, ArchiveFails, Reserve, BuildFails, Publish, Retract, HandOver,
             Finish, BuilderDies, builderVars, deleterVars
        <5>3. ASSUME NEW b \in Builders, NEW q \in Requests, Claim(b, q) PROVE UNCHANGED deleterVars
          BY <5>3 DEF Claim
        <5>4. CASE RecoverInterrupted \/ \E q \in Requests : Submit(q) \/ Work(q)
          BY <5>4 DEF RecoverInterrupted, Submit, Work
        <5>5. ASSUME NEW l \in Listers, ReadNext(l) \/ Hide(l) \/ \E q \in Requests : List(l, q) PROVE UNCHANGED deleterVars
          BY <5>5 DEF ReadNext, Hide, List
        <5>6. CASE UNCHANGED vars
          BY <5>6 DEF vars
        <5> QED
          BY <5>1, <5>2, <5>3, <5>4, <5>5, <5>6 DEF Next
      <4>2. CASE UNCHANGED deleterVars
        BY <4>2 DEF deleterVars
      <4>3. ASSUME NEW e \in Deleters, NEW q \in Requests, ReadState(e, q)
            PROVE  (\E r \in Requests : ReadState(d, r)) \/ (dstage[d] # "idle" /\ deleting'[d] = deleting[d])
        BY <4>3 DEF ReadState, Typed, TypeOK
      <4>4. ASSUME NEW e \in Deleters, dstage[e] # "idle", DeleterStep(e) \/ DeleterDies(e)
            PROVE  dstage[d] # "idle" /\ deleting'[d] = deleting[d]
        <5>1. DeleterLeaves(e) \/ (\E s \in DeleterStages : Delete(e, s)) \/ UNCHANGED deleterVars
          BY <4>4 DEF DeleterStep, DeleterDies, Bind, MarkPending, Announce, Clear, MarkComplete, Verify,
             CommitDeletion, Unmark, DeleterStages
        <5>2. CASE DeleterLeaves(e)
          BY <5>2 DEF DeleterLeaves, Typed, TypeOK
        <5>3. CASE \E s \in DeleterStages : Delete(e, s)
          BY <4>4, <5>3 DEF Delete, Typed, TypeOK
        <5> QED BY <5>1, <5>2, <5>3 DEF deleterVars
      <4> QED BY <4>1, <4>2, <4>3, <4>4
    <3> QED BY <3>1, <3>2, <3>3
  <2> QED BY <2>1, Final
<1> QED BY <1>1, <1>2, HoldersKnown, StatesKnown, PTL DEF Spec
----------------------------------------------------------------------------
(* What a step does to one directory and to one trail.                      *)

Announced(r) == Recorded(r, "snapshot.deletion_requested")

Deleted(r) == Recorded(r, "snapshot.deleted")

\* Directory d becomes c in one field.
LEMMA PendingMarked ==
    ASSUME Typed, NEW d \in Deleters, dstage[d] \in Locked, NEW v \in Marker, Mark(d, "pending", v)
    PROVE  /\ \A q \in Requests : q # deleting[d] => dir'[q] = dir[q]
           /\ dir'[deleting[d]].pending = v
           /\ dir'[deleting[d]].complete = dir[deleting[d]].complete
           /\ dir'[deleting[d]].payload = dir[deleting[d]].payload
<1>1. deleting[d] \in Requests /\ dir[deleting[d]] \in Dir /\ dir \in [Requests -> Dir \cup {None}]
  BY DEF Typed, Holders, TypeOK, Locked
<1>2. dir'[deleting[d]] = [dir[deleting[d]] EXCEPT !["pending"] = v]
  BY <1>1 DEF Mark
<1>3. \A q \in Requests : q # deleting[d] => dir'[q] = dir[q]
  BY <1>1 DEF Mark
<1> QED BY <1>1, <1>2, <1>3 DEF Dir

LEMMA CompleteMarked ==
    ASSUME Typed, NEW d \in Deleters, dstage[d] \in Locked, NEW v \in Marker, Mark(d, "complete", v)
    PROVE  /\ \A q \in Requests : q # deleting[d] => dir'[q] = dir[q]
           /\ dir'[deleting[d]].complete = v
           /\ dir'[deleting[d]].pending = dir[deleting[d]].pending
           /\ dir'[deleting[d]].payload = dir[deleting[d]].payload
<1>1. deleting[d] \in Requests /\ dir[deleting[d]] \in Dir /\ dir \in [Requests -> Dir \cup {None}]
  BY DEF Typed, Holders, TypeOK, Locked
<1>2. dir'[deleting[d]] = [dir[deleting[d]] EXCEPT !["complete"] = v]
  BY <1>1 DEF Mark
<1>3. \A q \in Requests : q # deleting[d] => dir'[q] = dir[q]
  BY <1>1 DEF Mark
<1> QED BY <1>1, <1>2, <1>3 DEF Dir

LEMMA PayloadMarked ==
    ASSUME Typed, NEW d \in Deleters, dstage[d] \in Locked, NEW v, Mark(d, "payload", v)
    PROVE  /\ \A q \in Requests : q # deleting[d] => dir'[q] = dir[q]
           /\ dir'[deleting[d]].payload = v
           /\ dir'[deleting[d]].pending = dir[deleting[d]].pending
           /\ dir'[deleting[d]].complete = dir[deleting[d]].complete
<1>1. deleting[d] \in Requests /\ dir[deleting[d]] \in Dir /\ dir \in [Requests -> Dir \cup {None}]
  BY DEF Typed, Holders, TypeOK, Locked
<1>2. dir'[deleting[d]] = [dir[deleting[d]] EXCEPT !["payload"] = v]
  BY <1>1 DEF Mark
<1>3. \A q \in Requests : q # deleting[d] => dir'[q] = dir[q]
  BY <1>1 DEF Mark
<1> QED BY <1>1, <1>2, <1>3 DEF Dir

\* A deleter writes in no other directory than its own.
LEMMA OthersStay ==
    ASSUME Typed, NEW d \in Deleters, dstage[d] \in Locked, DeleterStep(d) \/ DeleterDies(d)
    PROVE  \A q \in Requests : q # deleting[d] => dir'[q] = dir[q]
<1>1. \/ UNCHANGED dir
      \/ \E f \in {"pending", "complete", "payload"} : \E v : Mark(d, f, v)
  BY DEF DeleterStep, DeleterDies, Bind, MarkPending, Announce, Clear, MarkComplete, Verify, CommitDeletion, Unmark,
     Write, WriteFails
<1>2. deleting[d] \in Requests /\ dir \in [Requests -> Dir \cup {None}]
  BY DEF Typed, Holders, TypeOK, Locked
<1> QED BY <1>1, <1>2 DEF Mark

LEMMA Worked ==
    ASSUME Typed, NEW r \in Requests, Work(r)
    PROVE  /\ work[r] \in {"runs", "outlives"} /\ dir[r] \in Dir
           /\ \A q \in Requests : q # r => dir'[q] = dir[q]
           /\ dir[r].payload = "empty"
           /\ dir'[r].payload = "cut"
           /\ dir'[r].pending = dir[r].pending
           /\ dir'[r].complete = dir[r].complete
<1>1. dir[r] \in Dir /\ dir \in [Requests -> Dir \cup {None}]
  BY DEF Typed, Holders, TypeOK, Work
<1>2. dir'[r] = [dir[r] EXCEPT !.payload = "cut"]
  BY <1>1 DEF Work
<1>3. \A q \in Requests : q # r => dir'[q] = dir[q]
  BY <1>1 DEF Work
<1> QED BY <1>1, <1>2, <1>3 DEF Dir, Work

LEMMA Appended ==
    ASSUME Typed, NEW r \in Requests, NEW e \in {"snapshot.deletion_requested", "snapshot.deleted"},
           trail' = [trail EXCEPT ![r] = Append(@, e)]
    PROVE  /\ \A q \in Requests : q # r => trail'[q] = trail[q]
           /\ \A x : Recorded(r, x)' <=> Recorded(r, x) \/ x = e
           /\ trail'[r] = Append(trail[r], e) /\ Len(trail'[r]) = Len(trail[r]) + 1
<1> DEFINE s == trail[r]
<1>1. s \in Seq({"snapshot.deletion_requested", "snapshot.deleted"}) /\ trail'[r] = Append(s, e)
  BY DEF Typed, TypeOK
<1>2. /\ Len(Append(s, e)) = Len(s) + 1 /\ Len(s) \in Nat
      /\ \A i \in 1..Len(s) : Append(s, e)[i] = s[i]
      /\ Append(s, e)[Len(s) + 1] = e
      /\ DOMAIN s = 1..Len(s) /\ DOMAIN Append(s, e) = 1..(Len(s) + 1)
  BY <1>1
<1>3. ASSUME NEW x PROVE Recorded(r, x)' <=> Recorded(r, x) \/ x = e
  BY <1>1, <1>2 DEF Recorded
<1>4. \A q \in Requests : q # r => trail'[q] = trail[q]
  BY DEF Typed, TypeOK
<1> QED BY <1>1, <1>2, <1>3, <1>4
----------------------------------------------------------------------------
(* Markers and records keep in step.                                        *)

\* What a deleter that holds the lock has written so far.
Held(d) ==
    LET r == deleting[d] IN
    /\ dstage[d] = "mark" => dir[r].pending = None
    /\ dstage[d] \in Locked \ {"mark"} => dir[r].pending = d
    /\ dstage[d] \in {"mark", "announce", "clear", "finish"} => dir[r].complete = None
    /\ dstage[d] \in {"verify", "commit", "unmark"} => dir[r].complete = d
    /\ dstage[d] \in {"clear", "finish", "verify", "commit"} => Announced(r)
    /\ dstage[d] \in {"verify", "commit"} => ~Deleted(r)
    /\ dstage[d] = "unmark" => Deleted(r)
    /\ dstage[d] = "commit" /\ work[r] # "outlives" => dir[r].payload = "empty"

\* What the markers and the contents of a directory say of the request's trail.
Kept(r) ==
    /\ Deleted(r) => dir[r] \in Dir /\ dir[r].complete # None /\ state[r] \in Deletable
    /\ dir[r] \in Dir /\ dir[r].complete # None /\ dir[r].pending = None => Deleted(r)
    /\ Deleted(r) /\ work[r] # "outlives" => dir[r].payload = "empty"
    /\ work[r] # "none" /\ dir[r].payload # "whole" => Announced(r)
    /\ \A i \in DOMAIN trail[r] :
          trail[r][i] = "snapshot.deleted" => i = Len(trail[r]) /\ i > 1

\* The work of r is no younger and no less lasting than it was.
WorkStays(r) == /\ work[r] = "outlives" => work'[r] = "outlives"
                /\ work[r] = "none" => work'[r] = "none"

LEMMA KeptStays ==
    ASSUME NEW r \in Requests, Kept(r), dir'[r] = dir[r], trail'[r] = trail[r], WorkStays(r),
           state[r] \in Deletable => state'[r] = state[r]
    PROVE  Kept(r)'
BY DEF Kept, Deleted, Announced, Recorded, Deletable, Dir, Marker, WorkStays

LEMMA HeldStays ==
    ASSUME NEW d \in Deleters, Held(d), dstage'[d] = dstage[d], deleting'[d] = deleting[d],
           dir'[deleting[d]] = dir[deleting[d]], trail'[deleting[d]] = trail[deleting[d]],
           WorkStays(deleting[d])
    PROVE  Held(d)'
BY DEF WorkStays, Held, Deleted, Announced, Recorded, Locked

LEMMA HeldNothing ==
    ASSUME NEW d \in Deleters, dstage'[d] \notin Locked
    PROVE  Held(d)'
BY DEF Held, Locked

\* The steps of the deleter d that holds the lock, at its own directory r.
LEMMA StepKeeps ==
    ASSUME Typed, Typed', NEW d \in Deleters, dstage[d] \in Locked, NEW r \in Requests, r = deleting[d],
           Held(d), Kept(r), state[r] \in Deletable, state'[r] = state[r], UNCHANGED work,
           DeleterStep(d) \/ DeleterDies(d)
    PROVE  Held(d)' /\ Kept(r)'
<1>1. /\ dir[r] \in Dir /\ d \in Marker /\ None \in Marker /\ "torn" \in Marker
      /\ d # None /\ None \notin Dir /\ None # "torn"
  BY ProcessAssumption, NoneAssumption DEF Typed, Holders, Marker
<1>2. dir'[r] \in Dir
  BY <1>1, DirsStay
<1>3. ~Bind(d)
  BY DEF Bind, Locked
<1>4. /\ DeleterLeaves(d) => dstage'[d] \notin Locked
      /\ \A s : Delete(d, s) => dstage'[d] = s /\ deleting'[d] = r
  BY DEF DeleterLeaves, Delete, Typed, TypeOK, Locked
<1>5. /\ UNCHANGED trail => Announced(r)' = Announced(r) /\ Deleted(r)' = Deleted(r) /\ trail'[r] = trail[r]
      /\ UNCHANGED dir => dir'[r] = dir[r]
  BY DEF Announced, Deleted, Recorded
<1>6. ASSUME WriteFails(d, "pending") \/ WriteFails(d, "complete")
      PROVE  /\ dir'[r].payload = dir[r].payload
             /\ WriteFails(d, "pending") => dir'[r].complete = dir[r].complete
             /\ WriteFails(d, "complete") => dir'[r].pending = dir[r].pending
  BY <1>1, <1>6, PendingMarked, CompleteMarked DEF WriteFails
<1>7. CASE MarkPending(d)
  <2>1. CASE Write(d, "pending") /\ Delete(d, "announce")
    <3>1. dir'[r].pending = d /\ dir'[r].complete = None /\ dir'[r].payload = dir[r].payload
      BY <1>1, <1>7, <2>1, PendingMarked DEF Write, MarkPending, Held
    <3> QED BY <1>1, <1>2, <1>4, <1>5, <1>7, <2>1, <3>1 DEF MarkPending, Held, Kept, Locked
  <2>2. CASE WriteFails(d, "pending") /\ DeleterLeaves(d)
    <3>1. Held(d)'
      BY <1>4, <2>2, HeldNothing
    <3>2. dir'[r].complete = None /\ dir'[r].payload = dir[r].payload
      BY <1>6, <1>7, <2>2 DEF MarkPending, Held
    <3> QED BY <1>1, <1>2, <1>5, <1>7, <3>1, <3>2 DEF MarkPending, Kept, Held
  <2> QED BY <1>7, <2>1, <2>2 DEF MarkPending
<1>8. CASE Announce(d)
  <2>1. CASE Demand(d)
    <3>1. /\ Announced(r)' /\ ~Deleted(r)'
          /\ trail'[r] = Append(trail[r], "snapshot.deletion_requested") /\ ~Deleted(r)
      <4>1. ~Deleted(r)
        BY <1>8 DEF Announce, Held, Kept
      <4>2. trail' = [trail EXCEPT ![r] = Append(@, "snapshot.deletion_requested")]
        BY <2>1 DEF Demand
      <4>3. /\ \A x : Recorded(r, x)' <=> Recorded(r, x) \/ x = "snapshot.deletion_requested"
            /\ trail'[r] = Append(trail[r], "snapshot.deletion_requested")
        BY <4>2, Appended
      <4> QED BY <4>1, <4>3 DEF Announced, Deleted
    <3>2. dir'[r].payload = dir[r].payload /\ dir'[r].complete = None
      BY <1>1, <1>8, PendingMarked DEF Announce, Held
    <3>3. Held(d)'
      BY <1>4, <1>8, <3>1, <3>2, HeldNothing DEF Announce, Held, Locked
    <3>4. \A i \in DOMAIN trail'[r] : trail'[r][i] # "snapshot.deleted"
      BY <3>1 DEF Deleted, Recorded
    <3> QED BY <1>1, <1>2, <3>1, <3>2, <3>3, <3>4 DEF Kept
  <2>2. CASE UNCHANGED trail /\ DeleterLeaves(d)
    <3>1. Held(d)'
      BY <1>4, <2>2, HeldNothing
    <3>2. /\ dir'[r].payload = dir[r].payload /\ dir'[r].complete = None
      BY <1>1, <1>8, PendingMarked DEF Announce, Held
    <3> QED BY <1>1, <1>2, <1>5, <1>8, <2>2, <3>1, <3>2 DEF Kept, Held, Announce
  <2> QED BY <1>8, <2>1, <2>2 DEF Announce
<1>9. CASE Clear(d)
  <2>1. /\ UNCHANGED trail /\ dir'[r].pending = d /\ dir'[r].complete = None /\ Announced(r) /\ ~Deleted(r)
    BY <1>1, <1>9, PayloadMarked DEF Clear, Held, Kept, Locked
  <2>2. Kept(r)'
    BY <1>1, <1>2, <1>5, <2>1 DEF Kept
  <2>3. \/ dstage'[d] \in {"clear", "finish"} /\ deleting'[d] = r
        \/ dstage'[d] \notin Locked
    BY <1>4, <1>9 DEF Clear, deleterVars
  <2> QED BY <1>5, <2>1, <2>2, <2>3, HeldNothing DEF Held, Locked
<1>10. CASE MarkComplete(d)
  <2>1. CASE Write(d, "complete") /\ Delete(d, "verify")
    <3>1. dir'[r].complete = d /\ dir'[r].pending = d /\ dir'[r].payload = dir[r].payload
      BY <1>1, <1>10, <2>1, CompleteMarked DEF Write, MarkComplete, Held, Locked
    <3>2. UNCHANGED trail /\ Announced(r) /\ ~Deleted(r)
      BY <1>10 DEF MarkComplete, Held, Kept
    <3>3. Held(d)'
      <4>1. dstage'[d] = "verify" /\ deleting'[d] = r
        BY <1>4, <2>1
      <4>2. Announced(r)' /\ ~Deleted(r)'
        BY <1>5, <3>2
      <4> QED BY <3>1, <4>1, <4>2 DEF Held, Locked
    <3>4. Kept(r)'
      BY <1>1, <1>2, <1>5, <3>1, <3>2 DEF Kept
    <3> QED BY <3>3, <3>4
  <2>2. CASE WriteFails(d, "complete") /\ DeleterLeaves(d)
    <3>1. Held(d)'
      BY <1>4, <2>2, HeldNothing
    <3>2. dir'[r].pending = d /\ dir'[r].payload = dir[r].payload
      BY <1>6, <1>10, <2>2 DEF MarkComplete, Held, Locked
    <3>3. UNCHANGED trail /\ ~Deleted(r)
      BY <1>10 DEF MarkComplete, Held, Kept
    <3> QED BY <1>1, <1>2, <1>5, <3>1, <3>2, <3>3 DEF Kept
  <2> QED BY <1>10, <2>1, <2>2 DEF MarkComplete
<1>11. CASE Verify(d)
  <2>1. UNCHANGED trail /\ UNCHANGED dir
    BY <1>11 DEF Verify
  <2>2. Kept(r)'
    BY <2>1, KeptStays DEF WorkStays
  <2>3. CASE MarkerState(dir[r]) = "committing" /\ Delete(d, "commit")
    <3>1. dir[r].payload = "empty"
      BY <2>3 DEF MarkerState
    <3> QED BY <1>4, <1>5, <1>11, <2>1, <2>2, <2>3, <3>1 DEF Verify, Held, Locked
  <2>4. CASE DeleterLeaves(d)
    BY <1>4, <2>2, <2>4, HeldNothing
  <2> QED BY <1>11, <2>3, <2>4 DEF Verify
<1>12. CASE CommitDeletion(d)
  <2>1. UNCHANGED dir
    BY <1>12 DEF CommitDeletion
  <2>2. CASE trail' = [trail EXCEPT ![r] = Append(@, "snapshot.deleted")] /\ Delete(d, "unmark")
    <3>1. /\ Announced(r)' = Announced(r) /\ Deleted(r)' /\ Announced(r) /\ ~Deleted(r)
          /\ trail'[r] = Append(trail[r], "snapshot.deleted")
      BY <1>12, <2>2, Appended DEF Announced, Deleted, CommitDeletion, Held
    <3>2. Held(d)'
      BY <1>4, <1>5, <1>12, <2>1, <2>2, <3>1 DEF Held, Locked, CommitDeletion
    <3>3. \A i \in DOMAIN trail'[r] :
             trail'[r][i] = "snapshot.deleted" => i = Len(trail'[r]) /\ i > 1
      <4> DEFINE s == trail[r]
      <4>1. s \in Seq({"snapshot.deletion_requested", "snapshot.deleted"})
        BY DEF Typed, TypeOK
      <4>2. PICK j \in DOMAIN s : s[j] = "snapshot.deletion_requested"
        BY <3>1 DEF Announced, Recorded
      <4>3. \A i \in DOMAIN s : s[i] # "snapshot.deleted"
        BY <3>1 DEF Deleted, Recorded
      <4> QED BY <3>1, <4>1, <4>2, <4>3
    <3> QED BY <1>1, <1>2, <1>5, <1>12, <2>1, <3>1, <3>2, <3>3 DEF Kept, Held, CommitDeletion
  <2>3. CASE UNCHANGED trail /\ DeleterLeaves(d)
    BY <1>4, <2>1, <2>3, HeldNothing, KeptStays DEF WorkStays
  <2> QED BY <1>12, <2>2, <2>3 DEF CommitDeletion
<1>13. CASE Unmark(d)
  <2>1. /\ UNCHANGED trail /\ Deleted(r) /\ Held(d)'
        /\ dir'[r].payload = dir[r].payload /\ dir'[r].complete = d
    BY <1>1, <1>4, <1>13, PendingMarked, HeldNothing DEF Unmark, Held
  <2> QED BY <1>1, <1>2, <1>5, <2>1 DEF Kept
<1>14. CASE DeleterDies(d)
  <2>1. Held(d)' /\ UNCHANGED trail
    BY <1>4, <1>14, HeldNothing DEF DeleterDies
  <2>2. CASE UNCHANGED dir
    BY <2>1, <2>2, KeptStays DEF WorkStays
  <2>3. CASE dstage[d] = "mark" /\ WriteFails(d, "pending")
    <3>1. dir'[r].complete = None /\ dir'[r].payload = dir[r].payload
      BY <1>6, <2>3 DEF Held
    <3> QED BY <1>1, <1>2, <1>5, <2>1, <2>3, <3>1 DEF Kept, Held
  <2>4. CASE dstage[d] = "finish" /\ WriteFails(d, "complete")
    <3>1. dir'[r].pending = d /\ dir'[r].payload = dir[r].payload /\ ~Deleted(r)
      BY <1>6, <2>4 DEF Held, Locked, Kept
    <3> QED BY <1>1, <1>2, <1>5, <2>1, <3>1 DEF Kept
  <2> QED BY <1>14, <2>2, <2>3, <2>4 DEF DeleterDies
<1> QED
  BY <1>3, <1>7, <1>8, <1>9, <1>10, <1>11, <1>12, <1>13, <1>14 DEF DeleterStep

\* What a builder publishes is untouched while it holds the lock.
Handed == \A b \in Builders : bstage[b] = "published" => dir[building[b]] = Fresh

MarkersKept == (\A d \in Deleters : Held(d)) /\ (\A r \in Requests : Kept(r)) /\ Handed

\* Only a builder that hands its snapshot over begins a work.
LEMMA WorksStay ==
    ASSUME Typed, [Next]_vars, NEW r \in Requests,
           \A b \in Builders : HandOver(b) => building[b] # r
    PROVE  WorkStays(r)
<1>1. CASE UNCHANGED work
  BY <1>1 DEF WorkStays
<1>2. CASE RecoverInterrupted
  BY <1>2 DEF RecoverInterrupted, WorkStays
<1>3. ASSUME NEW b \in Builders, Finish(b) \/ BuilderDies(b) PROVE WorkStays(r)
  <2>1. building[b] \in Requests
    BY <1>3 DEF Finish, BuilderDies, Typed, Holders
  <2>2. work[r] # "runs" => work'[r] = work[r]
    BY <1>3, <2>1, WorkEnding DEF Finish, BuilderDies, Works
  <2> QED BY <2>2 DEF WorkStays
<1>4. ASSUME NEW b \in Builders, HandOver(b) PROVE WorkStays(r)
  BY <1>4 DEF HandOver, WorkStays, Typed, TypeOK
<1>5. ASSUME NEW b \in Builders, BuilderStep(b) \/ BuilderMishap(b) PROVE WorkStays(r)
  BY <1>1, <1>3, <1>4, <1>5 DEF BuilderStep, BuilderMishap, ArchiveFails, Reserve, BuildFails, Publish, Retract
<1>6. ASSUME NEW d \in Deleters, DeleterStep(d) \/ DeleterDies(d) PROVE UNCHANGED work
  BY <1>6 DEF DeleterStep, Bind, MarkPending, Announce, Clear, MarkComplete, Verify, CommitDeletion, Unmark,
     DeleterDies
<1> QED
  BY <1>1, <1>2, <1>5, <1>6 DEF Next, Submit, Claim, Work, ReadState, List, ReadNext, Hide, vars

\* A builder that has published holds the lock: nobody else touches its snapshot.
LEMMA HandedStays ==
    ASSUME Typed, BuildersLive, Handed, [Next]_vars
    PROVE  Handed'
<1> SUFFICES ASSUME NEW b \in Builders, bstage'[b] = "published" PROVE dir'[building'[b]] = Fresh
  BY DEF Handed
<1> USE DEF Typed, TypeOK
<1>1. CASE Publish(b)
  BY <1>1 DEF Publish, Build, Holders
<1>2. CASE ~Publish(b)
  <2>1. bstage[b] = "published" /\ building'[b] = building[b]
    <3>1. ASSUME NEW c \in Builders, BuilderStep(c) \/ BuilderMishap(c)
          PROVE  bstage[b] = "published" /\ building'[b] = building[b]
      <4>1. c # b /\ bstage'[b] = bstage[b] /\ building'[b] = building[b]
        BY <1>2, <3>1 DEF BuilderStep, BuilderMishap, ArchiveFails, Reserve, BuildFails, Publish, Retract,
           HandOver, Finish, BuilderDies, Build, BuilderLeaves
      <4> QED BY <4>1
    <3>2. ASSUME NEW c \in Builders, NEW q \in Requests, Claim(c, q)
          PROVE  bstage[b] = "published" /\ building'[b] = building[b]
      BY <3>2 DEF Claim
    <3>3. CASE UNCHANGED builderVars
      BY <3>3 DEF builderVars
    <3> QED
      BY <3>1, <3>2, <3>3 DEF Next, Submit, Work, RecoverInterrupted, ReadState, DeleterStep, Bind, MarkPending,
         Announce, Clear, MarkComplete, Verify, CommitDeletion, Unmark, DeleterDies, List, ReadNext, Hide, vars
  <2>2. PICK r \in Requests : r = building[b]
    BY <2>1 DEF Holders
  <2>3. /\ lock = b /\ work[r] = "none" /\ dir[r] = Fresh
        /\ \A d \in Deleters : dstage[d] \notin Locked
        /\ \A c \in Builders : c # b => bstage[c] \notin {"build", "published"}
    BY <2>1, <2>2, ProcessAssumption DEF Holders, BuildersLive, Handed
  <2>4. ASSUME NEW q \in Requests, Work(q) PROVE dir'[r] = dir[r]
    BY <2>3, <2>4, Worked
  <2>5. ASSUME NEW d \in Deleters, DeleterStep(d) \/ DeleterDies(d) PROVE UNCHANGED dir
    BY <2>3, <2>5 DEF DeleterStep, DeleterDies, Bind, MarkPending, Announce, Clear, MarkComplete, Verify,
       CommitDeletion, Unmark, Locked
  <2>6. ASSUME NEW c \in Builders, BuilderStep(c) \/ BuilderMishap(c) PROVE UNCHANGED dir
    <3>1. CASE c = b
      <4>1. ~Publish(c) /\ ~Retract(c) /\ ~BuilderDies(c)
        BY <1>2, <2>1, <3>1 DEF Retract, BuilderDies, Build, BuilderLeaves
      <4> QED BY <2>6, <4>1 DEF BuilderStep, BuilderMishap, ArchiveFails, Reserve, BuildFails, HandOver, Finish
    <3>2. CASE c # b
      BY <2>3, <2>6, <3>2 DEF BuilderStep, BuilderMishap, ArchiveFails, Reserve, BuildFails, Publish, Retract,
         HandOver, Finish, BuilderDies
    <3> QED BY <3>1, <3>2
  <2>7. dir'[r] = dir[r]
    BY <2>4, <2>5, <2>6 DEF Next, Submit, RecoverInterrupted, Claim, ReadState, List, ReadNext, Hide, vars
  <2> QED BY <2>1, <2>2, <2>3, <2>7
<1> QED BY <1>1, <1>2

LEMMA MarkersStay ==
    ASSUME Typed, Typed', BuildersLive, DeletersLate, MarkersKept, [Next]_vars
    PROVE  MarkersKept'
<1>0. Handed'
  BY HandedStays DEF MarkersKept
<1>1. \A r \in Requests : state[r] \in Deletable => state'[r] = state[r]
  BY Final
<1>20. ASSUME \A b \in Builders : ~HandOver(b) PROVE \A r \in Requests : WorkStays(r)
  BY <1>20, WorksStay
<1>21. ASSUME NEW d \in Deleters, dstage[d] \in Locked PROVE deleting[d] \in Requests
  BY <1>21 DEF Typed, Holders, Locked
<1>2. ASSUME UNCHANGED <<dir, trail, deleterVars>>, \A b \in Builders : ~HandOver(b) PROVE MarkersKept'
  <2>1. \A d \in Deleters : Held(d)'
    <3>1. ASSUME NEW d \in Deleters, dstage[d] \in Locked PROVE Held(d)'
      BY <1>2, <1>20, <1>21, <3>1, HeldStays DEF MarkersKept, deleterVars
    <3>2. ASSUME NEW d \in Deleters, dstage[d] \notin Locked PROVE Held(d)'
      BY <1>2, <3>2, HeldNothing DEF deleterVars
    <3> QED BY <3>1, <3>2
  <2>2. \A r \in Requests : Kept(r)'
    BY <1>1, <1>2, <1>20, KeptStays DEF MarkersKept
  <2> QED BY <1>0, <2>1, <2>2 DEF MarkersKept
<1>22. ASSUME NEW b \in Builders, HandOver(b) PROVE MarkersKept'
  <2>0. PICK r \in Requests : r = building[b]
    BY <1>22 DEF HandOver, Typed, Holders
  <2>1. /\ dir[r] = Fresh /\ UNCHANGED <<dir, trail, dstage>> /\ lock = b
        /\ \A d \in Deleters : dstage[d] \notin Locked
    BY <1>22, <2>0, ProcessAssumption DEF HandOver, MarkersKept, Handed, Typed, Holders, deleterVars
  <2>2. \A d \in Deleters : Held(d)'
    BY <2>1, HeldNothing
  <2>3. ASSUME NEW q \in Requests, q # r PROVE Kept(q)'
    <3>1. WorkStays(q)
      BY <1>22, <2>0, <2>3 DEF HandOver, WorkStays, Typed, TypeOK
    <3> QED BY <1>1, <2>1, <3>1, KeptStays DEF MarkersKept
  <2>4. ~Deleted(r) /\ Kept(r)
    BY <2>1 DEF MarkersKept, Kept, Fresh
  <2>5. Kept(r)'
    BY <2>1, <2>4 DEF Kept, Deleted, Recorded, Fresh
  <2> QED BY <1>0, <2>2, <2>3, <2>5 DEF MarkersKept
<1>3. CASE \/ \E r \in Requests : Submit(r)
           \/ RecoverInterrupted
           \/ \E l \in Listers : (\E r \in Requests : List(l, r)) \/ ReadNext(l) \/ Hide(l)
           \/ UNCHANGED vars
  <2>1. UNCHANGED <<dir, trail, deleterVars>>
    BY <1>3 DEF Submit, RecoverInterrupted, List, ReadNext, Hide, vars
  <2> QED BY <1>2, <1>22, <2>1
<1>4. ASSUME NEW b \in Builders,
             \/ \E r \in Requests : Claim(b, r)
             \/ ArchiveFails(b) \/ Reserve(b) \/ BuildFails(b) \/ Finish(b)
             \/ BuilderDies(b) /\ UNCHANGED dir
      PROVE  MarkersKept'
  <2>1. UNCHANGED <<dir, trail, deleterVars>>
    BY <1>4 DEF Claim, ArchiveFails, Reserve, BuildFails, Finish, BuilderDies
  <2> QED BY <1>2, <1>22, <2>1
<1>5. ASSUME NEW b \in Builders, Publish(b) PROVE MarkersKept'
  <2>0. PICK r \in Requests : r = building[b]
    BY <1>5 DEF Publish, Typed, Holders
  <2>1. /\ dir[r] = None /\ dir'[r] = Fresh /\ \A q \in Requests : q # r => dir'[q] = dir[q]
        /\ \A d \in Deleters : dstage[d] \notin Locked
        /\ UNCHANGED <<state, trail, dstage, deleting, work>>
    BY <1>5, <2>0, ProcessAssumption DEF Publish, Typed, TypeOK, Holders, Locked, requestVars, deleterVars
  <2>2. \A d \in Deleters : Held(d)'
    BY <2>1, HeldNothing
  <2>3. \A q \in Requests : q # r => Kept(q)'
    BY <2>1, KeptStays DEF MarkersKept, WorkStays
  <2>4. Kept(r) /\ ~Deleted(r)
    BY <2>1, NoneAssumption DEF MarkersKept, Kept
  <2>5. ~Deleted(r)' /\ \A i \in DOMAIN trail'[r] : trail'[r][i] # "snapshot.deleted"
    BY <2>1, <2>4 DEF Deleted, Recorded
  <2>6. Kept(r)'
    BY <2>1, <2>5 DEF Kept, Fresh
  <2> QED BY <1>0, <2>2, <2>3, <2>6 DEF MarkersKept
\* A published snapshot is cleared before it is handed over.
<1>23. ASSUME NEW b \in Builders, Retract(b) \/ BuilderDies(b), bstage[b] = "published", Clears(building[b])
       PROVE  MarkersKept'
  <2>0. PICK r \in Requests : r = building[b]
    BY <1>23 DEF Typed, Holders
  <2>1. /\ dir[r] = Fresh /\ lock = b /\ work[r] = "none"
        /\ \A d \in Deleters : dstage[d] \notin Locked
    BY <1>23, <2>0, ProcessAssumption DEF MarkersKept, Handed, BuildersLive, Typed, Holders
  <2>2. UNCHANGED <<state, trail, dstage>> /\ work'[r] = "none"
    <3>1. ~HandOver(b) /\ UNCHANGED <<state, trail, dstage>>
      BY <1>23 DEF HandOver, Build, BuilderLeaves, Retract, BuilderDies, Typed, TypeOK, requestVars, deleterVars
    <3>2. work'[r] = work[r]
      BY <1>23, <2>0, <2>1, WorkEnding DEF Retract, BuilderDies, Works
    <3> QED BY <2>1, <3>1, <3>2
  <2>3. /\ \A q \in Requests : q # r => dir'[q] = dir[q]
        /\ dir'[r].pending = None /\ dir'[r].complete = None
    <3>1. Fresh \in Dir
      BY DEF Fresh, Dir, Marker
    <3> QED BY <1>23, <2>0, <2>1, <3>1, Clearing DEF Fresh
  <2>4. \A d \in Deleters : Held(d)'
    BY <2>2, <2>1, HeldNothing
  <2>5. ASSUME NEW q \in Requests, q # r PROVE Kept(q)'
    <3>1. WorkStays(q)
      BY <1>23, <2>0, <2>5, WorkEnding DEF Retract, BuilderDies, WorkStays, Works
    <3> QED BY <1>1, <2>2, <2>3, <2>5, <3>1, KeptStays DEF MarkersKept
  <2>6. ~Deleted(r)
    BY <2>1 DEF MarkersKept, Kept, Fresh
  <2>7. ~Deleted(r)' /\ \A i \in DOMAIN trail'[r] : trail'[r][i] # "snapshot.deleted"
    BY <2>2, <2>6 DEF Deleted, Recorded
  <2>8. Kept(r)'
    BY <2>2, <2>3, <2>7 DEF Kept
  <2> QED BY <1>0, <2>4, <2>5, <2>8 DEF MarkersKept
<1>6. ASSUME NEW r \in Requests, Work(r) PROVE MarkersKept'
  <2>1. /\ dir[r] \in Dir /\ dir'[r] \in Dir /\ \A q \in Requests : q # r => dir'[q] = dir[q]
        /\ dir[r].payload = "empty" /\ dir'[r].payload = "cut"
        /\ dir'[r].pending = dir[r].pending /\ dir'[r].complete = dir[r].complete
        /\ UNCHANGED <<state, trail, dstage, deleting, work>>
        /\ work[r] \in {"runs", "outlives"}
    <3>1. UNCHANGED <<state, trail, dstage, deleting, work>>
      BY <1>6 DEF Work, requestVars, deleterVars
    <3> QED BY <1>6, <3>1, Worked DEF Typed, Holders
  <2>2. state[r] \in Deletable => work[r] = "outlives"
    BY <2>1 DEF BuildersLive, Deletable
  <2>3. ASSUME NEW d \in Deleters PROVE Held(d)'
    <3>1. dstage[d] \in Locked => deleting[d] \in Requests /\ (deleting[d] = r => work[r] = "outlives")
      BY <2>2 DEF Typed, Holders, DeletersLate, Locked
    <3>2. Held(d)
      BY DEF MarkersKept
    <3>3. CASE dstage[d] \in Locked /\ deleting[d] = r
      BY <2>1, <3>1, <3>2, <3>3 DEF Held, Deleted, Announced, Recorded, Locked
    <3>4. CASE dstage[d] \in Locked /\ deleting[d] # r
      BY <2>1, <3>1, <3>2, <3>4, HeldStays DEF WorkStays
    <3> QED BY <2>1, <3>3, <3>4, HeldNothing
  <2>4. \A q \in Requests : q # r => Kept(q)'
    BY <2>1, KeptStays DEF MarkersKept, WorkStays
  <2>5. Deleted(r) => work[r] = "outlives"
    BY <2>2 DEF MarkersKept, Kept
  <2>6. Kept(r)'
    BY <2>1, <2>5 DEF MarkersKept, Kept, Deleted, Announced, Recorded
  <2> QED BY <1>0, <2>3, <2>4, <2>6 DEF MarkersKept
<1>7. ASSUME NEW d \in Deleters, UNCHANGED <<dir, trail, work>>,
             \A e \in Deleters : e # d => dstage'[e] = dstage[e] /\ deleting'[e] = deleting[e],
             \/ dstage'[d] \notin Locked
             \/ /\ dstage'[d] = "mark" /\ dir[deleting'[d]].pending = None /\ dir[deleting'[d]].complete = None
      PROVE  MarkersKept'
  <2>0. \A r : WorkStays(r)
    BY <1>7 DEF WorkStays
  <2>1. \A e \in Deleters : e # d => Held(e)'
    BY <1>7, <2>0, HeldStays DEF MarkersKept
  <2>2. Held(d)'
    <3>1. CASE dstage'[d] \notin Locked
      BY <3>1, HeldNothing
    <3>2. CASE dstage'[d] = "mark" /\ dir[deleting'[d]].pending = None /\ dir[deleting'[d]].complete = None
      BY <1>7, <3>2 DEF Held, Locked
    <3> QED BY <1>7, <3>1, <3>2
  <2>3. \A q \in Requests : Kept(q)'
    BY <1>1, <1>7, <2>0, KeptStays DEF MarkersKept
  <2> QED BY <1>0, <2>1, <2>2, <2>3 DEF MarkersKept
<1>8. ASSUME NEW d \in Deleters, NEW q \in Requests, ReadState(d, q) PROVE MarkersKept'
  <2>1. /\ dstage'[d] \notin Locked /\ UNCHANGED <<dir, trail, work>>
        /\ \A e \in Deleters : e # d => dstage'[e] = dstage[e] /\ deleting'[e] = deleting[e]
    BY <1>8 DEF ReadState, Typed, TypeOK, Locked
  <2> QED BY <1>7, <2>1
<1>9. ASSUME NEW d \in Deleters, DeleterLeaves(d) \/ \E s : Delete(d, s)
      PROVE  /\ DeleterLeaves(d) => dstage'[d] \notin Locked
             /\ \A e \in Deleters : e # d => dstage'[e] = dstage[e] /\ deleting'[e] = deleting[e]
  BY <1>9 DEF DeleterLeaves, Delete, Typed, TypeOK, Locked
<1>10. ASSUME NEW d \in Deleters, Bind(d) PROVE MarkersKept'
  <2>1. UNCHANGED <<dir, trail, work>>
    BY <1>10 DEF Bind
  <2>2. CASE Delete(d, "mark") /\ dir[deleting[d]].pending = None /\ dir[deleting[d]].complete = None
    <3>1. dstage'[d] = "mark" /\ deleting'[d] = deleting[d]
      BY <2>2 DEF Delete, Typed, TypeOK
    <3> QED BY <1>7, <1>9, <2>1, <2>2, <3>1
  <2>3. CASE DeleterLeaves(d)
    BY <1>7, <1>9, <2>1, <2>3
  <2> QED BY <1>10, <2>2, <2>3 DEF Bind
<1>11. ASSUME NEW d \in Deleters, DeleterDies(d), dstage[d] \notin Locked PROVE MarkersKept'
  <2>1. UNCHANGED <<dir, trail, work>> /\ DeleterLeaves(d)
    BY <1>11 DEF DeleterDies, Locked
  <2> QED BY <1>7, <1>9, <2>1
<1>12. ASSUME NEW d \in Deleters, DeleterStep(d) \/ DeleterDies(d), dstage[d] \in Locked PROVE MarkersKept'
  <2>0. PICK r \in Requests : r = deleting[d]
    BY <1>12 DEF Typed, Holders, Locked
  <2>1. UNCHANGED <<state, work>>
    BY <1>12 DEF DeleterStep, DeleterDies, Bind, MarkPending, Announce, Clear, MarkComplete, Verify, CommitDeletion,
       Unmark, requestVars
  <2>2. state[r] \in Deletable
    BY <1>12, <2>0 DEF DeletersLate, Locked
  <2>3. Held(d)' /\ Kept(r)'
    BY <1>12, <2>0, <2>1, <2>2, StepKeeps DEF MarkersKept
  <2>4. \A q \in Requests : q # r => dir'[q] = dir[q] /\ trail'[q] = trail[q]
    <3>1. \A q \in Requests : q # r => dir'[q] = dir[q]
      BY <1>12, <2>0, OthersStay
    <3>2. \A q \in Requests : q # r => trail'[q] = trail[q]
      BY <1>12, <2>0 DEF DeleterStep, DeleterDies, Bind, MarkPending, Announce, Clear, MarkComplete, Verify,
         CommitDeletion, Unmark, Demand, Typed, TypeOK
    <3> QED BY <3>1, <3>2
  <2>5. ASSUME NEW e \in Deleters, e # d PROVE Held(e)'
    <3>1. dstage[e] \notin Locked
      BY <1>12, <2>5 DEF Typed, Holders
    <3>2. dstage'[e] = dstage[e]
      BY <1>12, <2>5, <1>9 DEF DeleterStep, DeleterDies, Bind, MarkPending, Announce, Clear, MarkComplete, Verify,
         CommitDeletion, Unmark, deleterVars
    <3> QED BY <3>1, <3>2, HeldNothing
  <2>6. \A q \in Requests : q # r => Kept(q)'
    BY <2>1, <2>4, KeptStays DEF MarkersKept, WorkStays
  <2> QED BY <1>0, <2>3, <2>5, <2>6 DEF MarkersKept
<1>13. ASSUME NEW b \in Builders, BuilderStep(b) \/ BuilderMishap(b) PROVE MarkersKept'
  <2>1. CASE Retract(b)
    BY <1>23, <2>1 DEF Retract
  <2>2. CASE BuilderDies(b)
    BY <1>4, <1>23, <2>2 DEF BuilderDies
  <2> QED BY <1>4, <1>5, <1>13, <1>22, <2>1, <2>2 DEF BuilderStep, BuilderMishap
<1>14. ASSUME NEW d \in Deleters, DeleterStep(d) \/ DeleterDies(d) PROVE MarkersKept'
  <2>1. CASE dstage[d] \in Locked
    BY <1>12, <1>14, <2>1
  <2>2. CASE dstage[d] \notin Locked
    BY <1>10, <1>11, <1>14, <2>2 DEF DeleterStep, MarkPending, Announce, Clear, MarkComplete, Verify,
       CommitDeletion, Unmark, Locked
  <2> QED BY <2>1, <2>2
<1> QED
  BY <1>3, <1>4, <1>6, <1>8, <1>13, <1>14 DEF Next

LEMMA MarkersKnown == Spec => []MarkersKept
<1>1. Init => MarkersKept
  BY NoneAssumption DEF Init, MarkersKept, Held, Kept, Handed, Deleted, Announced, Recorded, Locked
<1>2. Typed /\ Typed' /\ BuildersLive /\ DeletersLate /\ MarkersKept /\ [Next]_vars => MarkersKept'
  BY MarkersStay
<1> QED BY <1>1, <1>2, HoldersKnown, StatesKnown, DeletersKnown, PTL DEF Spec

\* A snapshot with the marks of a completed deletion has the receipt of it.
THEOREM HiddenOnlyDeleted == Spec => []HiddenMeansDeleted
<1>1. Typed /\ MarkersKept => HiddenMeansDeleted
  BY DEF HiddenMeansDeleted, Existing, MarkerState, Valid, Typed, TypeOK, MarkersKept, Kept, Deleted
<1> QED BY <1>1, HoldersKnown, MarkersKnown, PTL

\* A snapshot with the receipt of its deletion is empty, if no work outlived its request.
THEOREM DeletedIsGone == Spec => []DeletedMeansGone
<1>1. MarkersKept => DeletedMeansGone
  BY DEF DeletedMeansGone, Existing, MarkersKept, Kept, Deleted
<1> QED BY <1>1, MarkersKnown, PTL

\* Nothing is removed from the snapshot of a work before the demand is recorded.
THEOREM DeletionAnnounced == Spec => []DeletionIsAnnounced
<1>1. Typed /\ MarkersKept => DeletionIsAnnounced
  BY DEF DeletionIsAnnounced, Existing, Typed, TypeOK, MarkersKept, Kept, Announced
<1> QED BY <1>1, HoldersKnown, MarkersKnown, PTL

\* A deletion is recorded once, after its demand and last of all.
THEOREM DeletionRecordedOnce == Spec => []DeletedOnce
<1>1. MarkersKept => DeletedOnce
  BY DEF DeletedOnce, MarkersKept, Kept
<1> QED BY <1>1, MarkersKnown, PTL

----------------------------------------------------------------------------
(* Listers.                                                                 *)

\* The first read of the names decides: a completion marker that is alone is the
\* marker of a deletion on record, and a receipt is never taken back.
ReadAfterDeletion == \A l \in Listers : reads[l] # <<>> => Deleted(listed[l])

LEMMA DeletedForGood ==
    ASSUME Typed, [Next]_vars, NEW r \in Requests, Deleted(r)
    PROVE  Deleted(r)'
<1>1. CASE UNCHANGED trail
  BY <1>1 DEF Deleted, Recorded
<1>2. ASSUME NEW d \in Deleters, dstage[d] \in Locked,
             NEW e \in {"snapshot.deletion_requested", "snapshot.deleted"},
             trail' = [trail EXCEPT ![deleting[d]] = Append(@, e)]
      PROVE  Deleted(r)'
  <2>1. PICK q \in Requests : q = deleting[d]
    BY <1>2 DEF Typed, Holders, Locked
  <2>2. /\ \A p \in Requests : p # q => trail'[p] = trail[p]
        /\ \A x : Recorded(q, x)' <=> Recorded(q, x) \/ x = e
    BY ZenonT(60), <1>2, <2>1, Appended
  <2>3. CASE q = r
    BY <2>2, <2>3 DEF Deleted
  <2>4. CASE q # r
    BY <2>2, <2>4 DEF Deleted, Recorded
  <2> QED BY <2>3, <2>4
<1>3. ASSUME NEW d \in Deleters, DeleterStep(d) PROVE Deleted(r)'
  <2>1. CASE Announce(d) \/ CommitDeletion(d)
    BY <1>1, <1>2, <2>1 DEF Announce, CommitDeletion, Demand, Locked
  <2>2. CASE ~(Announce(d) \/ CommitDeletion(d))
    BY <1>1, <1>3, <2>2 DEF DeleterStep, Bind, MarkPending, Clear, MarkComplete, Verify, Unmark
  <2> QED BY <2>1, <2>2
<1>4. ASSUME NEW b \in Builders, BuilderStep(b) \/ BuilderMishap(b) PROVE Deleted(r)'
  BY <1>1, <1>4 DEF BuilderStep, BuilderMishap, ArchiveFails, Reserve, BuildFails, Publish, Retract, HandOver,
     Finish, BuilderDies
<1> QED
  BY <1>1, <1>3, <1>4 DEF Next, Submit, RecoverInterrupted, Claim, Work, ReadState, DeleterDies, List,
     ReadNext, Hide, vars

LEMMA ReadsKnown == Spec => []ReadAfterDeletion
<1>1. Init => ReadAfterDeletion
  BY DEF Init, ReadAfterDeletion
<1>2. Typed /\ Reading /\ MarkersKept /\ ReadAfterDeletion /\ [Next]_vars => ReadAfterDeletion'
  <2> SUFFICES ASSUME Typed, Reading, MarkersKept, ReadAfterDeletion, [Next]_vars PROVE ReadAfterDeletion'
    OBVIOUS
  <2>1. CASE UNCHANGED listerVars
    <3>1. \A l \in Listers : reads[l] # <<>> => listed[l] \in Requests
      BY DEF Reading, Typed, Holders
    <3> QED BY <2>1, <3>1, DeletedForGood DEF ReadAfterDeletion, listerVars
  <2>2. ASSUME NEW l \in Listers, NEW r \in Requests, List(l, r) PROVE ReadAfterDeletion'
    BY <2>2 DEF List, ReadAfterDeletion, Reading, Typed, TypeOK, Deleted, Recorded
  <2>3. ASSUME NEW l \in Listers, ReadNext(l) \/ Hide(l) PROVE ReadAfterDeletion'
    <3>1. \A r : Deleted(r)' <=> Deleted(r)
      BY <2>3 DEF ReadNext, Hide, Deleted, Recorded
    <3>2. CASE ListerLeaves(l)
      <4>1. reads'[l] = <<>> /\ \A k \in Listers : k # l => reads'[k] = reads[k] /\ listed'[k] = listed[k]
        BY <3>2 DEF ListerLeaves, Typed, TypeOK
      <4> QED BY <3>1, <4>1 DEF ReadAfterDeletion, Deleted, Recorded
    <3>3. CASE ReadNext(l) /\ ~ListerLeaves(l)
      <4> DEFINE value == Look(dir[listed[l]], ReadOrder[Len(reads[l]) + 1])
      <4>1. /\ reads'[l] = Append(reads[l], value) /\ listed' = listed /\ MayHide(Append(reads[l], value))
            /\ \A k \in Listers : k # l => reads'[k] = reads[k]
        BY <3>3 DEF ReadNext, Typed, TypeOK
      <4>2. PICK r \in Requests : r = listed[l] /\ dir[r] \in Dir
        BY <3>3 DEF ReadNext, Typed, Holders
      <4>3. Deleted(r)
        <5>1. CASE reads[l] # <<>>
          BY <4>2, <5>1 DEF ReadAfterDeletion
        <5>2. CASE reads[l] = <<>>
          <6>1. Append(reads[l], value)[1] = Look(dir[r], "names")
            BY <4>2, <5>2 DEF ReadOrder
          <6>2. Look(dir[r], "names") = "sole"
            BY <4>1, <6>1 DEF MayHide
          <6>3. dir[r].pending = None /\ dir[r].complete # None
            BY <6>2 DEF Look
          <6> QED BY <4>2, <6>3 DEF MarkersKept, Kept
        <5> QED BY <5>1, <5>2
      <4> QED BY <3>1, <4>1, <4>2, <4>3 DEF ReadAfterDeletion
    <3> QED BY <2>3, <3>2, <3>3 DEF Hide
  <2>4. UNCHANGED listerVars \/ \E l \in Listers : (\E r \in Requests : List(l, r)) \/ ReadNext(l) \/ Hide(l)
    BY DEF Next, Submit, RecoverInterrupted, Claim, BuilderStep, BuilderMishap, ArchiveFails, Reserve, BuildFails, Publish,
       Retract, HandOver, Work, Finish, BuilderDies, ReadState, DeleterStep, Bind, MarkPending, Announce, Clear, MarkComplete, Verify,
       CommitDeletion, Unmark, DeleterDies, vars, listerVars
  <2> QED BY <2>1, <2>2, <2>3, <2>4
<1> QED BY <1>1, <1>2, HoldersKnown, MarkersKnown, PTL DEF Spec

\* A listing that races with builders and deleters hides only deleted snapshots.
THEOREM ListingIsSafe == Spec => []ListingHidesDeleted
<1>1. Typed /\ ReadAfterDeletion => ListingHidesDeleted
  <2> SUFFICES ASSUME Typed, ReadAfterDeletion, NEW l \in Listers, Hides(l)
               PROVE  Deleted(listed[l])
    BY DEF ListingHidesDeleted, Deleted
  <2>1. reads[l] # <<>>
    <3>1. Len(ReadOrder) = 6
      BY DEF ReadOrder
    <3>2. Len(reads[l]) = 6
      BY <3>1 DEF Hides
    <3> QED BY <3>2
  <2> QED BY <2>1 DEF ReadAfterDeletion
<1> QED BY <1>1, HoldersKnown, ReadsKnown, PTL

----------------------------------------------------------------------------
(* The limits.                                                              *)

\* A directory counts as under deletion when it has a marker of any kind.
LEMMA MarkersCount ==
    ASSUME NEW entry \in Dir
    PROVE  /\ MarkerState(entry) # "unmarked" <=> entry.pending # None \/ entry.complete # None
           /\ MarkerState(entry) = "complete" => entry.pending = None /\ entry.complete # None
BY NoneAssumption DEF MarkerState, Valid, Dir

\* While a deleter is about to mark its directory, a tombstone is left for it.
Marking == \A d \in Deleters : dstage[d] = "mark" => Cardinality(Tombstones) < MaxTombstones

\* A step after which no other directory is under deletion.
LEMMA FewerTombstones ==
    ASSUME Typed, Typed', NEW r \in Requests, \A q \in Requests : q # r => dir'[q] = dir[q],
           \/ dir'[r] = None
           \/ dir'[r].pending = None /\ dir'[r].complete = None
           \/ dir[r] \in Dir /\ (dir[r].pending # None \/ dir[r].complete # None)
    PROVE  Tombstones' \subseteq Tombstones
<1>1. \A q \in Requests : (dir[q] = None \/ dir[q] \in Dir) /\ (dir'[q] = None \/ dir'[q] \in Dir)
  BY DEF Typed, TypeOK
<1>2. ASSUME NEW q \in Tombstones' PROVE q \in Tombstones
  <2>1. q \in Requests /\ dir'[q] # None /\ MarkerState(dir'[q]) # "unmarked"
    BY <1>2 DEF Tombstones, Existing
  <2>2. CASE q # r
    BY <2>1, <2>2 DEF Tombstones, Existing
  <2>3. CASE q = r
    <3>1. dir'[r].pending # None \/ dir'[r].complete # None
      BY <1>1, <2>1, <2>3, MarkersCount
    <3>2. dir[r] \in Dir /\ MarkerState(dir[r]) # "unmarked"
      BY <2>1, <2>3, <3>1, MarkersCount
    <3> QED BY <2>3, <3>2, NoneAssumption DEF Tombstones, Existing
  <2> QED BY <2>2, <2>3
<1> QED BY <1>2

LEMMA TombstonesGrow ==
    ASSUME Typed, MarkersKept, Typed', [Next]_vars
    PROVE  \/ Tombstones' \subseteq Tombstones
           \/ \E d \in Deleters : dstage[d] = "mark" /\ dstage'[d] # "mark" /\ Tombstones' \subseteq Tombstones \cup {deleting[d]}
<1>1. CASE UNCHANGED dir
  BY <1>1 DEF Tombstones, Existing
<1>2. ASSUME NEW b \in Builders, Publish(b) PROVE Tombstones' \subseteq Tombstones
  <2>1. PICK r \in Requests : r = building[b]
    BY <1>2 DEF Publish, Typed, Holders
  <2>2. /\ \A q \in Requests : q # r => dir'[q] = dir[q]
        /\ dir'[r].pending = None /\ dir'[r].complete = None
    BY <1>2, <2>1 DEF Publish, Fresh, Typed, TypeOK
  <2> QED BY <2>2, FewerTombstones
<1>3. ASSUME NEW r \in Requests, Work(r) PROVE Tombstones' \subseteq Tombstones
  <2>1. /\ dir[r] \in Dir
        /\ \A q \in Requests : q # r => dir'[q] = dir[q]
        /\ dir'[r].pending = dir[r].pending /\ dir'[r].complete = dir[r].complete
    BY <1>3, Worked
  <2> QED BY <2>1, FewerTombstones
<1>9. ASSUME NEW b \in Builders, bstage[b] = "published", Clears(building[b])
      PROVE  Tombstones' \subseteq Tombstones
  <2>1. PICK r \in Requests : r = building[b] /\ dir[r] = Fresh
    BY <1>9 DEF Typed, Holders, MarkersKept, Handed
  <2>2. /\ \A q \in Requests : q # r => dir'[q] = dir[q]
        /\ dir'[r].pending = None /\ dir'[r].complete = None
    <3>1. Fresh \in Dir
      BY DEF Fresh, Dir, Marker
    <3> QED BY <1>9, <2>1, <3>1, Clearing DEF Fresh
  <2> QED BY <2>2, FewerTombstones
<1>4. ASSUME NEW d \in Deleters, DeleterStep(d) \/ DeleterDies(d), dstage[d] \in Locked
      PROVE  \/ Tombstones' \subseteq Tombstones
             \/ dstage[d] = "mark" /\ dstage'[d] # "mark" /\ Tombstones' \subseteq Tombstones \cup {deleting[d]}
  <2>1. PICK r \in Requests : r = deleting[d] /\ dir[r] \in Dir
    BY <1>4 DEF Typed, Holders, Locked
  <2>2. \A q \in Requests : q # r => dir'[q] = dir[q]
    BY <1>4, <2>1, OthersStay
  <2>3. CASE dstage[d] = "mark"
    <3>1. dstage'[d] # "mark"
      BY <1>4, <2>3 DEF DeleterStep, DeleterDies, Bind, MarkPending, Announce, Clear, MarkComplete, Verify,
         CommitDeletion, Unmark, Delete, DeleterLeaves, Typed, TypeOK
    <3>2. Tombstones' \subseteq Tombstones \cup {r}
      BY <2>2 DEF Tombstones, Existing
    <3> QED BY <2>1, <2>3, <3>1, <3>2
  <2>4. CASE dstage[d] # "mark"
    <3>1. dir[r].pending # None
      BY <1>4, <2>1, <2>4, ProcessAssumption DEF MarkersKept, Held, Locked
    <3> QED BY <2>1, <2>2, <3>1, FewerTombstones
  <2> QED BY <2>3, <2>4
<1>5. ASSUME NEW d \in Deleters, DeleterStep(d) \/ DeleterDies(d), dstage[d] \notin Locked PROVE UNCHANGED dir
  BY <1>5 DEF DeleterStep, DeleterDies, Bind, MarkPending, Announce, Clear, MarkComplete, Verify, CommitDeletion,
     Unmark, Locked
<1>6. ASSUME NEW b \in Builders, BuilderStep(b) \/ BuilderMishap(b) PROVE Tombstones' \subseteq Tombstones
  <2>1. UNCHANGED dir \/ Publish(b) \/ (bstage[b] = "published" /\ Clears(building[b]))
    BY <1>6 DEF BuilderStep, BuilderMishap, ArchiveFails, Reserve, BuildFails, Retract, HandOver, Finish, BuilderDies
  <2>2. UNCHANGED dir => Tombstones' \subseteq Tombstones
    BY DEF Tombstones, Existing
  <2> QED BY <1>2, <1>9, <2>1, <2>2
<1>7. CASE \E d \in Deleters : DeleterStep(d) \/ DeleterDies(d)
  BY <1>1, <1>4, <1>5, <1>7
<1>8. CASE \E b \in Builders : BuilderStep(b) \/ BuilderMishap(b)
  BY <1>6, <1>8
<1> QED
  BY <1>1, <1>3, <1>7, <1>8 DEF Next, Submit, RecoverInterrupted, Claim, ReadState, List, ReadNext, Hide, vars

\* Only with the lock free and a tombstone left does a deleter come to mark.
LEMMA NewMark ==
    ASSUME Typed, [Next]_vars, NEW d \in Deleters, dstage'[d] = "mark"
    PROVE  dstage[d] = "mark" \/ (lock = None /\ Cardinality(Tombstones) < MaxTombstones)
<1>1. CASE UNCHANGED dstage
  BY <1>1
<1>2. ASSUME NEW e \in Deleters, Bind(e)
      PROVE  dstage[d] = "mark" \/ (lock = None /\ Cardinality(Tombstones) < MaxTombstones)
  BY <1>2 DEF Bind, Delete, DeleterLeaves, Typed, TypeOK
<1>3. ASSUME NEW e \in Deleters, DeleterStep(e) \/ DeleterDies(e), ~Bind(e) PROVE dstage[d] = "mark"
  <2>1. UNCHANGED dstage \/ DeleterLeaves(e)
        \/ \E s \in {"announce", "clear", "finish", "verify", "commit", "unmark"} : Delete(e, s)
    BY <1>3 DEF DeleterStep, DeleterDies, MarkPending, Announce, Clear, MarkComplete, Verify, CommitDeletion,
       Unmark, deleterVars
  <2> QED BY <2>1 DEF DeleterLeaves, Delete, Typed, TypeOK
<1>4. ASSUME NEW e \in Deleters, NEW q \in Requests, ReadState(e, q) PROVE dstage[d] = "mark"
  BY <1>4 DEF ReadState, Typed, TypeOK
<1>5. ASSUME NEW b \in Builders, BuilderStep(b) \/ BuilderMishap(b) PROVE UNCHANGED dstage
  BY <1>5 DEF BuilderStep, BuilderMishap, ArchiveFails, Reserve, BuildFails, Publish, Retract, HandOver, Finish,
     BuilderDies, deleterVars
<1>6. CASE \E e \in Deleters : DeleterStep(e) \/ DeleterDies(e)
  BY <1>2, <1>3, <1>6
<1> QED
  BY <1>1, <1>4, <1>5, <1>6 DEF Next, Submit, RecoverInterrupted, Claim, Work, List, ReadNext, Hide, vars,
     deleterVars

\* Directories under deletion stay within their limit.
THEOREM TombstonesLimited == Spec => []TombstonesHold
<1> USE Limits
<1>1. Init => Marking /\ TombstonesHold
  <2> SUFFICES ASSUME Init PROVE Marking /\ TombstonesHold
    OBVIOUS
  <2>1. Tombstones = {}
    BY DEF Init, Tombstones, Existing
  <2>2. Cardinality(Tombstones) = 0
    BY <2>1, FS_EmptySet
  <2> QED BY <2>2 DEF Init, Marking, TombstonesHold
<1>2. Typed /\ Typed' /\ MarkersKept /\ Marking /\ TombstonesHold /\ [Next]_vars => Marking' /\ TombstonesHold'
  <2> SUFFICES ASSUME Typed, Typed', MarkersKept, Marking, TombstonesHold, [Next]_vars
               PROVE  Marking' /\ TombstonesHold'
    OBVIOUS
  <2>0. Tombstones \in SUBSET Requests /\ Tombstones' \in SUBSET Requests
    BY DEF Tombstones, Existing
  <2>1. CASE Tombstones' \subseteq Tombstones
    <3>1. Cardinality(Tombstones) \in Nat /\ Cardinality(Tombstones') \in Nat
          /\ Cardinality(Tombstones') <= Cardinality(Tombstones)
      BY <2>0, <2>1, CountAtMost
    <3>2. ASSUME NEW d \in Deleters, dstage'[d] = "mark" PROVE Cardinality(Tombstones) < MaxTombstones
      <4>1. dstage[d] = "mark" \/ Cardinality(Tombstones) < MaxTombstones
        BY <3>2, NewMark
      <4> QED BY <4>1 DEF Marking
    <3>3. Marking'
      BY <3>1, <3>2 DEF Marking
    <3>4. TombstonesHold'
      BY <3>1 DEF TombstonesHold
    <3> QED BY <3>3, <3>4
  <2>2. ASSUME NEW d \in Deleters, dstage[d] = "mark", dstage'[d] # "mark",
               Tombstones' \subseteq Tombstones \cup {deleting[d]}
        PROVE  Marking' /\ TombstonesHold'
    <3>1. PICK r \in Requests : r = deleting[d]
      BY <2>2 DEF Typed, Holders
    <3>2. Cardinality(Tombstones) \in Nat /\ Cardinality(Tombstones') \in Nat
          /\ Cardinality(Tombstones') <= Cardinality(Tombstones) + 1
      BY <2>0, <2>2, <3>1, CountOneMore
    <3>3. Cardinality(Tombstones) < MaxTombstones
      BY <2>2 DEF Marking
    <3>4. \A e \in Deleters : dstage'[e] # "mark"
      <4>1. ASSUME NEW e \in Deleters, dstage'[e] = "mark" PROVE FALSE
        <5>1. dstage[e] = "mark" \/ lock = None
          BY <4>1, NewMark
        <5>2. lock = d
          BY <2>2 DEF Typed, Holders, Locked
        <5>3. dstage[e] = "mark" => lock = e
          BY DEF Typed, Holders, Locked
        <5> QED BY <2>2, <4>1, <5>1, <5>2, <5>3, ProcessAssumption
      <4> QED BY <4>1
    <3> QED BY <3>2, <3>3, <3>4 DEF Marking, TombstonesHold
  <2> QED BY <2>1, <2>2, TombstonesGrow
<1> QED BY <1>1, <1>2, HoldersKnown, MarkersKnown, PTL DEF Spec

\* A step after which no other directory needs a place.
LEMMA FewerRetained ==
    ASSUME Typed, Typed', NEW r \in Requests, \A q \in Requests : q # r => dir'[q] = dir[q],
           Haunted \subseteq Haunted',
           \/ dir'[r] = dir[r]
           \/ r \in Haunted
           \/ dir[r] \in Dir /\ (dir[r].pending # None \/ dir[r].complete = None)
    PROVE  (Retained \ Haunted)' \subseteq Retained \ Haunted
<1>1. ASSUME NEW q \in (Retained \ Haunted)' PROVE q \in Retained \ Haunted
  <2>1. q \in Requests /\ dir'[q] # None /\ MarkerState(dir'[q]) # "complete" /\ q \notin Haunted
    BY <1>1 DEF Retained, Existing
  <2>2. CASE dir'[q] = dir[q]
    BY <2>1, <2>2 DEF Retained, Existing
  <2>3. CASE dir'[q] # dir[q]
    <3>1. q = r /\ dir[r] \in Dir /\ (dir[r].pending # None \/ dir[r].complete = None)
      BY <2>1, <2>3
    <3>2. MarkerState(dir[r]) # "complete"
      BY <3>1, MarkersCount
    <3> QED BY <2>1, <3>1, <3>2, NoneAssumption DEF Retained, Existing
  <2> QED BY <2>2, <2>3
<1> QED BY <1>1

LEMMA RetainedStays ==
    ASSUME Typed, Typed', BuildersLive, MarkersKept, [Next]_vars,
           \A b \in Builders : ~Publish(b)
    PROVE  (Retained \ Haunted)' \subseteq Retained \ Haunted
<1>0. Haunted \subseteq Haunted'
  <2> SUFFICES ASSUME NEW r \in Haunted PROVE r \in Haunted'
    OBVIOUS
  <2>1. r \in Requests /\ work[r] = "outlives" /\ Deleted(r)
    BY DEF Haunted, Deleted
  <2>2. \A b \in Builders : HandOver(b) => building[b] # r
    BY <2>1 DEF HandOver, BuildersLive
  <2>3. work'[r] = "outlives" /\ Deleted(r)'
    BY <2>1, <2>2, WorksStay, DeletedForGood DEF WorkStays
  <2> QED BY <2>1, <2>3 DEF Haunted, Deleted
<1>1. CASE UNCHANGED dir
  BY <1>0, <1>1 DEF Retained, Existing
<1>2. ASSUME NEW r \in Requests, Work(r) PROVE (Retained \ Haunted)' \subseteq Retained \ Haunted
  <2>1. /\ dir[r] \in Dir /\ \A q \in Requests : q # r => dir'[q] = dir[q]
        /\ work[r] \in {"runs", "outlives"}
    BY <1>2, Worked
  <2>2. r \in Haunted \/ ~Deleted(r)
    <3>1. work[r] = "runs" => state[r] = "executing"
      BY DEF BuildersLive
    <3> QED BY <2>1, <3>1 DEF MarkersKept, Kept, Deletable, Haunted, Deleted
  <2>3. r \in Haunted \/ dir[r].pending # None \/ dir[r].complete = None
    BY <2>1, <2>2 DEF MarkersKept, Kept
  <2> QED BY <1>0, <2>1, <2>3, FewerRetained
<1>8. ASSUME NEW b \in Builders, bstage[b] = "published", Clears(building[b])
      PROVE  (Retained \ Haunted)' \subseteq Retained \ Haunted
  <2>1. PICK r \in Requests : r = building[b] /\ dir[r] = Fresh
    BY <1>8 DEF Typed, Holders, MarkersKept, Handed
  <2>2. Fresh \in Dir /\ Fresh.complete = None
    BY DEF Fresh, Dir, Marker
  <2>3. \A q \in Requests : q # r => dir'[q] = dir[q]
    BY <1>8, <2>1, <2>2, Clearing
  <2> QED BY <1>0, <2>1, <2>2, <2>3, FewerRetained
<1>3. ASSUME NEW d \in Deleters, DeleterStep(d) \/ DeleterDies(d), dstage[d] \in Locked
      PROVE  (Retained \ Haunted)' \subseteq Retained \ Haunted
  <2>1. PICK r \in Requests : r = deleting[d] /\ dir[r] \in Dir
    BY <1>3 DEF Typed, Holders, Locked
  <2>2. \A q \in Requests : q # r => dir'[q] = dir[q]
    BY <1>3, <2>1, OthersStay
  <2>3. dir[r].pending # None \/ dir[r].complete = None
    BY <1>3, <2>1, ProcessAssumption DEF MarkersKept, Held, Locked
  <2> QED BY <1>0, <2>1, <2>2, <2>3, FewerRetained
<1>4. ASSUME NEW d \in Deleters, DeleterStep(d) \/ DeleterDies(d), dstage[d] \notin Locked PROVE UNCHANGED dir
  BY <1>4 DEF DeleterStep, DeleterDies, Bind, MarkPending, Announce, Clear, MarkComplete, Verify, CommitDeletion,
     Unmark, Locked
<1>5. ASSUME NEW b \in Builders, BuilderStep(b) \/ BuilderMishap(b)
      PROVE  UNCHANGED dir \/ (bstage[b] = "published" /\ Clears(building[b]))
  BY <1>5 DEF BuilderStep, BuilderMishap, ArchiveFails, Reserve, BuildFails, Retract, HandOver, Finish, BuilderDies
<1>6. CASE \E d \in Deleters : DeleterStep(d) \/ DeleterDies(d)
  BY <1>1, <1>3, <1>4, <1>6
<1>7. CASE \E b \in Builders : BuilderStep(b) \/ BuilderMishap(b)
  BY <1>1, <1>5, <1>7, <1>8
<1> QED
  BY <1>1, <1>2, <1>6, <1>7 DEF Next, Submit, RecoverInterrupted, Claim, ReadState, List, ReadNext, Hide, vars

\* Snapshots and staging directories stay within the retention limit, but for
\* deleted ones in which a process may write that has outlived its request.
THEOREM RetentionLimited == Spec => []RetentionHolds
<1> USE Limits
<1>1. Init => RetentionHolds
  <2> SUFFICES ASSUME Init PROVE RetentionHolds
    OBVIOUS
  <2>1. Retained \ Haunted = {}
    BY DEF Init, Retained, Existing
  <2>2. Cardinality(Retained \ Haunted) = 0
    BY <2>1, FS_EmptySet
  <2> QED BY <2>2 DEF Init, RetentionHolds
<1>2. Typed /\ Typed' /\ BuildersLive /\ MarkersKept /\ RetentionHolds /\ [Next]_vars => RetentionHolds'
  <2> SUFFICES ASSUME Typed, Typed', BuildersLive, MarkersKept, RetentionHolds, [Next]_vars
               PROVE  RetentionHolds'
    OBVIOUS
  <2> DEFINE R == Retained \ Haunted
             S == (Retained \ Haunted)'
  <2>1. /\ R \in SUBSET Requests /\ S \in SUBSET Requests /\ Retained \in SUBSET Requests
        /\ staging \in Nat /\ staging' \in Nat
    BY DEF Retained, Existing, Typed, TypeOK
  <2>2. Cardinality(R) + staging <= MaxRetained
    BY DEF RetentionHolds
  <2>3. SUFFICES Cardinality(S) + staging' <= MaxRetained
    BY DEF RetentionHolds
  <2>4. CASE \E b \in Builders : Publish(b)
    <3>1. PICK b \in Builders : Publish(b)
      BY <2>4
    <3>2. PICK r \in Requests : r = building[b]
      BY <3>1 DEF Publish, Typed, Holders
    <3>3. S \subseteq R \cup {r} /\ staging' = staging - 1
      BY <3>1, <3>2 DEF Publish, Retained, Existing, Haunted, Recorded, Typed, TypeOK
    <3>4. Cardinality(S) \in Nat /\ Cardinality(R) \in Nat /\ Cardinality(S) <= Cardinality(R) + 1
      BY <2>1, <3>3, CountOneMore
    <3> HIDE DEF R, S
    <3> QED BY <2>1, <2>2, <3>3, <3>4
  <2>5. CASE \A b \in Builders : ~Publish(b)
    <3>1. S \subseteq R
      BY <2>5, RetainedStays
    <3>2. Cardinality(S) \in Nat /\ Cardinality(R) \in Nat /\ Cardinality(S) <= Cardinality(R)
      BY <2>1, <3>1, CountAtMost
    <3>3. CASE staging' = staging
      <4> HIDE DEF R, S
      <4> QED BY <2>1, <2>2, <3>2, <3>3
    <3>4. CASE staging' # staging
      <4>1. HasSpace /\ staging' = staging + 1 /\ UNCHANGED <<dir, work, trail>>
        BY <2>5, <3>4 DEF Next, Submit, RecoverInterrupted, Claim, BuilderStep, BuilderMishap, ArchiveFails,
           Reserve, BuildFails, Retract, HandOver, Work, Finish, BuilderDies, ReadState, DeleterStep, Bind, MarkPending, Announce, Clear, MarkComplete,
           Verify, CommitDeletion, Unmark, DeleterDies, List, ReadNext, Hide, vars
      <4>2. S \subseteq Retained
        BY <3>1
      <4>3. Cardinality(S) <= Cardinality(Retained) /\ Cardinality(Retained) \in Nat
        BY <2>1, <4>2, CountAtMost
      <4>4. Cardinality(Retained) + staging < MaxRetained
        BY <4>1 DEF HasSpace
      <4> HIDE DEF R, S
      <4> QED BY <2>1, <3>2, <4>1, <4>3, <4>4
    <3> QED BY <3>3, <3>4
  <2> QED BY <2>4, <2>5
<1> QED BY <1>1, <1>2, HoldersKnown, StatesKnown, MarkersKnown, PTL DEF Spec
=============================================================================
