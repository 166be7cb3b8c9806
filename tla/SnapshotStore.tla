--------------------------- MODULE SnapshotStore ----------------------------
(***************************************************************************)
(* The managed snapshots of gitops.py and their deletion in service.py.    *)
(*                                                                         *)
(* An operator's approval builds one directory per request and works in it;*)
(* `snapshot delete` empties the directory of a terminal request and leaves*)
(* a completion marker.  Both change the snapshot directory only under the *)
(* flock on .retention.lock, but the approved work itself runs without it, *)
(* in processes that may outlive the command that started them.            *)
(* Request states follow RequestLifecycle: this module composes the store  *)
(* of snapshots with that specification.                                   *)
(***************************************************************************)
EXTENDS Integers, Sequences, FiniteSets

CONSTANTS
    Requests,
    Builders,           \* processes running `request approve`
    Deleters,           \* processes running `snapshot delete`
    Listers,            \* processes running `snapshot list`
    MaxRetained,        \* _MAX_RETAINED_SNAPSHOTS
    MaxTombstones,      \* _MAX_SNAPSHOT_TOMBSTONES
    MaxInterrupts,      \* bound: demands per request whose deleter was interrupted
    None

ASSUME LimitAssumption ==
    /\ MaxRetained \in Nat \ {0} /\ MaxTombstones \in Nat \ {0} /\ MaxInterrupts \in Nat
    /\ IsFiniteSet(Requests)
ASSUME ProcessAssumption ==
    None \notin Requests \cup Builders \cup Deleters /\ Builders \cap Deleters = {}

VARIABLES
    state, log,         \* the request rows and their receipts (RequestLifecycle)
    dir,                \* the directory of each request, None when there is none
    staging,            \* number of .creating-* directories
    trail,              \* snapshot receipts of each request, oldest first
    lock,               \* holder of the flock, or None
    bstage, building,   \* where each builder is, and its request
    dstage, deleting,   \* where each deleter is, and its request
    listed, reads,      \* the request a lister looks at, and what it has read
    work                \* the approved work of each request, in its snapshot

requestVars == <<state, log>>
builderVars == <<bstage, building>>
deleterVars == <<dstage, deleting>>
listerVars == <<listed, reads>>
vars == <<requestVars, dir, staging, trail, lock, builderVars, deleterVars, listerVars, work>>

Lifecycle == INSTANCE RequestLifecycle WITH Requests <- Requests, state <- state, log <- log

----------------------------------------------------------------------------
(* Directories and their markers.  A marker is torn when the process died   *)
(* between creating the file and writing it; its attempt is the deleter's.  *)

Marker == Deleters \cup {None, "torn"}

Dir == [payload : {"whole", "cut", "empty"}, pending : Marker, complete : Marker]

ASSUME NoneAssumption == None \notin Dir /\ None # "torn"

Fresh == [payload |-> "whole", pending |-> None, complete |-> None]

Valid(m) == m \notin {None, "torn"}

\* snapshot_deletion_marker_state: what the names and markers amount to.
MarkerState(d) ==
    IF Valid(d.complete)
    THEN IF d.payload = "empty" /\ d.pending = None THEN "complete"
         ELSE IF d.payload = "empty" /\ d.pending = d.complete THEN "committing"
         ELSE "incomplete"
    ELSE IF Valid(d.pending) THEN "pending"
    ELSE IF d.pending # None \/ d.complete # None THEN "invalid"
    ELSE "unmarked"

Existing == {r \in Requests : dir[r] # None}

\* The processes that apply a patch or run a check have a session of their own.
\* They run while the request executes, and outlive it when it ends before they
\* do.  Whether such a process ever ends makes no difference: it need not write.
Works == {"none", "runs", "over", "outlives"}

\* Directories that count against the retention limit, and those that count
\* against the limit on deletion markers.
Retained   == {r \in Existing : MarkerState(dir[r]) # "complete"}
Tombstones == {r \in Existing : MarkerState(dir[r]) # "unmarked"}

BuilderStages == {"idle", "reserve", "build", "published", "work", "failed"}

DeleterStages == {"idle", "bind", "mark", "announce", "clear", "finish",
                  "verify", "commit", "unmark"}

TypeOK ==
    /\ state \in [Requests -> Lifecycle!States]
    /\ DOMAIN log = Requests
    /\ dir \in [Requests -> Dir \cup {None}]
    /\ staging \in 0..MaxRetained
    /\ trail \in [Requests -> Seq({"snapshot.deletion_requested", "snapshot.deleted"})]
    /\ lock \in Builders \cup Deleters \cup {None}
    /\ bstage \in [Builders -> BuilderStages]
    /\ building \in [Builders -> Requests \cup {None}]
    /\ dstage \in [Deleters -> DeleterStages]
    /\ deleting \in [Deleters -> Requests \cup {None}]
    /\ listed \in [Listers -> Requests \cup {None}]
    /\ reads \in [Listers -> Seq({"sole", "more"} \cup Deleters \cup {None})]
    /\ work \in [Requests -> Works]

Init ==
    /\ Lifecycle!Init
    /\ dir = [r \in Requests |-> None]
    /\ staging = 0
    /\ trail = [r \in Requests |-> <<>>]
    /\ lock = None
    /\ bstage = [b \in Builders |-> "idle"]
    /\ building = [b \in Builders |-> None]
    /\ dstage = [d \in Deleters |-> "idle"]
    /\ deleting = [d \in Deleters |-> None]
    /\ listed = [l \in Listers |-> None]
    /\ reads = [l \in Listers |-> <<>>]
    /\ work = [r \in Requests |-> "none"]

----------------------------------------------------------------------------
(* The store of requests.                                                   *)

Submit(r) ==
    /\ Lifecycle!Record(r)
    /\ UNCHANGED <<dir, staging, trail, lock, builderVars, deleterVars, listerVars, work>>

\* recover_interrupted marks every executing request, whatever still works for it.
RecoverInterrupted ==
    /\ Lifecycle!Sweep({}, {r \in Requests : state[r] = "executing"})
    /\ work' = [r \in Requests |-> IF work[r] = "runs" THEN "outlives" ELSE work[r]]
    /\ UNCHANGED <<dir, staging, trail, lock, builderVars, deleterVars, listerVars>>

----------------------------------------------------------------------------
(* Builders: approve from its claim on, with managed_worktree.              *)

Build(b, stage) == bstage' = [bstage EXCEPT ![b] = stage] /\ UNCHANGED building

BuilderLeaves(b) ==
    /\ bstage' = [bstage EXCEPT ![b] = "idle"]
    /\ building' = [building EXCEPT ![b] = None]

Claim(b, r) ==
    /\ bstage[b] = "idle"
    /\ Lifecycle!Claim(r)
    /\ bstage' = [bstage EXCEPT ![b] = "reserve"]
    /\ building' = [building EXCEPT ![b] = r]
    /\ UNCHANGED <<dir, staging, trail, lock, deleterVars, listerVars, work>>

\* The archive is streamed before any directory or lock is taken.
ArchiveFails(b) ==
    /\ bstage[b] = "reserve"
    /\ Build(b, "failed")
    /\ UNCHANGED <<requestVars, dir, staging, trail, lock, deleterVars, listerVars, work>>

\* Slip: the limit on retained snapshots is off by one.
SpaceInclusive == Cardinality(Retained) + staging <= MaxRetained

\* Slip: directories under deletion do not count as retained.
SpaceBesidesTombstones == Cardinality(Existing \ Tombstones) + staging < MaxRetained

HasSpace == Cardinality(Retained) + staging < MaxRetained

\* Slip: a builder waits until there is room for its snapshot.
ReserveWhenRoom(b) ==
    /\ bstage[b] = "reserve"
    /\ lock = None
    /\ dir[building[b]] = None /\ HasSpace
    /\ lock' = b /\ staging' = staging + 1 /\ Build(b, "build")
    /\ UNCHANGED <<requestVars, dir, trail, deleterVars, listerVars, work>>

\* _reserve_snapshot_directory: with the lock, one more staging directory.
Reserve(b) ==
    /\ bstage[b] = "reserve"
    /\ lock = None
    /\ IF dir[building[b]] = None /\ HasSpace
       THEN lock' = b /\ staging' = staging + 1 /\ Build(b, "build")
       ELSE UNCHANGED <<lock, staging>> /\ Build(b, "failed")
    /\ UNCHANGED <<requestVars, dir, trail, deleterVars, listerVars, work>>

\* Extraction or Git fails: the staging directory is emptied, never removed.
BuildFails(b) ==
    /\ bstage[b] = "build"
    /\ lock' = None
    /\ Build(b, "failed")
    /\ UNCHANGED <<requestVars, dir, staging, trail, deleterVars, listerVars, work>>

\* The exclusive rename of the staging directory; the lock is still held.
Publish(b) ==
    /\ bstage[b] = "build"
    /\ dir[building[b]] = None
    /\ dir' = [dir EXCEPT ![building[b]] = Fresh]
    /\ staging' = staging - 1
    /\ Build(b, "published")
    /\ UNCHANGED <<requestVars, trail, lock, deleterVars, listerVars, work>>

\* _clear_bound_snapshot_directory, best effort: any part may be left.
Clears(r) == \E left \in {"whole", "cut", "empty"} : dir' = [dir EXCEPT ![r].payload = left]

\* The name does not match, or an interrupt comes after the rename: what is
\* already published is cleared and keeps its name.
Retract(b) ==
    /\ bstage[b] = "published"
    /\ Clears(building[b])
    /\ lock' = None
    /\ Build(b, "failed")
    /\ UNCHANGED <<requestVars, staging, trail, deleterVars, listerVars, work>>

\* managed_worktree returns; recovery may have taken the request meanwhile.
HandOver(b) ==
    /\ bstage[b] = "published"
    /\ lock' = None
    /\ Build(b, "work")
    /\ work' = [work EXCEPT ![building[b]] =
                   IF state[building[b]] = "executing" THEN "runs" ELSE "outlives"]
    /\ UNCHANGED <<requestVars, dir, staging, trail, deleterVars, listerVars>>

\* A process of the work writes, without any lock, in a snapshot that was emptied.
Work(r) ==
    /\ work[r] \in {"runs", "outlives"}
    /\ dir[r].payload = "empty"
    /\ dir' = [dir EXCEPT ![r].payload = "cut"]
    /\ UNCHANGED <<requestVars, staging, trail, lock, builderVars, deleterVars, listerVars, work>>

\* The command ends, and with it the work, or all but a process of it that is left.
WorkEnds(r, left) ==
    \/ work[r] = "runs" /\ \E w \in {left, "over"} : work' = [work EXCEPT ![r] = w]
    \/ work[r] # "runs" /\ UNCHANGED work

\* The final transaction, refused if the request is no longer executing.  A
\* process the check has forked and detached may be left.
Finish(b) ==
    /\ bstage[b] \in {"work", "failed"}
    /\ IF state[building[b]] = "executing"
       THEN \E e \in IF bstage[b] = "work" THEN Lifecycle!Endings ELSE {"request.failed"} :
               Lifecycle!End(building[b], e)
       ELSE UNCHANGED requestVars
    /\ WorkEnds(building[b], "outlives")
    /\ BuilderLeaves(b)
    /\ UNCHANGED <<dir, staging, trail, lock, deleterVars, listerVars>>

\* A dead process loses its lock, and leaves its directories as they are.
Unlock(p) == lock' = IF lock = p THEN None ELSE lock

\* A builder dies, possibly while it clears what it had published.  The check of a
\* dead builder runs on in its own session.
BuilderDies(b) ==
    /\ bstage[b] # "idle"
    /\ UNCHANGED dir \/ (bstage[b] = "published" /\ Clears(building[b]))
    /\ WorkEnds(building[b], "runs")
    /\ Unlock(b)
    /\ BuilderLeaves(b)
    /\ UNCHANGED <<requestVars, staging, trail, deleterVars, listerVars>>

----------------------------------------------------------------------------
(* Deleters: delete_snapshot, with the exact-identifier confirmation.       *)

Delete(d, stage) == dstage' = [dstage EXCEPT ![d] = stage] /\ UNCHANGED deleting

\* Every way out releases the lock; what is on disk stays.
DeleterLeaves(d) ==
    /\ dstage' = [dstage EXCEPT ![d] = "idle"]
    /\ deleting' = [deleting EXCEPT ![d] = None]
    /\ Unlock(d)

Mark(d, field, value) == dir' = [dir EXCEPT ![deleting[d]][field] = value]

\* Slip: a snapshot can be deleted in whatever state its request is.
ReadAnyState(d, r) ==
    /\ dstage[d] = "idle"
    /\ dstage' = [dstage EXCEPT ![d] = "bind"]
    /\ deleting' = [deleting EXCEPT ![d] = r]
    /\ UNCHANGED <<requestVars, dir, staging, trail, lock, builderVars, listerVars, work>>

\* The request's state is read before the lock is taken.
ReadState(d, r) ==
    /\ dstage[d] = "idle"
    /\ state[r] \in {"succeeded", "failed", "uncertain"}
    /\ dstage' = [dstage EXCEPT ![d] = "bind"]
    /\ deleting' = [deleting EXCEPT ![d] = r]
    /\ UNCHANGED <<requestVars, dir, staging, trail, lock, builderVars, listerVars, work>>

\* Slip: a new attempt takes up the deletion an earlier one has begun.
BindAgain(d) ==
    LET r == deleting[d] IN
    /\ dstage[d] = "bind"
    /\ lock = None
    /\ IF dir[r] # None /\ Cardinality(Tombstones \ {r}) < MaxTombstones
       THEN lock' = d /\ Delete(d, "mark")
       ELSE DeleterLeaves(d)
    /\ UNCHANGED <<requestVars, dir, staging, trail, builderVars, listerVars, work>>

\* Slip: the limit on deletion markers is off by one.
BindInclusive(d) ==
    LET r == deleting[d] IN
    /\ dstage[d] = "bind"
    /\ lock = None
    /\ IF /\ dir[r] # None
          /\ Cardinality(Tombstones) <= MaxTombstones
          /\ dir[r].pending = None /\ dir[r].complete = None
       THEN lock' = d /\ Delete(d, "mark")
       ELSE DeleterLeaves(d)
    /\ UNCHANGED <<requestVars, dir, staging, trail, builderVars, listerVars, work>>

\* With the lock: the target exists, a tombstone is left to use, and the target
\* has no marker at all, not even a malformed one.
Bind(d) ==
    LET r == deleting[d] IN
    /\ dstage[d] = "bind"
    /\ lock = None
    /\ IF /\ dir[r] # None
          /\ Cardinality(Tombstones) < MaxTombstones
          /\ dir[r].pending = None /\ dir[r].complete = None
       THEN lock' = d /\ Delete(d, "mark")
       ELSE DeleterLeaves(d)
    /\ UNCHANGED <<requestVars, dir, staging, trail, builderVars, listerVars, work>>

\* _write_snapshot_marker creates the file exclusively; a failed write unlinks
\* it as far as possible, which can leave it with or without its contents.
Write(d, field) == dir[deleting[d]][field] = None /\ Mark(d, field, d)

WriteFails(d, field) ==
    \/ UNCHANGED dir
    \/ dir[deleting[d]][field] = None /\ \E m \in {"torn", d} : Mark(d, field, m)

MarkPending(d) ==
    /\ dstage[d] = "mark"
    /\ \/ Write(d, "pending") /\ Delete(d, "announce") /\ UNCHANGED lock
       \/ WriteFails(d, "pending") /\ DeleterLeaves(d)
    /\ UNCHANGED <<requestVars, staging, trail, builderVars, listerVars, work>>

Demand(d) == trail' = [trail EXCEPT ![deleting[d]] = Append(@, "snapshot.deletion_requested")]

\* Slip: the deletion goes on when its receipt cannot be written.
AnnounceIfPossible(d) ==
    /\ dstage[d] = "announce"
    /\ Demand(d) \/ UNCHANGED trail
    /\ Delete(d, "clear")
    /\ UNCHANGED <<requestVars, dir, staging, lock, builderVars, listerVars, work>>

\* The receipt snapshot.deletion_requested.  If it cannot be written, or if an
\* interrupt comes right after it, the pending marker is removed, as far as
\* possible.  Bound: MaxInterrupts such interrupts per request.
Announce(d) ==
    /\ dstage[d] = "announce"
    /\ \/ Demand(d) /\ Delete(d, "clear") /\ UNCHANGED <<dir, lock>>
       \/ /\ UNCHANGED trail \/ (Len(trail[deleting[d]]) < MaxInterrupts /\ Demand(d))
          /\ Mark(d, "pending", None) \/ UNCHANGED dir
          /\ DeleterLeaves(d)
    /\ UNCHANGED <<requestVars, staging, builderVars, listerVars, work>>

\* _clear_bound_snapshot removes entries one after the other, keeping only the
\* pending marker, and may fail half way.
Clear(d) ==
    /\ dstage[d] = "clear"
    /\ \/ dir[deleting[d]].payload = "whole" /\ Mark(d, "payload", "cut")
          /\ UNCHANGED <<lock, deleterVars>>
       \/ Mark(d, "payload", "empty") /\ Delete(d, "finish") /\ UNCHANGED lock
       \/ UNCHANGED dir /\ DeleterLeaves(d)
    /\ UNCHANGED <<requestVars, staging, trail, builderVars, listerVars, work>>

\* The pending marker must still be this attempt's; then the completion marker.
MarkComplete(d) ==
    LET entry == dir[deleting[d]] IN
    /\ dstage[d] = "finish"
    /\ \/ /\ MarkerState(entry) = "pending" /\ entry.pending = d
          /\ Write(d, "complete")
          /\ Delete(d, "verify")
          /\ UNCHANGED lock
       \/ WriteFails(d, "complete") /\ DeleterLeaves(d)
    /\ UNCHANGED <<requestVars, staging, trail, builderVars, listerVars, work>>

\* Inside the transaction of snapshot.deleted: nothing but this attempt's two
\* markers may be left, otherwise the transaction rolls back.
Verify(d) ==
    LET entry == dir[deleting[d]] IN
    /\ dstage[d] = "verify"
    /\ IF MarkerState(entry) = "committing" /\ entry.complete = d
       THEN Delete(d, "commit") /\ UNCHANGED lock
       ELSE DeleterLeaves(d)
    /\ UNCHANGED <<requestVars, dir, staging, trail, builderVars, listerVars, work>>

\* Slip: the pending marker goes before the transaction has committed.
CommitUnmarked(d) ==
    /\ dstage[d] = "commit"
    /\ Mark(d, "pending", None)
    /\ \/ /\ trail' = [trail EXCEPT ![deleting[d]] = Append(@, "snapshot.deleted")]
          /\ Delete(d, "unmark")
          /\ UNCHANGED lock
       \/ UNCHANGED trail /\ DeleterLeaves(d)
    /\ UNCHANGED <<requestVars, staging, builderVars, listerVars, work>>

CommitDeletion(d) ==
    /\ dstage[d] = "commit"
    /\ \/ /\ trail' = [trail EXCEPT ![deleting[d]] = Append(@, "snapshot.deleted")]
          /\ Delete(d, "unmark")
          /\ UNCHANGED lock
       \/ UNCHANGED trail /\ DeleterLeaves(d)
    /\ UNCHANGED <<requestVars, dir, staging, builderVars, listerVars, work>>

\* The pending marker is removed, as far as possible.
Unmark(d) ==
    /\ dstage[d] = "unmark"
    /\ Mark(d, "pending", None) \/ UNCHANGED dir
    /\ DeleterLeaves(d)
    /\ UNCHANGED <<requestVars, staging, trail, builderVars, listerVars, work>>

\* A deleter dies; the marker it was writing may be left torn.
DeleterDies(d) ==
    /\ dstage[d] # "idle"
    /\ \/ UNCHANGED dir
       \/ dstage[d] = "mark" /\ WriteFails(d, "pending")
       \/ dstage[d] = "finish" /\ WriteFails(d, "complete")
    /\ DeleterLeaves(d)
    /\ UNCHANGED <<requestVars, staging, trail, builderVars, listerVars, work>>

----------------------------------------------------------------------------
(* Listers: list_snapshots, which reads markers without any lock.           *)

ReadOrder == <<"names", "pending", "complete", "names", "pending", "complete">>

\* Of the names in a directory it only matters whether the completion marker is
\* the sole one; _read_bound_snapshot_marker makes nothing of a torn marker.
Look(d, what) ==
    IF what = "names"
    THEN IF d.payload = "empty" /\ d.pending = None /\ d.complete # None THEN "sole" ELSE "more"
    ELSE IF Valid(d[what]) THEN d[what] ELSE None

\* Slip: the markers alone decide.
MayHideByMarkers(seen) ==
    /\ Len(seen) >= 3 => seen[3] # None
    /\ \A i \in DOMAIN seen : i \in {5, 6} => seen[i] = seen[i - 3]

\* After these reads the verdict may still be "complete": the completion marker is
\* alone and valid, and what is read twice agrees.
MayHide(seen) ==
    /\ seen[1] = "sole"
    /\ Len(seen) >= 3 => seen[3] # None
    /\ \A i \in DOMAIN seen : i > 3 => seen[i] = seen[i - 3]

List(l, r) ==
    /\ listed[l] = None /\ dir[r] # None
    /\ listed' = [listed EXCEPT ![l] = r]
    /\ UNCHANGED <<requestVars, dir, staging, trail, lock, builderVars, deleterVars, reads, work>>

ListerLeaves(l) ==
    /\ listed' = [listed EXCEPT ![l] = None]
    /\ reads' = [reads EXCEPT ![l] = <<>>]

Hides(l) == Len(reads[l]) = Len(ReadOrder)

\* The next read; the entry is shown as soon as it cannot be hidden any more.
ReadNext(l) ==
    LET seen == Append(reads[l], Look(dir[listed[l]], ReadOrder[Len(reads[l]) + 1])) IN
    /\ listed[l] # None /\ ~Hides(l)
    /\ IF MayHide(seen) THEN reads' = [reads EXCEPT ![l] = seen] /\ UNCHANGED listed
       ELSE ListerLeaves(l)
    /\ UNCHANGED <<requestVars, dir, staging, trail, lock, builderVars, deleterVars, work>>

\* The entry is hidden; on to the next.
Hide(l) ==
    /\ Hides(l)
    /\ ListerLeaves(l)
    /\ UNCHANGED <<requestVars, dir, staging, trail, lock, builderVars, deleterVars, work>>

----------------------------------------------------------------------------

BuilderStep(b) == Reserve(b) \/ Publish(b) \/ HandOver(b) \/ Finish(b)

\* What no builder owes.
BuilderMishap(b) == ArchiveFails(b) \/ BuildFails(b) \/ Retract(b) \/ BuilderDies(b)

DeleterStep(d) ==
    \/ Bind(d) \/ MarkPending(d) \/ Announce(d) \/ Clear(d)
    \/ MarkComplete(d) \/ Verify(d) \/ CommitDeletion(d) \/ Unmark(d)

Next ==
    \/ \E r \in Requests : Submit(r) \/ Work(r)
    \/ RecoverInterrupted
    \/ \E b \in Builders :
          \/ \E r \in Requests : Claim(b, r)
          \/ BuilderStep(b)
          \/ BuilderMishap(b)
    \/ \E d \in Deleters :
          \/ \E r \in Requests : ReadState(d, r)
          \/ DeleterStep(d)
          \/ DeleterDies(d)
    \/ \E l \in Listers :
          \/ \E r \in Requests : List(l, r)
          \/ ReadNext(l)
          \/ Hide(l)

Spec == Init /\ [][Next]_vars

Fairness ==
    /\ \A b \in Builders : WF_vars(BuilderStep(b)) /\ SF_vars(Reserve(b))
    /\ \A d \in Deleters : WF_vars(DeleterStep(d)) /\ SF_vars(Bind(d))

FairSpec == Spec /\ Fairness

----------------------------------------------------------------------------
(* Properties.                                                              *)

Recorded(r, event) == \E i \in DOMAIN trail[r] : trail[r][i] = event

\* Deleted snapshots in which a process may write that has outlived its request.
Haunted == {r \in Requests : work[r] = "outlives" /\ Recorded(r, "snapshot.deleted")}

\* Published snapshots and abandoned staging directories never exceed the
\* retention limit together, whatever builders and deleters race or die.  The
\* exception is a place freed by a deletion and taken again by a process that has
\* outlived its request: it can refill the deleted directory.
RetentionHolds == Cardinality(Retained \ Haunted) + staging <= MaxRetained

\* Directories with deletion state stay within their limit: deleters count them
\* and add their own under one lock, and a dead one never leaves a second.
TombstonesHold == Cardinality(Tombstones) <= MaxTombstones

\* A snapshot disappears from `snapshot list` only when the receipt of its
\* deletion is committed, wherever the deleter failed or died.
HiddenMeansDeleted ==
    \A r \in Existing : MarkerState(dir[r]) = "complete" => Recorded(r, "snapshot.deleted")

\* A listing that runs while builders and deleters change what it reads never hides
\* a snapshot whose deletion is not committed.
ListingHidesDeleted ==
    \A l \in Listers : Hides(l) => Recorded(listed[l], "snapshot.deleted")

\* A snapshot whose deletion is on record holds nothing any more, unless a process
\* of its work has outlived the request: by recovery, a kill or a detached child.
DeletedMeansGone ==
    \A r \in Existing :
       Recorded(r, "snapshot.deleted") /\ work[r] # "outlives" => dir[r].payload = "empty"

\* Of a snapshot that was handed to its work nothing is removed before the demand to
\* delete it is on record.  (One that failed after its publication is cleared without.)
DeletionIsAnnounced ==
    \A r \in Existing :
       work[r] # "none" /\ dir[r].payload # "whole" => Recorded(r, "snapshot.deletion_requested")

\* Racing deleters, and deleters coming after one that died or was interrupted,
\* record a deletion once: it follows a demand, and nothing follows it.
DeletedOnce ==
    \A r \in Requests : \A i \in DOMAIN trail[r] :
       trail[r][i] = "snapshot.deleted" => i = Len(trail[r]) /\ i > 1

\* No builder and no deleter stays in its command, waiting for the lock or for
\* one another, whoever is refused or dies with the lock.
CommandsEnd ==
    /\ \A b \in Builders : bstage[b] # "idle" ~> bstage[b] = "idle"
    /\ \A d \in Deleters : dstage[d] # "idle" ~> dstage[d] = "idle"
=============================================================================
