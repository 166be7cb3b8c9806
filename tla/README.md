# Local Hands: a TLA+ verification project

Local Hands lets a remote client (over MCP) read a registered Git checkout,
propose patches and ask for checks, while every effect needs the approval of a
local operator at the command line.  This directory holds TLA+ models of the code
in `src/src/hermes_local_hands`, TLC configurations that check them on small
instances, and TLAPS proofs of the properties that matter most.  File names below
without a path are in that directory.

## 1. The system

| Component | State it keeps | Operations | Hard behaviour |
|---|---|---|---|
| Request store (`storage.py`) | SQLite tables: clients, workspaces, grants, requests, receipts, metadata | transactions taken with BEGIN IMMEDIATE | shared by several processes; rollback; quotas at a limit |
| Approval boundary (`service.py`) | none between calls: the state is the store and the stage of each handler | propose_patch, request_test, reject, approve, recover_interrupted, client and workspace administration, status views | checks made before a transaction are stale in it; crash during execution; recovery racing a live execution; retries |
| Managed snapshots (`gitops.py`, `service.py`) | `snapshots/<request>`, `.creating-*`, two marker files per directory, `.retention.lock` | managed_worktree, list_snapshots, delete_snapshot | several steps on disk, a failure or death at each; limits; the lock |
| Child processes (`gitops.py`) | child process, captured bytes, deadline | run_profile, _bounded_capture, _stream_archive | timeout, output limit, exit and a descendant that keeps the pipe race; kills are refused |
| Git observation (`gitops.py`) | the user's checkout | sanitized_status, head, check_patch_applies | several Git commands, no common moment |
| Receipt ledger (`receipts.py`, `storage.py`) | hash chain and pinned fingerprint in SQLite, signing-key file | append, verify, load_or_create, pin | receipt and transition in one transaction; two processes create the key; the file is torn, lost or exchanged |
| Credentials (`cli.py`) | `clients/<id>.token` beside the clients table | init, client add, client revoke | two stores, no common transaction; compensation by name |
| Patch parser (`gitops.py`) | position, path and counts within one call | validate_patch | what a line means depends on the counts before it |
| Path policy (`paths.py`) | none | path normalisation, descriptor-relative reads | boundary cases |
| MCP transport, authentication (`mcp_server.py`, `auth.py`) | the authenticated client of a call | tool calls | input validation |
| `doctor.py`, `demo.py`, `hermes_config.py`, `__main__.py` | none of interest | reports, rendering | pure I/O |

The MCP server runs its synchronous handlers one at a time in one event loop.
Every CLI command is another operating-system process.  They share the SQLite
file, where a transaction takes the write lock before it reads, and the snapshot
directory, where an advisory lock serialises reservation and deletion.  Between
two transactions, or two reads, of one handler every other process may run, the
clock advances, and the user works in the checkout.

## 2. Modules

| Module | Content |
|---|---|
| `RequestLifecycle` | abstract specification: what the store promises of a request and of the receipts that name it |
| `RequestLifecycleProofs` | its consequences, proved |
| `LocalHands` | the approval boundary over the store: proposers, operators, administration, environment |
| `LocalHandsProofs` | type correctness, refinement of `RequestLifecycle`, and the safety properties, proved |
| `SnapshotStore` | snapshots and their deletion, with request states taken from `RequestLifecycle` |
| `SnapshotStoreProofs` | type correctness and every safety property of the snapshot store, proved |
| `ReceiptLedger` | abstract specification of the ledger: the key file, the pin, the receipts, and processes that open it |
| `ReceiptLedgerProofs` | its properties, proved |
| `Installation` | the commands that add and revoke clients: ledger, clients table and credential files |
| `InstallationProofs` | the properties of the ledger carried over, and the safety properties of its own, proved |
| `ChildProcess` | one child, a descendant, their pipes, and the reader in `gitops.py` |
| `ChildProcessProofs` | type correctness and the safety properties, proved |
| `PatchGrammar` | what a patch is: a grammar that looks at the whole text |
| `PatchGrammarProofs` | that the grammar is unambiguous and closed under beginnings, proved |
| `PatchParser` | validate_patch, line by line |
| `PatchParserProofs` | type correctness, agreement with the grammar, and progress, proved |
| `MCLocalHands`, `MCSnapshotStore`, `MCPatchParser` | values and symmetry for TLC; `ProposalsSpec`, the proposers of `LocalHands` alone |

`LocalHands` and `SnapshotStore` both name `Lifecycle == INSTANCE RequestLifecycle`.
The first is shown to implement it, so the second may use its actions in place of
the whole approval boundary.  `Installation` does the same with
`Ledger == INSTANCE ReceiptLedger`: every command opens the ledger and appends to
it with the actions of that module.  `ChildProcess`
is what the stages `run` and `worktree` of `LocalHands` and the stage `build` of
`SnapshotStore` rest on: there a run, a Git command or an archive is one step with
a choice of outcomes, here it is shown what an outcome means.  `PatchParser` stands
in front of `Submit`: a proposal that it refuses never reaches the store.

### LocalHands and the code

* One transaction is one action, whose effects are those of everything called
  inside it: the state and the receipt move together (`Transition`), and
  `ExpireDue` is the first transaction of every request handler.  The clock is
  read inside that transaction, as `_expire_due` does.
* A handler is a sequence of stages.  A proposer goes through `policy`, `clean`,
  `head`, `stamp`, `insert`; an operator through `policy`, `clean`, `head`,
  `stamp`, `claim`, and then `worktree`, `run`, the two observations and `record`.
  Status is read in two steps because `sanitized_status` runs separate Git
  commands; `started_at` and `created` have steps of their own because they are
  read outside the transaction that uses them.
* `Row` has the immutable columns of a request row.  The payload of a patch is
  left out except for what a check links to; the confirmation code is always the
  right one, since a wrong one changes nothing; a retry whose content differs
  (a conflict) and one whose content agrees both leave the store alone.
* Patch applicability, archive building and the run of a check are choices of
  their outcomes: succeed, fail, or (for a check) be uncertain.
* `Crash` and `Abandon` cover kills, interrupts, exceptions without a handler
  and transactions that roll back: the command ends, what is committed stays.
* A policy is its hash; `Permits` says which contents allow patches or the check.

### SnapshotStore and the code

* A directory is a payload (`whole`, `cut`: any part of it, `empty`) and two
  markers.  A marker is absent, valid with the attempt that wrote it, or torn.
  `MarkerState` is the classification of `snapshot_deletion_marker_state`, as one
  atomic observation.
* Builders and deleters move one file-system step or one receipt at a time, hold
  the lock as the code does, and may fail or die at each step.  A dead process
  loses its lock because the kernel closes its descriptors.
* A lister is `list_snapshots` at one directory.  It takes no lock, so the six reads
  of `snapshot_deletion_marker_state` (names, pending, complete, twice) are a step
  each, against a directory that changes between them.  An entry is shown as soon as
  what was read rules out the verdict "complete"; `Hides` is the state in which all
  six reads allow it.  What `MarkerState` says of a directory in one observation is
  what the holders of the lock see.
* Publication is a stage of its own.  `Publish` is the exclusive rename, under the
  lock; then `HandOver` releases the lock and starts the work, or `Retract`, a name
  that does not match or an interrupt, clears what is already published and leaves
  it under its name.  No receipt tells of that clearing, so `DeletionIsAnnounced`
  is about snapshots that were handed to their work.
* The work, `apply_patch` and the check of `run_profile`, is a process of its own
  session, which writes in the snapshot without the lock.  `work` says what became of
  it for each request: none yet, it runs while the request executes, it is over, or it
  outlives the execution.  That happens when `request approve` is killed and recovery
  ends the request, when recovery takes the request from a live command, and when the
  check ends but has detached a descendant.  Such a process may refill a directory
  whose deletion is on record.  `RetentionHolds` and `DeletedMeansGone` say which
  requests those are, and promise nothing of them.
* The transaction around `snapshot.deleted` is two steps, since a builder needs no
  database to write in its snapshot between the verification and the commit.
  Other processes' transactions are allowed there too, which is more than SQLite
  allows and weakens nothing that is checked.

### ReceiptLedger, Installation and the code

* The key file is absent, torn (created and not, or not wholly, written) or has a
  key.  `load_or_create` is the stages `opening`, `absent`, `create`, `write`,
  `loaded` and `pin`; `audit` is the rest of `ReceiptLedger.__init__`.  The repeated
  checks and the second pin of the constructor are in `PinKey` and `Audit`: the pin
  is never changed once it is there, so doing them again says nothing new.
* `Init` has the new state directory, and the ledger of an older version: one
  receipt, no pin, and a key file that may be another one or missing.  One receipt
  is enough, since all receipts of such a ledger are verified under the same key.
* A signature is the name of the key that made it.  Generating a key is a choice in
  `Keys`, so two processes may draw one; nothing relies on their being different.
* `Tamper` (the file is lost or exchanged, once) and `DiscardTorn` (the operator
  clears away a torn file while no command is about to read or create it) are the
  environment.  Without `DiscardTorn` a torn file would end every later command with
  an error, as it does in the code.
* In `Installation` one transaction is one step: row and receipt together.  The
  credential file is created, filled and removed in steps of its own, and each of
  them may fail, which leads to the compensation, or be the last one of a process
  that dies.  The compensation revokes by name.  A credential is named by the number
  of the receipt of its creation, so that a file tells which registration it is for.
* `forsaken` and `contended` are history about registrations, not clients: those whose
  process died before their credential was saved, and those made while an earlier
  revocation of the name had still to remove the file.  `RegisteredHasCredential`
  leaves out these two and no other: a failure with its compensation, or two commands
  about one client, in whatever order, leave a registered client with the credential
  of just that registration.  A file left by a dead command blocks the name for
  `client add`, which then takes its registration back.
* The compensation may strike out a registration that another command has made since.
  It is in the model (`Undo`), and no property excludes it.

### ChildProcess and the code

* The three readers share one loop; `mode` says which one runs where they differ:
  the pipes they read, what they keep of a chunk past the limit, whether they wait
  twice, and what they do when something fails.  Checks and archives clean up with
  `_stop_and_reap_best_effort`; `_bounded_capture` passes exceptions on.
* The child and one descendant write, close their pipes and end as they like, also
  after the reader has left the loop; the descendant may leave the process group
  (`escaped`), where the kill does not reach it.  `immune` is a child that changed
  its user: killpg is then refused with EPERM.
* `Select` is the blocking call: it goes on when something is readable or when the
  deadline is over, and only then polls the child.  A chunk is any part of what the
  pipe holds.  After an overflow the other ready pipes of the round are not read.
* `Fail` is any exception in the loop.  Output bytes are counted; redaction, the
  excerpt, the digest and the removal of the check's home directory are left out.

### PatchParser and the code

* `More` hands the parser a line of any kind, or the end, when it looks at one; so
  TLC sees every text up to `MaxLines` without building them all.
* A line is its kind, with the path or the counts it carries.  "removed" and "added"
  are all other lines with that first character, a header with an unusable path
  among them: such a line is a body line in a hunk and refused anywhere else, as in
  the code.  What is malformed wherever it stands, or forbidden, is "other".
* `PatchGrammar` says the same without a parser: a reading gives each line of the
  text a role (`Assignments`), and the text is a patch if some reading is `Complete`.
  `Viable` is what a text that may still become one has.
* The code checks forbidden metadata, the byte limit and the final newline before
  it parses, and the limits on files and lines at the end of each section; `Hunks`
  has the latter.

## 3. Runs

| Run | Instance | Shows |
|---|---|---|
| `approval_race` | 1 request, 2 operators, 2 policies, 2 commits, both kinds | exclusive execution, authority at the claim, refinement of `RequestLifecycle` |
| `linked_checks` | 2 requests, 1 operator | links of stored checks hold for ever |
| `quotas_and_retries` | 4 requests, 3 clients, 3 keys, 2 proposers, windows of 2 instants | retries are one request; the four limits on pending and retained requests; no window has more requests than the rate, in whatever order they are inserted |
| `liveness` | 1 request, 2 operators, fair | pending requests are decided, commands end, interrupted executions are reported |
| `snapshots` | 3 requests, 2 builders, 2 deleters, limits 2 and 1 | both limits; deletion announced, complete before it is hidden, recorded once; works that outlive their command |
| `snapshot_liveness` | 2 requests, 2 builders, 1 deleter, 1 lister, fair | no command waits for the lock for ever; a listing hides only what is deleted; a deletion repeated after an interrupt is recorded once |
| `installation` | 2 processes, 1 client, 2 keys, 5 receipts, fair | one key for all receipts, the pin is the file's, receipts tell of the clients, registrations have their credentials, commands end |
| `child_process` | limit 2, 3 units on each pipe, all three readers, fair | answers are complete, the limit exact, children reaped or killed, readers end |
| `patch_parser` | 2 paths, counts up to 2, 8 lines, limits of 1 and 2 files and 2 changed lines | what is accepted is a patch, what is refused is none, every step moves on |
| `recovery_while_executing` | violation | recovery ends work that is alive |
| `commit_during_approval` | violation | a commit after the preflight does not stop the claim |
| `expiry_during_approval` | violation | the claim compares the expiry with an old instant |

Bounds.  The identifiers of requests are finite and never reused; calls arrive
while one is left, and requests are created while their window ends within
`MaxTime`.  Two operators are enough for a race on a request, since all a third
could do to the other two is to change the shared rows, which the second and the
administration commands already do.  One request is enough for `approval_race`
because operators meet only on a request's row; two for links, which relate two
rows.  `MaxTime` leaves room for a window to end during
each stage of a command.  In `snapshots` the limits are smaller than the number
of requests, so both are reached and refused, and the tombstone of a dead deleter
meets a second deleter.  `MaxInterrupts` bounds how many demands an interrupted
deleter can record for a request; it is 0 in `snapshots` and 1 in `snapshot_liveness`,
whose instance is smaller.

`quotas_and_retries` has limits of 1 pending and 2 retained requests of a client, of
2 pending and 3 retained ones in all, and of 1 new request of a client in a window of two
instants.  With three clients and four requests each of the five can be exceeded while
the four others hold, so that dropping any one of the five guards violates
`QuotasHold` or `RateHolds`; and since a request may be inserted after one that was created
later, so does a count that ends at the new request's own creation.  The run explores
`ProposalsSpec`: the clients are registered and granted first, and proposers are then
alone, since nothing else adds to what the limits count and expiry is enough to take
away from it.  A call runs to its insertion without a break, as nothing it reads
changes; requests and keys are used in the order of their numbers; the clock
starts with the first call and stops once `MaxTotal` requests are retained, when time can
let no further one in; and no call is given up, since that leaves no more than the expiry
of due requests, which a view of a request does as well.  `MaxTime` lets a client come
back after two windows, which it takes to meet its limit of retained requests.

One client is enough for `installation`, since commands about different clients meet
only in the ledger, where the other process's `other` command already meets them;
five receipts let a client be added, revoked, added again and compensated.  Two keys
are a right one and a wrong one.  In `child_process` three units on a pipe with a
limit of two are output below, at and above it, in one chunk or several.  Eight lines
are two sections of the plain form ("---", "+++") with a hunk each, or one section in
Git's format with hunks, markers and body lines that look like headers.  Two sections in
Git's format do not fit: that they are read rightly rests on the theorems, which are
about texts of every length.
`child_process` does not check for deadlock: one execution really ends.

Symmetry is used over sets whose members the specification treats alike, and
never in a run with a temporal property under fairness.

Fairness.  `LocalHands!Fairness` asks that the clock advances, that running
commands go on (the operating system schedules them, and every child process has
a deadline), that some client or operator polls a request from time to time
(every such call expires what is due), and that recovery runs from time to time
(`serve` starts with it).  Nobody is obliged to approve, and no crash is excluded.
`PendingIsDecided` therefore rests on polling: the code has no timer of its own.
`SnapshotStore!Fairness` adds strong fairness of taking the lock, which is what
the queue of a blocking flock gives when every holder releases it.  What fails or dies
(`BuilderMishap`, `DeleterDies`) is owed by nobody, and the work of a check need not
write or end: a command does not wait for what outlives it.

`Installation!FairSpec` asks that a started process goes on; nobody has to start one.
Waiting for SQLite is bounded by its timeout, and ends a command with an error.
`ChildProcess!FairSpec` asks that time passes and the reader is scheduled, and
nothing of the child: `ReaderEnds` holds although the child may never write, close,
end or be killed.  It starts behind the stage `feed`, because `_bounded_capture`
writes its input before it sets a deadline, and nothing in the code bounds that.

Each property of a passing run has a mutant, an operator marked "Slip" before the
definition it replaces, that TLC catches with that property.

## 4. Where the code and its documentation differ

1. `OnlyInterruptedIsUncertain`: THREAT_MODEL.md speaks of the outcome "of a
   previous process".  `recover_interrupted` cannot tell a dead process from a
   live one and marks both.  The late result is refused by the final transaction,
   which `ImplementsLifecycle` shows, but the work goes on in its snapshot.
2. `CommitAtClaim`: README.md says a changed commit invalidates a request.  HEAD
   is compared in the preflight only.  The execution still uses the bound commit.
3. `UnexpiredAtClaim`: the docstring of `claim_request_for_execution` speaks of an
   unexpired request; the instant it compares with is read before the write lock.

## 5. Proofs

Assumptions: `None` is no request, policy, commit, row or receipt event
(`NoneAssumption`), the time constants are naturals (`TimeAssumption`), and the
limits are positive naturals (`LimitAssumption`).  The sets of
clients, requests, processes, policies and commits are arbitrary, also infinite.

* `LedgerCorrect`, `TerminalStates`: in the abstract lifecycle the receipts of a
  request are exactly a history of its state, and ended requests stay ended.
* `TypeCorrect`: `TypeOK` is inductive.  Its parts (`StoreOK`, `RequestsOK`,
  `ProposersOK`, `OperatorsOK`) have a lemma each.  `OperatorsOK` needs that what
  an operator names has a row and keeps it, which comes from the refinement.
* `RefinesLifecycle`: every step of every process is a lifecycle step or a
  stutter on states and receipts (`StepImplementsLifecycle`).  `StepMovesForward`
  then says once what any step can do to a state, and the other proofs cite it.
* `ExecutionIsExclusive`: `ExclusiveExecution` alone is not inductive, because
  nothing in it says why a second claim is impossible.  `Claimed` says it: what an
  operator executes is past pending.  A claim needs a pending row, and recovery
  and the final transaction never bring a row back.
* `AuthorityIsCurrent`: a request goes from pending to executing in no other step
  than a claim, and a claim reads client, grant and policy in the same step.
* `RetriesAreOne`: rows change only in `Insert`, which finds no row of its key.
* `QuotasAlwaysHold`, `RateAlwaysHolds`: with `Limited`, which adds that only
  finitely many rows exist, since a count of an infinite set means nothing.  Only
  `Insert` adds to a count, for one client, after `WithinQuotas` has found room.
  Any window with the new request in it starts no earlier than the span the
  insertion counted (`CountsAfterInsert`), so late insertions cannot overfill it.
* `LinksAlwaysHold`: with `LinkSeen` (a draft about to be inserted has a link that
  holds) and `LinkIsStable` (rows are immutable and success is final).

`SnapshotStoreProofs`, from `LimitAssumption`, `ProcessAssumption` and
`NoneAssumption` (limits are positive, requests are finite, `None` is no process, no
request, no directory and not the torn marker), for any number of builders, deleters
and listers:

* `SnapshotTypes`: with `Holders`, which says that a builder in `build` and a deleter
  past `bind` hold the lock, and that what a process works on exists.
* `HiddenOnlyDeleted`, `DeletedIsGone`, `DeletionAnnounced`, `DeletionRecordedOnce`
  all follow from one invariant, `MarkersKept`.  Its part `Held` says for the deleter
  with the lock which markers, receipts and contents its stage has left behind; its
  part `Kept` says for every directory what its markers, its payload and its work say
  about the request's trail, also when its deleter is dead; its part `Handed` says that
  what is published and not handed over is as it was built.  Needed besides:
  `BuildersLive`, that a request is built by one builder, whose work has not begun
  before it hands over, and that a work which runs belongs to an executing request; and
  `DeletersLate`, that a deleter's request is in a final state.  So the only work that
  can write in a directory under deletion is one that outlives.
* `ListingIsSafe`: after its first read, the names, a lister looks at a directory
  whose deletion is on record (`ReadAfterDeletion`), and receipts are never taken
  back.  So the later reads are not what makes hiding safe.
* `TombstonesLimited`: with `Marking`, that a tombstone is free while a deleter is
  about to write its first marker.  `RetentionLimited`: no step but a reservation adds
  to the directories that need a place, but a work that outlives in a deleted one.

`ReceiptLedgerProofs`, from `KeyAssumption` (`None` and "torn" are no keys):

* `LedgerStaysVerifiable`: with what each process knows of an unpinned ledger in its
  stage.  A process that may create a key has seen an empty ledger, and nothing is
  appended before a pin.
* `PinnedKeyStays`: at most one process is writing the key file, the file is torn
  until it has, and, as long as nobody touched the file, every later stage has the
  key that is in it.

`InstallationProofs`, from `NameAssumption`:

* `ReceiptsVerify` and `KeyStays` follow from the theorems about the ledger, because
  every step of a command is a step of the ledger or leaves it alone; that lemma is
  immediate, since `Installation` takes the ledger's own actions.
* `LedgerTells`: with `Told`, that the receipt which created a row is about its
  client.  A creation needs no row and a revocation needs one, in the transaction of
  the receipt, which is what makes the two alternate.
* `SavedCredentialsWork`: with two invariants.  `Issued`: the credential a process is about
  to save was issued to it alone, for the client of its command.  `InOrder`: of an
  orderly registration (neither forsaken nor contended) nobody is about to remove the
  file; while its process fills the file, the file is that process's; and without
  such a process it is whole.  What another process saves for the same name carries
  another number, and cannot be created over a file that is there.

`ChildProcessProofs`, from `LimitAssumption`: one invariant, `IInv`.  `Accounts` says
that nothing written is lost until the limit is exceeded, `Ends` that a pipe leaves
the selector only when it is empty and nobody can write, and that the loop is left
only then or with a flag, `Stopped` that the last wait comes after a kill.

`PatchGrammarProofs`, from `GrammarAssumption` (the limit on changed lines and the
bound on counts are naturals), for texts of every length and counts of every size:

* `ShapeStep`: when one more line keeps the shape of a patch.  The shape of n + 1 lines
  is that of n lines and a condition on the last, so the other proofs look at one line
  at a time (`ShapeOfPrefix`, `ShapeOfFirst` go the other way).
* `Unambiguous`: a text has at most one reading with that shape.  Take the first line
  where two readings differ; what is before it says whether a hunk is open there
  (`HunkOpen`), and that decides the role (`OneRole`).
* `BeginningsAreViable`: what a patch begins with is viable.

These are arguments about every length of a text.  The induction theorems of the
library are not usable here, since they take an operator as a parameter; `Least`, that a
non-empty set of naturals has a least element, is proved from well-foundedness and takes
their place.  The rest of the induction is the one over the behaviour of the parser.

`PatchParserProofs`, from `ParserAssumption` (`None` is no path; the limits are naturals)
and `GrammarAssumption`:

* `ParserTypes`: the parser stays inside the text and no side of a hunk counts past its
  declaration.
* `ParserSound`: the invariant `Sound` with one lemma per action.  `AcceptedIsPatch` is
  not inductive, since it says nothing before the verdict.  `Sound` builds the reading as
  the parser goes: the consumed lines have a reading with the shape of a patch
  (`Parsed`), `paths` and `changed` are what it says, and for each stage there is what
  that reading ends with and how much of the open hunk is counted (`Here`).
* `AcceptedAreParsed` and `RefusedAreNone` follow.  A refusal needs `Unambiguous`: that
  the line does not fit the reading the parser has is enough only if there is no other.
* `RefusedForGood`: with `BeginningsAreViable`, no text that begins with what was refused
  is a patch, however long it is.  `HopelessWhenRefused` quantifies over all texts, so
  only the prover can look at it.
* `ParserMovesOn` (`NeverLoops`): `Place` grows with every step on a known text.  So parsing
  ends, said as an action property and so within the prover's reach.

Only model-checked: the liveness properties `PendingIsDecided`, `InterruptedIsReported`,
`CommandsEnd` (of three modules) and `ReaderEnds`.  They rest on fairness, which is
about ENABLED, and no installed prover knows about that.  Every invariant and every
action property of the passing runs is proved.

## 6. Not modelled

* `paths.py`: normalisation of path strings and descriptor-relative reads.  It keeps
  no state, and what can go wrong in it is in the characters and in the meaning of
  open flags, which a model would have to assume.
* The characters of patch lines and the parser of porcelain status records, for the
  same reason.
* The other verdicts of `snapshot_deletion_marker_state` during a change: a listing
  prints them, and nothing is decided by them without the lock.
* Nested savepoints of `Store.transaction` and the schema migration: no handler
  catches an error of an inner transaction and goes on, so an outer transaction
  commits whole or rolls back whole, as the models take it.
* `_bounded_capture` has no clean-up of its child, and no deadline on its input; both
  are listed as hazards, and nothing is promised of them here.
* A clock that goes backwards.
* A check that itself writes files with the names of the deletion markers: the work
  changes payloads only.
* A SQLite transaction is one step.  That a state and its receipt are never written
  apart is therefore assumed of SQLite and of `Store.transaction`, and not shown.
* `doctor.py`, `demo.py`, `hermes_config.py`, rendering in `cli.py`, HTTP framing,
  redaction (I/O and wording), and the cryptography of receipts.

What would add most next: an approval in which the run of the check is the child of
`ChildProcess` and not one step.
