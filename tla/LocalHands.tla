----------------------------- MODULE LocalHands -----------------------------
(***************************************************************************)
(* The approval boundary of service.py over the SQLite store of storage.py.*)
(*                                                                         *)
(* Several operating-system processes share one store: proposers (an MCP   *)
(* server handling a tool call, or the CLI's `check add`), operators (the  *)
(* CLI's `request approve` and `request deny`) and administration commands *)
(* (`client`, `workspace`, `request recover`, the start of `serve`).  Each *)
(* transaction is one step, since Store.transaction takes SQLite's write   *)
(* lock first (BEGIN IMMEDIATE); between two transactions or reads of one  *)
(* handler every other process may run, the clock may advance, the user    *)
(* may commit or edit in the registered checkout, and the process may die. *)
(***************************************************************************)
EXTENDS Integers, Sequences, FiniteSets

CONSTANTS
    Clients, Workspaces, Requests, Keys,
    Kinds,                  \* "patch" and "test", or one of them
    Policies,               \* contents a workspace policy can have (their hashes)
    Permits,                \* <<policy, kind>>: the policy has a write allowlist (patch),
                            \* or the named check profile (test)
    Heads,                  \* commits the registered checkout can be at
    Proposers, Operators,   \* processes
    TTL,                    \* approval window
    Window, Rate,           \* at most Rate new requests per client and Window
    MaxPendingClient, MaxPendingGlobal, MaxTotalClient, MaxTotal,
    MaxTime,                \* bound: the last instant of the clock
    None                    \* no value

ASSUME TimeAssumption ==
    TTL \in Nat \ {0} /\ Window \in Nat /\ MaxTime \in Nat
ASSUME LimitAssumption ==
    /\ Rate \in Nat \ {0} /\ MaxTotal \in Nat \ {0} /\ MaxTotalClient \in Nat \ {0}
    /\ MaxPendingClient \in Nat \ {0} /\ MaxPendingGlobal \in Nat \ {0}

VARIABLES
    now,                \* the wall clock every process reads
    clients,            \* rows of the clients table
    grants,             \* rows <<client, workspace>> of client_workspace_grants
    policy,             \* policy hash of each workspace row, None when unregistered
    head, clean,        \* the registered checkouts, owned by the user
    row,                \* immutable columns of each request row, None before it exists
    state, log,         \* its state column and the receipts that name it
    step, draft,        \* where each proposer is in its handler, and the request it builds
    pc, target,         \* where each operator is in its command, and the request it names
    started, outcome    \* its started_at, and the receipt its execution earned so far

storeVars    == <<clients, grants, policy>>
checkoutVars == <<head, clean>>
requestVars  == <<row, state, log>>
proposerVars == <<step, draft>>
operatorVars == <<pc, target, started, outcome>>
vars == <<now, storeVars, checkoutVars, requestVars, proposerVars, operatorVars>>

\* The abstract specification this one implements.
Lifecycle == INSTANCE RequestLifecycle WITH Requests <- Requests, state <- state, log <- log

----------------------------------------------------------------------------
(* Types.                                                                   *)

Time == 0..MaxTime

Row == [client : Clients, workspace : Workspaces, key : Keys,
        kind : Kinds, link : Requests \cup {None},
        policy : Policies \cup {None}, head : Heads \cup {None}, created : Time]

ASSUME NoneAssumption ==
    /\ None \notin Requests \cup Policies \cup Heads
    /\ None \notin Row
    /\ None \notin Lifecycle!Endings

Steps == {"idle", "policy", "clean", "head", "stamp", "insert"}

\* Stages at which an execution has earned its outcome, and all its stages.
Observing == {"observe clean", "observe head", "record"}
Executing == {"worktree", "run"} \cup Observing

Stages == {"idle", "deny", "policy", "clean", "head", "stamp", "claim"} \cup Executing

StoreOK ==
    /\ now \in Time
    /\ clients \subseteq Clients
    /\ grants \subseteq clients \X Workspaces
    /\ policy \in [Workspaces -> Policies \cup {None}]
    /\ head \in [Workspaces -> Heads]
    /\ clean \in [Workspaces -> BOOLEAN]

RequestsOK ==
    /\ row \in [Requests -> Row \cup {None}]
    /\ state \in [Requests -> Lifecycle!States]
    /\ \A r \in Requests : state[r] = "absent" <=> row[r] = None
    /\ DOMAIN log = Requests

ProposersOK ==
    /\ step \in [Proposers -> Steps]
    /\ draft \in [Proposers -> Row \cup {None}]
    /\ \A s \in Proposers : step[s] = "idle" <=> draft[s] = None

OperatorsOK ==
    /\ pc \in [Operators -> Stages]
    /\ target \in [Operators -> Requests \cup {None}]
    /\ \A p \in Operators : pc[p] = "idle" <=> target[p] = None
    /\ \A p \in Operators : target[p] # None => state[target[p]] # "absent"
    /\ started \in [Operators -> Time]
    /\ outcome \in [Operators -> Lifecycle!Endings \cup {None}]
    /\ \A p \in Operators : pc[p] \in Observing => outcome[p] # None

TypeOK == StoreOK /\ RequestsOK /\ ProposersOK /\ OperatorsOK

Init ==
    /\ now = 0
    /\ clients = {} /\ grants = {}
    /\ policy = [w \in Workspaces |-> None]
    /\ head \in [Workspaces -> Heads]
    /\ clean = [w \in Workspaces |-> TRUE]
    /\ row = [r \in Requests |-> None]
    /\ state = [r \in Requests |-> "absent"]
    /\ log = [r \in Requests |-> <<>>]
    /\ step = [s \in Proposers |-> "idle"]
    /\ draft = [s \in Proposers |-> None]
    /\ pc = [p \in Operators |-> "idle"]
    /\ target = [p \in Operators |-> None]
    /\ started = [p \in Operators |-> 0]
    /\ outcome = [p \in Operators |-> None]

----------------------------------------------------------------------------
(* Parts of transactions.                                                   *)

Present == {r \in Requests : row[r] # None}

Expiry(r) == row[r].created + TTL

\* Slip: a request whose window ends at this very instant does not count.
DueStrictly == {r \in Requests : state[r] = "pending" /\ Expiry(r) < now}

\* The pending requests whose approval window is over.
Due == {r \in Requests : state[r] = "pending" /\ Expiry(r) <= now}

\* _expire_due: its own transaction, at the start of every request handler.
ExpireDue ==
    /\ state' = [r \in Requests |-> IF r \in Due THEN "expired" ELSE state[r]]
    /\ log' = [r \in Requests |-> IF r \in Due THEN Append(log[r], "request.expired")
                                  ELSE log[r]]
    /\ UNCHANGED row

\* Compare and set a request's state, with the receipt of the transition.
Transition(r, expected, next, event) ==
    /\ state[r] = expected
    /\ state' = [state EXCEPT ![r] = next]
    /\ log' = [log EXCEPT ![r] = Append(@, event)]

\* The joined read that yields a policy only to a client granted the workspace.
Granted(c, w) == c \in clients /\ <<c, w>> \in grants /\ policy[w] # None

\* Slip: the claim trusts the grant and policy that the preflight has read.
ClaimableByPreflight(r, at) == state[r] = "pending" /\ Expiry(r) > at

\* The UPDATE of claim_request_for_execution takes a row only under these
\* conditions; the commit of the checkout is not among them.
Claimable(r, at) ==
    /\ state[r] = "pending"
    /\ Expiry(r) > at
    /\ Granted(row[r].client, row[r].workspace)
    /\ policy[row[r].workspace] = row[r].policy

\* Slip: the link does not look at what became of the patch.
CompatibleWhenRecorded(l, d) ==
    /\ row[l] # None
    /\ row[l].client = d.client
    /\ row[l].kind = "patch"
    /\ row[l].workspace = d.workspace
    /\ row[l].policy = d.policy
    /\ row[l].head = d.head

\* A patch request whose snapshot a check of the same base may build on.
Compatible(l, d) ==
    /\ row[l] # None
    /\ row[l].client = d.client
    /\ row[l].kind = "patch"
    /\ state[l] = "succeeded"
    /\ row[l].workspace = d.workspace
    /\ row[l].policy = d.policy
    /\ row[l].head = d.head

LinkHolds(d) == d.link # None => Compatible(d.link, d)

----------------------------------------------------------------------------
(* Proposers: propose_patch and request_test, one transaction or one read   *)
(* at a time.  A refusal at any point returns an error and changes nothing. *)

\* Move proposer s to `next` with the draft d, or drop the draft.
Proceed(s, next, d) ==
    /\ step' = [step EXCEPT ![s] = next]
    /\ draft' = [draft EXCEPT ![s] = d]

Refuse(s) == Proceed(s, "idle", None)

\* A call arrives for an authenticated client; due requests expire first.
\* Bound: calls arrive only while an unused request identifier is left.
Submit(s, c, w, k, kind, link) ==
    /\ step[s] = "idle"
    /\ Present # Requests
    /\ c \in clients
    /\ link # None => kind = "test"
    /\ ExpireDue
    /\ Proceed(s, "policy",
               [client |-> c, workspace |-> w, key |-> k, kind |-> kind, link |-> link,
                policy |-> None, head |-> None, created |-> 0])
    /\ UNCHANGED <<now, storeVars, checkoutVars, operatorVars>>

\* _workspace, then what the policy permits.
ReadPolicy(s) ==
    LET d == draft[s] IN
    /\ step[s] = "policy"
    /\ IF Granted(d.client, d.workspace) /\ <<policy[d.workspace], d.kind>> \in Permits
       THEN Proceed(s, "clean", [d EXCEPT !.policy = policy[d.workspace]])
       ELSE Refuse(s)
    /\ UNCHANGED <<now, storeVars, checkoutVars, requestVars, operatorVars>>

\* sanitized_status asks Git for the changes and then, separately, for HEAD.
ReadClean(s) ==
    /\ step[s] = "clean"
    /\ IF clean[draft[s].workspace] THEN Proceed(s, "head", draft[s]) ELSE Refuse(s)
    /\ UNCHANGED <<now, storeVars, checkoutVars, requestVars, operatorVars>>

ReadHead(s) ==
    /\ step[s] = "head"
    /\ Proceed(s, "stamp", [draft[s] EXCEPT !.head = head[draft[s].workspace]])
    /\ UNCHANGED <<now, storeVars, checkoutVars, requestVars, operatorVars>>

\* Slip: the link is accepted before the patch has succeeded.
StampEarly(s) ==
    /\ step[s] = "stamp"
    /\ IF /\ draft[s].link # None => CompatibleWhenRecorded(draft[s].link, draft[s])
          /\ now + TTL <= MaxTime
       THEN Proceed(s, "insert", [draft[s] EXCEPT !.created = now])
       ELSE Refuse(s)
    /\ UNCHANGED <<now, storeVars, checkoutVars, requestVars, operatorVars>>

\* The linked patch is checked and the creation time is read.  Bound: requests
\* are created only while their approval window ends within MaxTime.
Stamp(s) ==
    /\ step[s] = "stamp"
    /\ IF LinkHolds(draft[s]) /\ now + TTL <= MaxTime
       THEN Proceed(s, "insert", [draft[s] EXCEPT !.created = now])
       ELSE Refuse(s)
    /\ UNCHANGED <<now, storeVars, checkoutVars, requestVars, operatorVars>>

\* Slip: a retry finds its request only while that is pending.
SameKeyPending(d) ==
    {r \in Present : row[r].client = d.client /\ row[r].key = d.key /\ state[r] = "pending"}

\* Slip: the rate counts no request that was created after this one.
RecentUntil(d) ==
    {r \in Present : row[r].client = d.client
                     /\ row[r].created \in (d.created - Window)..d.created}

\* Requests that count against the limits of a new request d.
SameKey(d)  == {r \in Present : row[r].client = d.client /\ row[r].key = d.key}
OfClient(c) == {r \in Present : row[r].client = c}
Pending     == {r \in Requests : state[r] = "pending"}
Recent(d)   == {r \in OfClient(d.client) : row[r].created >= d.created - Window}

\* Slip: every limit is off by one.
WithinQuotasInclusive(d) ==
    /\ Cardinality(Present) <= MaxTotal
    /\ Cardinality(OfClient(d.client)) <= MaxTotalClient
    /\ Cardinality(OfClient(d.client) \cap Pending) <= MaxPendingClient
    /\ Cardinality(Pending) <= MaxPendingGlobal
    /\ Cardinality(Recent(d)) < Rate

WithinQuotas(d) ==
    /\ Cardinality(Present) < MaxTotal
    /\ Cardinality(OfClient(d.client)) < MaxTotalClient
    /\ Cardinality(OfClient(d.client) \cap Pending) < MaxPendingClient
    /\ Cardinality(Pending) < MaxPendingGlobal
    /\ Cardinality(Recent(d)) < Rate

\* The transaction of _pending: a retry finds its own row, or a conflict when
\* the key was used for something else; a new request must fit every quota.
Insert(s) ==
    LET d == draft[s] IN
    /\ step[s] = "insert"
    /\ IF SameKey(d) = {} /\ WithinQuotas(d)
       THEN \E r \in Requests :
               /\ Transition(r, "absent", "pending", "request.pending")
               /\ row' = [row EXCEPT ![r] = d]
       ELSE UNCHANGED requestVars
    /\ Refuse(s)
    /\ UNCHANGED <<now, storeVars, checkoutVars, operatorVars>>

\* The handler fails or its process dies; its draft is gone.
Abandon(s) ==
    /\ step[s] # "idle"
    /\ Refuse(s)
    /\ UNCHANGED <<now, storeVars, checkoutVars, requestVars, operatorVars>>

----------------------------------------------------------------------------
(* Operators: `request deny` and `request approve`.                         *)

\* Move operator p to the stage `next` of the command it runs.
Advance(p, next) ==
    /\ pc' = [pc EXCEPT ![p] = next]
    /\ UNCHANGED <<target, started, outcome>>

\* The command ends, with its result or with an error.
Leave(p) ==
    /\ pc' = [pc EXCEPT ![p] = "idle"]
    /\ target' = [target EXCEPT ![p] = None]
    /\ started' = [started EXCEPT ![p] = 0]
    /\ outcome' = [outcome EXCEPT ![p] = None]

AdvanceIf(p, condition, next) == IF condition THEN Advance(p, next) ELSE Leave(p)

\* The receipt the execution will end with, and where it goes on.
Earn(p, event, next) ==
    /\ outcome' = [outcome EXCEPT ![p] = event]
    /\ pc' = [pc EXCEPT ![p] = next]
    /\ UNCHANGED <<target, started>>

\* A command starts on request r: due requests expire in a transaction first.
Begin(p, r, next) ==
    /\ pc[p] = "idle"
    /\ r \in Present
    /\ ExpireDue
    /\ pc' = [pc EXCEPT ![p] = next]
    /\ target' = [target EXCEPT ![p] = r]
    /\ UNCHANGED <<started, outcome>>

\* reject: it rejects whatever is still pending when its transaction runs.
Deny(p, r) ==
    /\ Begin(p, r, "deny")
    /\ UNCHANGED <<now, storeVars, checkoutVars, proposerVars>>

Reject(p) ==
    /\ pc[p] = "deny"
    /\ IF state[target[p]] = "pending"
       THEN Transition(target[p], "pending", "rejected", "request.rejected")
       ELSE UNCHANGED <<state, log>>
    /\ Leave(p)
    /\ UNCHANGED <<now, storeVars, checkoutVars, row, proposerVars>>

\* approve, with the code of the reviewed request; it refuses at once when the
\* request is not pending once the due ones have expired.
Approve(p, r) ==
    /\ IF state[r] = "pending" /\ r \notin Due
       THEN Begin(p, r, "policy")
       ELSE pc[p] = "idle" /\ r \in Present /\ ExpireDue /\ UNCHANGED operatorVars
    /\ UNCHANGED <<now, storeVars, checkoutVars, proposerVars>>

\* _approval_preflight: the policy through the client's grant, then the status
\* of the checkout in two Git commands.
PreflightPolicy(p) ==
    LET d == row[target[p]] IN
    /\ pc[p] = "policy"
    /\ AdvanceIf(p, Granted(d.client, d.workspace) /\ policy[d.workspace] = d.policy, "clean")
    /\ UNCHANGED <<now, storeVars, checkoutVars, requestVars, proposerVars>>

PreflightClean(p) ==
    /\ pc[p] = "clean"
    /\ AdvanceIf(p, clean[row[target[p]].workspace], "head")
    /\ UNCHANGED <<now, storeVars, checkoutVars, requestVars, proposerVars>>

PreflightHead(p) ==
    LET d == row[target[p]] IN
    /\ pc[p] = "head"
    /\ AdvanceIf(p, head[d.workspace] = d.head, "stamp")
    /\ UNCHANGED <<now, storeVars, checkoutVars, requestVars, proposerVars>>

\* _linked_patch, and started_at, read before the claiming transaction begins.
StampAttempt(p) ==
    /\ pc[p] = "stamp"
    /\ IF LinkHolds(row[target[p]])
       THEN /\ pc' = [pc EXCEPT ![p] = "claim"]
            /\ started' = [started EXCEPT ![p] = now]
            /\ UNCHANGED <<target, outcome>>
       ELSE Leave(p)
    /\ UNCHANGED <<now, storeVars, checkoutVars, requestVars, proposerVars>>

\* Slip: the update does not compare the state it replaces.
ClaimAnyState(p) ==
    /\ pc[p] = "claim"
    /\ IF Expiry(target[p]) > started[p]
       THEN /\ Transition(target[p], state[target[p]], "executing", "request.approved")
            /\ Advance(p, "worktree")
       ELSE /\ UNCHANGED <<state, log>>
            /\ Leave(p)
    /\ UNCHANGED <<now, storeVars, checkoutVars, row, proposerVars>>

\* The transaction that claims the request and appends request.approved.
Claim(p) ==
    /\ pc[p] = "claim"
    /\ IF Claimable(target[p], started[p])
       THEN /\ Transition(target[p], "pending", "executing", "request.approved")
            /\ Advance(p, "worktree")
       ELSE /\ UNCHANGED <<state, log>>
            /\ Leave(p)
    /\ UNCHANGED <<now, storeVars, checkoutVars, row, proposerVars>>

\* managed_worktree builds the snapshot or refuses.
Worktree(p) ==
    /\ pc[p] = "worktree"
    /\ \/ Advance(p, "run")
       \/ Earn(p, "request.failed", "record")
    /\ UNCHANGED <<now, storeVars, checkoutVars, requestVars, proposerVars>>

\* The patch is applied, or the check runs on the base (with its linked patch).
Run(p) ==
    /\ pc[p] = "run"
    /\ \/ Earn(p, "request.failed", "record")
       \/ /\ row[target[p]].kind = "patch"
          /\ Earn(p, "request.succeeded", "record")
       \/ /\ row[target[p]].kind = "test"
          /\ \/ Earn(p, "request.uncertain", "record")
             \/ \E e \in {"check.passed", "check.failed"} : Earn(p, e, "observe clean")
    /\ UNCHANGED <<now, storeVars, checkoutVars, requestVars, proposerVars>>

\* After a check the source status is read again; a check passes only if it is
\* what the preflight saw (clean, at the bound commit).
Observe(p, same, next) ==
    Earn(p, IF same THEN outcome[p] ELSE "check.failed", next)

\* Slip: the observation waits for a clean checkout.
ObserveOnceClean(p) ==
    /\ pc[p] = "observe clean"
    /\ clean[row[target[p]].workspace]
    /\ Observe(p, TRUE, "observe head")
    /\ UNCHANGED <<now, storeVars, checkoutVars, requestVars, proposerVars>>

ObserveClean(p) ==
    /\ pc[p] = "observe clean"
    /\ Observe(p, clean[row[target[p]].workspace], "observe head")
    /\ UNCHANGED <<now, storeVars, checkoutVars, requestVars, proposerVars>>

ObserveHead(p) ==
    LET d == row[target[p]] IN
    /\ pc[p] = "observe head"
    /\ Observe(p, head[d.workspace] = d.head, "record")
    /\ UNCHANGED <<now, storeVars, checkoutVars, requestVars, proposerVars>>

\* Slip: the final transaction does not ask whether recovery came first.
RecordAnyState(p) ==
    /\ pc[p] = "record"
    /\ Transition(target[p], state[target[p]], Lifecycle!EndState(outcome[p]), outcome[p])
    /\ Leave(p)
    /\ UNCHANGED <<now, storeVars, checkoutVars, row, proposerVars>>

\* The final transaction: it ends the request only if it is still executing.
Record(p) ==
    /\ pc[p] = "record"
    /\ IF state[target[p]] = "executing"
       THEN Transition(target[p], "executing", Lifecycle!EndState(outcome[p]), outcome[p])
       ELSE UNCHANGED <<state, log>>
    /\ Leave(p)
    /\ UNCHANGED <<now, storeVars, checkoutVars, row, proposerVars>>

\* The process is killed, interrupted, or cannot reach the database.
Crash(p) ==
    /\ pc[p] # "idle"
    /\ Leave(p)
    /\ UNCHANGED <<now, storeVars, checkoutVars, requestVars, proposerVars>>

----------------------------------------------------------------------------
(* Administration commands, each one transaction.                           *)

BootstrapClient(c) ==
    /\ c \notin clients
    /\ clients' = clients \cup {c}
    /\ UNCHANGED <<now, grants, policy, checkoutVars, requestVars, proposerVars, operatorVars>>

\* Slip: the grants outlive their client (no ON DELETE CASCADE).
RevokeClientOnly(c) ==
    /\ c \in clients
    /\ clients' = clients \ {c}
    /\ UNCHANGED <<now, grants, policy, checkoutVars, requestVars, proposerVars, operatorVars>>

\* The client's grants go with it, its requests stay.
RevokeClient(c) ==
    /\ c \in clients
    /\ clients' = clients \ {c}
    /\ grants' = {g \in grants : g[1] # c}
    /\ UNCHANGED <<now, policy, checkoutVars, requestVars, proposerVars, operatorVars>>

\* `workspace add`: the policy and the exact set of granted clients.
RegisterWorkspace(w, content, granted) ==
    /\ granted \subseteq clients
    /\ policy' = [policy EXCEPT ![w] = content]
    /\ grants' = {g \in grants : g[2] # w} \cup (granted \X {w})
    /\ UNCHANGED <<now, clients, checkoutVars, requestVars, proposerVars, operatorVars>>

GrantWorkspace(c, w) ==
    /\ c \in clients /\ policy[w] # None
    /\ grants' = grants \cup {<<c, w>>}
    /\ UNCHANGED <<now, clients, policy, checkoutVars, requestVars, proposerVars, operatorVars>>

RevokeWorkspace(c, w) ==
    /\ grants' = grants \ {<<c, w>>}
    /\ UNCHANGED <<now, clients, policy, checkoutVars, requestVars, proposerVars, operatorVars>>

\* public_request and local_request_view: a read that expires what is due.
ViewRequest ==
    /\ ExpireDue
    /\ UNCHANGED <<now, storeVars, checkoutVars, proposerVars, operatorVars>>

\* Slip: recovery reports interrupted work as failed.
RecoverAsFailed ==
    LET interrupted == {r \in Requests : state[r] = "executing"} IN
    /\ state' = [r \in Requests |-> IF r \in Due THEN "expired"
                                    ELSE IF r \in interrupted THEN "failed"
                                    ELSE state[r]]
    /\ log' = [r \in Requests |-> IF r \in Due THEN Append(log[r], "request.expired")
                                  ELSE IF r \in interrupted
                                       THEN Append(log[r], "request.failed")
                                  ELSE log[r]]
    /\ UNCHANGED <<now, storeVars, checkoutVars, row, proposerVars, operatorVars>>

\* recover_interrupted, at the start of `serve` and in `request recover`: every
\* executing request becomes uncertain, whoever may still be executing it.
RecoverInterrupted ==
    LET interrupted == {r \in Requests : state[r] = "executing"} IN
    /\ state' = [r \in Requests |-> IF r \in Due THEN "expired"
                                    ELSE IF r \in interrupted THEN "uncertain"
                                    ELSE state[r]]
    /\ log' = [r \in Requests |-> IF r \in Due THEN Append(log[r], "request.expired")
                                  ELSE IF r \in interrupted
                                       THEN Append(log[r], "request.uncertain")
                                  ELSE log[r]]
    /\ UNCHANGED <<now, storeVars, checkoutVars, row, proposerVars, operatorVars>>

----------------------------------------------------------------------------
(* The environment: time, and the user at work in the checkout.             *)

Tick ==
    /\ now < MaxTime
    /\ now' = now + 1
    /\ UNCHANGED <<storeVars, checkoutVars, requestVars, proposerVars, operatorVars>>

Commit(w, h) ==
    /\ head' = [head EXCEPT ![w] = h]
    /\ UNCHANGED <<now, storeVars, clean, requestVars, proposerVars, operatorVars>>

Edit(w) ==
    /\ clean' = [clean EXCEPT ![w] = ~@]
    /\ UNCHANGED <<now, storeVars, head, requestVars, proposerVars, operatorVars>>

----------------------------------------------------------------------------

Propose(s) ==
    \/ \E c \in Clients, w \in Workspaces, k \in Keys, kind \in Kinds,
          link \in Requests \cup {None} : Submit(s, c, w, k, kind, link)
    \/ ReadPolicy(s) \/ ReadClean(s) \/ ReadHead(s) \/ Stamp(s) \/ Insert(s)

\* The steps a running command takes by itself, once it holds its request.
Continue(p) ==
    \/ Reject(p)
    \/ PreflightPolicy(p) \/ PreflightClean(p) \/ PreflightHead(p)
    \/ StampAttempt(p) \/ Claim(p)
    \/ Worktree(p) \/ Run(p) \/ ObserveClean(p) \/ ObserveHead(p) \/ Record(p)

Operate(p) == Continue(p) \/ \E r \in Requests : Deny(p, r) \/ Approve(p, r)

Administer ==
    \/ \E c \in Clients : BootstrapClient(c) \/ RevokeClient(c)
    \/ \E w \in Workspaces, content \in Policies, granted \in SUBSET Clients :
          RegisterWorkspace(w, content, granted)
    \/ \E c \in Clients, w \in Workspaces : GrantWorkspace(c, w) \/ RevokeWorkspace(c, w)
    \/ ViewRequest
    \/ RecoverInterrupted

Environment ==
    \/ Tick
    \/ \E w \in Workspaces : Edit(w) \/ \E h \in Heads : Commit(w, h)

Next ==
    \/ \E s \in Proposers : Propose(s) \/ Abandon(s)
    \/ \E p \in Operators : Operate(p) \/ Crash(p)
    \/ Administer
    \/ Environment

Spec == Init /\ [][Next]_vars

\* What the operating system owes the processes: running commands go on, the
\* clock advances, clients keep polling (local_request_status expires what is
\* due), and an operator runs `request recover` or restarts `serve` from time
\* to time.  Nobody is obliged to approve, and any process may crash.
Fairness ==
    /\ WF_vars(Tick) /\ WF_vars(ViewRequest) /\ WF_vars(RecoverInterrupted)
    /\ \A p \in Operators : WF_vars(Continue(p))

FairSpec == Spec /\ Fairness

----------------------------------------------------------------------------
(* Properties.                                                              *)

\* Operator p is past its claim on request r.
Executes(p, r) == pc[p] \in Executing /\ target[p] = r

\* Two approvals of one request never execute at the same time, even while
\* recovery, denials and expiry race with both of them (the compare-and-set of
\* claim_request_for_execution is the only thing that separates them).
ExclusiveExecution ==
    \A r \in Requests, p, q \in Operators : Executes(p, r) /\ Executes(q, r) => p = q

\* Whatever the transactions of all processes do together, each request goes
\* through the abstract lifecycle with its receipts in step: recorded once,
\* decided once, executed at most once, ended once.
ImplementsLifecycle == Lifecycle!Spec

\* However long ago the preflight ran, a request starts executing only while its
\* client exists, is granted the workspace, and the registered policy is the one
\* the request was made under (revocation and re-registration race approval).
AuthorityAtClaim ==
    [][\A r \in Requests :
          state[r] = "pending" /\ state'[r] = "executing" =>
             /\ row[r].client \in clients
             /\ <<row[r].client, row[r].workspace>> \in grants
             /\ policy[row[r].workspace] = row[r].policy]_vars

\* Racing retries of one idempotency key leave one request per client and key.
OneRequestPerKey ==
    \A q, r \in Present :
       row[q].client = row[r].client /\ row[q].key = row[r].key => q = r

\* A retained check with a linked patch names a patch of the same client that
\* succeeded on the same commit and policy, now and at every later time.
LinkedPatchHolds == \A r \in Present : LinkHolds(row[r])

\* Concurrent proposals never push the store past a limit on retained or
\* pending requests (the counts and the insertion share one transaction).
QuotasHold ==
    /\ Cardinality(Present) <= MaxTotal
    /\ Cardinality(Pending) <= MaxPendingGlobal
    /\ \A c \in Clients :
          /\ Cardinality(OfClient(c)) <= MaxTotalClient
          /\ Cardinality(OfClient(c) \cap Pending) <= MaxPendingClient

\* No interval of the rate window's length holds more than Rate requests of one
\* client, although creation times are read before the inserting transaction and
\* may be inserted out of order.
RateHolds ==
    \A c \in Clients, t \in Time :
       Cardinality({r \in OfClient(c) : row[r].created \in t..(t + Window)}) <= Rate

\* A pending request does not stay pending: it is decided or it expires.
PendingIsDecided == \A r \in Requests : state[r] = "pending" ~> state[r] # "pending"

\* A denial or an approval whose process survives runs to its end, whatever
\* becomes of the request, its authority and the checkout in the meantime.
CommandsEnd == \A p \in Operators : pc[p] # "idle" ~> pc[p] = "idle"

\* An execution whose process died ends as uncertain, once recovery runs.
InterruptedIsReported ==
    \A r \in Requests :
       state[r] = "executing" /\ (~ \E p \in Operators : Executes(p, r))
          ~> state[r] = "uncertain"

----------------------------------------------------------------------------
(* What the documentation says and the code does not do.                    *)

\* THREAT_MODEL.md: "Startup recovery does not guess the outcome of a previous
\* process: interrupted `executing` work is marked `uncertain`".  Only work no
\* process is executing any more would be marked.
OnlyInterruptedIsUncertain ==
    [][\A r \in Requests, p \in Operators :
          state[r] = "executing" /\ state'[r] = "uncertain" /\ Executes(p, r) =>
             pc'[p] = "idle"]_vars

\* README.md: "A changed policy or commit invalidates a request."  A request
\* would start executing only while the checkout is at its base commit.
CommitAtClaim ==
    [][\A r \in Requests :
          state[r] = "pending" /\ state'[r] = "executing" =>
             head[row[r].workspace] = row[r].head]_vars

\* storage.py: "Atomically claim an unexpired request".  A request would start
\* executing only before its expiry.
UnexpiredAtClaim ==
    [][\A r \in Requests :
          state[r] = "pending" /\ state'[r] = "executing" => now < Expiry(r)]_vars
=============================================================================
