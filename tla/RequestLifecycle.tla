-------------------------- MODULE RequestLifecycle --------------------------
(***************************************************************************)
(* What the store promises of an approval request, with everything that    *)
(* decides a transition abstracted away: a request is recorded once, a     *)
(* pending request is decided once, an approved request executes once and  *)
(* ends once, and every transition commits in one transaction with the     *)
(* receipt that announces it.  LocalHands implements this specification.   *)
(***************************************************************************)
EXTENDS Naturals, Sequences

CONSTANT Requests       \* request identifiers, recorded or not yet used

VARIABLES
    state,              \* the state column of each request, "absent" before its row
    log                 \* the receipts that name each request, oldest first

vars == <<state, log>>

States == {"absent", "pending", "rejected", "expired", "executing",
           "succeeded", "failed", "uncertain"}

Terminal == {"rejected", "expired", "succeeded", "failed", "uncertain"}

\* The receipt events with which an execution can end.
Endings == {"request.succeeded", "check.passed", "check.failed",
            "request.failed", "request.uncertain"}

\* The terminal state written beside each of those receipts.
EndState(e) ==
    CASE e \in {"request.succeeded", "check.passed"} -> "succeeded"
      [] e \in {"check.failed", "request.failed"}    -> "failed"
      [] e = "request.uncertain"                     -> "uncertain"

\* One request moves and its receipt is appended.
Move(r, from, to, event) ==
    /\ state[r] = from
    /\ state' = [state EXCEPT ![r] = to]
    /\ log' = [log EXCEPT ![r] = Append(@, event)]

Init ==
    /\ state = [r \in Requests |-> "absent"]
    /\ log = [r \in Requests |-> <<>>]

Record(r) == Move(r, "absent", "pending", "request.pending")
Reject(r) == Move(r, "pending", "rejected", "request.rejected")
Claim(r)  == Move(r, "pending", "executing", "request.approved")
End(r, e) == Move(r, "executing", EndState(e), e)

\* A batch transaction: some pending requests expire, some executing ones
\* are declared uncertain.
Sweep(E, U) ==
    /\ \A r \in E : state[r] = "pending"
    /\ \A r \in U : state[r] = "executing"
    /\ state' = [r \in Requests |-> IF r \in E THEN "expired"
                                    ELSE IF r \in U THEN "uncertain"
                                    ELSE state[r]]
    /\ log' = [r \in Requests |-> IF r \in E THEN Append(log[r], "request.expired")
                                  ELSE IF r \in U THEN Append(log[r], "request.uncertain")
                                  ELSE log[r]]

Next ==
    \/ \E r \in Requests : Record(r) \/ Reject(r) \/ Claim(r)
    \/ \E r \in Requests, e \in Endings : End(r, e)
    \/ \E E, U \in SUBSET Requests : Sweep(E, U)

Spec == Init /\ [][Next]_vars

----------------------------------------------------------------------------
(* Consequences, proved in RequestLifecycleProofs.                          *)

\* The histories a request in each state can have.
Histories(s) ==
    CASE s = "absent"    -> {<<>>}
      [] s = "pending"   -> {<<"request.pending">>}
      [] s = "rejected"  -> {<<"request.pending", "request.rejected">>}
      [] s = "expired"   -> {<<"request.pending", "request.expired">>}
      [] s = "executing" -> {<<"request.pending", "request.approved">>}
      [] OTHER -> {<<"request.pending", "request.approved", e>> :
                      e \in {x \in Endings : EndState(x) = s}}

\* The signed ledger tells the whole truth about every request and nothing
\* else: its receipts are exactly one of the histories of its stored state
\* (service.py writes both in one transaction, at every transition).
LedgerMatchesState ==
    /\ state \in [Requests -> States]
    /\ DOMAIN log = Requests
    /\ \A r \in Requests : log[r] \in Histories(state[r])
=============================================================================
