---------------------------- MODULE MCLocalHands ----------------------------
(* Small instances of LocalHands for TLC.                                   *)
EXTENDS LocalHands, TLC

CONSTANTS p1, p2

\* p1 allows patches and the check; p2 is a read-only policy with the check.
MCPermits == {<<p1, "patch">>, <<p1, "test">>, <<p2, "test">>}

Symmetry ==
    Permutations(Requests) \cup Permutations(Operators)
    \cup Permutations(Keys) \cup Permutations(Clients)

(***************************************************************************)
(* Behaviours of Spec in which proposers are alone, at the limits: all the *)
(* clients are registered and granted the workspaces before the first call,*)
(* and nothing but time decides a request.  A call goes on to its insertion*)
(* without a break, because what it reads does not change meanwhile and the*)
(* clock could as well have gone on before it; its insertion may come late.*)
(* Requests and keys are numbered.  Insert takes requests in order, and a  *)
(* call uses the first key its client does not use yet, or retries one that*)
(* it does; any other choice is a renaming.  The clock starts with a call  *)
(* and stops once no request can be added.  A call that is given up leaves *)
(* no more than its expiry of due requests, which ViewRequest does too.    *)
(***************************************************************************)
Prepare ==
    \/ \E c \in Clients : BootstrapClient(c)
    \/ /\ clients = Clients
       /\ \E w \in Workspaces : policy[w] = None /\ RegisterWorkspace(w, p1, Clients)

Prepared == \A w \in Workspaces : policy[w] # None

Reading == {s \in Proposers : step[s] \notin {"idle", "insert"}}

InUse ==
    {<<row[r].client, row[r].key>> : r \in Present}
    \cup {<<draft[s].client, draft[s].key>> : s \in {q \in Proposers : draft[q] # None}}

InOrder ==
    /\ Present' = 1..Cardinality(Present')
    /\ \A s \in Proposers : step[s] = "idle" /\ draft'[s] # None =>
          LET c == draft'[s].client
              k == draft'[s].key
          IN  <<c, k>> \in InUse \/ \A j \in 1..(k - 1) : <<c, j>> \in InUse

ProposalsNext ==
    /\ \/ ~Prepared /\ Prepare
       \/ Prepared /\ \E s \in Reading : Propose(s)
       \/ /\ Prepared /\ Reading = {}
          /\ \/ ViewRequest
             \/ InUse # {} /\ Cardinality(Present) < MaxTotal /\ Tick
             \/ \E s \in Proposers : Propose(s)
    /\ InOrder

ProposalsSpec == Init /\ [][ProposalsNext]_vars

ProposalsSymmetry == Permutations(Proposers) \cup Permutations(Clients)
=============================================================================
