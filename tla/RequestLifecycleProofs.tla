----------------------- MODULE RequestLifecycleProofs -----------------------
(***************************************************************************)
(* The abstract request lifecycle keeps the ledger and the state column in *)
(* agreement and never leaves a terminal state, for every set of requests. *)
(***************************************************************************)
EXTENDS RequestLifecycle, SequenceTheorems, TLAPS

----------------------------------------------------------------------------
(* Appending to the short histories of a request that has not ended.        *)

LEMMA AppendToOne ==
    ASSUME NEW S, NEW a \in S, NEW b \in S
    PROVE  Append(<<a>>, b) = <<a, b>>
<1> DEFINE s == Append(<<a>>, b)
           t == <<a, b>>
<1>1. s \in Seq(S) /\ t \in Seq(S)
  OBVIOUS
<1>2. Len(s) = 2 /\ Len(t) = 2
  OBVIOUS
<1>3. s[1] = a /\ s[2] = b
  OBVIOUS
<1>4. ASSUME NEW i \in 1..2 PROVE s[i] = t[i]
  <2>1. i = 1 \/ i = 2
    OBVIOUS
  <2>2. QED
    BY <1>3, <2>1
<1> HIDE DEF s, t
<1>5. s = t
  BY <1>1, <1>2, <1>4, SeqEqual
<1>6. QED
  BY <1>5 DEF s, t

LEMMA AppendToTwo ==
    ASSUME NEW S, NEW a \in S, NEW b \in S, NEW c \in S
    PROVE  Append(<<a, b>>, c) = <<a, b, c>>
<1> DEFINE s == Append(<<a, b>>, c)
           t == <<a, b, c>>
<1>1. <<a, b>> \in Seq(S) /\ s \in Seq(S) /\ t \in Seq(S)
  OBVIOUS
<1>2. Len(s) = 3 /\ Len(t) = 3
  BY <1>1
<1>3. s[1] = a /\ s[2] = b /\ s[3] = c
  BY <1>1
<1>4. ASSUME NEW i \in 1..3 PROVE s[i] = t[i]
  <2>1. i = 1 \/ i = 2 \/ i = 3
    OBVIOUS
  <2>2. QED
    BY <1>3, <2>1
<1> HIDE DEF s, t
<1>5. s = t
  BY <1>1, <1>2, <1>4, SeqEqual
<1>6. QED
  BY <1>5 DEF s, t

Events == Endings \cup {"request.pending", "request.rejected",
                        "request.expired", "request.approved"}

\* What each kind of step does to one request's receipts.
LEMMA HistoryStep ==
    ASSUME NEW h, NEW e \in Endings
    PROVE  /\ h \in Histories("absent") =>
                Append(h, "request.pending") \in Histories("pending")
           /\ h \in Histories("pending") =>
                /\ Append(h, "request.rejected") \in Histories("rejected")
                /\ Append(h, "request.expired") \in Histories("expired")
                /\ Append(h, "request.approved") \in Histories("executing")
           /\ h \in Histories("executing") =>
                Append(h, e) \in Histories(EndState(e))
<1>1. /\ Histories("absent") = {<<>>}
      /\ Histories("pending") = {<<"request.pending">>}
      /\ Histories("rejected") = {<<"request.pending", "request.rejected">>}
      /\ Histories("expired") = {<<"request.pending", "request.expired">>}
      /\ Histories("executing") = {<<"request.pending", "request.approved">>}
  BY DEF Histories
<1>2. /\ "request.pending" \in Events /\ "request.rejected" \in Events
      /\ "request.expired" \in Events /\ "request.approved" \in Events
      /\ e \in Events
  BY DEF Events
<1>3. h \in Histories("absent") =>
        Append(h, "request.pending") \in Histories("pending")
  <2>1. Append(<<>>, "request.pending") = <<"request.pending">>
    OBVIOUS
  <2>2. QED
    BY <1>1, <2>1
<1>4. h \in Histories("pending") =>
        /\ Append(h, "request.rejected") \in Histories("rejected")
        /\ Append(h, "request.expired") \in Histories("expired")
        /\ Append(h, "request.approved") \in Histories("executing")
  <2>1. ASSUME NEW x \in Events
        PROVE  Append(<<"request.pending">>, x) = <<"request.pending", x>>
    BY <1>2, AppendToOne
  <2>2. QED
    BY <1>1, <1>2, <2>1
<1>5. h \in Histories("executing") => Append(h, e) \in Histories(EndState(e))
  <2>1. EndState(e) \in {"succeeded", "failed", "uncertain"}
    BY DEF Endings, EndState
  <2>2. Histories(EndState(e)) =
          {<<"request.pending", "request.approved", x>> :
              x \in {y \in Endings : EndState(y) = EndState(e)}}
    BY <2>1 DEF Histories
  <2>3. <<"request.pending", "request.approved", e>> \in Histories(EndState(e))
    BY <2>2
  <2>4. Append(<<"request.pending", "request.approved">>, e)
          = <<"request.pending", "request.approved", e>>
    BY <1>2, AppendToTwo
  <2>5. QED
    BY <1>1, <2>3, <2>4
<1>6. QED
  BY <1>3, <1>4, <1>5

\* Every step is, for each request, a stutter or one legal transition.
LEMMA StepKeepsLedger ==
    LedgerMatchesState /\ [Next]_vars => LedgerMatchesState'
<1> SUFFICES ASSUME LedgerMatchesState, [Next]_vars
             PROVE  LedgerMatchesState'
  OBVIOUS
<1>1. ASSUME NEW r \in Requests, NEW from \in States, NEW to \in States, NEW event,
             Move(r, from, to, event),
             \A h \in Histories(from) : Append(h, event) \in Histories(to)
      PROVE  LedgerMatchesState'
  <2>1. state' \in [Requests -> States] /\ DOMAIN log' = Requests
    BY <1>1 DEF LedgerMatchesState, Move
  <2>2. log'[r] \in Histories(state'[r])
    <3>1. log[r] \in Histories(from) /\ log'[r] = Append(log[r], event) /\ state'[r] = to
      BY <1>1 DEF LedgerMatchesState, Move
    <3>2. QED
      BY <1>1, <3>1
  <2>3. ASSUME NEW q \in Requests, q # r PROVE log'[q] \in Histories(state'[q])
    BY <1>1, <2>3 DEF LedgerMatchesState, Move
  <2>4. QED
    BY <2>1, <2>2, <2>3 DEF LedgerMatchesState
<1>2. ASSUME NEW r \in Requests, Record(r) \/ Reject(r) \/ Claim(r)
      PROVE  LedgerMatchesState'
  <2>1. "request.failed" \in Endings
    BY DEF Endings
  <2>2. QED
    BY <1>1, <1>2, <2>1, HistoryStep DEF Record, Reject, Claim, States
<1>3. ASSUME NEW r \in Requests, NEW e \in Endings, End(r, e)
      PROVE  LedgerMatchesState'
  <2>1. EndState(e) \in States
    BY DEF Endings, EndState, States
  <2>2. QED
    BY <1>1, <1>3, <2>1, HistoryStep DEF End, States
<1>4. ASSUME NEW E \in SUBSET Requests, NEW U \in SUBSET Requests, Sweep(E, U)
      PROVE  LedgerMatchesState'
  <2>1. EndState("request.uncertain") = "uncertain" /\ "request.uncertain" \in Endings
    BY DEF EndState, Endings
  <2>2. state' \in [Requests -> States] /\ DOMAIN log' = Requests
    BY <1>4 DEF Sweep, LedgerMatchesState, States
  <2>3. ASSUME NEW r \in Requests PROVE log'[r] \in Histories(state'[r])
    <3>1. CASE r \in E
      <4>1. /\ log[r] \in Histories("pending")
            /\ state'[r] = "expired" /\ log'[r] = Append(log[r], "request.expired")
        BY <1>4, <3>1 DEF Sweep, LedgerMatchesState
      <4>2. QED
        BY <4>1, <2>1, HistoryStep
    <3>2. CASE r \notin E /\ r \in U
      <4>1. /\ log[r] \in Histories("executing")
            /\ state'[r] = "uncertain" /\ log'[r] = Append(log[r], "request.uncertain")
        BY <1>4, <3>2 DEF Sweep, LedgerMatchesState
      <4>2. QED
        BY <4>1, <2>1, HistoryStep
    <3>3. CASE r \notin E /\ r \notin U
      BY <1>4, <3>3 DEF Sweep, LedgerMatchesState
    <3>4. QED
      BY <3>1, <3>2, <3>3
  <2>4. QED
    BY <2>2, <2>3 DEF LedgerMatchesState
<1>5. CASE UNCHANGED vars
  BY <1>5 DEF vars, LedgerMatchesState
<1>6. QED
  BY <1>2, <1>3, <1>4, <1>5 DEF Next

----------------------------------------------------------------------------

\* The receipts of every request are always exactly the history of its stored
\* state: nothing is approved twice, ended twice, or ended without approval
\* (service.py, every transaction that moves a request).
THEOREM LedgerCorrect == Spec => []LedgerMatchesState
<1>1. Init => LedgerMatchesState
  BY DEF Init, LedgerMatchesState, States, Histories
<1>2. QED
  BY <1>1, StepKeepsLedger, PTL DEF Spec

\* A request that was decided or that ended stays as it is (storage.py,
\* set_request_state and claim_request_for_execution compare before they set).
TerminalIsFinal ==
    [][\A r \in Requests : state[r] \in Terminal => state'[r] = state[r]]_vars

\* No step leaves a terminal state.
THEOREM TerminalStates == Spec => TerminalIsFinal
<1>1. ASSUME LedgerMatchesState, [Next]_vars, NEW r \in Requests, state[r] \in Terminal
      PROVE  state'[r] = state[r]
  BY <1>1 DEF LedgerMatchesState, Next, vars, Terminal, Sweep, Record, Reject,
              Claim, End, Move
<1>2. LedgerMatchesState /\ [Next]_vars =>
        [\A r \in Requests : state[r] \in Terminal => state'[r] = state[r]]_vars
  BY <1>1
<1>3. QED
  BY <1>2, LedgerCorrect, PTL DEF Spec, TerminalIsFinal
=============================================================================
