-------------------------- MODULE LocalHandsProofs --------------------------
(***************************************************************************)
(* The approval boundary implements the abstract request lifecycle, keeps  *)
(* its types, never executes a request twice at a time and never starts    *)
(* executing one without authority, for every choice of the constants.     *)
(***************************************************************************)
EXTENDS LocalHands, FiniteSetTheorems, TLAPS

\* The steps of the store of requests, as RequestLifecycle sees them.
LifecycleStep == Lifecycle!Next \/ UNCHANGED <<state, log>>

----------------------------------------------------------------------------
(* What an abstract step does, whoever takes it.                            *)

\* States move forward: a request stays recorded, decided, and ended.
LEMMA StepMovesForward ==
    ASSUME state \in [Requests -> Lifecycle!States], DOMAIN log = Requests, LifecycleStep
    PROVE  /\ state' \in [Requests -> Lifecycle!States]
           /\ DOMAIN log' = Requests
           /\ \A r \in Requests :
                 /\ state[r] # "absent" => state'[r] # "absent"
                 /\ state[r] \notin {"absent", "pending"} =>
                       state'[r] \notin {"absent", "pending"}
                 /\ state[r] = "succeeded" => state'[r] = "succeeded"
<1>1. ASSUME NEW r \in Requests, NEW from \in Lifecycle!States, NEW to \in Lifecycle!States,
             NEW event, Lifecycle!Move(r, from, to, event),
             to # "absent", to = "pending" => from = "absent", from # "succeeded"
      PROVE  /\ state' \in [Requests -> Lifecycle!States]
             /\ DOMAIN log' = Requests
             /\ \A q \in Requests :
                   /\ state[q] # "absent" => state'[q] # "absent"
                   /\ state[q] \notin {"absent", "pending"} =>
                         state'[q] \notin {"absent", "pending"}
                   /\ state[q] = "succeeded" => state'[q] = "succeeded"
  BY <1>1 DEF Lifecycle!Move
<1>2. ASSUME NEW e \in Lifecycle!Endings
      PROVE  Lifecycle!EndState(e) \in {"succeeded", "failed", "uncertain"}
  BY DEF Lifecycle!Endings, Lifecycle!EndState
<1>3. ASSUME NEW r \in Requests,
             Lifecycle!Record(r) \/ Lifecycle!Reject(r) \/ Lifecycle!Claim(r)
      PROVE  \E from, to \in Lifecycle!States : \E event :
                /\ Lifecycle!Move(r, from, to, event)
                /\ to # "absent" /\ (to = "pending" => from = "absent") /\ from # "succeeded"
  BY <1>3 DEF Lifecycle!Record, Lifecycle!Reject, Lifecycle!Claim, Lifecycle!States
<1>4. ASSUME NEW r \in Requests, NEW e \in Lifecycle!Endings, Lifecycle!End(r, e)
      PROVE  \E from, to \in Lifecycle!States : \E event :
                /\ Lifecycle!Move(r, from, to, event)
                /\ to # "absent" /\ (to = "pending" => from = "absent") /\ from # "succeeded"
  BY <1>2, <1>4 DEF Lifecycle!End, Lifecycle!States
<1>5. CASE \E E, U \in SUBSET Requests : Lifecycle!Sweep(E, U)
  BY <1>5 DEF Lifecycle!Sweep, Lifecycle!States
<1>6. CASE UNCHANGED <<state, log>>
  BY <1>6
<1>7. QED
  BY <1>1, <1>3, <1>4, <1>5, <1>6 DEF LifecycleStep, Lifecycle!Next

----------------------------------------------------------------------------
(* Each step of the processes is a step of the request lifecycle.           *)

LEMMA ExpireDueIsSweep ==
    RequestsOK /\ ExpireDue => Lifecycle!Sweep(Due, {})
BY DEF RequestsOK, ExpireDue, Lifecycle!Sweep, Due

LEMMA RecoverIsSweep ==
    ASSUME RequestsOK, RecoverInterrupted
    PROVE  Lifecycle!Sweep(Due, {r \in Requests : state[r] = "executing"})
BY DEF RequestsOK, RecoverInterrupted, Lifecycle!Sweep, Due

\* The processes refine the lifecycle, one step at a time.
LEMMA StepImplementsLifecycle ==
    ASSUME TypeOK, [Next]_vars
    PROVE  LifecycleStep
<1> USE DEF TypeOK
<1>1. Due \in SUBSET Requests /\ {r \in Requests : state[r] = "executing"} \in SUBSET Requests
  BY DEF Due
<1>2. CASE ExpireDue
  BY <1>1, <1>2, ExpireDueIsSweep DEF LifecycleStep, Lifecycle!Next
<1>3. CASE RecoverInterrupted
  BY <1>1, <1>3, RecoverIsSweep DEF LifecycleStep, Lifecycle!Next
<1>4. CASE UNCHANGED <<state, log>>
  BY <1>4 DEF LifecycleStep
<1>5. ASSUME NEW s \in Proposers, Insert(s) PROVE LifecycleStep
  BY <1>5 DEF Insert, Transition, LifecycleStep, Lifecycle!Next, Lifecycle!Record,
              Lifecycle!Move, requestVars
<1>6. ASSUME NEW p \in Operators, pc[p] # "idle" PROVE target[p] \in Requests
  BY <1>6 DEF OperatorsOK
<1>7. ASSUME NEW p \in Operators, Reject(p) PROVE LifecycleStep
  BY <1>6, <1>7 DEF Reject, Transition, LifecycleStep, Lifecycle!Next, Lifecycle!Reject,
              Lifecycle!Move
<1>8. ASSUME NEW p \in Operators, Claim(p) PROVE LifecycleStep
  BY <1>6, <1>8 DEF Claim, Transition, LifecycleStep, Lifecycle!Next, Lifecycle!Claim,
              Lifecycle!Move
<1>9. ASSUME NEW p \in Operators, Record(p) PROVE LifecycleStep
  <2>1. outcome[p] \in Lifecycle!Endings
    BY <1>9 DEF Record, OperatorsOK, Observing
  <2>2. QED
    BY <1>6, <1>9, <2>1 DEF Record, Transition, LifecycleStep, Lifecycle!Next, Lifecycle!End,
              Lifecycle!Move
<1>10. CASE UNCHANGED vars
  BY <1>4, <1>10 DEF vars, requestVars
<1>11. ASSUME NEW s \in Proposers, Propose(s) \/ Abandon(s) PROVE LifecycleStep
  BY <1>2, <1>4, <1>5, <1>11 DEF Propose, Submit, ReadPolicy, ReadClean, ReadHead, Stamp,
              Abandon, requestVars
<1>12. ASSUME NEW p \in Operators, Operate(p) \/ Crash(p) PROVE LifecycleStep
  BY <1>2, <1>4, <1>7, <1>8, <1>9, <1>12 DEF Operate, Continue, Deny, Approve, Begin,
              PreflightPolicy, PreflightClean, PreflightHead, StampAttempt, Worktree, Run,
              ObserveClean, ObserveHead, Crash, requestVars
<1>13. CASE Administer
  BY <1>2, <1>3, <1>4, <1>13 DEF Administer, BootstrapClient, RevokeClient, RegisterWorkspace,
              GrantWorkspace, RevokeWorkspace, ViewRequest, requestVars
<1>14. CASE Environment
  BY <1>4, <1>14 DEF Environment, Tick, Edit, Commit, requestVars
<1>15. QED
  BY <1>10, <1>11, <1>12, <1>13, <1>14 DEF Next

----------------------------------------------------------------------------
(* Type correctness, one part of the state at a time.                       *)

LEMMA InitTyped == Init => TypeOK
<1> SUFFICES ASSUME Init PROVE TypeOK
  OBVIOUS
<1>1. 0 \in Time
  BY TimeAssumption DEF Time
<1>2. StoreOK
  BY <1>1 DEF Init, StoreOK
<1>3. RequestsOK
  BY DEF Init, RequestsOK, Lifecycle!States
<1>4. ProposersOK
  BY DEF Init, ProposersOK, Steps
<1>5. OperatorsOK
  BY <1>1 DEF Init, OperatorsOK, Stages, Observing
<1>6. QED
  BY <1>2, <1>3, <1>4, <1>5 DEF TypeOK

LEMMA StoreTyped ==
    ASSUME TypeOK, [Next]_vars
    PROVE  StoreOK'
<1> USE DEF TypeOK
<1>1. CASE UNCHANGED <<now, clients, grants, policy, head, clean>>
  BY <1>1 DEF StoreOK
<1>2. ASSUME NEW c \in Clients, BootstrapClient(c) \/ RevokeClient(c) PROVE StoreOK'
  BY <1>2 DEF BootstrapClient, RevokeClient, StoreOK, checkoutVars
<1>3. ASSUME NEW w \in Workspaces, NEW content \in Policies, NEW granted \in SUBSET Clients,
             RegisterWorkspace(w, content, granted)
      PROVE  StoreOK'
  BY <1>3 DEF RegisterWorkspace, StoreOK, checkoutVars
<1>4. ASSUME NEW c \in Clients, NEW w \in Workspaces,
             GrantWorkspace(c, w) \/ RevokeWorkspace(c, w)
      PROVE  StoreOK'
  BY <1>4 DEF GrantWorkspace, RevokeWorkspace, StoreOK, checkoutVars
<1>5. CASE Tick
  BY <1>5, TimeAssumption DEF Tick, StoreOK, Time, storeVars, checkoutVars
<1>6. ASSUME NEW w \in Workspaces, NEW h \in Heads, Commit(w, h) PROVE StoreOK'
  BY <1>6 DEF Commit, StoreOK, storeVars
<1>7. ASSUME NEW w \in Workspaces, Edit(w) PROVE StoreOK'
  BY <1>7 DEF Edit, StoreOK, storeVars
<1>8. CASE ViewRequest \/ RecoverInterrupted \/ UNCHANGED vars
  BY <1>1, <1>8 DEF ViewRequest, RecoverInterrupted, vars, storeVars, checkoutVars
<1>9. ASSUME NEW s \in Proposers, Propose(s) \/ Abandon(s) PROVE StoreOK'
  BY <1>1, <1>9 DEF Propose, Submit, ReadPolicy, ReadClean, ReadHead, Stamp, Insert,
              Abandon, storeVars, checkoutVars
<1>10. ASSUME NEW p \in Operators, Operate(p) \/ Crash(p) PROVE StoreOK'
  BY <1>1, <1>10 DEF Operate, Continue, Deny, Reject, Approve, PreflightPolicy,
              PreflightClean, PreflightHead, StampAttempt, Claim, Worktree, Run,
              ObserveClean, ObserveHead, Record, Crash, storeVars, checkoutVars
<1>11. QED
  BY <1>2, <1>3, <1>4, <1>5, <1>6, <1>7, <1>8, <1>9, <1>10
  DEF Next, Administer, Environment

\* Rows appear with their request and never change afterwards.
LEMMA RequestsTyped ==
    ASSUME TypeOK, [Next]_vars
    PROVE  /\ RequestsOK'
           /\ \A r \in Requests : row[r] # None => row'[r] = row[r]
<1> USE DEF TypeOK
<1>1. LifecycleStep
  BY StepImplementsLifecycle
<1>2. /\ state' \in [Requests -> Lifecycle!States]
      /\ DOMAIN log' = Requests
      /\ \A r \in Requests : state[r] # "absent" => state'[r] # "absent"
  BY <1>1, StepMovesForward DEF RequestsOK
<1>3. ASSUME NEW s \in Proposers, NEW r \in Requests, step[s] = "insert",
             Transition(r, "absent", "pending", "request.pending"),
             row' = [row EXCEPT ![r] = draft[s]]
      PROVE  /\ RequestsOK'
             /\ \A q \in Requests : row[q] # None => row'[q] = row[q]
  <2>1. draft[s] \in Row /\ draft[s] # None
    BY <1>3, NoneAssumption DEF ProposersOK
  <2>2. row' \in [Requests -> Row \cup {None}]
    BY <1>3, <2>1 DEF RequestsOK
  <2>3. \A q \in Requests : state'[q] = "absent" <=> row'[q] = None
    BY <1>3, <2>1 DEF RequestsOK, Transition
  <2>4. \A q \in Requests : row[q] # None => row'[q] = row[q]
    BY <1>3 DEF RequestsOK, Transition
  <2>5. QED
    BY <1>2, <2>2, <2>3, <2>4 DEF RequestsOK
<1>4. ASSUME UNCHANGED row,
             \A r \in Requests : state'[r] # "absent" => state[r] # "absent"
      PROVE  /\ RequestsOK'
             /\ \A r \in Requests : row[r] # None => row'[r] = row[r]
  BY <1>2, <1>4 DEF RequestsOK
<1>5. CASE UNCHANGED <<row, state>>
  BY <1>4, <1>5
<1>6. CASE ExpireDue \/ RecoverInterrupted
  <2>1. UNCHANGED row /\ \A r \in Requests : state'[r] # "absent" => state[r] # "absent"
    BY <1>6 DEF ExpireDue, RecoverInterrupted, Due
  <2>2. QED
    BY <1>4, <2>1
<1>7. ASSUME NEW p \in Operators, Reject(p) \/ Claim(p) \/ Record(p)
      PROVE  UNCHANGED row /\ \A r \in Requests : state'[r] # "absent" => state[r] # "absent"
  BY <1>7 DEF Reject, Claim, Record, Transition, RequestsOK
<1>8. ASSUME NEW s \in Proposers, Propose(s) \/ Abandon(s)
      PROVE  /\ RequestsOK'
             /\ \A r \in Requests : row[r] # None => row'[r] = row[r]
  <2>1. CASE Insert(s)
    BY <1>3, <1>5, <2>1 DEF Insert, requestVars
  <2>2. CASE ~Insert(s)
    BY <1>5, <1>6, <1>8, <2>2 DEF Propose, Submit, ReadPolicy, ReadClean, ReadHead, Stamp,
              Abandon, requestVars
  <2>3. QED
    BY <2>1, <2>2
<1>9. ASSUME NEW p \in Operators, Operate(p) \/ Crash(p)
      PROVE  /\ RequestsOK'
             /\ \A r \in Requests : row[r] # None => row'[r] = row[r]
  <2>1. CASE Reject(p) \/ Claim(p) \/ Record(p)
    BY <1>4, <1>7, <2>1
  <2>2. CASE ~(Reject(p) \/ Claim(p) \/ Record(p))
    BY <1>5, <1>6, <1>9, <2>2 DEF Operate, Continue, Deny, Approve, Begin,
              PreflightPolicy, PreflightClean, PreflightHead, StampAttempt, Worktree, Run,
              ObserveClean, ObserveHead, Crash, requestVars
  <2>3. QED
    BY <2>1, <2>2
<1>10. CASE Administer
  BY <1>5, <1>6, <1>10 DEF Administer, BootstrapClient, RevokeClient, RegisterWorkspace,
              GrantWorkspace, RevokeWorkspace, ViewRequest, requestVars
<1>11. CASE Environment \/ UNCHANGED vars
  BY <1>5, <1>11 DEF Environment, Tick, Edit, Commit, vars, requestVars
<1>12. QED
  BY <1>8, <1>9, <1>10, <1>11 DEF Next

LEMMA ProposersTyped ==
    ASSUME TypeOK, [Next]_vars
    PROVE  ProposersOK'
<1> USE DEF TypeOK
<1>1. CASE UNCHANGED proposerVars
  BY <1>1 DEF ProposersOK, proposerVars
<1>2. ASSUME NEW s \in Proposers, NEW next \in Steps, NEW d \in Row \cup {None},
             Proceed(s, next, d), next = "idle" <=> d = None
      PROVE  ProposersOK'
  BY <1>2 DEF Proceed, ProposersOK
<1>3. ASSUME NEW s \in Proposers, Refuse(s) PROVE ProposersOK'
  BY <1>2, <1>3 DEF Refuse, Steps
<1>4. ASSUME NEW s \in Proposers, step[s] # "idle" PROVE draft[s] \in Row
  BY <1>4 DEF ProposersOK
<1>5. \A d \in Row : d # None
  BY NoneAssumption
<1>6. ASSUME NEW s \in Proposers, NEW c \in Clients, NEW w \in Workspaces, NEW k \in Keys,
             NEW kind \in Kinds, NEW link \in Requests \cup {None},
             Submit(s, c, w, k, kind, link)
      PROVE  ProposersOK'
  <2> DEFINE d == [client |-> c, workspace |-> w, key |-> k, kind |-> kind, link |-> link,
                   policy |-> None, head |-> None, created |-> 0]
  <2>1. 0 \in Time
    BY TimeAssumption DEF Time
  <2>2. d \in Row
    BY <2>1 DEF Row
  <2>3. Proceed(s, "policy", d)
    BY <1>6 DEF Submit
  <2>4. QED
    BY <1>2, <1>5, <2>2, <2>3 DEF Steps
<1>7. ASSUME NEW s \in Proposers, ReadPolicy(s) PROVE ProposersOK'
  <2>1. draft[s] \in Row
    BY <1>4, <1>7 DEF ReadPolicy
  <2>2. policy[draft[s].workspace] \in Policies \cup {None}
    BY <2>1 DEF StoreOK, Row
  <2>3. [draft[s] EXCEPT !.policy = policy[draft[s].workspace]] \in Row
    BY <2>1, <2>2 DEF Row
  <2>4. QED
    BY <1>2, <1>3, <1>5, <1>7, <2>3 DEF ReadPolicy, Steps
<1>8. ASSUME NEW s \in Proposers, ReadClean(s) PROVE ProposersOK'
  <2>1. draft[s] \in Row
    BY <1>4, <1>8 DEF ReadClean
  <2>2. QED
    BY <1>2, <1>3, <1>5, <1>8, <2>1 DEF ReadClean, Steps
<1>9. ASSUME NEW s \in Proposers, ReadHead(s) PROVE ProposersOK'
  <2>1. draft[s] \in Row
    BY <1>4, <1>9 DEF ReadHead
  <2>2. head[draft[s].workspace] \in Heads
    BY <2>1 DEF StoreOK, Row
  <2>3. [draft[s] EXCEPT !.head = head[draft[s].workspace]] \in Row
    BY <2>1, <2>2 DEF Row
  <2>4. QED
    BY <1>2, <1>5, <1>9, <2>3 DEF ReadHead, Steps
<1>10. ASSUME NEW s \in Proposers, Stamp(s) PROVE ProposersOK'
  <2>1. draft[s] \in Row
    BY <1>4, <1>10 DEF Stamp
  <2>2. [draft[s] EXCEPT !.created = now] \in Row
    BY <2>1 DEF Row, StoreOK
  <2>3. QED
    BY <1>2, <1>3, <1>5, <1>10, <2>2 DEF Stamp, Steps
<1>11. ASSUME NEW s \in Proposers, Insert(s) \/ Abandon(s) PROVE ProposersOK'
  BY <1>3, <1>11 DEF Insert, Abandon
<1>12. ASSUME NEW p \in Operators, Operate(p) \/ Crash(p) PROVE UNCHANGED proposerVars
  BY <1>12 DEF Operate, Continue, Deny, Reject, Approve, PreflightPolicy,
              PreflightClean, PreflightHead, StampAttempt, Claim, Worktree, Run,
              ObserveClean, ObserveHead, Record, Crash
<1>13. ASSUME Administer PROVE UNCHANGED proposerVars
  BY <1>13 DEF Administer, BootstrapClient, RevokeClient, RegisterWorkspace,
              GrantWorkspace, RevokeWorkspace, ViewRequest, RecoverInterrupted
<1>14. ASSUME Environment \/ UNCHANGED vars PROVE UNCHANGED proposerVars
  BY <1>14 DEF Environment, Tick, Edit, Commit, vars
<1>15. QED
  BY <1>1, <1>6, <1>7, <1>8, <1>9, <1>10, <1>11, <1>12, <1>13, <1>14 DEF Next, Propose

\* Where an operator's command can go: its new stage suits its target.
LEMMA OperatorMoves ==
    ASSUME TypeOK, RequestsOK', NEW p \in Operators,
           \A r \in Requests : state[r] # "absent" => state'[r] # "absent",
           NEW next \in Stages, NEW r \in Requests \cup {None}, NEW at \in Time,
           NEW event \in Lifecycle!Endings \cup {None},
           pc' = [pc EXCEPT ![p] = next],
           target' = [target EXCEPT ![p] = r],
           started' = [started EXCEPT ![p] = at],
           outcome' = [outcome EXCEPT ![p] = event],
           next = "idle" <=> r = None,
           r # None => state[r] # "absent",
           next \in Observing => event # None
    PROVE  OperatorsOK'
BY DEF TypeOK, OperatorsOK

LEMMA OperatorsTyped ==
    ASSUME TypeOK, [Next]_vars
    PROVE  OperatorsOK'
<1> USE DEF TypeOK
<1>1. RequestsOK'
  BY RequestsTyped
<1>2. \A r \in Requests : state[r] # "absent" => state'[r] # "absent"
  BY StepImplementsLifecycle, StepMovesForward DEF RequestsOK
<1>3. CASE UNCHANGED operatorVars
  BY <1>2, <1>3 DEF OperatorsOK, operatorVars
<1>4. ASSUME NEW p \in Operators, Leave(p) PROVE OperatorsOK'
  <2>1. 0 \in Time
    BY TimeAssumption DEF Time
  <2>2. QED
    BY <1>1, <1>2, <1>4, <2>1, OperatorMoves DEF Leave, Stages, Observing
<1>5. ASSUME NEW p \in Operators, pc[p] # "idle"
      PROVE  /\ target[p] \in Requests /\ target[p] # None /\ state[target[p]] # "absent"
             /\ started[p] \in Time /\ outcome[p] \in Lifecycle!Endings \cup {None}
             /\ target = [target EXCEPT ![p] = target[p]]
             /\ started = [started EXCEPT ![p] = started[p]]
             /\ outcome = [outcome EXCEPT ![p] = outcome[p]]
  BY <1>5 DEF OperatorsOK
<1>6. ASSUME NEW p \in Operators, NEW next \in Stages, pc[p] # "idle", Advance(p, next),
             next # "idle", next \notin Observing
      PROVE  OperatorsOK'
  <2>1. /\ pc' = [pc EXCEPT ![p] = next]
        /\ target' = [target EXCEPT ![p] = target[p]]
        /\ started' = [started EXCEPT ![p] = started[p]]
        /\ outcome' = [outcome EXCEPT ![p] = outcome[p]]
    BY <1>5, <1>6 DEF Advance
  <2>2. QED
    BY <1>1, <1>2, <1>5, <1>6, <2>1, OperatorMoves
<1>7. ASSUME NEW p \in Operators, NEW event \in Lifecycle!Endings, NEW next \in Observing,
             pc[p] # "idle", Earn(p, event, next)
      PROVE  OperatorsOK'
  <2>1. event # None
    BY NoneAssumption
  <2>2. next \in Stages /\ next # "idle"
    BY DEF Stages, Executing, Observing
  <2>3. /\ pc' = [pc EXCEPT ![p] = next] /\ outcome' = [outcome EXCEPT ![p] = event]
        /\ target' = [target EXCEPT ![p] = target[p]]
        /\ started' = [started EXCEPT ![p] = started[p]]
    BY <1>5, <1>7 DEF Earn
  <2>4. /\ target[p] \in Requests /\ target[p] # None /\ state[target[p]] # "absent"
        /\ started[p] \in Time /\ event \in Lifecycle!Endings \cup {None}
    BY <1>5, <1>7
  <2>5. QED
    BY <1>1, <1>2, <2>1, <2>2, <2>3, <2>4, OperatorMoves
<1>8. ASSUME NEW p \in Operators, NEW r \in Requests, NEW next \in Stages, Begin(p, r, next),
             next # "idle", next \notin Observing
      PROVE  OperatorsOK'
  <2>1. state[r] # "absent" /\ r # None
    BY <1>8, NoneAssumption DEF Begin, Present, RequestsOK
  <2>2. /\ started[p] \in Time /\ outcome[p] \in Lifecycle!Endings \cup {None}
        /\ started = [started EXCEPT ![p] = started[p]]
        /\ outcome = [outcome EXCEPT ![p] = outcome[p]]
    BY DEF OperatorsOK
  <2>3. /\ pc' = [pc EXCEPT ![p] = next] /\ target' = [target EXCEPT ![p] = r]
        /\ started' = [started EXCEPT ![p] = started[p]]
        /\ outcome' = [outcome EXCEPT ![p] = outcome[p]]
    BY <1>8, <2>2 DEF Begin
  <2>4. QED
    BY <1>1, <1>2, <1>8, <2>1, <2>2, <2>3, OperatorMoves
<1>9. ASSUME NEW p \in Operators, NEW r \in Requests, Deny(p, r) \/ Approve(p, r)
      PROVE  OperatorsOK'
  BY <1>3, <1>8, <1>9 DEF Deny, Approve, Stages, Executing, Observing
<1>10. ASSUME NEW p \in Operators, Reject(p) \/ Record(p) \/ Crash(p) PROVE OperatorsOK'
  BY <1>4, <1>10 DEF Reject, Record, Crash
<1>11. ASSUME NEW p \in Operators, PreflightPolicy(p) \/ PreflightClean(p) \/ PreflightHead(p)
       PROVE  OperatorsOK'
  BY <1>4, <1>6, <1>11 DEF PreflightPolicy, PreflightClean, PreflightHead, AdvanceIf,
              Stages, Executing, Observing
<1>12. ASSUME NEW p \in Operators, StampAttempt(p) PROVE OperatorsOK'
  <2>1. now \in Time
    BY DEF StoreOK
  <2>2. CASE LinkHolds(row[target[p]])
    <3>1. /\ pc[p] # "idle"
          /\ pc' = [pc EXCEPT ![p] = "claim"]
          /\ started' = [started EXCEPT ![p] = now]
          /\ UNCHANGED <<target, outcome>>
      BY <1>12, <2>2 DEF StampAttempt
    <3>2. /\ target' = [target EXCEPT ![p] = target[p]]
          /\ outcome' = [outcome EXCEPT ![p] = outcome[p]]
      BY <1>5, <3>1
    <3>3. "claim" \in Stages /\ "claim" # "idle" /\ "claim" \notin Observing
      BY DEF Stages, Observing
    <3>4. /\ target[p] \in Requests /\ target[p] # None /\ state[target[p]] # "absent"
          /\ outcome[p] \in Lifecycle!Endings \cup {None}
      BY <1>5, <3>1
    <3>5. pc' = [pc EXCEPT ![p] = "claim"] /\ started' = [started EXCEPT ![p] = now]
      BY <3>1
    <3>6. QED
      BY <1>1, <1>2, <2>1, <3>2, <3>3, <3>4, <3>5, OperatorMoves
  <2>3. CASE ~LinkHolds(row[target[p]])
    BY <1>4, <1>12, <2>3 DEF StampAttempt
  <2>4. QED
    BY <2>2, <2>3
<1>13. ASSUME NEW p \in Operators, Claim(p) PROVE OperatorsOK'
  BY <1>4, <1>6, <1>13 DEF Claim, Stages, Executing, Observing
<1>14. ASSUME NEW p \in Operators, Worktree(p) \/ Run(p) PROVE OperatorsOK'
  BY <1>6, <1>7, <1>14 DEF Worktree, Run, Stages, Executing, Observing, Lifecycle!Endings
<1>15. ASSUME NEW p \in Operators, ObserveClean(p) \/ ObserveHead(p) PROVE OperatorsOK'
  <2>1. outcome[p] \in Lifecycle!Endings
    BY <1>15 DEF ObserveClean, ObserveHead, OperatorsOK, Observing
  <2>2. QED
    BY <1>7, <1>15, <2>1 DEF ObserveClean, ObserveHead, Observe, Observing, Lifecycle!Endings
<1>16. ASSUME NEW s \in Proposers, Propose(s) \/ Abandon(s) PROVE UNCHANGED operatorVars
  BY <1>16 DEF Propose, Submit, ReadPolicy, ReadClean, ReadHead, Stamp, Insert, Abandon
<1>17. ASSUME Administer PROVE UNCHANGED operatorVars
  BY <1>17 DEF Administer, BootstrapClient, RevokeClient, RegisterWorkspace,
              GrantWorkspace, RevokeWorkspace, ViewRequest, RecoverInterrupted
<1>18. ASSUME Environment \/ UNCHANGED vars PROVE UNCHANGED operatorVars
  BY <1>18 DEF Environment, Tick, Edit, Commit, vars
<1>19. QED
  BY <1>3, <1>9, <1>10, <1>11, <1>12, <1>13, <1>14, <1>15, <1>16, <1>17, <1>18
  DEF Next, Operate, Continue

\* Every variable of the approval boundary keeps its type, in every interleaving
\* of its processes (service.py and storage.py).
THEOREM TypeCorrect == Spec => []TypeOK
<1>1. TypeOK /\ [Next]_vars => TypeOK'
  BY StoreTyped, RequestsTyped, ProposersTyped, OperatorsTyped DEF TypeOK
<1>2. QED
  BY <1>1, InitTyped, PTL DEF Spec

\* The processes together do what RequestLifecycle says of the store of requests:
\* each transaction is one lifecycle step, everything else a stutter.
THEOREM RefinesLifecycle == Spec => ImplementsLifecycle
<1>1. Init => Lifecycle!Init
  BY DEF Init, Lifecycle!Init
<1>2. TypeOK /\ [Next]_vars => [Lifecycle!Next]_Lifecycle!vars
  BY StepImplementsLifecycle DEF LifecycleStep, Lifecycle!vars
<1>3. QED
  BY <1>1, <1>2, TypeCorrect, PTL DEF Spec, ImplementsLifecycle, Lifecycle!Spec

----------------------------------------------------------------------------
(* Exclusive execution and authority.                                       *)

\* The strengthening that makes exclusive execution inductive: what an operator
\* executes has been claimed, so nobody else can claim it any more.
Claimed == \A p \in Operators :
              pc[p] \in Executing => state[target[p]] \notin {"absent", "pending"}

\* Only its claim brings an operator from outside an execution into one.
LEMMA OnlyClaimEnters ==
    ASSUME TypeOK, [Next]_vars, NEW p \in Operators, pc'[p] \in Executing, ~Claim(p)
    PROVE  pc[p] \in Executing /\ target'[p] = target[p]
<1> USE DEF TypeOK
<1>1. CASE UNCHANGED operatorVars
  BY <1>1 DEF operatorVars
<1>2. "idle" \notin Executing
  BY DEF Executing, Observing
<1>3. ASSUME NEW q \in Operators, NEW next \in Stages, Advance(q, next),
             next \in Executing => pc[q] \in Executing
      PROVE  pc[p] \in Executing /\ target'[p] = target[p]
  BY <1>3 DEF Advance, OperatorsOK
<1>4. ASSUME NEW q \in Operators, Leave(q)
      PROVE  pc[p] \in Executing /\ target'[p] = target[p]
  BY <1>2, <1>4 DEF Leave, OperatorsOK
<1>5. ASSUME NEW q \in Operators, NEW event, NEW next \in Stages, Earn(q, event, next),
             pc[q] \in Executing
      PROVE  pc[p] \in Executing /\ target'[p] = target[p]
  BY <1>5 DEF Earn, OperatorsOK
<1>6. ASSUME NEW q \in Operators, NEW r \in Requests, Deny(q, r) \/ Approve(q, r)
      PROVE  pc[p] \in Executing /\ target'[p] = target[p]
  BY <1>1, <1>6 DEF Deny, Approve, Begin, OperatorsOK, Executing, Observing
<1>7. ASSUME NEW q \in Operators, Reject(q) \/ Record(q) \/ Crash(q)
      PROVE  pc[p] \in Executing /\ target'[p] = target[p]
  BY <1>4, <1>7 DEF Reject, Record, Crash
<1>8. ASSUME NEW q \in Operators, PreflightPolicy(q) \/ PreflightClean(q) \/ PreflightHead(q)
      PROVE  pc[p] \in Executing /\ target'[p] = target[p]
  BY <1>3, <1>4, <1>8 DEF PreflightPolicy, PreflightClean, PreflightHead, AdvanceIf,
              Stages, Executing, Observing
<1>9. ASSUME NEW q \in Operators, StampAttempt(q)
      PROVE  pc[p] \in Executing /\ target'[p] = target[p]
  <2>1. CASE LinkHolds(row[target[q]])
    BY <1>9, <2>1 DEF StampAttempt, OperatorsOK, Executing, Observing
  <2>2. CASE ~LinkHolds(row[target[q]])
    BY <1>4, <1>9, <2>2 DEF StampAttempt
  <2>3. QED
    BY <2>1, <2>2
<1>10. ASSUME NEW q \in Operators, Claim(q)
       PROVE  pc[p] \in Executing /\ target'[p] = target[p]
  BY <1>4, <1>10 DEF Claim, Advance, OperatorsOK
<1>11. ASSUME NEW q \in Operators, Worktree(q) \/ Run(q)
       PROVE  pc[p] \in Executing /\ target'[p] = target[p]
  BY <1>3, <1>5, <1>11 DEF Worktree, Run, Stages, Executing, Observing
<1>12. ASSUME NEW q \in Operators, ObserveClean(q) \/ ObserveHead(q)
       PROVE  pc[p] \in Executing /\ target'[p] = target[p]
  BY <1>5, <1>12 DEF ObserveClean, ObserveHead, Observe, Stages, Executing, Observing
<1>13. ASSUME NEW s \in Proposers, Propose(s) \/ Abandon(s) PROVE UNCHANGED operatorVars
  BY <1>13 DEF Propose, Submit, ReadPolicy, ReadClean, ReadHead, Stamp, Insert, Abandon
<1>14. ASSUME Administer PROVE UNCHANGED operatorVars
  BY <1>14 DEF Administer, BootstrapClient, RevokeClient, RegisterWorkspace,
              GrantWorkspace, RevokeWorkspace, ViewRequest, RecoverInterrupted
<1>15. ASSUME Environment \/ UNCHANGED vars PROVE UNCHANGED operatorVars
  BY <1>15 DEF Environment, Tick, Edit, Commit, vars
<1>16. QED
  BY <1>1, <1>6, <1>7, <1>8, <1>9, <1>10, <1>11, <1>12, <1>13, <1>14, <1>15
  DEF Next, Operate, Continue

ExecutionInv == TypeOK /\ Claimed /\ ExclusiveExecution

LEMMA ExecutionStep ==
    ExecutionInv /\ [Next]_vars => ExecutionInv'
<1> SUFFICES ASSUME ExecutionInv, [Next]_vars PROVE ExecutionInv'
  OBVIOUS
<1> USE DEF ExecutionInv
<1>1. TypeOK'
  BY StoreTyped, RequestsTyped, ProposersTyped, OperatorsTyped DEF TypeOK
<1>2. ASSUME NEW r \in Requests, state[r] \notin {"absent", "pending"}
      PROVE  state'[r] \notin {"absent", "pending"}
  BY <1>2, StepImplementsLifecycle, StepMovesForward DEF TypeOK, RequestsOK
<1>3. ASSUME NEW p \in Operators, Claim(p), pc'[p] \in Executing
      PROVE  /\ target'[p] = target[p] /\ target[p] \in Requests
             /\ state[target[p]] = "pending" /\ state'[target[p]] = "executing"
             /\ \A q \in Operators \ {p} : pc'[q] = pc[q] /\ target'[q] = target[q]
  <2>1. target[p] \in Requests
    BY <1>3 DEF Claim, TypeOK, OperatorsOK
  <2>2. "idle" \notin Executing
    BY DEF Executing, Observing
  <2>3. Claimable(target[p], started[p])
    BY <1>3, <2>2 DEF Claim, Leave, TypeOK, OperatorsOK
  <2>4. QED
    BY <1>3, <2>1, <2>3 DEF Claim, Transition, Advance, TypeOK, OperatorsOK, RequestsOK
<1>4. ASSUME NEW p \in Operators, pc'[p] \in Executing, ~Claim(p)
      PROVE  pc[p] \in Executing /\ target'[p] = target[p] /\ target[p] \in Requests
  <2>1. pc[p] \in Executing /\ target'[p] = target[p]
    BY <1>4, OnlyClaimEnters
  <2>2. "idle" \notin Executing
    BY DEF Executing, Observing
  <2>3. QED
    BY <2>1, <2>2 DEF TypeOK, OperatorsOK
<1>5. Claimed'
  <2> SUFFICES ASSUME NEW p \in Operators, pc'[p] \in Executing
               PROVE  state'[target'[p]] \notin {"absent", "pending"}
    BY DEF Claimed
  <2>1. CASE Claim(p)
    BY <1>3, <2>1
  <2>2. CASE ~Claim(p)
    BY <1>2, <1>4, <2>2 DEF Claimed
  <2>3. QED
    BY <2>1, <2>2
<1>6. ExclusiveExecution'
  <2> SUFFICES ASSUME NEW r \in Requests, NEW p \in Operators, NEW q \in Operators,
                      pc'[p] \in Executing, target'[p] = r,
                      pc'[q] \in Executing, target'[q] = r
               PROVE  p = q
    BY DEF ExclusiveExecution, Executes
  \* A claim finds the request pending, so nobody executes it yet.
  <2>1. ASSUME NEW a \in Operators, NEW b \in Operators, Claim(a), a # b,
               pc'[a] \in Executing, target'[a] = r,
               pc'[b] \in Executing, target'[b] = r
        PROVE  FALSE
    <3>1. pc[b] \in Executing /\ target[b] = r /\ state[r] = "pending"
      BY <1>3, <2>1
    <3>2. QED
      BY <3>1 DEF Claimed
  <2>2. CASE ~Claim(p) /\ ~Claim(q)
    <3>1. pc[p] \in Executing /\ target[p] = r /\ pc[q] \in Executing /\ target[q] = r
      BY <1>4, <2>2
    <3>2. QED
      BY <3>1 DEF ExclusiveExecution, Executes
  <2>3. QED
    BY <2>1, <2>2
<1>7. QED
  BY <1>1, <1>5, <1>6

\* No request is ever executed by two operators at a time, whatever recovery,
\* expiry, denial and crashes do (claim_request_for_execution).
THEOREM ExecutionIsExclusive == Spec => []ExclusiveExecution
<1>1. Init => ExecutionInv
  <2>1. "idle" \notin Executing
    BY DEF Executing, Observing
  <2>2. QED
    BY <2>1, InitTyped DEF Init, ExecutionInv, Claimed, ExclusiveExecution, Executes
<1>2. ExecutionInv => ExclusiveExecution
  BY DEF ExecutionInv
<1>3. QED
  BY <1>1, <1>2, ExecutionStep, PTL DEF Spec

\* A request starts executing only in the claim of an operator that holds it, and
\* only with the authority it was made under.
LEMMA ClaimHasAuthority ==
    ASSUME TypeOK, [Next]_vars, NEW r \in Requests,
           state[r] = "pending", state'[r] = "executing"
    PROVE  /\ row[r].client \in clients
           /\ <<row[r].client, row[r].workspace>> \in grants
           /\ policy[row[r].workspace] = row[r].policy
<1> USE DEF TypeOK
<1>1. ASSUME NEW p \in Operators, Claim(p)
      PROVE  /\ row[r].client \in clients
             /\ <<row[r].client, row[r].workspace>> \in grants
             /\ policy[row[r].workspace] = row[r].policy
  BY <1>1 DEF Claim, Claimable, Granted, Transition, RequestsOK, Leave
<1>2. ~(UNCHANGED state) /\ ~ExpireDue /\ ~RecoverInterrupted
  BY DEF ExpireDue, RecoverInterrupted
<1>3. ASSUME NEW s \in Proposers, Propose(s) \/ Abandon(s) PROVE FALSE
  BY <1>2, <1>3 DEF Propose, Submit, ReadPolicy, ReadClean, ReadHead, Stamp, Insert,
              Abandon, Transition, RequestsOK, requestVars
<1>4. ASSUME NEW p \in Operators, Reject(p) PROVE FALSE
  BY <1>2, <1>4 DEF Reject, Transition, RequestsOK
<1>5. ASSUME NEW p \in Operators, Record(p) PROVE FALSE
  BY <1>2, <1>5 DEF Record, Transition, RequestsOK
<1>6. ASSUME NEW p \in Operators, Operate(p) \/ Crash(p) PROVE Claim(p)
  BY <1>2, <1>4, <1>5, <1>6 DEF Operate, Continue, Deny, Approve, Begin, PreflightPolicy,
              PreflightClean, PreflightHead, StampAttempt, Worktree, Run, ObserveClean,
              ObserveHead, Crash, requestVars
<1>7. ASSUME Administer PROVE FALSE
  BY <1>2, <1>7 DEF Administer, BootstrapClient, RevokeClient, RegisterWorkspace,
              GrantWorkspace, RevokeWorkspace, ViewRequest, requestVars
<1>8. ASSUME Environment \/ UNCHANGED vars PROVE FALSE
  BY <1>2, <1>8 DEF Environment, Tick, Edit, Commit, vars, requestVars
<1>9. QED
  BY <1>1, <1>3, <1>6, <1>7, <1>8 DEF Next

\* Revocation and re-registration, at whatever time they come, are respected by
\* every execution that starts after them (claim_request_for_execution).
THEOREM AuthorityIsCurrent == Spec => AuthorityAtClaim
<1>1. TypeOK /\ [Next]_vars =>
        [\A r \in Requests :
            state[r] = "pending" /\ state'[r] = "executing" =>
               /\ row[r].client \in clients
               /\ <<row[r].client, row[r].workspace>> \in grants
               /\ policy[row[r].workspace] = row[r].policy]_vars
  BY ClaimHasAuthority
<1>2. QED
  BY <1>1, TypeCorrect, PTL DEF Spec, AuthorityAtClaim

----------------------------------------------------------------------------
(* What the rows of the store say together.                                 *)

\* Rows change in one transaction only, and it has looked for its key and counted.
LEMMA RowsGrowByInsert ==
    ASSUME TypeOK, [Next]_vars
    PROVE  \/ UNCHANGED row
           \/ \E s \in Proposers, r \in Requests :
                 /\ step[s] = "insert" /\ draft[s] \in Row
                 /\ row[r] = None /\ row' = [row EXCEPT ![r] = draft[s]]
                 /\ SameKey(draft[s]) = {} /\ WithinQuotas(draft[s])
<1> USE DEF TypeOK
<1>1. ASSUME NEW s \in Proposers, Insert(s)
      PROVE  \/ UNCHANGED row
             \/ \E r \in Requests :
                   /\ step[s] = "insert" /\ draft[s] \in Row
                   /\ row[r] = None /\ row' = [row EXCEPT ![r] = draft[s]]
                   /\ SameKey(draft[s]) = {} /\ WithinQuotas(draft[s])
  <2>1. step[s] = "insert" /\ draft[s] \in Row
    BY <1>1 DEF Insert, ProposersOK
  <2>2. QED
    BY <1>1, <2>1 DEF Insert, Transition, RequestsOK, requestVars
<1>2. ASSUME NEW s \in Proposers, Propose(s) \/ Abandon(s), ~Insert(s) PROVE UNCHANGED row
  BY <1>2 DEF Propose, Submit, ReadPolicy, ReadClean, ReadHead, Stamp, Abandon, ExpireDue,
              requestVars
<1>3. ASSUME NEW p \in Operators, Operate(p) \/ Crash(p) PROVE UNCHANGED row
  BY <1>3 DEF Operate, Continue, Deny, Reject, Approve, Begin, PreflightPolicy,
              PreflightClean, PreflightHead, StampAttempt, Claim, Worktree, Run,
              ObserveClean, ObserveHead, Record, Crash, ExpireDue, requestVars
<1>4. ASSUME Administer PROVE UNCHANGED row
  BY <1>4 DEF Administer, BootstrapClient, RevokeClient, RegisterWorkspace, GrantWorkspace,
              RevokeWorkspace, ViewRequest, RecoverInterrupted, ExpireDue, requestVars
<1>5. ASSUME Environment \/ UNCHANGED vars PROVE UNCHANGED row
  BY <1>5 DEF Environment, Tick, Edit, Commit, vars, requestVars
<1>6. QED
  BY <1>1, <1>2, <1>3, <1>4, <1>5 DEF Next

\* A retry of a call finds the request the first one made, however the two race
\* (add_request looks for the key in the transaction that inserts the row).
THEOREM RetriesAreOne == Spec => []OneRequestPerKey
<1>1. Init => OneRequestPerKey
  BY DEF Init, OneRequestPerKey, Present
<1>2. ASSUME TypeOK, OneRequestPerKey, [Next]_vars PROVE OneRequestPerKey'
  <2>1. CASE UNCHANGED row
    BY <1>2, <2>1 DEF OneRequestPerKey, Present
  <2>2. ASSUME NEW s \in Proposers, NEW r \in Requests,
               row[r] = None, row' = [row EXCEPT ![r] = draft[s]], SameKey(draft[s]) = {}
        PROVE  OneRequestPerKey'
    <3>1. row \in [Requests -> Row \cup {None}]
      BY <1>2 DEF TypeOK, RequestsOK
    <3>2. row'[r] = draft[s] /\ \A q \in Requests \ {r} : row'[q] = row[q]
      BY <2>2, <3>1
    <3>3. \A q \in Present : ~(row[q].client = draft[s].client /\ row[q].key = draft[s].key)
      BY <2>2 DEF SameKey
    <3>4. QED
      BY <1>2, <2>2, <3>2, <3>3 DEF OneRequestPerKey, Present
  <2>3. QED
    BY <1>2, <2>1, <2>2, RowsGrowByInsert
<1>3. TypeOK /\ OneRequestPerKey /\ [Next]_vars => OneRequestPerKey'
  BY <1>2
<1>4. QED
  BY <1>1, <1>3, TypeCorrect, PTL DEF Spec

----------------------------------------------------------------------------
(* Limits.  What is counted is finite because it grows by one row at a time. *)

LEMMA CountShrinks ==
    ASSUME NEW S, NEW T, IsFiniteSet(S), T \subseteq S
    PROVE  IsFiniteSet(T) /\ Cardinality(T) \in Nat /\ Cardinality(T) <= Cardinality(S)
BY FS_Subset, FS_CardinalityType

LEMMA CountGrows ==
    ASSUME NEW S, NEW T, NEW x, NEW n \in Nat,
           IsFiniteSet(S), Cardinality(S) < n, T \subseteq S \cup {x}
    PROVE  IsFiniteSet(T) /\ Cardinality(T) <= n
<1>1. /\ IsFiniteSet(S \cup {x})
      /\ Cardinality(S \cup {x}) = IF x \in S THEN Cardinality(S) ELSE Cardinality(S) + 1
  BY FS_AddElement
<1>2. IsFiniteSet(T) /\ Cardinality(T) \in Nat /\ Cardinality(T) <= Cardinality(S \cup {x})
  BY <1>1, CountShrinks
<1>3. Cardinality(S) \in Nat
  BY FS_CardinalityType
<1>4. QED
  BY <1>1, <1>2, <1>3

\* The rows of client c created in the interval of the rate window that starts at t.
Burst(c, t) == {r \in OfClient(c) : row[r].created \in t..(t + Window)}

\* Only a request that is inserted becomes pending.
LEMMA PendingComesWithItsRow ==
    ASSUME TypeOK, [Next]_vars, NEW q \in Requests, row'[q] = row[q], state'[q] = "pending"
    PROVE  state[q] = "pending"
BY RequestsTyped, StepImplementsLifecycle, StepMovesForward DEF TypeOK, RequestsOK

\* A step that inserts no row adds to no count.
LEMMA CountsWithoutInsert ==
    ASSUME TypeOK, [Next]_vars, UNCHANGED row
    PROVE  /\ Present' = Present /\ Pending' \subseteq Pending
           /\ \A c : OfClient(c)' = OfClient(c)
           /\ \A c : \A t \in Time : Burst(c, t)' = Burst(c, t)
<1>1. Present' = Present
  BY DEF Present
<1>2. Pending' \subseteq Pending
  BY PendingComesWithItsRow DEF Pending
<1>3. \A c : OfClient(c)' = OfClient(c)
  BY <1>1 DEF OfClient
<1>4. QED
  BY <1>1, <1>2, <1>3 DEF Burst

\* The insertion of a draft adds its row, and counts for its client only.
LEMMA CountsAfterInsert ==
    ASSUME TypeOK, [Next]_vars, NEW d \in Row, NEW r \in Requests,
           row[r] = None, row' = [row EXCEPT ![r] = d]
    PROVE  /\ Present' \subseteq Present \cup {r} /\ Pending' \subseteq Pending \cup {r}
           /\ OfClient(d.client)' \subseteq OfClient(d.client) \cup {r}
           /\ \A c : c # d.client => OfClient(c)' \subseteq OfClient(c)
           /\ \A t \in Time : d.created \in t..(t + Window) =>
                 Burst(d.client, t)' \subseteq Recent(d) \cup {r}
           /\ \A t \in Time : d.created \notin t..(t + Window) =>
                 Burst(d.client, t)' \subseteq Burst(d.client, t)
           /\ \A c : \A t \in Time : c # d.client => Burst(c, t)' \subseteq Burst(c, t)
<1>1. row'[r] = d /\ \A q \in Requests \ {r} : row'[q] = row[q]
  BY DEF TypeOK, RequestsOK
<1>2. Present' \subseteq Present \cup {r}
  BY <1>1 DEF Present
<1>3. Pending' \subseteq Pending \cup {r}
  BY <1>1, PendingComesWithItsRow DEF Pending
<1>4. OfClient(d.client)' \subseteq OfClient(d.client) \cup {r}
  BY <1>1, <1>2 DEF OfClient, Present
<1>5. \A c : c # d.client => OfClient(c)' \subseteq OfClient(c)
  BY <1>1, <1>2 DEF OfClient, Present
<1>6. ASSUME NEW t \in Time, d.created \in t..(t + Window)
      PROVE  Burst(d.client, t)' \subseteq Recent(d) \cup {r}
  <2>1. SUFFICES ASSUME NEW q \in OfClient(d.client), q # r, row[q].created \in t..(t + Window)
                 PROVE  row[q].created >= d.created - Window
    BY <1>1, <1>4 DEF Burst, Recent, OfClient, Present
  <2>2. t \in Int /\ d.created \in Int /\ Window \in Int
    BY <1>6, TimeAssumption DEF Time
  <2>3. QED
    BY <1>6, <2>1, <2>2
<1>7. ASSUME NEW t \in Time, d.created \notin t..(t + Window)
      PROVE  Burst(d.client, t)' \subseteq Burst(d.client, t)
  BY <1>1, <1>4, <1>7 DEF Burst, OfClient, Present
<1>8. ASSUME NEW c, NEW t \in Time, c # d.client
      PROVE  Burst(c, t)' \subseteq Burst(c, t)
  BY <1>1, <1>5, <1>8 DEF Burst, OfClient, Present
<1>9. QED
  BY <1>2, <1>3, <1>4, <1>5, <1>6, <1>7, <1>8

\* The limits, with what makes them inductive: only finitely many rows exist.
Limited == IsFiniteSet(Present) /\ QuotasHold /\ RateHolds

\* What is counted is a part of the rows.
LEMMA CountsAreFinite ==
    ASSUME TypeOK, IsFiniteSet(Present)
    PROVE  /\ IsFiniteSet(Pending)
           /\ \A c : IsFiniteSet(OfClient(c)) /\ IsFiniteSet(OfClient(c) \cap Pending)
           /\ \A c : \A t \in Time : IsFiniteSet(Burst(c, t))
           /\ \A d : IsFiniteSet(Recent(d))
<1>1. Pending \subseteq Present
  BY DEF TypeOK, RequestsOK, Pending, Present
<1>2. ASSUME NEW c PROVE OfClient(c) \subseteq Present
  BY DEF OfClient
<1>3. ASSUME NEW c, NEW t \in Time PROVE Burst(c, t) \subseteq Present
  BY <1>2 DEF Burst
<1>4. ASSUME NEW d PROVE Recent(d) \subseteq Present
  BY <1>2 DEF Recent
<1>5. ASSUME NEW c PROVE OfClient(c) \cap Pending \subseteq Present
  BY <1>2
<1>6. \A T : T \subseteq Present => IsFiniteSet(T)
  BY CountShrinks
<1>7. QED
  BY <1>1, <1>2, <1>3, <1>4, <1>5, <1>6

LEMMA LimitsAreKept ==
    ASSUME TypeOK, Limited, [Next]_vars
    PROVE  Limited'
<1>1. CASE UNCHANGED row
  <2>1. IsFiniteSet(Present)'
    BY <1>1, CountsWithoutInsert DEF Limited
  <2>2. QuotasHold'
    <3>1. Cardinality(Pending') \in Nat /\ Cardinality(Pending') <= Cardinality(Pending)
      BY <1>1, CountsWithoutInsert, CountsAreFinite, CountShrinks DEF Limited
    <3>2. Cardinality(Pending) \in Nat
      BY CountsAreFinite, CountShrinks DEF Limited
    <3>3. Cardinality(Pending') <= MaxPendingGlobal
      BY <3>1, <3>2, LimitAssumption DEF Limited, QuotasHold
    <3>4. ASSUME NEW c \in Clients
          PROVE  /\ Cardinality(OfClient(c)') <= MaxTotalClient
                 /\ Cardinality(OfClient(c)' \cap Pending') <= MaxPendingClient
      <4>1. /\ OfClient(c)' = OfClient(c)
            /\ OfClient(c)' \cap Pending' \subseteq OfClient(c) \cap Pending
        BY <1>1, CountsWithoutInsert
      <4>2. /\ Cardinality(OfClient(c)' \cap Pending') \in Nat
            /\ Cardinality(OfClient(c) \cap Pending) \in Nat
            /\ Cardinality(OfClient(c)' \cap Pending') <= Cardinality(OfClient(c) \cap Pending)
        BY <4>1, CountsAreFinite, CountShrinks DEF Limited
      <4>3. QED
        BY <4>1, <4>2, LimitAssumption DEF Limited, QuotasHold
    <3>5. QED
      BY <1>1, <3>3, <3>4, CountsWithoutInsert DEF Limited, QuotasHold
  <2>3. RateHolds'
    <3>1. \A c \in Clients, t \in Time : Burst(c, t)' = Burst(c, t)
      BY <1>1, CountsWithoutInsert
    <3>2. QED
      BY <3>1 DEF Limited, RateHolds, Burst
  <2>4. QED
    BY <2>1, <2>2, <2>3 DEF Limited
<1>2. ASSUME NEW d \in Row, NEW r \in Requests,
             row[r] = None, row' = [row EXCEPT ![r] = d], WithinQuotas(d)
      PROVE  Limited'
  <2> d.client \in Clients
    BY DEF Row
  <2>1. IsFiniteSet(Present') /\ Cardinality(Present') <= MaxTotal
    <3>1. Present' \subseteq Present \cup {r} /\ Cardinality(Present) < MaxTotal
      BY <1>2, CountsAfterInsert DEF WithinQuotas
    <3>2. QED
      BY <3>1, CountGrows, LimitAssumption DEF Limited
  <2>2. Cardinality(Pending') <= MaxPendingGlobal
    <3>1. Pending' \subseteq Pending \cup {r} /\ Cardinality(Pending) < MaxPendingGlobal
      BY <1>2, CountsAfterInsert DEF WithinQuotas
    <3>2. IsFiniteSet(Pending)
      BY CountsAreFinite DEF Limited
    <3>3. QED
      BY <3>1, <3>2, CountGrows, LimitAssumption
  <2>3. ASSUME NEW c \in Clients
        PROVE  /\ Cardinality(OfClient(c)') <= MaxTotalClient
               /\ Cardinality(OfClient(c)' \cap Pending') <= MaxPendingClient
    <3>1. /\ IsFiniteSet(OfClient(c)) /\ Cardinality(OfClient(c)) \in Nat
          /\ IsFiniteSet(OfClient(c) \cap Pending)
          /\ Cardinality(OfClient(c) \cap Pending) \in Nat
      BY CountsAreFinite, CountShrinks DEF Limited
    <3>2. Pending' \subseteq Pending \cup {r}
      BY <1>2, CountsAfterInsert
    <3>3. CASE c = d.client
      <4>1. /\ OfClient(c)' \subseteq OfClient(c) \cup {r}
            /\ OfClient(c)' \cap Pending' \subseteq (OfClient(c) \cap Pending) \cup {r}
        BY <1>2, <3>2, <3>3, CountsAfterInsert
      <4>2. /\ Cardinality(OfClient(c)) < MaxTotalClient
            /\ Cardinality(OfClient(c) \cap Pending) < MaxPendingClient
        BY <1>2, <3>3 DEF WithinQuotas
      <4>3. QED
        BY <3>1, <4>1, <4>2, CountGrows, LimitAssumption
    <3>4. CASE c # d.client
      <4>1. OfClient(c)' \subseteq OfClient(c) /\ r \notin OfClient(c)
        BY <1>2, <3>4, CountsAfterInsert DEF OfClient, Present
      <4>2. OfClient(c)' \cap Pending' \subseteq OfClient(c) \cap Pending
        BY <3>2, <4>1
      <4>3. /\ Cardinality(OfClient(c)) <= MaxTotalClient
            /\ Cardinality(OfClient(c) \cap Pending) <= MaxPendingClient
        BY DEF Limited, QuotasHold
      <4>4. QED
        BY <3>1, <4>1, <4>2, <4>3, CountShrinks, LimitAssumption
    <3>5. QED
      BY <3>3, <3>4
  <2>4. ASSUME NEW c \in Clients, NEW t \in Time
        PROVE  Cardinality(Burst(c, t)') <= Rate
    <3>1. /\ IsFiniteSet(Burst(c, t)) /\ Cardinality(Burst(c, t)) \in Nat
          /\ Cardinality(Burst(c, t)) <= Rate
      BY CountsAreFinite, CountShrinks DEF Limited, RateHolds, Burst
    <3>2. CASE c = d.client /\ d.created \in t..(t + Window)
      <4>1. IsFiniteSet(Recent(d))
        BY CountsAreFinite DEF Limited
      <4>2. Burst(c, t)' \subseteq Recent(d) \cup {r} /\ Cardinality(Recent(d)) < Rate
        BY <1>2, <3>2, CountsAfterInsert DEF WithinQuotas
      <4>3. QED
        BY <4>1, <4>2, CountGrows, LimitAssumption
    <3>3. CASE ~(c = d.client /\ d.created \in t..(t + Window))
      <4>1. Burst(c, t)' \subseteq Burst(c, t)
        BY <1>2, <3>3, CountsAfterInsert
      <4>2. QED
        BY <3>1, <4>1, CountShrinks, LimitAssumption
    <3>4. QED
      BY <3>2, <3>3
  <2>5. QED
    BY <2>1, <2>2, <2>3, <2>4 DEF Limited, QuotasHold, RateHolds, Burst
<1>3. QED
  BY <1>1, <1>2, RowsGrowByInsert

LEMMA LimitsAlwaysKept == Spec => []Limited
<1>1. Init => Limited
  <2>1. ASSUME Init PROVE Limited
    <3>1. Present = {} /\ Pending = {} /\ \A c : OfClient(c) = {}
      BY <2>1 DEF Init, Present, Pending, OfClient
    <3>2. \A c : OfClient(c) \cap Pending = {}
      BY <3>1
    <3>3. \A c : \A t \in Time :
             {r \in OfClient(c) : row[r].created \in t..(t + Window)} = {}
      BY <3>1
    <3>4. IsFiniteSet({}) /\ Cardinality({}) = 0
      BY FS_EmptySet
    <3>5. QED
      BY <3>1, <3>2, <3>3, <3>4, LimitAssumption DEF Limited, QuotasHold, RateHolds
  <2>2. QED
    BY <2>1
<1>2. TypeOK /\ Limited /\ [Next]_vars => Limited'
  BY LimitsAreKept
<1>3. QED
  BY <1>1, <1>2, TypeCorrect, PTL DEF Spec

\* However many processes propose at once, the limits on retained and on pending
\* requests hold (_pending counts in the transaction that inserts).
THEOREM QuotasAlwaysHold == Spec => []QuotasHold
<1>1. Limited => QuotasHold
  BY DEF Limited
<1>2. QED
  BY <1>1, LimitsAlwaysKept, PTL

\* The rate limit holds for every window, also of requests that were inserted in
\* another order than they were created (_pending reads the time beforehand).
THEOREM RateAlwaysHolds == Spec => []RateHolds
<1>1. Limited => RateHolds
  BY DEF Limited
<1>2. QED
  BY <1>1, LimitsAlwaysKept, PTL

----------------------------------------------------------------------------
(* Linked patches.                                                          *)

\* The strengthening for linked patches: a check that is about to be inserted has
\* seen its patch succeed.
LinkSeen == \A s \in Proposers : step[s] = "insert" => LinkHolds(draft[s])

\* A compatible patch stays compatible: its row is immutable, its state final.
LEMMA LinkIsStable ==
    ASSUME TypeOK, [Next]_vars, NEW d \in Row, LinkHolds(d)
    PROVE  LinkHolds(d)'
<1>1. CASE d.link = None
  BY <1>1 DEF LinkHolds
<1>2. CASE d.link # None
  <2>1. d.link \in Requests /\ Compatible(d.link, d)
    BY <1>2 DEF LinkHolds, Row
  <2>2. row'[d.link] = row[d.link]
    BY <2>1, RequestsTyped DEF Compatible
  <2>3. state'[d.link] = "succeeded"
    BY <2>1, StepImplementsLifecycle, StepMovesForward DEF Compatible, TypeOK, RequestsOK
  <2>4. Compatible(d.link, d)'
    BY <2>1, <2>2, <2>3 DEF Compatible
  <2>5. QED
    BY <2>4 DEF LinkHolds
<1>3. QED
  BY <1>1, <1>2

\* Only the stamp brings a draft to its insertion.
LEMMA OnlyStampReachesInsert ==
    ASSUME TypeOK, [Next]_vars, NEW s \in Proposers, step'[s] = "insert", ~Stamp(s)
    PROVE  step[s] = "insert" /\ draft'[s] = draft[s]
<1> USE DEF TypeOK
<1>1. CASE UNCHANGED proposerVars
  BY <1>1 DEF proposerVars
<1>2. ASSUME NEW q \in Proposers, NEW next \in Steps, NEW d, Proceed(q, next, d),
             next # "insert"
      PROVE  step[s] = "insert" /\ draft'[s] = draft[s]
  BY <1>2 DEF Proceed, ProposersOK
<1>3. ASSUME NEW q \in Proposers, Refuse(q)
      PROVE  step[s] = "insert" /\ draft'[s] = draft[s]
  BY <1>2, <1>3 DEF Refuse, Steps
<1>4. ASSUME NEW q \in Proposers, NEW c, NEW w, NEW k, NEW kind, NEW link,
             Submit(q, c, w, k, kind, link)
      PROVE  step[s] = "insert" /\ draft'[s] = draft[s]
  BY <1>2, <1>4 DEF Submit, Steps
<1>5. ASSUME NEW q \in Proposers, ReadPolicy(q) \/ ReadClean(q) \/ ReadHead(q)
      PROVE  step[s] = "insert" /\ draft'[s] = draft[s]
  BY <1>2, <1>3, <1>5 DEF ReadPolicy, ReadClean, ReadHead, Steps
<1>6. ASSUME NEW q \in Proposers, Stamp(q)
      PROVE  step[s] = "insert" /\ draft'[s] = draft[s]
  BY <1>3, <1>6 DEF Stamp, Proceed, ProposersOK
<1>7. ASSUME NEW q \in Proposers, Insert(q) \/ Abandon(q)
      PROVE  step[s] = "insert" /\ draft'[s] = draft[s]
  BY <1>3, <1>7 DEF Insert, Abandon
<1>8. ASSUME NEW p \in Operators, Operate(p) \/ Crash(p) PROVE UNCHANGED proposerVars
  BY <1>8 DEF Operate, Continue, Deny, Reject, Approve, PreflightPolicy,
              PreflightClean, PreflightHead, StampAttempt, Claim, Worktree, Run,
              ObserveClean, ObserveHead, Record, Crash
<1>9. ASSUME Administer PROVE UNCHANGED proposerVars
  BY <1>9 DEF Administer, BootstrapClient, RevokeClient, RegisterWorkspace,
              GrantWorkspace, RevokeWorkspace, ViewRequest, RecoverInterrupted
<1>10. ASSUME Environment \/ UNCHANGED vars PROVE UNCHANGED proposerVars
  BY <1>10 DEF Environment, Tick, Edit, Commit, vars
<1>11. QED
  BY <1>1, <1>4, <1>5, <1>6, <1>7, <1>8, <1>9, <1>10 DEF Next, Propose

\* A stored check always names a patch that succeeded on its own base, although
\* the link was checked before the transaction that stores it (request_test).
THEOREM LinksAlwaysHold == Spec => []LinkedPatchHolds
<1>1. Init => LinkSeen /\ LinkedPatchHolds
  BY DEF Init, LinkSeen, LinkedPatchHolds, Present
<1>2. ASSUME TypeOK, LinkSeen, LinkedPatchHolds, [Next]_vars
      PROVE  LinkSeen' /\ LinkedPatchHolds'
  <2>1. ASSUME NEW s \in Proposers, step'[s] = "insert" PROVE LinkHolds(draft[s])'
    <3>1. CASE Stamp(s)
      <4>1. draft[s] \in Row /\ LinkHolds(draft[s]) /\ UNCHANGED requestVars
            /\ draft'[s] = [draft[s] EXCEPT !.created = now]
        BY <1>2, <2>1, <3>1 DEF Stamp, Refuse, Proceed, TypeOK, ProposersOK
      <4>2. /\ draft'[s].link = draft[s].link /\ draft'[s].client = draft[s].client
            /\ draft'[s].workspace = draft[s].workspace
            /\ draft'[s].policy = draft[s].policy /\ draft'[s].head = draft[s].head
        BY <4>1 DEF Row
      <4>3. QED
        BY <4>1, <4>2 DEF LinkHolds, Compatible, requestVars
    <3>2. CASE ~Stamp(s)
      <4>1. step[s] = "insert" /\ draft'[s] = draft[s]
        BY <1>2, <2>1, <3>2, OnlyStampReachesInsert
      <4>2. draft[s] \in Row /\ LinkHolds(draft[s])
        BY <1>2, <2>1, <4>1 DEF LinkSeen, TypeOK, ProposersOK
      <4>3. PICK d \in Row : d = draft[s]
        BY <4>2
      <4>4. LinkHolds(d)'
        BY <1>2, <4>2, <4>3, LinkIsStable
      <4>5. draft'[s] = d
        BY <4>1, <4>3
      <4>6. QED
        BY <4>4, <4>5 DEF LinkHolds, Compatible
    <3>3. QED
      BY <3>1, <3>2
  <2>2. ASSUME NEW r \in Requests, row'[r] # None PROVE LinkHolds(row[r])'
    <3>1. PICK d \in Row : d = row'[r] /\ LinkHolds(d)
      <4>1. row \in [Requests -> Row \cup {None}]
        BY <1>2 DEF TypeOK, RequestsOK
      <4>2. CASE row'[r] = row[r]
        BY <1>2, <2>2, <4>1, <4>2 DEF LinkedPatchHolds, Present
      <4>3. CASE row'[r] # row[r]
        BY <1>2, <4>1, <4>3, RowsGrowByInsert DEF LinkSeen
      <4>4. QED
        BY <4>2, <4>3
    <3>2. LinkHolds(d)'
      BY <1>2, <3>1, LinkIsStable
    <3>3. QED
      BY <3>1, <3>2 DEF LinkHolds, Compatible
  <2>3. QED
    BY <2>1, <2>2 DEF LinkSeen, LinkedPatchHolds, Present
<1>3. TypeOK /\ LinkSeen /\ LinkedPatchHolds /\ [Next]_vars => LinkSeen' /\ LinkedPatchHolds'
  BY <1>2
<1>4. QED
  BY <1>1, <1>3, TypeCorrect, PTL DEF Spec
=============================================================================
