-------------------------- MODULE InstallationProofs --------------------------
(* The commands of Installation use the ledger as ReceiptLedger specifies it, *)
(* so what is proved of the ledger holds of them; and they keep receipts,     *)
(* clients table and credential files in step.                                *)
EXTENDS Installation, TLAPS

LedgerTheory == INSTANCE ReceiptLedgerProofs
                WITH Processes <- Processes, Keys <- Keys, Entries <- Entries, None <- None,
                     keyFile <- keyFile, pin <- pin, receipts <- receipts,
                     stage <- stage, key <- key, intact <- intact

LEMMA KeyNames == LedgerTheory!KeyAssumption
BY NameAssumption DEF LedgerTheory!KeyAssumption

----------------------------------------------------------------------------
(* Commands: a process that is in one has a client.                         *)

NamesOK ==
    /\ step \in [Processes -> Steps]
    /\ kind \in [Processes -> Kinds]
    /\ client \in [Processes -> Clients \cup {None}]
    /\ \A p \in Processes : step[p] # "idle" => client[p] \in Clients

LEMMA NamesHold == Spec => []NamesOK
<1>1. Init => NamesOK
  BY DEF Init, NamesOK, Steps, Kinds
<1>2. NamesOK /\ [Next]_vars => NamesOK'
  <2> SUFFICES ASSUME NamesOK, [Next]_vars PROVE NamesOK'
    OBVIOUS
  <2> USE DEF NamesOK, Steps, Kinds
  <2>1. ASSUME NEW p \in Processes, NEW to \in Steps \ {"idle"}, step[p] # "idle", Goto(p, to)
        PROVE  NamesOK'
    BY <2>1 DEF Goto
  <2>2. ASSUME NEW p \in Processes, End(p) PROVE NamesOK'
    BY <2>2 DEF End
  <2>3. UNCHANGED <<step, kind, client>> => NamesOK'
    OBVIOUS
  <2>4. ASSUME NEW p \in Processes, NEW k \in Kinds, NEW c \in Clients, Start(p, k, c)
        PROVE  NamesOK'
    BY <2>4 DEF Start
  <2>5. ASSUME NEW p \in Processes, ProcessStep(p) PROVE NamesOK'
    <3>1. CASE Open(p)
      BY <3>1, <2>2, <2>3 DEF Open, commandVars
    <3>2. CASE Bootstrap(p)
      BY <3>2, <2>1, <2>2 DEF Bootstrap, Leave
    <3>3. CASE Revoke(p)
      BY <3>3, <2>1, <2>2 DEF Revoke, Leave
    <3>4. CASE CreateFile(p)
      BY <3>4, <2>1 DEF CreateFile
    <3>5. CASE Fill(p)
      BY <3>5, <2>1, <2>2 DEF Fill, Leave
    <3>6. CASE Undo(p)
      BY <3>6, <2>1 DEF Undo
    <3>7. CASE Unlink(p)
      BY <3>7, <2>1 DEF Unlink
    <3>8. CASE Finish(p)
      BY <3>8, <2>2 DEF Finish, Leave
    <3> QED BY <2>5, <3>1, <3>2, <3>3, <3>4, <3>5, <3>6, <3>7, <3>8 DEF ProcessStep
  <2>6. ASSUME NEW p \in Processes, Die(p) PROVE NamesOK'
    BY <2>6, <2>2 DEF Die, Leave
  <2>7. CASE KeyFileChanges
    BY <2>7, <2>3 DEF KeyFileChanges, commandVars
  <2>8. CASE UNCHANGED vars
    BY <2>8, <2>3 DEF vars, commandVars
  <2> QED BY <2>4, <2>5, <2>6, <2>7, <2>8 DEF Next
<1> QED BY <1>1, <1>2, PTL DEF Spec

----------------------------------------------------------------------------
(* Refinement.                                                              *)

\* A command writes to the ledger, leaves it, or opens it; most steps do not
\* touch it.
LEMMA StepImplementsLedger ==
    ASSUME NamesOK, [Next]_vars
    PROVE  [Ledger!Next]_(Ledger!vars)
<1>1. UNCHANGED ledgerVars => UNCHANGED Ledger!vars
  BY DEF ledgerVars, Ledger!vars, Ledger!files, Ledger!store, Ledger!procs
<1>2. ASSUME NEW p \in Processes, NEW e \in {"client.created", "client.revoked"},
             client[p] \in Clients, Tell(p, e)
      PROVE  Ledger!Next
  <2>1. [event |-> e, client |-> client[p]] \in Entries
    BY <1>2 DEF Entries
  <2> QED BY <1>2, <2>1 DEF Tell, Ledger!Next
<1>3. ASSUME NEW p \in Processes, Leave(p) PROVE Ledger!Next
  BY <1>3 DEF Leave, Ledger!Next
<1>4. ASSUME NEW p \in Processes, NEW k \in Kinds, NEW c \in Clients, Start(p, k, c)
      PROVE  Ledger!Next
  BY <1>4 DEF Start, Ledger!Next
<1>5. ASSUME NEW p \in Processes, ProcessStep(p) PROVE Ledger!Next \/ UNCHANGED ledgerVars
  <2>1. CASE Open(p)
    BY <2>1 DEF Open, Ledger!Next
  <2>2. CASE Bootstrap(p)
    BY <2>2, <1>2, <1>3 DEF Bootstrap, NamesOK
  <2>3. CASE Revoke(p)
    BY <2>3, <1>2, <1>3 DEF Revoke, Strike, NamesOK
  <2>4. CASE CreateFile(p) \/ Unlink(p)
    BY <2>4 DEF CreateFile, Unlink
  <2>5. CASE Fill(p)
    BY <2>5, <1>3 DEF Fill
  <2>6. CASE Undo(p)
    BY <2>6, <1>2 DEF Undo, Strike, NamesOK
  <2>7. CASE Finish(p)
    BY <2>7, <1>3 DEF Finish
  <2> QED BY <1>5, <2>1, <2>2, <2>3, <2>4, <2>5, <2>6, <2>7 DEF ProcessStep
<1>6. ASSUME NEW p \in Processes, Die(p) PROVE Ledger!Next
  BY <1>6, <1>3 DEF Die
<1>7. KeyFileChanges => Ledger!Next
  BY DEF KeyFileChanges, Ledger!Next
<1>8. UNCHANGED vars => UNCHANGED ledgerVars
  BY DEF vars
<1> QED BY <1>1, <1>4, <1>5, <1>6, <1>7, <1>8 DEF Next

\* Every step of every command is a step of the ledger, or leaves it alone.
LEMMA RefinesLedger == Spec => Ledger!Spec
<1>1. Init => Ledger!Init
  BY DEF Init
<1> QED BY <1>1, StepImplementsLedger, NamesHold, PTL DEF Spec, Ledger!Spec

\* ReceiptLedgerProofs speaks of its own copy of ReceiptLedger.
LEMMA SameLedger == Ledger!Spec => LedgerTheory!Spec
<1>1. Ledger!Init => LedgerTheory!Init
  BY DEF Ledger!Init, LedgerTheory!Init
<1>2. [Ledger!Next]_(Ledger!vars) => [LedgerTheory!Next]_(LedgerTheory!vars)
  BY DEF Ledger!Next, LedgerTheory!Next, Ledger!vars, LedgerTheory!vars,
         Ledger!files, LedgerTheory!files, Ledger!store, LedgerTheory!store,
         Ledger!procs, LedgerTheory!procs, Ledger!Go, LedgerTheory!Go,
         Ledger!Leave, LedgerTheory!Leave, Ledger!Sign, LedgerTheory!Sign,
         Ledger!Begin, LedgerTheory!Begin, Ledger!OpenStep, LedgerTheory!OpenStep,
         Ledger!ReadKeyFile, LedgerTheory!ReadKeyFile, Ledger!CheckFresh, LedgerTheory!CheckFresh,
         Ledger!CreateKeyFile, LedgerTheory!CreateKeyFile,
         Ledger!WriteKeyFile, LedgerTheory!WriteKeyFile,
         Ledger!VerifyUnpinned, LedgerTheory!VerifyUnpinned, Ledger!SignedBy, LedgerTheory!SignedBy,
         Ledger!PinKey, LedgerTheory!PinKey, Ledger!Audit, LedgerTheory!Audit,
         Ledger!AppendReceipt, LedgerTheory!AppendReceipt, Ledger!Close, LedgerTheory!Close,
         Ledger!DiscardTorn, LedgerTheory!DiscardTorn, Ledger!Tamper, LedgerTheory!Tamper
<1> QED BY <1>1, <1>2, PTL DEF Ledger!Spec, LedgerTheory!Spec

\* Whatever key file the commands find, the pinned key verifies every receipt.
THEOREM ReceiptsVerify == Spec => []LedgerVerifiable
<1>1. LedgerTheory!Spec => []LedgerTheory!LedgerVerifiable
  BY KeyNames, LedgerTheory!LedgerStaysVerifiable
<1>2. LedgerTheory!LedgerVerifiable => LedgerVerifiable
  BY DEF LedgerVerifiable, Ledger!LedgerVerifiable, LedgerTheory!LedgerVerifiable,
         Ledger!SignedBy, LedgerTheory!SignedBy
<1> QED BY <1>1, <1>2, RefinesLedger, SameLedger, PTL

\* Only removing or replacing the key file can lock an installation.
THEOREM KeyStays == Spec => []PinnedKeyIsKept
<1>1. LedgerTheory!Spec => []LedgerTheory!PinnedKeyIsKept
  BY KeyNames, LedgerTheory!PinnedKeyStays
<1>2. LedgerTheory!PinnedKeyIsKept => PinnedKeyIsKept
  BY DEF PinnedKeyIsKept, Ledger!PinnedKeyIsKept, LedgerTheory!PinnedKeyIsKept
<1> QED BY <1>1, <1>2, RefinesLedger, SameLedger, PTL

LEMMA LedgerTyped == Spec => []Ledger!TypeOK
<1>1. LedgerTheory!Spec => []LedgerTheory!TypeOK
  BY KeyNames, LedgerTheory!LedgerTypes
<1>2. LedgerTheory!TypeOK => Ledger!TypeOK
  BY DEF Ledger!TypeOK, LedgerTheory!TypeOK, Ledger!Receipt, LedgerTheory!Receipt,
         Ledger!Stages, LedgerTheory!Stages
<1> QED BY <1>1, <1>2, RefinesLedger, SameLedger, PTL

----------------------------------------------------------------------------
(* Types of the clients table, the token files and the commands.            *)

ClientsOK ==
    /\ row \in [Clients -> Credential \cup {None}]
    /\ file \in [Clients -> File \cup {None}]
    /\ credential \in [Processes -> Credential \cup {None}]
    /\ \A p \in Processes : Saving(p) => credential[p] \in Credential
    /\ forsaken \subseteq Credential /\ contended \subseteq Credential

\* The number of the next receipt.
LEMMA NextNumber ==
    ASSUME Ledger!TypeOK
    PROVE  Len(receipts) + 1 \in Credential
BY DEF Ledger!TypeOK, Credential

LEMMA ClientsTyped == Spec => []ClientsOK
<1>1. Init => ClientsOK
  BY DEF Init, ClientsOK, Credential, File, Saving
<1>2. Ledger!TypeOK /\ NamesOK /\ ClientsOK /\ [Next]_vars => ClientsOK'
  <2> SUFFICES ASSUME Ledger!TypeOK, NamesOK, ClientsOK, [Next]_vars PROVE ClientsOK'
    OBVIOUS
  <2> USE DEF NamesOK, ClientsOK, Goto, End, Leave, Contend, Strike, Saving
  <2>1. ASSUME NEW p \in Processes, NEW k \in Kinds, NEW c \in Clients, Start(p, k, c)
        PROVE  ClientsOK'
    BY <2>1 DEF Start, clientVars
  <2>2. ASSUME NEW p \in Processes, Open(p) PROVE ClientsOK'
    BY <2>2 DEF Open, clientVars, commandVars
  <2>3. ASSUME NEW p \in Processes, Bootstrap(p) PROVE ClientsOK'
    BY <2>3, NextNumber DEF Bootstrap
  <2>4. ASSUME NEW p \in Processes, Revoke(p) PROVE ClientsOK'
    BY <2>4 DEF Revoke
  <2>5. ASSUME NEW p \in Processes, CreateFile(p) PROVE ClientsOK'
    <3>1. [owner |-> credential[p], whole |-> FALSE] \in File
      BY <2>5 DEF CreateFile, File
    <3>2. file' \in [Clients -> File \cup {None}]
      <4> DEFINE f == [owner |-> credential[p], whole |-> FALSE]
      <4>1. f \in File /\ client[p] \in Clients
        BY <2>5, <3>1 DEF CreateFile
      <4>2. file' = file \/ file' = [file EXCEPT ![client[p]] = f]
        BY <2>5 DEF CreateFile
      <4> HIDE DEF f
      <4> QED BY <4>1, <4>2
    <3>3. step[p] = "save" => credential[p] \in Credential
      OBVIOUS
    <3>4. step' \in [Processes -> Steps] /\ \A q \in Processes : q # p => step'[q] = step[q]
      BY <2>5 DEF CreateFile, Steps
    <3>5. row' = row /\ credential' = credential /\ forsaken' = forsaken /\ contended' = contended
          /\ credential[p] \in Credential
      BY <2>5, <3>3 DEF CreateFile
    <3> QED BY <3>2, <3>4, <3>5
  <2>6. ASSUME NEW p \in Processes, Fill(p) PROVE ClientsOK'
    <3>1. Filled(p) \in [Clients -> File \cup {None}]
      <4> DEFINE c == client[p]
      <4>1. CASE file[c] # None /\ file[c].owner = credential[p]
        <5>1. c \in Clients
          BY <2>6 DEF Fill
        <5> DEFINE f == [owner |-> credential[p], whole |-> TRUE]
        <5>2. f \in File
          BY <2>6 DEF Fill, File
        <5>3. Filled(p) = [file EXCEPT ![c] = f]
          BY <4>1 DEF Filled
        <5> HIDE DEF f
        <5> QED BY <5>1, <5>2, <5>3
      <4>2. CASE ~(file[c] # None /\ file[c].owner = credential[p])
        BY <4>2 DEF Filled
      <4> QED BY <4>1, <4>2
    <3>2. file' \in [Clients -> File \cup {None}]
      BY <2>6, <3>1 DEF Fill
    <3> QED BY <2>6, <3>2 DEF Fill
  <2>7. ASSUME NEW p \in Processes, Undo(p) PROVE ClientsOK'
    BY <2>7 DEF Undo
  <2>8. ASSUME NEW p \in Processes, Unlink(p) PROVE ClientsOK'
    BY <2>8 DEF Unlink
  <2>9. ASSUME NEW p \in Processes, Finish(p) PROVE ClientsOK'
    BY <2>9 DEF Finish, clientVars
  <2>10. ASSUME NEW p \in Processes, Die(p) PROVE ClientsOK'
    BY <2>10 DEF Die, clientVars
  <2>11. CASE KeyFileChanges
    BY <2>11 DEF KeyFileChanges, clientVars, commandVars
  <2>12. CASE UNCHANGED vars
    BY <2>12 DEF vars, clientVars, commandVars
  <2> QED BY <2>1, <2>2, <2>3, <2>4, <2>5, <2>6, <2>7, <2>8, <2>9, <2>10, <2>11, <2>12
          DEF Next, ProcessStep
<1> QED BY <1>1, <1>2, LedgerTyped, NamesHold, PTL DEF Spec

\* Every variable of the commands keeps its type.
THEOREM InstallationTypes == Spec => []TypeOK
<1>1. Ledger!TypeOK /\ NamesOK /\ ClientsOK => TypeOK
  BY DEF TypeOK, NamesOK, ClientsOK
<1> QED BY <1>1, LedgerTyped, NamesHold, ClientsTyped, PTL

----------------------------------------------------------------------------
(* What a step appends to the ledger.                                       *)

LEMMA TellAppends ==
    ASSUME Ledger!TypeOK, NEW p \in Processes, NEW e, Tell(p, e)
    PROVE  LET n == Len(receipts) + 1 IN
           /\ n \notin DOMAIN receipts /\ \A i \in DOMAIN receipts : i < n
           /\ DOMAIN receipts' = DOMAIN receipts \cup {n}
           /\ \A i \in DOMAIN receipts : receipts'[i] = receipts[i]
           /\ receipts'[n].entry = [event |-> e, client |-> client[p]]
<1> DEFINE r == [entry |-> [event |-> e, client |-> client[p]], signer |-> key[p]]
<1>1. receipts' = Append(receipts, r) /\ receipts \in Seq(Ledger!Receipt)
  BY DEF Tell, Ledger!AppendReceipt, Ledger!TypeOK
<1>2. r.entry = [event |-> e, client |-> client[p]]
  OBVIOUS
<1> HIDE DEF r
<1> QED BY <1>1, <1>2

----------------------------------------------------------------------------
(* The receipts of a client and its row.                                    *)

Told == LedgerTellsClients /\ \A c \in Clients : row[c] # None => row[c] \in About(c)

\* A creation where there is no row, or a revocation where there is one, with its
\* row, keeps the two in agreement.
LEMMA TellKeepsTold ==
    ASSUME Ledger!TypeOK, ClientsOK, Told, NEW p \in Processes, NEW d \in Clients, client[p] = d,
           NEW e \in {"client.created", "client.revoked"}, Tell(p, e),
           e = "client.created" <=> row[d] = None,
           row' = [row EXCEPT ![d] =
                      IF e = "client.created" THEN Len(receipts) + 1 ELSE None]
    PROVE  Told'
<1> DEFINE n == Len(receipts) + 1
<1>1. /\ n \notin DOMAIN receipts /\ \A i \in DOMAIN receipts : i < n
      /\ DOMAIN receipts' = DOMAIN receipts \cup {n}
      /\ \A i \in DOMAIN receipts : receipts'[i] = receipts[i]
      /\ receipts'[n].entry = [event |-> e, client |-> d]
  BY TellAppends
<1>2. n \in Credential /\ DOMAIN receipts \subseteq Credential
  BY NextNumber DEF Ledger!TypeOK, Credential
<1>3. n # None
  BY <1>2, NameAssumption DEF Credential
<1>4. row' = [row EXCEPT ![d] = IF e = "client.created" THEN n ELSE None]
  OBVIOUS
<1> HIDE DEF n
<1>5. /\ About(d)' = About(d) \cup {n}
      /\ \A c \in Clients : c # d => About(c)' = About(c)
      /\ \A c \in Clients : About(c) \subseteq DOMAIN receipts
  BY <1>1 DEF About
<1>6. /\ row'[d] = IF e = "client.created" THEN n ELSE None
      /\ \A c \in Clients : c # d => row'[c] = row[c]
  BY <1>4 DEF ClientsOK
<1>7. ASSUME NEW c \in Clients, row'[c] # None PROVE row'[c] \in About(c)'
  BY <1>5, <1>6, <1>7 DEF Told
<1> DEFINE Later(c, i) == {j \in About(c) : j > i}
           Says(c, i) ==
             IF Later(c, i) = {}
             THEN row[c] = IF receipts[i].entry.event = "client.created" THEN i ELSE None
             ELSE \E j \in Later(c, i) : /\ \A k \in Later(c, i) : j <= k
                                         /\ receipts[j].entry.event # receipts[i].entry.event
<1>8. \A c \in Clients : \A i \in About(c) : Says(c, i)
  BY DEF Told, LedgerTellsClients
<1>9. ASSUME NEW c \in Clients, NEW i \in About(c)' PROVE Says(c, i)'
  <2>1. CASE c # d
    <3>1. Later(c, i)' = Later(c, i) /\ i \in About(c) /\ row'[c] = row[c]
      BY <2>1, <1>5, <1>6
    <3>2. \A j \in About(c) : receipts'[j] = receipts[j]
      BY <1>1, <1>5
    <3>3. Says(c, i)
      BY <3>1, <1>8
    <3> QED BY <3>1, <3>2, <3>3
  <2>2. CASE c = d /\ i = n
    <3>1. Later(c, i)' = {}
      BY <2>2, <1>1, <1>2, <1>5 DEF Credential
    <3>2. row'[c] = IF receipts'[i].entry.event = "client.created" THEN i ELSE None
      BY <2>2, <1>1, <1>6
    <3> QED BY <3>1, <3>2
  <2>3. CASE c = d /\ i # n
    <3>1. i \in About(c) /\ i \in DOMAIN receipts /\ Says(c, i)
      BY <2>3, <1>5, <1>8
    <3>2. receipts'[i] = receipts[i] /\ i < n
      BY <3>1, <1>1
    <3>3. Later(c, i)' = Later(c, i) \cup {n}
      BY <2>3, <3>2, <1>5
    <3>4. CASE Later(c, i) = {}
      <4>1. row[c] = IF receipts[i].entry.event = "client.created" THEN i ELSE None
        BY <3>1, <3>4
      <4>2. i # None
        BY <3>1, <1>2, NameAssumption DEF Credential
      <4>3. receipts[i].entry.event = "client.created" <=> e # "client.created"
        BY <4>1, <4>2, <2>3
      <4>4. receipts'[n].entry.event # receipts'[i].entry.event
        BY <4>3, <3>2, <1>1
      <4>5. Later(c, i)' = {n}
        BY <3>3, <3>4
      <4>6. n <= n
        BY <1>2 DEF Credential
      <4> QED BY <4>4, <4>5, <4>6
    <3>5. CASE Later(c, i) # {}
      <4>1. PICK j \in Later(c, i) : /\ \A k \in Later(c, i) : j <= k
                                     /\ receipts[j].entry.event # receipts[i].entry.event
        BY <3>1, <3>5
      <4>2. j \in DOMAIN receipts /\ receipts'[j] = receipts[j] /\ j < n
        BY <4>1, <1>1, <1>5, <2>3
      <4>3. j <= n
        BY <4>2, <1>2 DEF Credential
      <4>4. /\ j \in Later(c, i)' /\ \A k \in Later(c, i)' : j <= k
            /\ receipts'[j].entry.event # receipts'[i].entry.event
        BY <4>1, <4>2, <4>3, <3>2, <3>3
      <4> QED BY <4>4
    <3> QED BY <3>4, <3>5
  <2> QED BY <2>1, <2>2, <2>3
<1> QED BY <1>7, <1>9 DEF Told, LedgerTellsClients

LEMMA ToldHolds == Spec => []Told
<1>1. Init => Told
  <2> SUFFICES ASSUME Init PROVE Told
    OBVIOUS
  <2>1. CASE receipts = <<>>
    BY <2>1 DEF Init, Told, LedgerTellsClients, About
  <2>2. CASE \E k \in Keys, e \in Entries : receipts = <<[entry |-> e, signer |-> k]>>
    <3> PICK k \in Keys, e \in Entries : receipts = <<[entry |-> e, signer |-> k]>>
      BY <2>2
    <3>1. DOMAIN receipts = {1} /\ receipts[1].entry = e
      OBVIOUS
    <3>2. e.event = "client.created" /\ e.client \in Clients
          /\ e = [event |-> "client.created", client |-> e.client]
      BY <3>1 DEF Init, Entries
    <3>3. \A c \in Clients : About(c) = IF c = e.client THEN {1} ELSE {}
      BY <3>1 DEF About
    <3>4. \A c \in Clients : row[c] = IF c = e.client THEN 1 ELSE None
      BY <3>1, <3>2 DEF Init
    <3> QED BY <3>1, <3>2, <3>3, <3>4 DEF Told, LedgerTellsClients
  <2> QED BY <2>1, <2>2 DEF Init, Ledger!Init
<1>2. Ledger!TypeOK /\ NamesOK /\ ClientsOK /\ Told /\ [Next]_vars => Told'
  <2> SUFFICES ASSUME Ledger!TypeOK, NamesOK, ClientsOK, Told, [Next]_vars PROVE Told'
    OBVIOUS
  <2>1. receipts' = receipts /\ row' = row => Told'
    BY DEF Told, LedgerTellsClients, About
  <2>2. ASSUME NEW p \in Processes, step[p] # "idle", Strike(p) PROVE Told'
    <3>1. client[p] \in Clients
      BY <2>2 DEF NamesOK
    <3>2. /\ row[client[p]] # None /\ Tell(p, "client.revoked")
          /\ row' = [row EXCEPT ![client[p]] = None]
      BY <2>2 DEF Strike
    <3> QED BY <3>1, <3>2, TellKeepsTold
  <2>3. ASSUME NEW p \in Processes, Leave(p) PROVE receipts' = receipts
    BY <2>3 DEF Leave, Ledger!Close, Ledger!store
  <2>4. ASSUME NEW p \in Processes, Bootstrap(p) PROVE Told'
    <3>1. client[p] \in Clients
      BY <2>4 DEF Bootstrap, NamesOK
    <3>2. CASE row[client[p]] = None
      <4>1. /\ Tell(p, "client.created")
            /\ row' = [row EXCEPT ![client[p]] = Len(receipts) + 1]
        BY <2>4, <3>2 DEF Bootstrap
      <4> QED BY <3>1, <3>2, <4>1, TellKeepsTold
    <3>3. CASE row[client[p]] # None
      BY <2>4, <3>3, <2>1, <2>3 DEF Bootstrap
    <3> QED BY <3>2, <3>3
  <2>5. ASSUME NEW p \in Processes, Revoke(p) PROVE Told'
    BY <2>5, <2>1, <2>2, <2>3 DEF Revoke
  <2>6. ASSUME NEW p \in Processes, Undo(p) PROVE Told'
    BY <2>6, <2>1, <2>2 DEF Undo, ledgerVars
  <2>7. ASSUME NEW p \in Processes, NEW k \in Kinds, NEW c \in Clients, Start(p, k, c)
        PROVE  Told'
    BY <2>7, <2>1 DEF Start, clientVars, Ledger!Begin, Ledger!store
  <2>8. ASSUME NEW p \in Processes, Open(p) PROVE Told'
    <3>1. receipts' = receipts
      BY <2>8 DEF Open, Ledger!OpenStep, Ledger!ReadKeyFile, Ledger!CheckFresh,
                  Ledger!CreateKeyFile, Ledger!WriteKeyFile, Ledger!VerifyUnpinned,
                  Ledger!PinKey, Ledger!Audit, Ledger!store
    <3> QED BY <2>8, <3>1, <2>1 DEF Open, clientVars
  <2>9. ASSUME NEW p \in Processes, CreateFile(p) \/ Fill(p) \/ Unlink(p) \/ Finish(p) \/ Die(p)
        PROVE  Told'
    BY <2>9, <2>1, <2>3 DEF CreateFile, Fill, Unlink, Finish, Die, clientVars, ledgerVars
  <2>10. CASE KeyFileChanges
    BY <2>10, <2>1 DEF KeyFileChanges, clientVars, Ledger!DiscardTorn, Ledger!Tamper, Ledger!store
  <2>11. CASE UNCHANGED vars
    BY <2>11, <2>1 DEF vars, clientVars, ledgerVars
  <2> QED BY <2>4, <2>5, <2>6, <2>7, <2>8, <2>9, <2>10, <2>11 DEF Next, ProcessStep
<1> QED BY <1>1, <1>2, LedgerTyped, NamesHold, ClientsTyped, PTL DEF Spec

\* Creations and revocations alternate, and the last one says which row there is.
THEOREM LedgerTells == Spec => []LedgerTellsClients
<1>1. Told => LedgerTellsClients
  BY DEF Told
<1> QED BY <1>1, ToldHolds, PTL

----------------------------------------------------------------------------
(* Credentials are issued once.                                             *)

OthersStay(p) == \A q \in Processes : q # p =>
    step'[q] = step[q] /\ client'[q] = client[q] /\ credential'[q] = credential[q]

\* The process p is about to save or revoke credential n, or to remove c's file.
Issuer(p, n) == Saving(p) /\ credential[p] = n

Removing(p, c) == step[p] = "unlink" /\ client[p] = c

\* What a process is about to save is its own, for the client of its command.
Issued ==
    /\ \A p \in Processes : Saving(p) => credential[p] \in About(client[p])
    /\ \A p, q \in Processes : Saving(p) /\ Issuer(q, credential[p]) => p = q

LEMMA ReceiptsGrow ==
    ASSUME Ledger!TypeOK, [Next]_vars, NEW c \in Clients
    PROVE  About(c) \subseteq About(c)'
<1>1. UNCHANGED receipts => About(c)' = About(c)
  BY DEF About
<1>2. ASSUME NEW p \in Processes, NEW e, Tell(p, e) PROVE About(c) \subseteq About(c)'
  BY <1>2, TellAppends DEF About
<1>3. ASSUME NEW p \in Processes, Leave(p) PROVE UNCHANGED receipts
  BY <1>3 DEF Leave, Ledger!Close, Ledger!store
<1>4. ASSUME NEW p \in Processes, Open(p) PROVE UNCHANGED receipts
  BY <1>4 DEF Open, Ledger!OpenStep, Ledger!ReadKeyFile, Ledger!CheckFresh, Ledger!CreateKeyFile,
     Ledger!WriteKeyFile, Ledger!VerifyUnpinned, Ledger!PinKey, Ledger!Audit, Ledger!store
<1>5. ASSUME NEW p \in Processes, NEW k \in Kinds, NEW d \in Clients, Start(p, k, d) PROVE UNCHANGED receipts
  BY <1>5 DEF Start, Ledger!Begin, Ledger!store
<1>6. KeyFileChanges => UNCHANGED receipts
  BY DEF KeyFileChanges, Ledger!DiscardTorn, Ledger!Tamper, Ledger!store
<1>7. UNCHANGED ledgerVars \/ UNCHANGED vars => UNCHANGED receipts
  BY DEF ledgerVars, vars
<1>8. ASSUME NEW p \in Processes, ProcessStep(p) PROVE About(c) \subseteq About(c)'
  BY <1>1, <1>2, <1>3, <1>4, <1>7, <1>8 DEF ProcessStep, Bootstrap, Revoke, CreateFile, Fill, Undo, Unlink,
     Finish, Strike
<1>9. ASSUME NEW p \in Processes, Die(p) PROVE UNCHANGED receipts
  BY <1>3, <1>9 DEF Die
<1> QED BY <1>1, <1>5, <1>6, <1>7, <1>8, <1>9 DEF Next

\* A step of a process that does not come to save a credential anew.
LEMMA IssuedStays ==
    ASSUME NamesOK, Issued, NEW p \in Processes, OthersStay(p), \A c \in Clients : About(c) \subseteq About(c)',
           Saving(p)' => Saving(p) /\ credential'[p] = credential[p] /\ client'[p] = client[p]
    PROVE  Issued'
<1>1. \A q \in Processes : Saving(q)' => Saving(q) /\ credential'[q] = credential[q] /\ client'[q] = client[q]
  BY DEF OthersStay, Saving
<1>2. \A q \in Processes : Saving(q) => client[q] \in Clients
  BY DEF Saving, NamesOK
<1> QED BY <1>1, <1>2 DEF Issued, Issuer

LEMMA EndsAlone ==
    ASSUME NamesOK, ClientsOK, NEW p \in Processes, End(p)
    PROVE  OthersStay(p) /\ step'[p] = "idle" /\ ~Saving(p)'
BY DEF NamesOK, ClientsOK, End, OthersStay, Saving

LEMMA GoesAlone ==
    ASSUME NamesOK, ClientsOK, NEW p \in Processes, NEW to, Goto(p, to), UNCHANGED credential
    PROVE  OthersStay(p) /\ step'[p] = to /\ client'[p] = client[p] /\ credential'[p] = credential[p]
BY DEF NamesOK, ClientsOK, Goto, OthersStay

LEMMA Registered ==
    ASSUME NamesOK, ClientsOK, NEW p \in Processes, Bootstrap(p), row[client[p]] = None
    PROVE  LET n == Len(receipts) + 1 IN
           /\ client[p] \in Clients /\ row' = [row EXCEPT ![client[p]] = n] /\ file' = file
           /\ OthersStay(p) /\ step'[p] = "save" /\ client'[p] = client[p] /\ credential'[p] = n
           /\ Tell(p, "client.created") /\ Contend(p, n) /\ forsaken' = forsaken
BY DEF NamesOK, ClientsOK, Bootstrap, Goto, OthersStay

LEMMA IssuedHolds == Spec => []Issued
<1>1. Init => Issued
  BY DEF Init, Issued, Issuer, Saving
<1>2. Ledger!TypeOK /\ NamesOK /\ ClientsOK /\ Issued /\ [Next]_vars => Issued'
  <2> SUFFICES ASSUME Ledger!TypeOK, NamesOK, ClientsOK, Issued, [Next]_vars PROVE Issued'
    OBVIOUS
  <2>1. \A c \in Clients : About(c) \subseteq About(c)'
    BY ReceiptsGrow
  <2>2. UNCHANGED <<step, client, credential>> => Issued'
    <3> SUFFICES ASSUME UNCHANGED <<step, client, credential>> PROVE Issued'
      OBVIOUS
    <3>1. \A q \in Processes : Saving(q)' = Saving(q) /\ (Saving(q) => client[q] \in Clients)
      BY DEF Saving, NamesOK
    <3> QED BY <2>1, <3>1 DEF Issued, Issuer
  <2>3. ASSUME NEW p \in Processes, End(p) PROVE Issued'
    BY <2>1, <2>3, EndsAlone, IssuedStays
  <2>4. ASSUME NEW p \in Processes, Start(p, kind'[p], client'[p]) PROVE Issued'
    <3>1. OthersStay(p) /\ ~Saving(p)'
      BY <2>4 DEF Start, OthersStay, Saving, NamesOK, ClientsOK
    <3> QED BY <2>1, <3>1, IssuedStays
  <2>5. ASSUME NEW p \in Processes, NEW to, Goto(p, to), UNCHANGED credential,
               to \in {"fill", "undo"} => Saving(p), to # "save"
        PROVE  Issued'
    BY <2>1, <2>5, GoesAlone, IssuedStays DEF Saving
  <2>6. ASSUME NEW p \in Processes, Bootstrap(p) PROVE Issued'
    <3>1. CASE row[client[p]] # None
      BY <2>3, <2>6, <3>1 DEF Bootstrap, Leave
    <3>2. CASE row[client[p]] = None
      <4> PICK n \in Credential : n = Len(receipts) + 1
        BY NextNumber
      <4>1. /\ client[p] \in Clients /\ OthersStay(p) /\ step'[p] = "save" /\ client'[p] = client[p]
            /\ credential'[p] = n /\ Tell(p, "client.created")
        BY <2>6, <3>2, Registered
      <4>2. n \in About(client[p])' /\ n \notin DOMAIN receipts
        <5>1. /\ n \notin DOMAIN receipts /\ n \in DOMAIN receipts'
              /\ receipts'[n].entry = [event |-> "client.created", client |-> client[p]]
          BY <4>1, TellAppends
        <5> QED BY <4>1, <5>1 DEF About
      <4>3. \A q \in Processes : q # p /\ Saving(q)' =>
               /\ Saving(q) /\ credential'[q] = credential[q] /\ client'[q] = client[q]
               /\ client[q] \in Clients /\ credential[q] \in DOMAIN receipts
        <5>1. \A q \in Processes : Saving(q) => credential[q] \in DOMAIN receipts /\ client[q] \in Clients
          BY DEF Issued, About, Saving, NamesOK
        <5> QED BY <4>1, <5>1 DEF OthersStay, Saving
      <4> QED BY <2>1, <4>1, <4>2, <4>3 DEF Issued, Issuer
    <3> QED BY <3>1, <3>2
  <2>7. ASSUME NEW p \in Processes, ProcessStep(p) PROVE Issued'
    <3>1. CASE Open(p)
      BY <2>2, <2>3, <3>1 DEF Open, commandVars
    <3>2. CASE Revoke(p)
      BY <2>3, <2>5, <3>2 DEF Revoke, Leave
    <3>3. CASE CreateFile(p)
      BY <2>5, <3>3 DEF CreateFile, Saving
    <3>4. CASE Fill(p)
      BY <2>3, <2>5, <3>4 DEF Fill, Leave, Saving
    <3>5. CASE Undo(p) \/ Unlink(p)
      BY <2>5, <3>5 DEF Undo, Unlink
    <3>6. CASE Finish(p)
      BY <2>3, <3>6 DEF Finish, Leave
    <3> QED BY <2>6, <2>7, <3>1, <3>2, <3>3, <3>4, <3>5, <3>6 DEF ProcessStep
  <2>8. ASSUME NEW p \in Processes, Die(p) PROVE Issued'
    BY <2>3, <2>8 DEF Die, Leave
  <2>9. ASSUME NEW p \in Processes, NEW k \in Kinds, NEW c \in Clients, Start(p, k, c) PROVE Issued'
    <3>1. kind'[p] = k /\ client'[p] = c
      BY <2>9 DEF Start, NamesOK
    <3> QED BY <2>4, <2>9, <3>1
  <2>10. CASE KeyFileChanges \/ UNCHANGED vars
    BY <2>2, <2>10 DEF KeyFileChanges, vars, commandVars
  <2> QED BY <2>7, <2>8, <2>9, <2>10 DEF Next
<1> QED BY <1>1, <1>2, LedgerTyped, NamesHold, ClientsTyped, PTL DEF Spec

----------------------------------------------------------------------------
(* The saved credential of a registered client.                             *)

\* A registration whose process did not die with it, and whose file nobody was
\* about to remove.
Orderly(n) == n # None /\ n \notin forsaken \cup contended

\* Its file is what its process has made of it so far.
Careful(c) ==
    Orderly(row[c]) =>
       /\ \A p \in Processes : ~Removing(p, c)
       /\ \A p \in Processes : Issuer(p, row[c]) /\ step[p] = "fill" =>
             file[c] = [owner |-> row[c], whole |-> FALSE]
       /\ (\A p \in Processes : ~Issuer(p, row[c])) => file[c] = [owner |-> row[c], whole |-> TRUE]

InOrder == \A c \in Clients : Careful(c)

\* A step of p that leaves the row and the file of c as they are.
LEMMA ElsewhereInOrder ==
    ASSUME NEW c \in Clients, Careful(c), row'[c] = row[c], file'[c] = file[c],
           forsaken \subseteq forsaken', contended \subseteq contended',
           NEW p \in Processes, OthersStay(p),
           Removing(p, c)' => Removing(p, c),
           Orderly(row[c])' => (Issuer(p, row[c])' <=> Issuer(p, row[c])),
           Issuer(p, row[c])' => step'[p] # "fill" \/ step[p] = "fill"
    PROVE  Careful(c)'
<1> SUFFICES ASSUME Orderly(row[c])' PROVE Careful(c)'
  BY DEF Careful
<1>1. Orderly(row[c])
  BY DEF Orderly
<1>2. \A q \in Processes : q # p => /\ Removing(q, c)' <=> Removing(q, c)
                                    /\ Issuer(q, row[c])' <=> Issuer(q, row[c])
                                    /\ step'[q] = step[q]
  BY DEF OthersStay, Removing, Issuer, Saving
<1>3. \A q \in Processes : /\ Removing(q, c)' => Removing(q, c)
                           /\ Issuer(q, row[c])' <=> Issuer(q, row[c])
                           /\ Issuer(q, row[c])' /\ step'[q] = "fill" => step[q] = "fill"
  BY <1>2
<1> QED BY <1>1, <1>3 DEF Careful, Issuer, Saving

\* A process that is not saving a credential, and does not come to.
LEMMA IdleInOrder ==
    ASSUME NEW c \in Clients, Careful(c), row'[c] = row[c], file'[c] = file[c],
           forsaken \subseteq forsaken', contended \subseteq contended',
           NEW p \in Processes, OthersStay(p), ~Saving(p), ~Saving(p)',
           Removing(p, c)' => Removing(p, c)
    PROVE  Careful(c)'
<1>1. ~Issuer(p, row[c]) /\ ~Issuer(p, row[c])'
  BY DEF Issuer
<1> QED BY <1>1, ElsewhereInOrder

LEMMA StruckInOrder ==
    ASSUME NEW c \in Clients, row'[c] = None
    PROVE  Careful(c)'
BY DEF Careful, Orderly

\* A token file is not the absence of one.
LEMMA CredentialFiles ==
    ASSUME NEW n \in Credential, NEW b \in BOOLEAN
    PROVE  [owner |-> n, whole |-> b] # None
<1>1. [owner |-> n, whole |-> b] \in [owner : Nat, whole : BOOLEAN]
  BY DEF Credential
<1> QED BY <1>1, NameAssumption

\* Failures and other people's key files notwithstanding, an orderly registration
\* can log in with what was saved for it.
THEOREM SavedCredentialsWork == Spec => []RegisteredHasCredential
<1>1. Init => InOrder
  <2> SUFFICES ASSUME Init, NEW c \in Clients PROVE Careful(c)
    BY DEF InOrder
  <2>1. \A p \in Processes : ~Removing(p, c) /\ \A n : ~Issuer(p, n)
    BY DEF Init, Removing, Issuer, Saving
  <2>2. row[c] # None => row[c] = 1 /\ file[c] = [owner |-> 1, whole |-> TRUE]
    BY DEF Init
  <2> QED BY <2>1, <2>2 DEF Careful, Orderly
<1>2. Ledger!TypeOK /\ NamesOK /\ ClientsOK /\ Told /\ Issued /\ InOrder /\ [Next]_vars => InOrder'
  <2> SUFFICES ASSUME Ledger!TypeOK, NamesOK, ClientsOK, Told, Issued, InOrder, [Next]_vars, NEW c \in Clients
               PROVE  Careful(c)'
    BY DEF InOrder
  <2>0. Careful(c)
    BY DEF InOrder
  \* Steps of the ledger alone.
  <2>1. ASSUME UNCHANGED <<row, file, step, client, credential, forsaken, contended>> PROVE Careful(c)'
    BY <2>0, <2>1 DEF Careful, Orderly, Removing, Issuer, Saving
  \* A step of a process that saves for another client.
  <2>2. ASSUME NEW p \in Processes, Saving(p), row[c] # None, client[p] # c PROVE credential[p] # row[c]
    <3>1. credential[p] \in About(client[p]) /\ row[c] \in About(c)
      BY <2>2 DEF Issued, Told
    <3> QED BY <2>2, <3>1 DEF About
  <2>3. ASSUME NEW p \in Processes, End(p), ~Saving(p), row' = row, file' = file,
               forsaken \subseteq forsaken', contended' = contended
        PROVE  Careful(c)'
    <3>1. OthersStay(p) /\ ~Saving(p)' /\ ~Removing(p, c)'
      BY <2>3, EndsAlone DEF Removing
    <3> QED BY <2>0, <2>3, <3>1, IdleInOrder
  <2>4. ASSUME NEW p \in Processes, NEW k \in Kinds, NEW d \in Clients, Start(p, k, d) PROVE Careful(c)'
    <3>1. OthersStay(p) /\ ~Saving(p) /\ ~Saving(p)' /\ ~Removing(p, c)'
      BY <2>4 DEF Start, OthersStay, Saving, Removing, NamesOK, ClientsOK
    <3> QED BY <2>0, <2>4, <3>1, IdleInOrder DEF Start, clientVars
  <2>5. ASSUME NEW p \in Processes, Open(p) PROVE Careful(c)'
    <3>1. CASE stage'[p] = "closed"
      BY <2>3, <2>5, <3>1 DEF Open, clientVars, Saving
    <3>2. CASE stage'[p] # "closed"
      BY <2>1, <2>5, <3>2 DEF Open, commandVars, clientVars
    <3> QED BY <3>1, <3>2
  <2>6. ASSUME NEW p \in Processes, Bootstrap(p) PROVE Careful(c)'
    <3>0. ~Saving(p)
      BY <2>6 DEF Bootstrap, Saving
    <3>1. CASE row[client[p]] # None
      BY <2>3, <2>6, <3>0, <3>1 DEF Bootstrap, Leave
    <3>2. CASE row[client[p]] = None
      <4> PICK n \in Credential : n = Len(receipts) + 1
        BY NextNumber
      <4>1. /\ client[p] \in Clients /\ row' = [row EXCEPT ![client[p]] = n] /\ file' = file
            /\ OthersStay(p) /\ step'[p] = "save" /\ client'[p] = client[p] /\ credential'[p] = n
            /\ Tell(p, "client.created") /\ Contend(p, n) /\ forsaken' = forsaken
        BY <2>6, <3>2, Registered
      <4>2. n \notin DOMAIN receipts
        BY <4>1, TellAppends
      <4>3. contended \subseteq contended' /\ ~Removing(p, c)'
        BY <4>1 DEF Contend, Removing
      <4>4. CASE client[p] = c
        <5>1. row'[c] = n /\ Issuer(p, n)'
          BY <4>1, <4>4 DEF ClientsOK, Issuer, Saving
        <5>2. ASSUME Orderly(n)', NEW q \in Processes PROVE ~Removing(q, c)'
          <6>1. n \notin contended'
            BY <5>2 DEF Orderly
          <6>2. ~(step[q] = "unlink" /\ client[q] = c)
            BY <4>1, <4>4, <6>1 DEF Contend
          <6> QED BY <4>1, <4>3, <6>2 DEF OthersStay, Removing
        <5>3. \A q \in Processes : Issuer(q, n)' => q = p
          <6>1. \A q \in Processes : Saving(q) => credential[q] # n
            BY <4>2 DEF Issued, About
          <6> QED BY <4>1, <6>1 DEF OthersStay, Issuer, Saving
        <5> QED BY <4>1, <5>1, <5>2, <5>3 DEF Careful
      <4>5. CASE client[p] # c
        <5>1. row'[c] = row[c] /\ file'[c] = file[c]
          BY <4>1, <4>5 DEF ClientsOK
        <5>2. CASE row[c] = None
          BY <5>1, <5>2, StruckInOrder
        <5>3. CASE row[c] # None
          <6>1. row[c] # n
            BY <4>2, <5>3 DEF Told, About
          <6>2. ~Issuer(p, row[c]) /\ ~Issuer(p, row[c])'
            BY <3>0, <4>1, <5>1, <6>1 DEF Issuer
          <6> QED BY <2>0, <4>1, <4>3, <5>1, <6>2, ElsewhereInOrder
        <5> QED BY <5>2, <5>3
      <4> QED BY <4>4, <4>5
    <3> QED BY <3>1, <3>2
  <2>7. ASSUME NEW p \in Processes, Revoke(p) PROVE Careful(c)'
    <3>0. ~Saving(p) /\ client[p] \in Clients
      BY <2>7 DEF Revoke, Saving, NamesOK
    <3>1. CASE Leave(p) /\ UNCHANGED row
      BY <2>3, <2>7, <3>0, <3>1 DEF Revoke, Leave
    <3>2. CASE Strike(p) /\ Goto(p, "unlink") /\ UNCHANGED credential
      <4>1. /\ OthersStay(p) /\ ~Saving(p)' /\ client'[p] = client[p]
            /\ row' = [row EXCEPT ![client[p]] = None] /\ file' = file
            /\ forsaken' = forsaken /\ contended' = contended
        BY <2>7, <3>2, GoesAlone DEF Revoke, Strike, Saving
      <4>2. CASE client[p] = c
        BY <3>0, <4>1, <4>2, StruckInOrder DEF ClientsOK
      <4>3. CASE client[p] # c
        BY <2>0, <3>0, <4>1, <4>3, IdleInOrder DEF ClientsOK, Removing
      <4> QED BY <4>2, <4>3
    <3> QED BY <2>7, <3>1, <3>2 DEF Revoke
  <2>8. ASSUME NEW p \in Processes, CreateFile(p) PROVE Careful(c)'
    <3>0. /\ Saving(p) /\ Saving(p)' /\ OthersStay(p) /\ client'[p] = client[p] /\ credential'[p] = credential[p]
          /\ step[p] = "save" /\ step'[p] \in {"fill", "undo"} /\ client[p] \in Clients
          /\ UNCHANGED <<row, forsaken, contended>>
      BY <2>8, GoesAlone DEF CreateFile, Saving, NamesOK
    <3>1. (Issuer(p, row[c])' <=> Issuer(p, row[c])) /\ ~Removing(p, c)'
      BY <3>0 DEF Issuer, Removing
    <3>2. CASE file' = file /\ step'[p] = "undo"
      BY <2>0, <3>0, <3>1, <3>2, ElsewhereInOrder
    <3>3. CASE /\ step'[p] = "fill" /\ file[client[p]] = None
               /\ file' = [file EXCEPT ![client[p]] = [owner |-> credential[p], whole |-> FALSE]]
      <4>1. CASE client[p] # c
        <5>1. file'[c] = file[c]
          BY <3>3, <4>1 DEF ClientsOK
        <5>2. row[c] # None => ~Issuer(p, row[c])
          BY <2>2, <3>0, <4>1 DEF Issuer
        <5>3. CASE row[c] = None
          BY <3>0, <5>3, StruckInOrder
        <5>4. CASE row[c] # None
          BY <2>0, <3>0, <3>1, <5>1, <5>2, <5>4, ElsewhereInOrder
        <5> QED BY <5>3, <5>4
      <4>2. CASE client[p] = c
        <5> SUFFICES ASSUME Orderly(row[c]) PROVE Careful(c)'
          BY <3>0 DEF Careful, Orderly
        <5>1. file[c] # [owner |-> row[c], whole |-> TRUE] /\ file[c] # [owner |-> row[c], whole |-> FALSE]
          <6>1. \A b \in BOOLEAN : [owner |-> row[c], whole |-> b] # None
            BY CredentialFiles DEF Orderly, ClientsOK
          <6> QED BY <3>3, <4>2, <6>1
        <5>2. /\ \A q \in Processes : ~Removing(q, c)
              /\ \A q \in Processes : Issuer(q, row[c]) => step[q] # "fill"
              /\ \E q \in Processes : Issuer(q, row[c])
          BY <2>0, <5>1 DEF Careful
        <5>3. \A q \in Processes : /\ ~Removing(q, c)'
                                   /\ Issuer(q, row[c])' <=> Issuer(q, row[c])
                                   /\ q # p => step'[q] = step[q]
          BY <3>0, <3>1, <5>2 DEF OthersStay, Removing, Issuer, Saving
        <5>4. Issuer(p, row[c]) => file'[c] = [owner |-> row[c], whole |-> FALSE]
          BY <3>3, <4>2 DEF Issuer, ClientsOK
        <5> QED BY <3>0, <5>2, <5>3, <5>4 DEF Careful
      <4> QED BY <4>1, <4>2
    <3> QED BY <2>8, <3>2, <3>3 DEF CreateFile, Goto, NamesOK
  <2>9. ASSUME NEW p \in Processes, Fill(p) PROVE Careful(c)'
    <3>0. /\ Saving(p) /\ step[p] = "fill" /\ client[p] \in Clients /\ credential[p] \in Credential
          /\ OthersStay(p) /\ ~Removing(p, c)' /\ step'[p] # "fill"
          /\ UNCHANGED <<row, forsaken, contended>>
      BY <2>9, GoesAlone, EndsAlone DEF Fill, Leave, Saving, NamesOK, ClientsOK, Removing
    <3>1. /\ file' \in {file, Filled(p)}
          /\ \/ ~Saving(p)' /\ file' = Filled(p)
             \/ Saving(p)' /\ credential'[p] = credential[p]
      BY <2>9, GoesAlone, EndsAlone DEF Fill, Leave, Saving
    <3>2. CASE row[c] = None
      BY <3>0, <3>2, StruckInOrder
    <3>3. CASE row[c] # None /\ credential[p] # row[c]
      <4>1. ~Issuer(p, row[c]) /\ ~Issuer(p, row[c])'
        BY <3>0, <3>1, <3>3 DEF Issuer
      <4>2. CASE file'[c] = file[c]
        BY <2>0, <3>0, <4>1, <4>2, ElsewhereInOrder
      <4>3. CASE file'[c] # file[c]
        <5> SUFFICES ASSUME Orderly(row[c]) PROVE Careful(c)'
          BY <3>0 DEF Careful, Orderly
        <5>1. file[c].owner # row[c]
          <6>1. file' = Filled(p)
            BY <3>1, <4>3
          <6>2. client[p] = c /\ file[c].owner = credential[p]
            BY <3>0, <4>3, <6>1 DEF Filled, ClientsOK
          <6> QED BY <3>3, <6>2
        <5>2. /\ \A q \in Processes : ~Removing(q, c)
              /\ \A q \in Processes : Issuer(q, row[c]) => step[q] # "fill"
              /\ \E q \in Processes : Issuer(q, row[c])
          BY <2>0, <5>1 DEF Careful
        <5>3. \A q \in Processes : /\ ~Removing(q, c)'
                                   /\ Issuer(q, row[c])' <=> Issuer(q, row[c])
                                   /\ q # p => step'[q] = step[q]
          BY <3>0, <4>1, <5>2 DEF OthersStay, Removing, Issuer, Saving
        <5> QED BY <3>0, <5>2, <5>3, <4>1 DEF Careful
      <4> QED BY <4>2, <4>3
    <3>4. CASE row[c] # None /\ credential[p] = row[c]
      <4> SUFFICES ASSUME Orderly(row[c]) PROVE Careful(c)'
        BY <3>0 DEF Careful, Orderly
      <4>1. client[p] = c /\ Issuer(p, row[c])
        BY <2>2, <3>0, <3>4 DEF Issuer
      <4>2. file[c] = [owner |-> row[c], whole |-> FALSE] /\ \A q \in Processes : ~Removing(q, c)
        BY <2>0, <3>0, <4>1 DEF Careful
      <4>3. \A q \in Processes : /\ ~Removing(q, c)'
                                 /\ q # p => ~Issuer(q, row[c])'
        <5>1. \A q \in Processes : q # p => ~Issuer(q, row[c])
          BY <3>0, <3>4 DEF Issued
        <5> QED BY <3>0, <4>2, <5>1 DEF OthersStay, Removing, Issuer, Saving
      <4>4. file' = Filled(p) => file'[c] = [owner |-> row[c], whole |-> TRUE]
        <5>1. file[c] # None
          BY <3>0, <3>4, <4>2, CredentialFiles
        <5>2. file[c].owner = row[c]
          BY <4>2
        <5>3. Filled(p) = [file EXCEPT ![c] = [owner |-> row[c], whole |-> TRUE]]
          BY <3>4, <4>1, <5>1, <5>2 DEF Filled
        <5> QED BY <5>3 DEF ClientsOK
      <4>5. Issuer(p, row[c])' \/ file'[c] = [owner |-> row[c], whole |-> TRUE]
        BY <3>0, <3>1, <3>4, <4>4 DEF Issuer
      <4> QED BY <3>0, <4>3, <4>5 DEF Careful
    <3> QED BY <3>2, <3>3, <3>4
  <2>10. ASSUME NEW p \in Processes, Undo(p) PROVE Careful(c)'
    <3>0. /\ Saving(p) /\ ~Saving(p)' /\ ~Removing(p, c)' /\ client[p] \in Clients /\ OthersStay(p)
          /\ UNCHANGED <<file, forsaken, contended>>
      BY <2>10, GoesAlone DEF Undo, Saving, Removing, NamesOK
    <3>1. row' = [row EXCEPT ![client[p]] = None]
      BY <2>10 DEF Undo, Strike, ClientsOK
    <3>2. CASE client[p] = c
      BY <3>1, <3>2, StruckInOrder DEF ClientsOK
    <3>3. CASE client[p] # c
      <4>1. row'[c] = row[c]
        BY <3>1, <3>3 DEF ClientsOK
      <4>2. CASE row[c] = None
        BY <4>1, <4>2, StruckInOrder
      <4>3. CASE row[c] # None
        <5>1. ~Issuer(p, row[c]) /\ ~Issuer(p, row[c])'
          BY <2>2, <3>0, <3>3, <4>3 DEF Issuer
        <5> QED BY <2>0, <3>0, <4>1, <5>1, ElsewhereInOrder
      <4> QED BY <4>2, <4>3
    <3> QED BY <3>2, <3>3
  <2>11. ASSUME NEW p \in Processes, Unlink(p) PROVE Careful(c)'
    <3>0. /\ ~Saving(p) /\ ~Saving(p)' /\ ~Removing(p, c)' /\ OthersStay(p) /\ client[p] \in Clients
          /\ file' = [file EXCEPT ![client[p]] = None] /\ UNCHANGED <<row, forsaken, contended>>
      BY <2>11, GoesAlone DEF Unlink, Saving, Removing, NamesOK
    <3>1. CASE client[p] # c
      BY <2>0, <3>0, <3>1, IdleInOrder DEF ClientsOK
    <3>2. CASE client[p] = c
      <4>1. ~Orderly(row[c])
        BY <2>0, <2>11, <3>2 DEF Careful, Removing, Unlink
      <4> QED BY <3>0, <4>1 DEF Careful, Orderly
    <3> QED BY <3>1, <3>2
  <2>12. ASSUME NEW p \in Processes, Finish(p) PROVE Careful(c)'
    BY <2>3, <2>12 DEF Finish, Leave, clientVars, Saving
  <2>13. ASSUME NEW p \in Processes, Die(p) PROVE Careful(c)'
    <3>0. /\ OthersStay(p) /\ ~Saving(p)' /\ ~Removing(p, c)' /\ UNCHANGED <<row, file, contended>>
          /\ forsaken' = forsaken \cup {n \in {credential[p]} : Saving(p)}
      BY <2>13, EndsAlone DEF Die, Leave, clientVars, Removing
    <3>1. Orderly(row[c])' => ~Issuer(p, row[c])
      BY <3>0 DEF Orderly, Issuer
    <3>2. ~Issuer(p, row[c])'
      BY <3>0 DEF Issuer
    <3> QED BY <2>0, <3>0, <3>1, <3>2, ElsewhereInOrder
  <2>14. CASE KeyFileChanges \/ UNCHANGED vars
    BY <2>1, <2>14 DEF KeyFileChanges, vars, clientVars, commandVars
  <2> QED BY <2>4, <2>5, <2>6, <2>7, <2>8, <2>9, <2>10, <2>11, <2>12, <2>13, <2>14 DEF Next, ProcessStep
<1>3. InOrder => RegisteredHasCredential
  BY DEF InOrder, Orderly, Careful, RegisteredHasCredential, Issuer
<1> QED BY <1>1, <1>2, <1>3, LedgerTyped, NamesHold, ClientsTyped, ToldHolds, IssuedHolds, PTL DEF Spec
=============================================================================
