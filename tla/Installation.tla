---------------------------- MODULE Installation -----------------------------
(***************************************************************************)
(* The commands `init`, `client add` and `client revoke` of cli.py: each   *)
(* is a process that opens the receipt ledger, changes the clients table in*)
(* one transaction with its receipt, and then creates or removes the file  *)
(* with the client's credential, which no transaction covers.              *)
(*                                                                         *)
(* A credential is named by the number of the receipt of its creation.     *)
(***************************************************************************)
EXTENDS Naturals, Sequences, FiniteSets

CONSTANTS
    Processes, Clients, Keys,
    MaxReceipts,        \* bound: commands are started while there is room
    None

ASSUME NameAssumption ==
    /\ None \notin Keys \cup Clients \cup Nat
    /\ None \notin [owner : Nat, whole : BOOLEAN]
    /\ "torn" \notin Keys \cup {None}

VARIABLES
    keyFile, pin, receipts, stage, key, intact,     \* see ReceiptLedger
    row,                \* clients: the credential of a client, or None
    file,               \* clients/<id>.token, or None
    step,               \* where each process is in its command
    kind, client,       \* its command
    credential,         \* what `add` has issued
    forsaken,           \* history: credentials whose process died before they were saved
    contended           \* history: credentials issued while a revocation was to remove a file

ledgerVars == <<keyFile, pin, receipts, stage, key, intact>>
clientVars == <<row, file>>
commandVars == <<step, kind, client, credential>>
vars == <<ledgerVars, clientVars, commandVars, forsaken, contended>>

Entries == [event : {"client.created", "client.revoked"}, client : Clients]

Ledger == INSTANCE ReceiptLedger
          WITH Processes <- Processes, Keys <- Keys, Entries <- Entries, None <- None,
               keyFile <- keyFile, pin <- pin, receipts <- receipts,
               stage <- stage, key <- key, intact <- intact

Credential == Nat \ {0}

\* A token file: whose it is, and whether all of it has been written.
File == [owner : Credential, whole : BOOLEAN]

Steps == {"idle", "enter", "save", "fill", "undo", "unlink", "done"}

\* `init` is `client add`; every other command only opens the ledger here.
Kinds == {"add", "revoke", "other"}

\* `add` between its transaction and the end of saving or compensation.
Saving(p) == step[p] \in {"save", "fill", "undo"}

TypeOK ==
    /\ Ledger!TypeOK
    /\ row \in [Clients -> Credential \cup {None}]
    /\ file \in [Clients -> File \cup {None}]
    /\ step \in [Processes -> Steps]
    /\ kind \in [Processes -> Kinds]
    /\ client \in [Processes -> Clients \cup {None}]
    /\ credential \in [Processes -> Credential \cup {None}]
    /\ forsaken \subseteq Credential /\ contended \subseteq Credential

\* A legacy ledger tells of clients that have a row.
Init ==
    /\ Ledger!Init
    /\ row = [c \in Clients |->
                IF \E i \in DOMAIN receipts : receipts[i].entry =
                       [event |-> "client.created", client |-> c] THEN 1 ELSE None]
    /\ \A i \in DOMAIN receipts : receipts[i].entry.event = "client.created"
    /\ file = [c \in Clients |-> IF row[c] = None THEN None
                                 ELSE [owner |-> 1, whole |-> TRUE]]
    /\ step = [p \in Processes |-> "idle"]
    /\ kind = [p \in Processes |-> "other"]
    /\ client = [p \in Processes |-> None]
    /\ credential = [p \in Processes |-> None]
    /\ forsaken = {} /\ contended = {}

----------------------------------------------------------------------------
(* The command line.                                                        *)

\* Bound: a command starts when the receipts it and the running ones may still
\* write, their compensations included, have room.
Owed == 2 * Cardinality({p \in Processes : step[p] = "enter" /\ kind[p] # "other"})
        + Cardinality({p \in Processes : Saving(p)})

HasRoom(k) == k = "other" \/ Len(receipts) + Owed + 2 <= MaxReceipts

Start(p, k, c) ==
    /\ step[p] = "idle" /\ HasRoom(k)
    /\ Ledger!Begin(p)
    /\ step' = [step EXCEPT ![p] = "enter"]
    /\ kind' = [kind EXCEPT ![p] = k]
    /\ client' = [client EXCEPT ![p] = c]
    /\ UNCHANGED <<clientVars, credential, forsaken, contended>>

Goto(p, to) == step' = [step EXCEPT ![p] = to] /\ UNCHANGED <<kind, client>>

End(p) ==
    /\ step' = [step EXCEPT ![p] = "idle"]
    /\ kind' = [kind EXCEPT ![p] = "other"]
    /\ client' = [client EXCEPT ![p] = None]
    /\ credential' = [credential EXCEPT ![p] = None]

\* build_service: the command ends with an error if the ledger does not open.
Open(p) ==
    /\ step[p] = "enter"
    /\ Ledger!OpenStep(p)
    /\ IF stage'[p] = "closed" THEN End(p) ELSE UNCHANGED commandVars
    /\ UNCHANGED <<clientVars, forsaken, contended>>

Leave(p) == Ledger!Close(p) /\ End(p)

Tell(p, e) == Ledger!AppendReceipt(p, [event |-> e, client |-> client[p]])

\* History: a revocation of the client has yet to remove its file.
Contend(p, n) ==
    contended' = contended \cup
       {m \in {n} : \E q \in Processes : step[q] = "unlink" /\ client[q] = client[p]}

\* Slip: a client that exists gets a new credential.
Reissue(p) ==
    LET c == client[p]
        n == Len(receipts) + 1 IN
    /\ step[p] = "enter" /\ kind[p] = "add" /\ stage[p] = "open"
    /\ row' = [row EXCEPT ![c] = n]
    /\ Tell(p, "client.created")
    /\ credential' = [credential EXCEPT ![p] = n]
    /\ Goto(p, "save")
    /\ Contend(p, n)
    /\ UNCHANGED <<file, forsaken>>

\* bootstrap_client: row and receipt, unless the client exists.
Bootstrap(p) ==
    LET c == client[p]
        n == Len(receipts) + 1 IN
    /\ step[p] = "enter" /\ kind[p] = "add" /\ stage[p] = "open"
    /\ IF row[c] = None
       THEN /\ row' = [row EXCEPT ![c] = n]
            /\ Tell(p, "client.created")
            /\ credential' = [credential EXCEPT ![p] = n]
            /\ Goto(p, "save")
            /\ Contend(p, n)
       ELSE Leave(p) /\ UNCHANGED <<row, contended>>
    /\ UNCHANGED <<file, forsaken>>

\* revoke_client: row and receipt; a client without a row is an error.
Strike(p) ==
    /\ row[client[p]] # None
    /\ row' = [row EXCEPT ![client[p]] = None]
    /\ Tell(p, "client.revoked")

Revoke(p) ==
    /\ step[p] = "enter" /\ kind[p] = "revoke" /\ stage[p] = "open"
    /\ \/ Strike(p) /\ Goto(p, "unlink") /\ UNCHANGED credential
       \/ row[client[p]] = None /\ Leave(p) /\ UNCHANGED row
    /\ UNCHANGED <<file, forsaken, contended>>

\* Slip: a file that is there is written over.
SaveOver(p) ==
    /\ step[p] = "save"
    /\ \/ /\ file' = [file EXCEPT ![client[p]] = [owner |-> credential[p], whole |-> FALSE]]
          /\ Goto(p, "fill")
       \/ Goto(p, "undo") /\ UNCHANGED file
    /\ UNCHANGED <<ledgerVars, row, credential, forsaken, contended>>

\* _write_token creates the file exclusively; this fails if there is one, and may
\* fail for other reasons.
CreateFile(p) ==
    LET c == client[p] IN
    /\ step[p] = "save"
    /\ \/ /\ file[c] = None
          /\ file' = [file EXCEPT ![c] = [owner |-> credential[p], whole |-> FALSE]]
          /\ Goto(p, "fill")
       \/ Goto(p, "undo") /\ UNCHANGED file
    /\ UNCHANGED <<ledgerVars, row, credential, forsaken, contended>>

\* The bytes go to the file this process created, which may be unlinked by now.
Filled(p) ==
    LET c == client[p] IN
    IF file[c] # None /\ file[c].owner = credential[p]
    THEN [file EXCEPT ![c] = [owner |-> credential[p], whole |-> TRUE]] ELSE file

\* The command is done, or write or fsync fail and the file stays as it is.
Fill(p) ==
    /\ step[p] = "fill"
    /\ \/ file' = Filled(p) /\ Leave(p)
       \/ file' \in {file, Filled(p)} /\ Goto(p, "undo") /\ UNCHANGED <<ledgerVars, credential>>
    /\ UNCHANGED <<row, forsaken, contended>>

\* The compensation revokes by name: whatever registration is there now.
Undo(p) ==
    /\ step[p] = "undo"
    /\ Strike(p) \/ (row[client[p]] = None /\ UNCHANGED <<ledgerVars, row>>)
    /\ Goto(p, "done")
    /\ UNCHANGED <<file, credential, forsaken, contended>>

\* The file goes after the row, whosever it is by then.
Unlink(p) ==
    /\ step[p] = "unlink"
    /\ file' = [file EXCEPT ![client[p]] = None]
    /\ Goto(p, "done")
    /\ UNCHANGED <<ledgerVars, row, credential, forsaken, contended>>

Finish(p) ==
    /\ step[p] = "done" \/ (step[p] = "enter" /\ kind[p] = "other" /\ stage[p] = "open")
    /\ Leave(p)
    /\ UNCHANGED <<clientVars, forsaken, contended>>

\* A kill, or an error no handler is there for.
Die(p) ==
    /\ step[p] # "idle"
    /\ Leave(p)
    /\ forsaken' = forsaken \cup {n \in {credential[p]} : Saving(p)}
    /\ UNCHANGED <<clientVars, contended>>

KeyFileChanges ==
    /\ Ledger!DiscardTorn \/ Ledger!Tamper
    /\ UNCHANGED <<clientVars, commandVars, forsaken, contended>>

----------------------------------------------------------------------------

ProcessStep(p) ==
    \/ Open(p) \/ Bootstrap(p) \/ Revoke(p) \/ CreateFile(p) \/ Fill(p)
    \/ Undo(p) \/ Unlink(p) \/ Finish(p)

Next ==
    \/ \E p \in Processes :
          \/ \E k \in Kinds, c \in Clients : Start(p, k, c)
          \/ ProcessStep(p)
          \/ Die(p)
    \/ KeyFileChanges

Spec == Init /\ [][Next]_vars

\* Running processes are scheduled; nobody has to start a command.
FairSpec == Spec /\ \A p \in Processes : WF_vars(ProcessStep(p))

----------------------------------------------------------------------------
(* Properties.                                                              *)

\* All receipts verify under the pinned key, whichever processes wrote them.
LedgerVerifiable == Ledger!LedgerVerifiable

\* Racing and dying first commands never pin another key than the file's.
PinnedKeyIsKept == Ledger!PinnedKeyIsKept

About(c) == {i \in DOMAIN receipts : receipts[i].entry.client = c}

\* The receipts of a client are creations and revocations in turn, whoever wrote
\* them, and the last one says whether the client has a row, and which.
LedgerTellsClients ==
    \A c \in Clients : \A i \in About(c) :
       LET later == {j \in About(c) : j > i}
           created == receipts[i].entry.event = "client.created" IN
       IF later = {} THEN row[c] = IF created THEN i ELSE None
       ELSE \E j \in later : /\ \A k \in later : j <= k
                             /\ receipts[j].entry.event # receipts[i].entry.event

\* Whatever fails while clients are added, compensated, revoked and added again, by
\* several commands at a time: a client with a row has the credential of just that
\* registration in its file, or the process that issued it is still busy with it.
\* Exceptions: that process died on the way, or an earlier revocation of the client
\* was about to remove the file by its name when the credential was issued.
RegisteredHasCredential ==
    \A c \in Clients :
       /\ row[c] # None /\ row[c] \notin forsaken \cup contended
       /\ \A p \in Processes : Saving(p) => credential[p] # row[c]
       => file[c] = [owner |-> row[c], whole |-> TRUE]

\* Every command ends, whatever became of the process that creates the key.
CommandsEnd == \A p \in Processes : step[p] # "idle" ~> step[p] = "idle"
=============================================================================
