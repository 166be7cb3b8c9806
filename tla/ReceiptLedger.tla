---------------------------- MODULE ReceiptLedger ----------------------------
(***************************************************************************)
(* The receipt ledger of receipts.py: one signing-key file, the fingerprint*)
(* of its public key pinned in the store, and the receipts.  Every command *)
(* is a process that opens the ledger on its own, so the first commands of *)
(* an installation create, load and pin the key at the same time.          *)
(*                                                                         *)
(* A signature is the name of the key that made it; the hash chain is the  *)
(* order of the sequence.                                                  *)
(***************************************************************************)
EXTENDS Naturals, Sequences

CONSTANTS
    Processes,
    Keys,               \* a generated key is drawn from here; two draws may agree
    Entries,            \* what a receipt says
    None

\* What whoever instantiates this module has to assume.
KeyAssumption == None \notin Keys /\ "torn" \notin Keys \cup {None}

VARIABLES
    keyFile,            \* None, "torn" (created, not yet written), or its key
    pin,                \* metadata receipt_signing_key_fingerprint, or None
    receipts,           \* the receipts table, oldest first
    stage,              \* where each process is in opening its ledger
    key,                \* the signer of each process
    intact              \* history: nobody has removed or replaced the key file

files == <<keyFile, intact>>
store == <<pin, receipts>>
procs == <<stage, key>>
vars == <<files, store, procs>>

Stages == {"closed", "opening", "absent", "create", "write", "loaded", "pin", "audit", "open"}

Receipt == [entry : Entries, signer : Keys]

TypeOK ==
    /\ keyFile \in Keys \cup {None, "torn"}
    /\ pin \in Keys \cup {None}
    /\ receipts \in Seq(Receipt)
    /\ stage \in [Processes -> Stages]
    /\ key \in [Processes -> Keys \cup {None}]
    /\ intact \in BOOLEAN

\* _verify_receipts: the whole ledger is signed with k.
SignedBy(k) == \A i \in DOMAIN receipts : receipts[i].signer = k

\* A new state directory, or a ledger of a version that pinned no key, whose key
\* file may have been lost or exchanged since.
Init ==
    /\ \/ receipts = <<>> /\ keyFile = None
       \/ /\ \E k \in Keys, e \in Entries : receipts = <<[entry |-> e, signer |-> k]>>
          /\ keyFile \in Keys \cup {None}
    /\ pin = None
    /\ stage = [p \in Processes |-> "closed"]
    /\ key = [p \in Processes |-> None]
    /\ intact = TRUE

----------------------------------------------------------------------------
(* ReceiptLedger.open.                                                      *)

Go(p, to) == stage' = [stage EXCEPT ![p] = to]

\* The process has ended or died, wherever it was.
Leave(p) == Go(p, "closed") /\ key' = [key EXCEPT ![p] = None]

Sign(p, k, to) == Go(p, to) /\ key' = [key EXCEPT ![p] = k]

Begin(p) ==
    /\ stage[p] = "closed"
    /\ Go(p, "opening")
    /\ UNCHANGED <<files, store, key>>

\* Slip: a reader waits for the creator of the key to finish.
AwaitKeyFile(p) ==
    /\ stage[p] = "opening"
    /\ IF keyFile = None THEN Go(p, "absent") /\ UNCHANGED key
       ELSE IF keyFile = "torn" THEN Go(p, "opening") /\ UNCHANGED key
       ELSE Sign(p, keyFile, "loaded")
    /\ UNCHANGED <<files, store>>

\* Slip: the length of what was read is not checked.
ReadAnyLength(p) ==
    /\ stage[p] = "opening"
    /\ IF keyFile = None THEN Go(p, "absent") /\ UNCHANGED key
       ELSE Sign(p, keyFile, "loaded")
    /\ UNCHANGED <<files, store>>

\* A file of another length than a key's is refused, also when its creator is
\* still writing it.
ReadKeyFile(p) ==
    /\ stage[p] = "opening"
    /\ IF keyFile = None THEN Go(p, "absent") /\ UNCHANGED key
       ELSE IF keyFile = "torn" THEN Leave(p)
       ELSE Sign(p, keyFile, "loaded")
    /\ UNCHANGED <<files, store>>

\* Without a key file only an empty, unpinned store may go on.  The pin is read
\* last, and while there is none the receipts do not change: one step.
CheckFresh(p) ==
    /\ stage[p] = "absent"
    /\ IF receipts = <<>> /\ pin = None THEN Go(p, "create") /\ UNCHANGED key
       ELSE Leave(p)
    /\ UNCHANGED <<files, store>>

\* Slip: an existing key file is opened for writing.
CreateOver(p) ==
    /\ stage[p] = "create"
    /\ keyFile' = "torn"
    /\ \E k \in Keys : Sign(p, k, "write")
    /\ UNCHANGED <<intact, store>>

\* O_CREAT | O_EXCL; the loser starts again with the winner's file.
CreateKeyFile(p) ==
    /\ stage[p] = "create"
    /\ IF keyFile = None
       THEN keyFile' = "torn" /\ \E k \in Keys : Sign(p, k, "write")
       ELSE UNCHANGED keyFile /\ Go(p, "opening") /\ UNCHANGED key
    /\ UNCHANGED <<intact, store>>

\* A failure of write or fsync leaves the file as far as it has come.
WriteKeyFile(p) ==
    /\ stage[p] = "write"
    /\ \/ keyFile' = key[p] /\ Go(p, "pin") /\ UNCHANGED key
       \/ keyFile' \in {keyFile, key[p]} /\ Leave(p)
    /\ UNCHANGED <<intact, store>>

\* Slip: an unpinned ledger takes whatever key is there.
AcceptKey(p) ==
    /\ stage[p] = "loaded"
    /\ Go(p, "pin")
    /\ UNCHANGED <<files, store, key>>

\* An unpinned ledger must be signed by the key that was found.
VerifyUnpinned(p) ==
    /\ stage[p] = "loaded"
    /\ IF pin = None /\ ~SignedBy(key[p]) THEN Leave(p)
       ELSE Go(p, "pin") /\ UNCHANGED key
    /\ UNCHANGED <<files, store>>

\* One transaction: the first key is pinned, any other is refused.
PinKey(p) ==
    /\ stage[p] = "pin"
    /\ IF pin \in {None, key[p]}
       THEN pin' = key[p] /\ Go(p, "audit") /\ UNCHANGED key
       ELSE UNCHANGED pin /\ Leave(p)
    /\ UNCHANGED <<files, receipts>>

\* The store's integrity, and every signature under the pinned key.
Audit(p) ==
    /\ stage[p] = "audit"
    /\ IF pin = key[p] /\ SignedBy(key[p]) THEN Go(p, "open") /\ UNCHANGED key
       ELSE Leave(p)
    /\ UNCHANGED <<files, store>>

OpenStep(p) ==
    \/ ReadKeyFile(p) \/ CheckFresh(p) \/ CreateKeyFile(p) \/ WriteKeyFile(p)
    \/ VerifyUnpinned(p) \/ PinKey(p) \/ Audit(p)

\* ReceiptLedger.append, in the transaction of what it records.  The key file
\* and the pin are not looked at again.
AppendReceipt(p, e) ==
    /\ stage[p] = "open"
    /\ receipts' = Append(receipts, [entry |-> e, signer |-> key[p]])
    /\ UNCHANGED <<files, pin, procs>>

Close(p) ==
    /\ stage[p] # "closed"
    /\ Leave(p)
    /\ UNCHANGED <<files, store>>

----------------------------------------------------------------------------
(* The operator and the key file.                                           *)

\* The file a dead creator left is thrown away, when no command is about to read
\* or create it.
DiscardTorn ==
    /\ keyFile = "torn"
    /\ \A p \in Processes : stage[p] \notin {"opening", "absent", "create", "write"}
    /\ keyFile' = None
    /\ UNCHANGED <<intact, store, procs>>

\* The key is lost, or another one is put in its place, at any time but while it
\* is written (bound: once).
Tamper ==
    /\ intact
    /\ \A p \in Processes : stage[p] # "write"
    /\ keyFile' \in (Keys \cup {None}) \ {keyFile}
    /\ intact' = FALSE
    /\ UNCHANGED <<store, procs>>

Next ==
    \/ \E p \in Processes :
          \/ Begin(p) \/ OpenStep(p) \/ Close(p)
          \/ \E e \in Entries : AppendReceipt(p, e)
    \/ DiscardTorn \/ Tamper

Spec == Init /\ [][Next]_vars

----------------------------------------------------------------------------
(* Properties.                                                              *)

\* Whoever opens the ledger, with whatever key file, and however first commands
\* race: once a key is pinned, it verifies every receipt.
LedgerVerifiable == pin # None => SignedBy(pin)

\* Racing first commands, and deaths among them, never pin a key that is not the
\* one in the file: only removing or replacing the file locks the ledger.
PinnedKeyIsKept == intact /\ pin # None => keyFile = pin
=============================================================================
