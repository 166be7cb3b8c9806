------------------------- MODULE ReceiptLedgerProofs --------------------------
(* Proofs about ReceiptLedger: types, and that its pinned key verifies every *)
(* receipt and stays in the file.                                            *)
EXTENDS ReceiptLedger, TLAPS

USE DEF files, store, procs

\* A process that goes on with a key has one.
Armed ==
    \A p \in Processes :
       stage[p] \in {"write", "loaded", "pin", "audit", "open"} => key[p] \in Keys

Typed == TypeOK /\ Armed

LEMMA TypesHold == ASSUME KeyAssumption PROVE Spec => []Typed
<1>1. Init => Typed
  <2> SUFFICES ASSUME Init PROVE Typed
    OBVIOUS
  <2>1. receipts \in Seq(Receipt)
    <3>1. CASE receipts = <<>>
      BY <3>1
    <3>2. CASE \E k \in Keys, e \in Entries : receipts = <<[entry |-> e, signer |-> k]>>
      <4> PICK k \in Keys, e \in Entries : receipts = <<[entry |-> e, signer |-> k]>>
        BY <3>2
      <4>1. [entry |-> e, signer |-> k] \in Receipt
        BY DEF Receipt
      <4> QED BY <4>1
    <3> QED BY <3>1, <3>2 DEF Init
  <2>2. QED BY <2>1 DEF Init, TypeOK, Stages, Typed, Armed
<1>2. Typed /\ [Next]_vars => Typed'
  <2> SUFFICES ASSUME Typed, [Next]_vars PROVE Typed'
    OBVIOUS
  <2> USE DEF Typed, TypeOK, Armed, Go, Leave, Sign, Stages
  <2>1. ASSUME NEW p \in Processes, Begin(p) PROVE Typed'
    BY <2>1 DEF Begin
  <2>2. ASSUME NEW p \in Processes, ReadKeyFile(p) PROVE Typed'
    BY <2>2 DEF ReadKeyFile, KeyAssumption
  <2>3. ASSUME NEW p \in Processes, CheckFresh(p) PROVE Typed'
    BY <2>3 DEF CheckFresh
  <2>4. ASSUME NEW p \in Processes, CreateKeyFile(p) PROVE Typed'
    BY <2>4 DEF CreateKeyFile
  <2>5. ASSUME NEW p \in Processes, WriteKeyFile(p) PROVE Typed'
    BY <2>5 DEF WriteKeyFile
  <2>6. ASSUME NEW p \in Processes, VerifyUnpinned(p) PROVE Typed'
    BY <2>6 DEF VerifyUnpinned
  <2>7. ASSUME NEW p \in Processes, PinKey(p) PROVE Typed'
    BY <2>7 DEF PinKey
  <2>8. ASSUME NEW p \in Processes, Audit(p) PROVE Typed'
    BY <2>8 DEF Audit
  <2>9. ASSUME NEW p \in Processes, Close(p) PROVE Typed'
    BY <2>9 DEF Close
  <2>10. ASSUME NEW p \in Processes, NEW e \in Entries, AppendReceipt(p, e) PROVE Typed'
    <3>1. key[p] \in Keys
      BY <2>10 DEF AppendReceipt
    <3>2. [entry |-> e, signer |-> key[p]] \in Receipt
      BY <3>1 DEF Receipt
    <3>3. receipts' \in Seq(Receipt)
      BY <2>10, <3>2 DEF AppendReceipt
    <3> QED BY <2>10, <3>3 DEF AppendReceipt
  <2>11. ASSUME DiscardTorn PROVE Typed'
    BY <2>11 DEF DiscardTorn
  <2>12. ASSUME Tamper PROVE Typed'
    BY <2>12 DEF Tamper
  <2>13. ASSUME UNCHANGED vars PROVE Typed'
    BY <2>13 DEF vars
  <2> QED BY <2>1, <2>2, <2>3, <2>4, <2>5, <2>6, <2>7, <2>8, <2>9, <2>10, <2>11, <2>12, <2>13
          DEF Next, OpenStep
<1> QED BY <1>1, <1>2, PTL DEF Spec

\* Every value keeps its type, whatever races, dies or is refused.
THEOREM LedgerTypes == ASSUME KeyAssumption PROVE Spec => []TypeOK
<1>1. Typed => TypeOK
  BY DEF Typed
<1> QED BY <1>1, TypesHold, PTL

----------------------------------------------------------------------------
(* Nothing is appended before a key is pinned, so what a process has found *)
(* out about an unpinned ledger is still true when it pins its key.        *)

Sound ==
    /\ LedgerVerifiable
    /\ \A p \in Processes :
          /\ stage[p] \in {"create", "write"} /\ pin = None => receipts = <<>>
          /\ stage[p] = "pin" /\ pin = None => SignedBy(key[p])
          /\ stage[p] \in {"audit", "open"} => pin = key[p]

\* Appending with the key that signed all there is.
LEMMA AppendKeepsSigner ==
    ASSUME TypeOK, NEW p \in Processes, NEW e \in Entries, key[p] \in Keys,
           SignedBy(key[p]), AppendReceipt(p, e)
    PROVE  \A i \in DOMAIN receipts' : receipts'[i].signer = key[p]
<1> DEFINE r == [entry |-> e, signer |-> key[p]]
<1>1. r \in Receipt /\ receipts \in Seq(Receipt) /\ receipts' = Append(receipts, r)
  BY DEF TypeOK, AppendReceipt, Receipt
<1> HIDE DEF r
<1>2. ASSUME NEW i \in DOMAIN receipts' PROVE receipts'[i].signer = key[p]
  <2>1. CASE i = Len(receipts) + 1
    BY <1>1, <2>1 DEF r
  <2>2. CASE i # Len(receipts) + 1
    <3>1. i \in DOMAIN receipts /\ receipts'[i] = receipts[i]
      BY <1>1, <2>2
    <3> QED BY <3>1 DEF SignedBy
  <2> QED BY <2>1, <2>2
<1> QED BY <1>2

\* Whatever key file a command finds, and however the first commands race, the
\* pinned key verifies every receipt.
THEOREM LedgerStaysVerifiable == ASSUME KeyAssumption PROVE Spec => []LedgerVerifiable
<1>1. Init => Sound
  BY DEF KeyAssumption, Init, Sound, LedgerVerifiable
<1>2. Typed /\ Sound /\ [Next]_vars => Sound'
  <2> SUFFICES ASSUME Typed, Sound, [Next]_vars PROVE Sound'
    OBVIOUS
  <2> USE DEF Typed, TypeOK, Armed, Go, Leave, Sign, Stages, Sound, LedgerVerifiable, SignedBy
  <2>1. ASSUME NEW p \in Processes, Begin(p) PROVE Sound'
    BY <2>1 DEF Begin
  <2>2. ASSUME NEW p \in Processes, ReadKeyFile(p) PROVE Sound'
    BY <2>2 DEF ReadKeyFile
  <2>3. ASSUME NEW p \in Processes, CheckFresh(p) PROVE Sound'
    BY <2>3 DEF CheckFresh
  <2>4. ASSUME NEW p \in Processes, CreateKeyFile(p) PROVE Sound'
    BY <2>4 DEF CreateKeyFile
  <2>5. ASSUME NEW p \in Processes, WriteKeyFile(p) PROVE Sound'
    BY <2>5 DEF WriteKeyFile
  <2>6. ASSUME NEW p \in Processes, VerifyUnpinned(p) PROVE Sound'
    BY <2>6 DEF VerifyUnpinned
  <2>7. ASSUME NEW p \in Processes, PinKey(p) PROVE Sound'
    BY <2>7 DEF PinKey, KeyAssumption
  <2>8. ASSUME NEW p \in Processes, Audit(p) PROVE Sound'
    BY <2>8 DEF Audit
  <2>9. ASSUME NEW p \in Processes, Close(p) PROVE Sound'
    BY <2>9 DEF Close
  <2>10. ASSUME NEW p \in Processes, NEW e \in Entries, AppendReceipt(p, e) PROVE Sound'
    <3>1. key[p] \in Keys /\ pin = key[p] /\ pin # None /\ SignedBy(key[p])
      BY <2>10 DEF AppendReceipt, KeyAssumption
    <3>2. \A i \in DOMAIN receipts' : receipts'[i].signer = pin
      <4> HIDE DEF SignedBy
      <4> QED BY <2>10, <3>1, AppendKeepsSigner
    <3> QED BY <2>10, <3>1, <3>2 DEF AppendReceipt
  <2>11. ASSUME DiscardTorn PROVE Sound'
    BY <2>11 DEF DiscardTorn
  <2>12. ASSUME Tamper PROVE Sound'
    BY <2>12 DEF Tamper
  <2>13. ASSUME UNCHANGED vars PROVE Sound'
    BY <2>13 DEF vars
  <2> QED BY <2>1, <2>2, <2>3, <2>4, <2>5, <2>6, <2>7, <2>8, <2>9, <2>10, <2>11, <2>12, <2>13
          DEF Next, OpenStep
<1>3. Sound => LedgerVerifiable
  BY DEF Sound
<1> QED BY <1>1, <1>2, <1>3, TypesHold, PTL DEF Spec

----------------------------------------------------------------------------
(* While nobody interferes, a key that was read stays in the file: only one  *)
(* process at a time holds the file it has created, and nothing is pinned    *)
(* until its key is there.                                                   *)

Kept ==
    /\ PinnedKeyIsKept
    /\ intact => \A p \in Processes :
                    stage[p] \in {"loaded", "pin", "audit", "open"} => keyFile = key[p]
    /\ \A p \in Processes :
          stage[p] = "write" =>
             keyFile = "torn" /\ \A q \in Processes : stage[q] = "write" => q = p

\* Only removing or replacing the key file can lock an installation.
THEOREM PinnedKeyStays == ASSUME KeyAssumption PROVE Spec => []PinnedKeyIsKept
<1>1. Init => Kept
  BY DEF KeyAssumption, Init, Kept, PinnedKeyIsKept
<1>2. Typed /\ Kept /\ [Next]_vars => Kept'
  <2> SUFFICES ASSUME Typed, Kept, [Next]_vars PROVE Kept'
    OBVIOUS
  <2> USE DEF KeyAssumption, Typed, TypeOK, Armed, Go, Leave, Sign, Stages, Kept, PinnedKeyIsKept
  <2>1. ASSUME NEW p \in Processes, Begin(p) PROVE Kept'
    BY <2>1 DEF Begin
  <2>2. ASSUME NEW p \in Processes, ReadKeyFile(p) PROVE Kept'
    BY <2>2 DEF ReadKeyFile
  <2>3. ASSUME NEW p \in Processes, CheckFresh(p) PROVE Kept'
    BY <2>3 DEF CheckFresh
  <2>4. ASSUME NEW p \in Processes, CreateKeyFile(p) PROVE Kept'
    BY <2>4 DEF CreateKeyFile
  <2>5. ASSUME NEW p \in Processes, WriteKeyFile(p) PROVE Kept'
    BY <2>5 DEF WriteKeyFile
  <2>6. ASSUME NEW p \in Processes, VerifyUnpinned(p) PROVE Kept'
    BY <2>6 DEF VerifyUnpinned
  <2>7. ASSUME NEW p \in Processes, PinKey(p) PROVE Kept'
    BY <2>7 DEF PinKey
  <2>8. ASSUME NEW p \in Processes, Audit(p) PROVE Kept'
    BY <2>8 DEF Audit
  <2>9. ASSUME NEW p \in Processes, Close(p) PROVE Kept'
    BY <2>9 DEF Close
  <2>10. ASSUME NEW p \in Processes, NEW e \in Entries, AppendReceipt(p, e) PROVE Kept'
    BY <2>10 DEF AppendReceipt
  <2>11. ASSUME DiscardTorn PROVE Kept'
    BY <2>11 DEF DiscardTorn
  <2>12. ASSUME Tamper PROVE Kept'
    BY <2>12 DEF Tamper
  <2>13. ASSUME UNCHANGED vars PROVE Kept'
    BY <2>13 DEF vars
  <2> QED BY <2>1, <2>2, <2>3, <2>4, <2>5, <2>6, <2>7, <2>8, <2>9, <2>10, <2>11, <2>12, <2>13
          DEF Next, OpenStep
<1>3. Kept => PinnedKeyIsKept
  BY DEF Kept
<1> QED BY <1>1, <1>2, <1>3, TypesHold, PTL DEF Spec
=============================================================================
