--------------------------- MODULE QuestionVault ---------------------------
(***************************************************************************)
(* The encrypted questions of an exam: every question has a blob in the    *)
(* bucket and, in Firestore, a document with the wrapped data key of that   *)
(* blob.  A call of encryptQuestion replaces first the one and then the     *)
(* other; the key release reads all documents at once and then blob after   *)
(* blob.                                                                    *)
(*                                                                         *)
(*   packages/crypto-lifecycle/src/kms/kms.service.ts                      *)
(*       encryptQuestion, decryptQuestion, bulkDecryptAndCache             *)
(*                                                                         *)
(* Abstractions: a data key is named by the call that drew it; a text and   *)
(* its hash are told apart as texts are; AES-GCM refuses a blob whose tag   *)
(* was made with another key and opens it otherwise.                        *)
(***************************************************************************)
EXTENDS Naturals

CONSTANTS
    Items,          \* the questions of the exam
    Texts,          \* what may be encrypted for one
    MaxCalls,       \* bound: calls of encryptQuestion
    Readers,        \* releases and single decryptions that overlap
    MaxRejected     \* bound: awaits that reject, and crashes

ASSUME VaultAssumption == MaxCalls \in Nat

Missing == [dek |-> "none"]
Idle == [at |-> "idle"]
Calls == 1 .. MaxCalls      \* in the order they begin

VARIABLES
    blob,           \* bucket: {exam}/{question}.enc, [dek, text]
    keyDoc,         \* exams/{exam}/encryptedKeys/{question}, [dek, hash]
    recorded,       \* audit events: the calls that recorded theirs
    call,           \* encryptQuestion: [at, item, text, alone]
    reader,         \* decryption: [at, docs, opened]
    rejected        \* number of awaits that rejected
vault == <<blob, keyDoc, recorded, call, reader, rejected>>

VaultInit ==
    /\ blob = [i \in Items |-> Missing] /\ keyDoc = [i \in Items |-> Missing]
    /\ recorded = {} /\ rejected = 0
    /\ call = [k \in Calls |-> Idle]
    /\ reader = [r \in Readers |-> Idle]

InFlight(k) == call[k].at \in {"save", "document", "event"}
Reject == rejected < MaxRejected /\ rejected' = rejected + 1

----------------------------------------------------------------------------
(* encryptQuestion.                                                         *)

\* As if the exam had one data key.
SharedDek(k) == "dek"

\* crypto.randomBytes(32): no two calls draw the same key.
Dek(k) == k

\* The key is drawn and wrapped, the text encrypted, in this process alone.
\* `alone`: no other call for this question is under way.
Encrypt(k, i, text) ==
    LET others == {x \in Calls : InFlight(x) /\ call[x].item = i}
    IN  /\ call[k] = Idle /\ \A x \in 1 .. k - 1 : call[x] # Idle
        /\ call' = [x \in Calls |->
                      IF x = k THEN [at |-> "save", item |-> i, text |-> text, alone |-> others = {}]
                      ELSE IF x \in others THEN [call[x] EXCEPT !.alone = FALSE]
                      ELSE call[x]]
        /\ UNCHANGED <<blob, keyDoc, recorded, reader, rejected>>

Proceed(k, at) == call' = [call EXCEPT ![k].at = at]

SaveBlob(k) ==
    /\ call[k].at = "save" /\ Proceed(k, "document")
    /\ blob' = [blob EXCEPT ![call[k].item] = [dek |-> Dek(k), text |-> call[k].text]]
    /\ UNCHANGED <<keyDoc, recorded, reader, rejected>>

SetKeyDocument(k) ==
    /\ call[k].at = "document" /\ Proceed(k, "event")
    /\ keyDoc' = [keyDoc EXCEPT ![call[k].item] = [dek |-> Dek(k), hash |-> call[k].text]]
    /\ UNCHANGED <<blob, recorded, reader, rejected>>

\* The promise looks at the gRPC error alone: an answer with success = false
\* resolves it too, and the call returns without an event in the trail.
RecordBlockchainEvent(k) ==
    /\ call[k].at = "event" /\ Proceed(k, "returned")
    /\ recorded' \in {recorded, recorded \union {k}}
    /\ UNCHANGED <<blob, keyDoc, reader, rejected>>

\* An await rejects before it had its effect, or (as if one step further) after
\* it, or the process ends: what was written stays.
EncryptFails(k) ==
    /\ InFlight(k) /\ Reject /\ Proceed(k, "failed")
    /\ recorded' \in {recorded} \union (IF call[k].at = "event" THEN {recorded \union {k}} ELSE {})
    /\ UNCHANGED <<blob, keyDoc, reader>>

----------------------------------------------------------------------------
(* decryptQuestion, of one question or of all.                              *)

\* Every reader reads once: the documents first, as it finds them.
Read(r, docs) ==
    /\ reader[r] = Idle
    /\ reader' = [reader EXCEPT ![r] = [at |-> "reading", docs |-> docs, opened |-> [i \in {} |-> ""]]]
    /\ UNCHANGED <<blob, keyDoc, recorded, call, rejected>>

\* bulkDecryptAndCache: the documents there are, in one query.
BulkDecrypt(r) ==
    LET known == {i \in Items : keyDoc[i] # Missing}
    IN  known # {} /\ Read(r, [i \in known |-> keyDoc[i]])

\* A caller decrypts with the key encryptQuestion returned to it.
DecryptReturned(r, k) ==
    /\ call[k].at = "returned"
    /\ Read(r, [i \in {call[k].item} |-> [dek |-> Dek(k), hash |-> call[k].text]])

Unopened(r) == DOMAIN reader[r].docs \ DOMAIN reader[r].opened

\* The blob as it is now, under the key as it was read; a tag that does not fit
\* rejects the whole run.
DecryptQuestion(r, i) ==
    /\ reader[r].at = "reading" /\ i \in Unopened(r)
    /\ LET docs == reader[r].docs
           opened == reader[r].opened
       IN  reader' = [reader EXCEPT ![r] =
               IF blob[i] # Missing /\ blob[i].dek = docs[i].dek
               THEN [at |-> "reading", docs |-> docs,
                     opened |-> [j \in DOMAIN opened \union {i} |->
                                    IF j = i THEN blob[i].text ELSE opened[j]]]
               ELSE [at |-> "failed", docs |-> docs, opened |-> opened]]
    /\ UNCHANGED <<blob, keyDoc, recorded, call, rejected>>

\* All are open, or an await rejects.
EndRead(r) ==
    /\ reader[r].at = "reading"
    /\ reader' = [reader EXCEPT ![r].at = IF Unopened(r) = {} THEN "opened" ELSE "failed"]
    /\ IF Unopened(r) = {} THEN UNCHANGED rejected ELSE Reject
    /\ UNCHANGED <<blob, keyDoc, recorded, call>>

VaultNext ==
    \/ \E k \in Calls, i \in Items, text \in Texts : Encrypt(k, i, text)
    \/ \E k \in Calls : \/ SaveBlob(k) \/ SetKeyDocument(k)
                        \/ RecordBlockchainEvent(k) \/ EncryptFails(k)
    \/ \E r \in Readers : BulkDecrypt(r) \/ EndRead(r)
    \/ \E r \in Readers, k \in Calls : DecryptReturned(r, k)
    \/ \E r \in Readers, i \in Items : DecryptQuestion(r, i)

VaultSpec == VaultInit /\ [][VaultNext]_vault

----------------------------------------------------------------------------
(* Properties                                                               *)

Opens(i) == keyDoc[i] # Missing /\ blob[i] # Missing /\ keyDoc[i].dek = blob[i].dek

\* Two writes that are not one, and an event in the audit trail after them:
\* whatever calls for the same question overlap or break off between the blob
\* and its key, and whatever of it a release reads meanwhile, a text that is
\* opened is the one its key was drawn for, and never a mixture; and the
\* question of the last encryption that was answered or is in the audit trail,
\* and had no other beside it, can be opened, so that encrypting again repairs a
\* torn one.  (What overlapping calls leave behind may not open at all, and stops
\* the release of every other question; and an answered encryption need not be
\* in the trail, kms.service.ts:152.)
VaultOpens ==
    /\ \A r \in Readers : reader[r] # Idle =>
          \A i \in DOMAIN reader[r].opened : reader[r].opened[i] = reader[r].docs[i].hash
    /\ \A k \in Calls :
          /\ call[k].at = "returned" \/ k \in recorded
          /\ call[k].alone
          /\ \A x \in k + 1 .. MaxCalls : call[x] # Idle => call[x].item # call[k].item
          => Opens(call[k].item)

============================================================================
