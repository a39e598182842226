---------------------------- MODULE ExamSession ----------------------------
(***************************************************************************)
(* The exam session service for one candidate: ResponsesService            *)
(* (startExamSession, submitResponses, getSubmissionVerification) and      *)
(* CheckpointService (saveCheckpoint, loadCheckpoint), composed with the   *)
(* audit ledger they record to.  A request is a handler that runs from     *)
(* await to await: every await is a step, any two requests interleave, a   *)
(* store may refuse a write, and a crash of the process ends the requests  *)
(* under way and empties its memory.                                       *)
(*                                                                         *)
(* Data: a submission is [answers, time], its hash that record itself      *)
(* (SHA-256 of candidate, answers and time); a checkpoint is its time, the *)
(* time in its plaintext, its object name and its hash, and in the stores  *)
(* the key it is sealed with.  The candidate's key follows from the KEK of *)
(* the process's environment.  Instants are ISO milliseconds: two requests *)
(* may read the same one.                                                  *)
(***************************************************************************)
EXTENDS AuditLedger, FiniteSetsExt

CONSTANTS
    Starts, Submits, Saves, Loads,  \* the requests of each kind
    Workloads,                      \* what a candidate may do: [requests, earlier], with
                                    \* the transactions of others the orderer has already
    Answers,                        \* answer sheets
    Keks, ShortKek,                 \* the KEKs a process may be given: EXAM_KEK_BASE64, the
                                    \* fallback without it, and one of a wrong length
    None,                           \* a missing document or key
    MaxTime,                        \* bound on the clock
    MaxFaults                       \* bound on refused calls and crashes

Requests == Starts \cup Submits \cup Saves \cup Loads

ASSUME SessionAssumption ==
    /\ Workloads \subseteq [requests : SUBSET Requests, earlier : Nat]
    /\ Starts \cap (Submits \cup Saves \cup Loads) = {}
    /\ Submits \cap (Saves \cup Loads) = {} /\ Saves \cap Loads = {}
    /\ None \notin Keks \cup {ShortKek}
    /\ {MaxTime, MaxFaults} \subseteq Nat

VARIABLES
    clock,      \* Date.now(), as an instant
    active,     \* the exam's status: "not yet", "ACTIVE" or "over"
    doc,        \* candidates/{id}: the session and responses fields
    blobs,      \* the response bucket: instant in the object's name -> answers
    redis,      \* the checkpoint key: a sealed checkpoint, or Nothing
    backups,    \* the backup bucket: instant in the object's name -> key
    index,      \* submissionIndex: submission hash -> blockchain event id
    kek,        \* the KEK this process was started with
    lastHash,   \* CheckpointService.lastCheckpointHashes (process memory)
    req,        \* per request: where it is and what it holds
    slips       \* history: the kinds of fault that touched a checkpoint

stores == <<doc, blobs, redis, backups, index>>
process == <<kek, lastHash>>
vars == <<clock, active, stores, process, req, slips, ledger>>

Nothing == [time |-> 0, key |-> None]

Idle == [at |-> "idle", time |-> 0, sheet |-> None, event |-> 0,
         redis |-> "wait", gcs |-> "wait", acked |-> 0, from |-> None]

Init ==
    /\ clock = 1 /\ active = "not yet"
    /\ doc = [session |-> None, responses |-> None]
    /\ blobs = <<>> /\ redis = Nothing /\ backups = <<>> /\ index = <<>>
    /\ kek \in Keks \cup {ShortKek} /\ lastHash = 0
    /\ \E workload \in Workloads :
          /\ req = [r \in Requests |->
                      IF r \in workload.requests THEN Idle ELSE [Idle EXCEPT !.at = "absent"]]
          /\ LedgerInit(workload.earlier, [sheet |-> None, time |-> 0])
    /\ slips = {}

----------------------------------------------------------------------------
(* EncryptionService: AES-256-GCM under HMAC(KEK, candidate and exam).      *)

(* With a KEK of the wrong length a request is refused before it stores     *)
(* anything.                                                                *)
Usable == kek # ShortKek

(* encryptResponse and packEncrypted. *)
Sealed(time) == [time |-> time, key |-> kek]

(* unpackEncrypted and decryptResponse: another key fails authentication.   *)
Opens(sealed) == sealed.key = kek

----------------------------------------------------------------------------
(* Requests *)

At(r, place) == req[r].at = place
Goes(r, to) == req' = [req EXCEPT ![r] = to]
Move(r, place) == Goes(r, [req[r] EXCEPT !.at = place])
Underway(r) == req[r].at \notin {"absent", "idle", "done", "refused"}

(* A store or service refuses a call; kind names the fault. *)
Faults == Cardinality({r \in Submits : At(r, "refused")}) + Cardinality(slips \ {"rekeyed"})
Slip(kind) == Faults < MaxFaults /\ slips' = slips \cup {kind}

SubmissionHash(r) == [sheet |-> req[r].sheet, time |-> req[r].time]

(* What is recorded on the ledger: a start, a checkpoint or a submission. *)
EntityHash(r) ==
    IF r \in Submits THEN SubmissionHash(r) ELSE [sheet |-> None, time |-> req[r].time]

(* A handler records its event and goes on whether that succeeded or not:   *)
(* the call fails before the orderer has the transaction, ...               *)
RecordFails(r) ==
    /\ At(r, "record") /\ Slip("ledger")
    /\ Move(r, "done")
    /\ UNCHANGED <<clock, active, stores, process, ledger>>

(* ... or the orderer has it ...                                            *)
RecordOrdered(r) ==
    /\ At(r, "record")
    /\ RecordEvent(EntityHash(r))
    /\ Goes(r, [req[r] EXCEPT !.at = "committing", !.event = txs + 1])
    /\ UNCHANGED <<clock, active, stores, process, slips>>

(* ... and the caller learns of its commit, or gives up waiting for it.     *)
RecordAnswered(r) ==
    /\ At(r, "committing") /\ IsCommitted(req[r].event)
    /\ Move(r, IF r \in Submits THEN "index" ELSE "done")
    /\ UNCHANGED <<clock, active, stores, process, slips, ledger>>

RecordLost(r) ==
    /\ At(r, "committing") /\ Slip("ledger")
    /\ Move(r, "done")
    /\ UNCHANGED <<clock, active, stores, process, ledger>>

----------------------------------------------------------------------------
(* startExamSession: the assignment is checked and the paper fetched before *)
(* the exam's status is read, and the session is marked after that.         *)

StartPaper(r) ==
    /\ r \in Starts /\ At(r, "idle")
    /\ Move(r, "paper")
    /\ UNCHANGED <<clock, active, stores, process, slips, ledger>>

StartCheck(r) ==
    /\ At(r, "paper")
    /\ IF active = "ACTIVE"
       THEN Goes(r, [req[r] EXCEPT !.at = "mark", !.time = clock])
       ELSE Move(r, "refused")
    /\ UNCHANGED <<clock, active, stores, process, slips, ledger>>

(* update() with field paths: the other fields of the document stay. *)
StartMark(r) ==
    /\ At(r, "mark")
    /\ doc' = [doc EXCEPT !.session = r]
    /\ Move(r, "record")
    /\ UNCHANGED <<clock, active, blobs, redis, backups, index, process, slips, ledger>>

----------------------------------------------------------------------------
(* submitResponses *)

SubmitBegin(r) ==
    /\ r \in Submits /\ At(r, "idle")
    /\ \E sheet \in Answers :
           Goes(r, [req[r] EXCEPT !.at = IF Usable THEN "blob" ELSE "refused",
                                  !.sheet = sheet, !.time = clock])
    /\ UNCHANGED <<clock, active, stores, process, slips, ledger>>

(* As if the name had no instant: one object for all submissions. *)
SubmitBlobFixedName(r) ==
    /\ At(r, "blob")
    /\ blobs' = [t \in DOMAIN blobs \cup {req[r].time} |-> req[r].sheet]
    /\ Move(r, "doc")
    /\ UNCHANGED <<clock, active, doc, redis, backups, index, process, slips, ledger>>

(* file.save: the object's name is the instant of the submission. *)
SubmitBlob(r) ==
    /\ At(r, "blob")
    /\ blobs' = [t \in DOMAIN blobs \cup {req[r].time} |->
                    IF t = req[r].time THEN req[r].sheet ELSE blobs[t]]
    /\ Move(r, "doc")
    /\ UNCHANGED <<clock, active, doc, redis, backups, index, process, slips, ledger>>

(* set({responses, ...}, {merge: true}): whatever the document said of the  *)
(* session or of an earlier submission.                                     *)
SubmitDoc(r) ==
    /\ At(r, "doc")
    /\ doc' = [doc EXCEPT !.responses = SubmissionHash(r)]
    /\ Move(r, "record")
    /\ UNCHANGED <<clock, active, blobs, redis, backups, index, process, slips, ledger>>

(* The bucket or Firestore refuses: the candidate gets a 500 and no receipt.*)
SubmitRefused(r) ==
    /\ At(r, "blob") \/ At(r, "doc")
    /\ Faults < MaxFaults
    /\ Move(r, "refused")
    /\ UNCHANGED <<clock, active, stores, process, slips, ledger>>

(* The index is written only with an event id; a refused write is logged.   *)
SubmitIndex(r) ==
    /\ At(r, "index")
    /\ \/ /\ index' = [h \in DOMAIN index \cup {SubmissionHash(r)} |->
                          IF h = SubmissionHash(r) THEN req[r].event ELSE index[h]]
          /\ UNCHANGED slips
       \/ Slip("index") /\ UNCHANGED index
    /\ Move(r, "done")
    /\ UNCHANGED <<clock, active, doc, blobs, redis, backups, process, ledger>>

(* getSubmissionVerification looks at the index alone. *)
Verified(hash) == hash \in DOMAIN index

----------------------------------------------------------------------------
(* saveCheckpoint: Redis and the bucket are written in parallel, and one of *)
(* the two is enough.                                                       *)

SaveBegin(r) ==
    /\ r \in Saves /\ At(r, "idle")
    /\ Goes(r, [req[r] EXCEPT !.at = IF Usable THEN "storing" ELSE "refused", !.time = clock])
    /\ slips' = IF \E s \in Saves : At(s, "storing") THEN slips \cup {"overlap"} ELSE slips
    /\ UNCHANGED <<clock, active, stores, process, ledger>>

SaveToRedis(r) ==
    /\ At(r, "storing") /\ req[r].redis = "wait"
    /\ \/ /\ redis' = Sealed(req[r].time)
          /\ Goes(r, [req[r] EXCEPT !.redis = "ok"])
          /\ UNCHANGED slips
       \/ /\ Slip("redis")
          /\ Goes(r, [req[r] EXCEPT !.redis = "failed"])
          /\ UNCHANGED redis
    /\ UNCHANGED <<clock, active, doc, blobs, backups, index, process, ledger>>

SaveToGcs(r) ==
    /\ At(r, "storing") /\ req[r].gcs = "wait"
    /\ \/ /\ backups' = [t \in DOMAIN backups \cup {req[r].time} |->
                          IF t = req[r].time THEN kek ELSE backups[t]]
          /\ Goes(r, [req[r] EXCEPT !.gcs = "ok"])
          /\ UNCHANGED slips
       \/ /\ Slip("gcs")
          /\ Goes(r, [req[r] EXCEPT !.gcs = "failed"])
          /\ UNCHANGED backups
    /\ UNCHANGED <<clock, active, doc, blobs, redis, index, process, ledger>>

(* maybeRecordBlockchainEvent: the hash is not the last this process saw.   *)
Significant(r) == lastHash # req[r].time

(* As if the first store to answer settled it. *)
SaveSettlesOnFirst(r) ==
    /\ At(r, "storing") /\ (req[r].redis # "wait" \/ req[r].gcs # "wait")
    /\ IF req[r].redis = "failed" /\ req[r].gcs = "failed"
       THEN Move(r, "refused") /\ UNCHANGED lastHash
       ELSE /\ Move(r, IF Significant(r) THEN "record" ELSE "done")
            /\ lastHash' = req[r].time
    /\ UNCHANGED <<clock, active, stores, kek, slips, ledger>>

(* Both settled: refused if both failed; otherwise an event is recorded     *)
(* when the hash is not the last one this process saw.                      *)
SaveSettles(r) ==
    /\ At(r, "storing") /\ req[r].redis # "wait" /\ req[r].gcs # "wait"
    /\ IF req[r].redis = "failed" /\ req[r].gcs = "failed"
       THEN Move(r, "refused") /\ UNCHANGED lastHash
       ELSE /\ Move(r, IF Significant(r) THEN "record" ELSE "done")
            /\ lastHash' = req[r].time
    /\ UNCHANGED <<clock, active, stores, kek, slips, ledger>>

(* loadCheckpoint: Redis first; nothing there, or an error, also of the     *)
(* decryption: the newest object by name; an error there: none.             *)
Newest(times) == IF times = {} THEN 0 ELSE Max(times)
Acknowledged == {req[s].time : s \in {x \in Saves : At(x, "done")}}

LoadRedis(r) ==
    /\ r \in Loads /\ At(r, "idle") /\ Usable
    /\ \/ /\ Opens(redis)
          /\ Goes(r, [req[r] EXCEPT !.at = "done", !.time = redis.time, !.from = "redis",
                                    !.acked = Newest(Acknowledged)])
          /\ UNCHANGED slips
       \/ /\ IF Opens(redis) THEN Slip("redis read") ELSE UNCHANGED slips
          /\ Goes(r, [req[r] EXCEPT !.at = "gcs", !.acked = Newest(Acknowledged)])
    /\ UNCHANGED <<clock, active, stores, process, ledger>>

LoadGcs(r) ==
    /\ At(r, "gcs")
    /\ LET newest == Newest(DOMAIN backups)
           opens  == newest # 0 => Opens([time |-> newest, key |-> backups[newest]])
       IN  \/ /\ opens
              /\ Goes(r, [req[r] EXCEPT !.at = "done", !.time = newest, !.from = "gcs"])
              /\ UNCHANGED slips
           \/ /\ IF opens THEN Slip("gcs read") ELSE UNCHANGED slips
              /\ Move(r, "done")
    /\ UNCHANGED <<clock, active, stores, process, ledger>>

(* A load under a KEK of the wrong length. *)
LoadRefused(r) ==
    /\ r \in Loads /\ At(r, "idle") /\ ~Usable
    /\ Move(r, "refused")
    /\ UNCHANGED <<clock, active, stores, process, slips, ledger>>

----------------------------------------------------------------------------
(* The surroundings *)

Tick ==
    /\ clock < MaxTime
    /\ clock' = clock + 1
    /\ UNCHANGED <<active, stores, process, req, slips, ledger>>

(* The exam's life cycle is another service's. *)
ExamMoves ==
    /\ \/ active = "not yet" /\ active' = "ACTIVE"
       \/ active = "ACTIVE" /\ active' = "over"
    /\ UNCHANGED <<clock, stores, process, req, slips, ledger>>

(* Redis drops the key when its TTL ends. *)
Expire ==
    /\ redis # Nothing /\ redis' = Nothing
    /\ UNCHANGED <<clock, active, doc, blobs, backups, index, process, req, slips, ledger>>

(* The process dies: no answer for the requests under way, memory is gone,  *)
(* and the next process may have been configured anew.                      *)
Crash ==
    /\ \E new \in Keks \cup {ShortKek} : kek' = new
    /\ Faults < MaxFaults
    /\ slips' = slips \cup {"crash"} \cup (IF kek' # kek THEN {"rekeyed"} ELSE {})
    /\ \E r \in Requests : Underway(r)
    /\ req' = [r \in Requests |-> IF Underway(r) THEN [req[r] EXCEPT !.at = "refused"] ELSE req[r]]
    /\ lastHash' = 0
    /\ UNCHANGED <<clock, active, stores, ledger>>

LedgerCuts == CutBlock /\ UNCHANGED <<clock, active, stores, process, req, slips>>

Next ==
    \/ \E r \in Requests :
          \/ RecordFails(r) \/ RecordOrdered(r) \/ RecordAnswered(r) \/ RecordLost(r)
          \/ StartPaper(r) \/ StartCheck(r) \/ StartMark(r)
          \/ SubmitBegin(r) \/ SubmitBlob(r) \/ SubmitDoc(r) \/ SubmitRefused(r) \/ SubmitIndex(r)
          \/ SaveBegin(r) \/ SaveToRedis(r) \/ SaveToGcs(r) \/ SaveSettles(r)
          \/ LoadRedis(r) \/ LoadGcs(r) \/ LoadRefused(r)
    \/ Tick \/ ExamMoves \/ Expire \/ Crash \/ LedgerCuts

Spec == Init /\ [][Next]_vars

----------------------------------------------------------------------------
(* Properties *)

(* A receipt outlives what comes after it: the object of every submission a *)
(* candidate holds a hash for keeps the answers that hash was taken of,     *)
(* unless another submission fell on the very same millisecond; and the     *)
(* submission the candidate's document names is in the bucket.  An indexed  *)
(* event is on the ledger, and of a hash for which "verified: true" is said *)
(* it is an event with that very hash.                                      *)
ReceiptsKeepTheirAnswers ==
    /\ \A r \in Submits : At(r, "done") =>
          \/ blobs[req[r].time] = req[r].sheet
          \/ \E other \in Submits \ {r} : req[other].time = req[r].time
    /\ doc.responses # None => doc.responses.time \in DOMAIN blobs
    /\ \A hash \in DOMAIN index :
          /\ IsCommitted(index[hash])
          /\ Verified(hash) => EventOf(index[hash]).event = hash

(* In a block of any size, every event's proof recomputes the root of the   *)
(* block from its own leaf and from no other transaction's.                 *)
ProofsFitOneLeaf ==
    \A event \in CommittedTxs :
        LET proof == GetMerkleProof(event.txId) IN
        /\ VerifyMerkleProof(proof)
        /\ \A other \in Range(BlockOf(event.txId).data) \ {event} :
              ~ VerifyMerkleProof([proof EXCEPT !.txHash = Leaf(other)])

(* A terminal that resumes gets a checkpoint at least as new as the newest  *)
(* one acknowledged before it asked, unless the store that answered had     *)
(* refused a write (or, for Redis, two saves overlapped) or the service has *)
(* been given another KEK since.                                            *)
ResumesFromNewest ==
    \A r \in Loads : At(r, "done") =>
        \/ req[r].time >= req[r].acked
        \/ req[r].from = "redis" /\ slips \cap {"redis", "overlap"} # {}
        \/ req[r].from = "gcs" /\ "gcs" \in slips
        \/ req[r].from = None /\ slips \cap {"gcs read", "rekeyed"} # {}

============================================================================
