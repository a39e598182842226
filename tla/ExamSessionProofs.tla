------------------------- MODULE ExamSessionProofs --------------------------
(***************************************************************************)
(* Proofs, for any requests, workloads, KEKs, clocks and faults, of what   *)
(* the exam session service of ExamSession promises: a terminal resumes    *)
(* from the newest checkpoint, a receipt keeps its answers, a verified     *)
(* submission is on the ledger, and a Merkle proof fits one leaf; and, for *)
(* any clients, exams, ids and times, of what the readers of AuditTrail    *)
(* find.                                                                   *)
(***************************************************************************)
EXTENDS ExamSession, AuditTrail, SequenceTheorems, FiniteSetTheorems, WellFoundedInduction, TLAPS

(***************************************************************************)
(* The inductive invariant.                                                *)
(***************************************************************************)
StartPlaces == {"absent", "idle", "paper", "mark", "record", "committing", "done", "refused"}
SubmitPlaces == {"absent", "idle", "blob", "doc", "record", "committing", "index", "done", "refused"}
SavePlaces == {"absent", "idle", "storing", "record", "committing", "done", "refused"}
LoadPlaces == {"absent", "idle", "gcs", "done", "refused"}

Places(r) ==
    IF r \in Starts THEN StartPlaces ELSE IF r \in Submits THEN SubmitPlaces
    ELSE IF r \in Saves THEN SavePlaces ELSE LoadPlaces

Places4 == StartPlaces \cup SubmitPlaces \cup SavePlaces \cup LoadPlaces
Written == {"wait", "ok", "failed"}
Sheet == Answers \cup {None}
Kek == Keks \cup {ShortKek}
Event == [sheet : Sheet, time : Nat]
Tx == [txId : Nat, event : Event]
Block == {[data |-> data, dataHash |-> MerkleRoot(Leaves(data))] : data \in Seq(Tx)}
Request == [at : Places4, time : Nat, sheet : Sheet, event : Nat, redis : Written, gcs : Written,
            acked : Nat, from : {None, "redis", "gcs"}]

RequestType ==
    /\ clock \in Nat \ {0}
    /\ req \in [Requests -> Request]
    /\ \A r \in Requests : req[r].at \in Places(r) /\ req[r].time <= clock

StoreType ==
    /\ DOMAIN blobs \subseteq Nat /\ DOMAIN backups \subseteq 0..clock
    /\ doc.responses \in {None} \cup Event
    /\ redis \in [time : 0..clock, key : {None} \cup Kek]
    /\ kek \in Kek /\ lastHash \in Nat

LedgerType == pending \in Seq(Tx) /\ blocks \in Seq(Block) /\ txs \in Nat

TypeOK == RequestType /\ StoreType /\ LedgerType

\* Saves that are writing, and those whose writes are done.
Storing == {s \in Saves : req[s].at = "storing"}
Settled == {s \in Saves : req[s].at \in {"record", "committing", "done"}}

\* What a save has written is there, or the store has refused a write.
BackupsAreThere ==
    /\ \A s \in Saves : req[s].at = "idle" => req[s].redis = "wait" /\ req[s].gcs = "wait"
    /\ \A s \in Storing : /\ req[s].gcs = "ok" => req[s].time \in DOMAIN backups
                          /\ req[s].gcs = "failed" => "gcs" \in slips
                          /\ req[s].redis = "failed" => "redis" \in slips
    /\ \A s \in Settled : req[s].time \in DOMAIN backups \/ "gcs" \in slips
    /\ "rekeyed" \in slips \/ \A t \in DOMAIN backups : backups[t] = kek

\* Without a refused write or two saves at a time, Redis has nothing or what
\* is as new as every settled save, and the save under way is newer still.
RedisIsNewest ==
    \/ slips \cap {"redis", "overlap"} # {}
    \/ /\ \A s, t \in Storing : s = t
       /\ \A s \in Storing, t \in Settled : req[t].time <= req[s].time
       /\ redis = Nothing \/ \A s \in Settled : req[s].time <= redis.time
       /\ \A s \in Storing : req[s].redis = "ok" => redis = Nothing \/ req[s].time <= redis.time

\* What a load compares with was acknowledged.
LoadsAsk ==
    \A r \in Loads : /\ req[r].at \in {"idle", "gcs"} => req[r].from = None
                     /\ req[r].at \in {"gcs", "done"} =>
                           req[r].acked = 0 \/ \E s \in Saves : req[s].at = "done" /\ req[s].time = req[r].acked

CheckpointInv == BackupsAreThere /\ RedisIsNewest /\ LoadsAsk /\ ResumesFromNewest

\* A submission that has passed the bucket has an object, with its answers
\* unless another one came on the same instant.
Stored == {"doc", "record", "committing", "index", "done"}
HasObject(r) ==
    /\ req[r].time \in DOMAIN blobs
    /\ \/ blobs[req[r].time] = req[r].sheet
       \/ \E other \in Submits \ {r} : req[other].time = req[r].time

ReceiptInv ==
    /\ \A r \in Submits : req[r].at = "idle" => req[r].time = 0
    /\ \A r \in Submits : req[r].at \in Stored \cup {"blob"} => req[r].time # 0
    /\ \A r \in Submits : req[r].at \in Stored => HasObject(r)
    /\ doc.responses # None => doc.responses.time \in DOMAIN blobs

\* A transaction has one id, and an event a request waits for is one the
\* orderer or a block has.
Known == Range(pending) \cup CommittedTxs

LedgerInv ==
    /\ \A x \in Known : x.txId <= txs /\ \A y \in Known : x.txId = y.txId => x = y
    /\ \A r \in Requests : req[r].at \in {"committing", "index"} =>
          \E x \in Known : x.txId = req[r].event /\ x.event = EntityHash(r)
    /\ \A r \in Requests : req[r].at = "index" => IsCommitted(req[r].event)
    /\ \A hash \in DOMAIN index : \E x \in CommittedTxs : x.txId = index[hash] /\ x.event = hash

IInv == TypeOK /\ CheckpointInv /\ ReceiptInv /\ LedgerInv

(***************************************************************************)
(* Lemmas about the model's operators.                                     *)
(***************************************************************************)
\* The newest of a bounded set of instants, none being older than 0.
LEMMA NewestIs ==
    ASSUME NEW n \in Nat, NEW T \in SUBSET (0..n)
    PROVE  /\ Newest(T) \in 0..n
           /\ Newest(T) = 0 \/ Newest(T) \in T
           /\ T # {} => Newest(T) \in T
           /\ \A x \in T : x <= Newest(T)
<1>1. CASE T = {}
  BY <1>1 DEF Newest
<1>2. CASE T # {}
  <2> DEFINE R == {n - x : x \in T}
  <2> \A x \in T : x \in 0..n /\ n - x \in Nat
    OBVIOUS
  <2>1. R \subseteq Nat /\ R # {}
    <3>1. PICK x \in T : TRUE
      BY <1>2
    <3>2. n - x \in R
      OBVIOUS
    <3>3. QED
      BY <3>2
  <2>2. PICK y \in R : \A z \in R : ~(<<z, y>> \in OpToRel(<, Nat))
    BY <2>1, NatLessThanWellFounded, WFMin, Zenon
  <2>3. y \in Nat /\ \A z \in R : z \in Nat /\ ~(z < y)
    BY <2>1, <2>2 DEF OpToRel
  <2>4. PICK x \in T : y = n - x
    BY <2>2
  <2>5. \A z \in T : x >= z
    <3> SUFFICES ASSUME NEW z \in T PROVE x >= z
      OBVIOUS
    <3>1. n - z \in R
      OBVIOUS
    <3>2. ~(n - z < n - x)
      BY <2>3, <2>4, <3>1
    <3>3. x \in 0..n /\ z \in 0..n
      OBVIOUS
    <3>4. QED
      BY <3>2, <3>3
  <2>6. Max(T) \in T /\ \A z \in T : Max(T) >= z
    BY <2>4, <2>5, Zenon DEF Max
  <2>7. Newest(T) = Max(T)
    BY <1>2 DEF Newest
  <2>8. QED
    BY <2>6, <2>7, <1>2
<1>3. QED
  BY <1>1, <1>2

\* A request that goes to another place, and the others, which stay.
Others(r) == \A x \in Requests : x # r => req'[x] = req[x]
OnlyMoves(r) == req' \in [Requests -> Request] /\ Others(r)

LEMMA GoesTo ==
    ASSUME TypeOK, NEW r \in Requests, NEW to \in Request, Goes(r, to)
    PROVE  OnlyMoves(r) /\ req'[r] = to
BY DEF TypeOK, RequestType, Goes, OnlyMoves, Others

LEMMA MovesTo ==
    ASSUME TypeOK, NEW r \in Requests, NEW place \in Places4, Move(r, place)
    PROVE  OnlyMoves(r) /\ req'[r] = [req[r] EXCEPT !.at = place]
<1>1. [req[r] EXCEPT !.at = place] \in Request
  BY DEF TypeOK, RequestType, Request
<1>2. QED
  BY <1>1, GoesTo DEF Move

\* A step of request r that leaves its time where it was, or at the clock.
LEMMA RequestTypeStep ==
    ASSUME TypeOK, NEW r \in Requests, OnlyMoves(r), clock' = clock,
           req'[r].at \in Places(r), req'[r].time <= clock
    PROVE  RequestType'
BY DEF TypeOK, RequestType, OnlyMoves, Others, Places, StartPlaces, SubmitPlaces, SavePlaces, LoadPlaces
(***************************************************************************)
(* What the steps of a request do to it and to the stores.                 *)
(***************************************************************************)
RecordStep(r) == RecordFails(r) \/ RecordOrdered(r) \/ RecordAnswered(r) \/ RecordLost(r)
StartStep(r) == StartPaper(r) \/ StartCheck(r) \/ StartMark(r)
SubmitStep(r) ==
    SubmitBegin(r) \/ SubmitBlob(r) \/ SubmitDoc(r) \/ SubmitRefused(r) \/ SubmitIndex(r)
SaveStep(r) == SaveBegin(r) \/ SaveToRedis(r) \/ SaveToGcs(r) \/ SaveSettles(r)
LoadStep(r) == LoadRedis(r) \/ LoadGcs(r) \/ LoadRefused(r)
Surroundings == Tick \/ ExamMoves \/ Expire \/ Crash \/ LedgerCuts

LEMMA NextIs ==
    ASSUME Next
    PROVE  \/ \E r \in Requests : \/ RecordStep(r) \/ StartStep(r) \/ SubmitStep(r)
                                  \/ SaveStep(r) \/ LoadStep(r)
           \/ Surroundings
BY Zenon DEF Next, RecordStep, StartStep, SubmitStep, SaveStep, LoadStep, Surroundings

\* A request with another place and another time, ...
Timed(q, place, n) == [q EXCEPT !.at = place, !.time = n]

LEMMA TimedIs ==
    ASSUME NEW q \in Request, NEW place \in Places4, NEW n \in Nat
    PROVE  LET to == Timed(q, place, n)
           IN  /\ to \in Request /\ to.at = place /\ to.time = n /\ to.sheet = q.sheet
               /\ to.redis = q.redis /\ to.gcs = q.gcs /\ to.event = q.event
               /\ to.acked = q.acked /\ to.from = q.from
<1> DEFINE moved == [q EXCEPT !.at = place]
<1>1. /\ moved \in Request /\ moved.at = place /\ moved.sheet = q.sheet /\ moved.time = q.time
      /\ moved.redis = q.redis /\ moved.gcs = q.gcs /\ moved.event = q.event
      /\ moved.acked = q.acked /\ moved.from = q.from
  BY DEF Request
<1>2. Timed(q, place, n) = [moved EXCEPT !.time = n]
  BY DEF Timed
<1> HIDE DEF moved
<1>3. QED
  BY <1>1, <1>2 DEF Request

\* ... or waiting for another event.
Awaiting(q, place, n) == [q EXCEPT !.at = place, !.event = n]

LEMMA AwaitedIs ==
    ASSUME NEW q \in Request, NEW place \in Places4, NEW n \in Nat
    PROVE  LET to == Awaiting(q, place, n)
           IN  /\ to \in Request /\ to.at = place /\ to.event = n /\ to.sheet = q.sheet
               /\ to.redis = q.redis /\ to.gcs = q.gcs /\ to.time = q.time
               /\ to.acked = q.acked /\ to.from = q.from
<1> DEFINE moved == [q EXCEPT !.at = place]
<1>1. /\ moved \in Request /\ moved.at = place /\ moved.sheet = q.sheet /\ moved.time = q.time
      /\ moved.redis = q.redis /\ moved.gcs = q.gcs /\ moved.event = q.event
      /\ moved.acked = q.acked /\ moved.from = q.from
  BY DEF Request
<1>2. Awaiting(q, place, n) = [moved EXCEPT !.event = n]
  BY DEF Awaiting
<1> HIDE DEF moved
<1>3. QED
  BY <1>1, <1>2 DEF Request

\* What is kept of a request that moves on.
Same(r) == /\ req'[r].time = req[r].time /\ req'[r].sheet = req[r].sheet
           /\ req'[r].redis = req[r].redis /\ req'[r].gcs = req[r].gcs
           /\ req'[r].acked = req[r].acked /\ req'[r].from = req[r].from

LEMMA MoveKeeps ==
    ASSUME TypeOK, NEW r \in Requests, NEW place \in Places4, Move(r, place)
    PROVE  OnlyMoves(r) /\ Same(r) /\ req'[r].at = place /\ req'[r].event = req[r].event
<1> DEFINE to == [req[r] EXCEPT !.at = place]
<1>1. req[r] \in Request
  BY DEF TypeOK, RequestType
<1>2. /\ to.at = place /\ to.time = req[r].time /\ to.sheet = req[r].sheet
      /\ to.redis = req[r].redis /\ to.gcs = req[r].gcs /\ to.acked = req[r].acked
      /\ to.from = req[r].from /\ to.event = req[r].event
  BY <1>1 DEF Request
<1>3. OnlyMoves(r) /\ req'[r] = to
  BY MovesTo
<1>4. QED
  BY <1>2, <1>3, Zenon DEF Same

\* Only a start, a submission or a save records.
LEMMA RecordsAre ==
    ASSUME TypeOK, NEW r \in Requests, req[r].at \in {"record", "committing"}
    PROVE  r \notin Loads
BY SessionAssumption DEF TypeOK, RequestType, Places, LoadPlaces, Requests

LEMMA RecordGoes ==
    ASSUME TypeOK, NEW r \in Requests, RecordStep(r)
    PROVE  /\ OnlyMoves(r) /\ Same(r) /\ r \notin Loads
           /\ req[r].at \in {"record", "committing"}
           /\ req'[r].at \in {"committing", "done"} \/ (r \in Submits /\ req'[r].at = "index")
           /\ UNCHANGED <<clock, active, stores, process>> /\ slips \subseteq slips'
<1>1. req[r].at \in {"record", "committing"} /\ r \notin Loads
  BY RecordsAre DEF RecordStep, RecordFails, RecordOrdered, RecordAnswered, RecordLost, At
<1>2. {"done", "index", "committing"} \subseteq Places4
  BY DEF Places4, StartPlaces, SubmitPlaces
<1>3. CASE RecordFails(r)
  BY <1>1, <1>2, <1>3, MoveKeeps DEF RecordFails, Slip
<1>4. CASE RecordOrdered(r)
  <2> DEFINE to == Awaiting(req[r], "committing", txs + 1)
  <2>1. to \in Request /\ to.at = "committing" /\ to.sheet = req[r].sheet
        /\ to.time = req[r].time /\ to.redis = req[r].redis /\ to.gcs = req[r].gcs
        /\ to.acked = req[r].acked /\ to.from = req[r].from
    <3>1. req[r] \in Request /\ txs + 1 \in Nat /\ "committing" \in Places4
      BY <1>2 DEF TypeOK, RequestType, LedgerType
    <3>2. QED
      BY <3>1, AwaitedIs
  <2>2. OnlyMoves(r) /\ req'[r] = to
    <3>1. Goes(r, to)
      BY <1>4 DEF RecordOrdered, Awaiting
    <3>2. QED
      BY <2>1, <3>1, GoesTo
  <2> HIDE DEF to
  <2>3. Same(r)
    BY <2>1, <2>2 DEF Same
  <2>4. QED
    BY <1>1, <1>4, <2>1, <2>2, <2>3 DEF RecordOrdered
<1>5. CASE RecordAnswered(r)
  <2>1. CASE r \in Submits
    BY <1>1, <1>2, <1>5, <2>1, MoveKeeps DEF RecordAnswered
  <2>2. CASE r \notin Submits
    BY <1>1, <1>2, <1>5, <2>2, MoveKeeps DEF RecordAnswered
  <2>3. QED
    BY <2>1, <2>2
<1>6. CASE RecordLost(r)
  BY <1>1, <1>2, <1>6, MoveKeeps DEF RecordLost, Slip
<1>7. QED
  BY <1>3, <1>4, <1>5, <1>6 DEF RecordStep

LEMMA StartGoes ==
    ASSUME TypeOK, NEW r \in Requests, StartStep(r)
    PROVE  /\ OnlyMoves(r) /\ r \in Starts
           /\ req'[r].at \in {"paper", "mark", "record", "refused"} /\ req'[r].time <= clock
           /\ UNCHANGED <<clock, active, blobs, redis, backups, index, process, slips, ledger>>
           /\ doc'.responses = doc.responses
<1>1. {"paper", "mark", "record", "refused"} \subseteq Places4
  BY DEF Places4, StartPlaces
<1>2. req[r].at \in {"idle", "paper", "mark"} /\ r \in Starts /\ req[r].time <= clock
  BY SessionAssumption DEF StartStep, StartPaper, StartCheck, StartMark, At, TypeOK, RequestType,
     Places, SubmitPlaces, SavePlaces, LoadPlaces
<1>3. CASE StartPaper(r)
  BY <1>1, <1>2, <1>3, MoveKeeps DEF StartPaper, Same, stores
<1>4. CASE StartCheck(r)
  <2>1. CASE active = "ACTIVE"
    <3> DEFINE to == Timed(req[r], "mark", clock)
    <3>1. to \in Request /\ to.at = "mark" /\ to.time = clock /\ clock <= clock
      <4>1. req[r] \in Request /\ clock \in Nat /\ clock <= clock /\ "mark" \in Places4
        BY <1>1 DEF TypeOK, RequestType
      <4>2. QED
        BY <4>1, TimedIs
    <3>2. OnlyMoves(r) /\ req'[r] = to
      <4>1. Goes(r, to)
        BY <1>4, <2>1 DEF StartCheck, Timed
      <4>2. QED
        BY <3>1, <4>1, GoesTo
    <3> HIDE DEF to
    <3>3. QED
      BY <1>2, <1>4, <3>1, <3>2 DEF StartCheck, stores
  <2>2. CASE active # "ACTIVE"
    BY <1>1, <1>2, <1>4, <2>2, MoveKeeps DEF StartCheck, Same, stores
  <2>3. QED
    BY <2>1, <2>2
<1>5. CASE StartMark(r)
  <2>1. OnlyMoves(r) /\ Same(r) /\ req'[r].at = "record"
    BY <1>1, <1>5, MoveKeeps DEF StartMark
  <2>2. doc'.responses = doc.responses
    BY <1>5 DEF StartMark
  <2>3. QED
    BY <1>2, <1>5, <2>1, <2>2 DEF StartMark, Same
<1>6. QED
  BY <1>3, <1>4, <1>5 DEF StartStep
\* A submission as it begins.
Begun(q, place, sheet, n) == [q EXCEPT !.at = place, !.sheet = sheet, !.time = n]

LEMMA BegunIs ==
    ASSUME NEW q \in Request, NEW place \in Places4, NEW sheet \in Sheet, NEW n \in Nat
    PROVE  /\ Begun(q, place, sheet, n) \in Request
           /\ Begun(q, place, sheet, n).at = place /\ Begun(q, place, sheet, n).time = n
<1> DEFINE moved == [q EXCEPT !.at = place, !.sheet = sheet]
<1>1. moved \in Request /\ moved.at = place /\ moved.sheet = sheet
  BY DEF Request
<1>2. Begun(q, place, sheet, n) = [moved EXCEPT !.time = n]
  BY DEF Begun
<1> HIDE DEF moved
<1>3. QED
  BY <1>1, <1>2 DEF Request

LEMMA SubmitGoes ==
    ASSUME TypeOK, NEW r \in Requests, SubmitStep(r)
    PROVE  /\ OnlyMoves(r) /\ r \in Submits
           /\ req[r].at \in {"idle", "blob", "doc", "index"} /\ req'[r].time <= clock
           /\ req[r].at # "idle" => Same(r)
           /\ \/ SubmitBegin(r) /\ req'[r].at \in {"blob", "refused"} /\ req'[r].time = clock
              \/ SubmitBlob(r) /\ req[r].at = "blob" /\ req'[r].at = "doc"
              \/ SubmitDoc(r) /\ req[r].at = "doc" /\ req'[r].at = "record"
              \/ SubmitRefused(r) /\ req[r].at \in {"blob", "doc"} /\ req'[r].at = "refused"
              \/ SubmitIndex(r) /\ req[r].at = "index" /\ req'[r].at = "done"
           /\ UNCHANGED <<clock, active, redis, backups, process, ledger>> /\ slips \subseteq slips'
<1>1. {"blob", "doc", "record", "refused", "done"} \subseteq Places4
  BY DEF Places4, SubmitPlaces
<1>2. req[r].at \in {"idle", "blob", "doc", "index"} /\ r \in Submits /\ req[r].time <= clock
  BY SessionAssumption DEF SubmitStep, SubmitBegin, SubmitBlob, SubmitDoc, SubmitRefused, SubmitIndex,
     At, TypeOK, RequestType, Places, StartPlaces, SavePlaces, LoadPlaces
<1>3. CASE SubmitBegin(r)
  <2> DEFINE place == IF Usable THEN "blob" ELSE "refused"
  <2>1. PICK sheet \in Answers : Goes(r, Begun(req[r], place, sheet, clock))
    BY <1>3 DEF SubmitBegin, Begun
  <2>2. place \in Places4 /\ place \in {"blob", "refused"} /\ clock \in Nat /\ clock <= clock
        /\ sheet \in Sheet /\ req[r] \in Request
    BY <1>1 DEF TypeOK, RequestType, Sheet
  <2> HIDE DEF place
  <2> DEFINE to == Begun(req[r], place, sheet, clock)
  <2>4. to \in Request /\ to.at = place /\ to.time = clock
    BY <2>2, BegunIs
  <2>5. OnlyMoves(r) /\ req'[r] = to
    BY <2>1, <2>4, GoesTo
  <2> HIDE DEF to
  <2>6. req[r].at = "idle"
    BY <1>3 DEF SubmitBegin, At
  <2>7. QED
    BY <1>2, <1>3, <2>2, <2>4, <2>5, <2>6 DEF SubmitBegin, stores
<1>4. CASE SubmitBlob(r)
  <2>1. OnlyMoves(r) /\ Same(r) /\ req'[r].at = "doc"
    BY <1>1, <1>4, MoveKeeps DEF SubmitBlob
  <2>2. QED
    BY <1>2, <1>4, <2>1 DEF SubmitBlob, Same, At
<1>5. CASE SubmitDoc(r)
  <2>1. OnlyMoves(r) /\ Same(r) /\ req'[r].at = "record"
    BY <1>1, <1>5, MoveKeeps DEF SubmitDoc
  <2>2. QED
    BY <1>2, <1>5, <2>1 DEF SubmitDoc, Same, At
<1>6. CASE SubmitRefused(r)
  <2>1. OnlyMoves(r) /\ Same(r) /\ req'[r].at = "refused"
    BY <1>1, <1>6, MoveKeeps DEF SubmitRefused
  <2>2. QED
    BY <1>2, <1>6, <2>1 DEF SubmitRefused, Same, At, stores
<1>7. CASE SubmitIndex(r)
  <2>1. OnlyMoves(r) /\ Same(r) /\ req'[r].at = "done"
    BY <1>1, <1>7, MoveKeeps DEF SubmitIndex
  <2>2. slips \subseteq slips'
    BY <1>7 DEF SubmitIndex, Slip
  <2>3. QED
    BY <1>2, <1>7, <2>1, <2>2 DEF SubmitIndex, Same, At
<1>8. QED
  BY <1>3, <1>4, <1>5, <1>6, <1>7 DEF SubmitStep
LEMMA SaveGoes ==
    ASSUME TypeOK, NEW r \in Requests, SaveStep(r)
    PROVE  /\ OnlyMoves(r) /\ r \in Saves
           /\ req'[r].at \in {"storing", "record", "done", "refused"} /\ req'[r].time <= clock
           /\ UNCHANGED <<clock, active, doc, blobs, index, kek, ledger>> /\ slips \subseteq slips'
           /\ \/ /\ SaveBegin(r) /\ req[r].at = "idle" /\ req'[r].at \in {"storing", "refused"}
                 /\ req'[r].time = clock /\ req'[r].redis = req[r].redis /\ req'[r].gcs = req[r].gcs
              \/ /\ SaveToRedis(r) /\ req[r].at = "storing" /\ req'[r].at = "storing"
                 /\ req'[r].time = req[r].time /\ req'[r].gcs = req[r].gcs
                 /\ req'[r].redis \in {"ok", "failed"}
              \/ /\ SaveToGcs(r) /\ req[r].at = "storing" /\ req'[r].at = "storing"
                 /\ req'[r].time = req[r].time /\ req'[r].redis = req[r].redis
                 /\ req'[r].gcs \in {"ok", "failed"}
              \/ /\ SaveSettles(r) /\ req[r].at = "storing" /\ Same(r)
                 /\ req'[r].at \in {"record", "done", "refused"}
<1>1. {"storing", "record", "done", "refused"} \subseteq Places4
  BY DEF Places4, SavePlaces
<1>2. req[r].at \in {"idle", "storing"} /\ r \in Saves /\ req[r].time <= clock /\ req[r] \in Request
  BY SessionAssumption DEF SaveStep, SaveBegin, SaveToRedis, SaveToGcs, SaveSettles,
     At, TypeOK, RequestType, Places, StartPlaces, SubmitPlaces, LoadPlaces, Requests
<1>3. CASE SaveBegin(r)
  <2> DEFINE place == IF Usable THEN "storing" ELSE "refused"
             to == Timed(req[r], place, clock)
  <2>1. place \in Places4 /\ place \in {"storing", "refused"} /\ clock \in Nat /\ clock <= clock
    BY <1>1 DEF TypeOK, RequestType
  <2>2. Goes(r, to)
    BY <1>3 DEF SaveBegin, Timed
  <2> HIDE DEF place
  <2>3. /\ to \in Request /\ to.at = place /\ to.time = clock
        /\ to.redis = req[r].redis /\ to.gcs = req[r].gcs
    BY <1>2, <2>1, TimedIs
  <2>4. OnlyMoves(r) /\ req'[r] = to
    BY <2>2, <2>3, GoesTo
  <2> HIDE DEF to
  <2>5. slips \subseteq slips'
    BY <1>3 DEF SaveBegin
  <2>6. QED
    BY <1>2, <1>3, <2>1, <2>3, <2>4, <2>5 DEF SaveBegin, stores, process, At
<1>4. CASE SaveToRedis(r)
  <2>1. PICK w \in {"ok", "failed"} : Goes(r, [req[r] EXCEPT !.redis = w])
    BY <1>4 DEF SaveToRedis
  <2> DEFINE to == [req[r] EXCEPT !.redis = w]
  <2>2. /\ to \in Request /\ to.redis = w /\ to.at = req[r].at /\ to.time = req[r].time
        /\ to.gcs = req[r].gcs
    BY <1>2 DEF Request, Written
  <2>3. OnlyMoves(r) /\ req'[r] = to
    BY <2>1, <2>2, GoesTo
  <2> HIDE DEF to
  <2>4. slips \subseteq slips'
    BY <1>4 DEF SaveToRedis, Slip
  <2>5. QED
    BY <1>2, <1>4, <2>2, <2>3, <2>4 DEF SaveToRedis, process, At
<1>5. CASE SaveToGcs(r)
  <2>1. PICK w \in {"ok", "failed"} : Goes(r, [req[r] EXCEPT !.gcs = w])
    BY <1>5 DEF SaveToGcs
  <2> DEFINE to == [req[r] EXCEPT !.gcs = w]
  <2>2. /\ to \in Request /\ to.gcs = w /\ to.at = req[r].at /\ to.time = req[r].time
        /\ to.redis = req[r].redis
    BY <1>2 DEF Request, Written
  <2>3. OnlyMoves(r) /\ req'[r] = to
    BY <2>1, <2>2, GoesTo
  <2> HIDE DEF to
  <2>4. slips \subseteq slips'
    BY <1>5 DEF SaveToGcs, Slip
  <2>5. QED
    BY <1>2, <1>5, <2>2, <2>3, <2>4 DEF SaveToGcs, process, At
<1>6. CASE SaveSettles(r)
  <2>1. PICK place \in {"record", "done", "refused"} : Move(r, place)
    BY <1>6 DEF SaveSettles
  <2>2. OnlyMoves(r) /\ Same(r) /\ req'[r].at = place
    BY <1>1, <2>1, MoveKeeps
  <2>3. QED
    BY <1>2, <1>6, <2>2 DEF SaveSettles, Same, stores, At
<1>7. QED
  BY <1>3, <1>4, <1>5, <1>6 DEF SaveStep

\* A load that is answered, or goes on to the bucket.
Loaded(q, n, from, acked) ==
    [q EXCEPT !.at = "done", !.time = n, !.from = from, !.acked = acked]
Asking(q, acked) == [q EXCEPT !.at = "gcs", !.acked = acked]
Answered(q, n) == [q EXCEPT !.at = "done", !.time = n, !.from = "gcs"]

LEMMA LoadedIs ==
    ASSUME NEW q \in Request, NEW n \in Nat, NEW acked \in Nat
    PROVE  /\ Loaded(q, n, "redis", acked) \in Request
           /\ Loaded(q, n, "redis", acked).at = "done" /\ Loaded(q, n, "redis", acked).time = n
           /\ Loaded(q, n, "redis", acked).from = "redis"
           /\ Loaded(q, n, "redis", acked).acked = acked
<1> DEFINE first == [q EXCEPT !.at = "done", !.time = n]
           second == [first EXCEPT !.from = "redis"]
<1>1. first \in Request /\ first.at = "done" /\ first.time = n
  BY DEF Request, Places4, LoadPlaces
<1>2. Loaded(q, n, "redis", acked) = [second EXCEPT !.acked = acked]
  BY DEF Loaded
<1> HIDE DEF first
<1>3. second \in Request /\ second.at = "done" /\ second.time = n /\ second.from = "redis"
  BY <1>1 DEF Request
<1> HIDE DEF second
<1>4. QED
  BY <1>2, <1>3 DEF Request

LEMMA AskingIs ==
    ASSUME NEW q \in Request, NEW acked \in Nat
    PROVE  /\ Asking(q, acked) \in Request
           /\ Asking(q, acked).at = "gcs" /\ Asking(q, acked).acked = acked
           /\ Asking(q, acked).time = q.time /\ Asking(q, acked).from = q.from
<1> DEFINE moved == [q EXCEPT !.at = "gcs"]
<1>1. moved \in Request /\ moved.at = "gcs" /\ moved.time = q.time /\ moved.from = q.from
  BY DEF Request, Places4, LoadPlaces
<1>2. Asking(q, acked) = [moved EXCEPT !.acked = acked]
  BY DEF Asking
<1> HIDE DEF moved
<1>3. QED
  BY <1>1, <1>2 DEF Request

LEMMA AnsweredIs ==
    ASSUME NEW q \in Request, NEW n \in Nat
    PROVE  /\ Answered(q, n) \in Request
           /\ Answered(q, n).at = "done" /\ Answered(q, n).time = n
           /\ Answered(q, n).from = "gcs" /\ Answered(q, n).acked = q.acked
<1> DEFINE moved == [q EXCEPT !.at = "done", !.time = n]
<1>1. moved \in Request /\ moved.at = "done" /\ moved.time = n /\ moved.acked = q.acked
  BY DEF Request, Places4, LoadPlaces
<1>2. Answered(q, n) = [moved EXCEPT !.from = "gcs"]
  BY DEF Answered
<1> HIDE DEF moved
<1>3. QED
  BY <1>1, <1>2 DEF Request
\* What a load compares with is an instant that has been.
LEMMA AcknowledgedIs ==
    ASSUME TypeOK
    PROVE  /\ Acknowledged \in SUBSET (0..clock) /\ Newest(Acknowledged) \in 0..clock
           /\ \/ Newest(Acknowledged) = 0
              \/ \E s \in Saves : req[s].at = "done" /\ req[s].time = Newest(Acknowledged)
<1>1. \A s \in Saves : s \in Requests /\ req[s].time \in 0..clock
  BY DEF Requests, TypeOK, RequestType, Request
<1>2. Acknowledged \in SUBSET (0..clock)
  BY <1>1 DEF Acknowledged
<1>3. clock \in Nat
  BY DEF TypeOK, RequestType
<1>4. Newest(Acknowledged) \in 0..clock /\ (Newest(Acknowledged) = 0 \/ Newest(Acknowledged) \in Acknowledged)
  BY <1>2, <1>3, NewestIs
<1>5. ASSUME Newest(Acknowledged) \in Acknowledged
      PROVE  \E s \in Saves : req[s].at = "done" /\ req[s].time = Newest(Acknowledged)
  BY <1>5, Zenon DEF Acknowledged, At
<1>6. QED
  BY <1>2, <1>4, <1>5

\* The ways a load goes on.
RedisAnswers(r) ==
    /\ req[r].at = "idle" /\ req'[r].at = "done" /\ req'[r].time = redis.time
    /\ req'[r].from = "redis" /\ req'[r].acked = Newest(Acknowledged) /\ redis.key = kek
AsksBucket(r) ==
    /\ req[r].at = "idle" /\ req'[r].at = "gcs" /\ req'[r].time = req[r].time
    /\ req'[r].from = req[r].from /\ req'[r].acked = Newest(Acknowledged)
BucketAnswers(r) ==
    /\ req[r].at = "gcs" /\ req'[r].at = "done" /\ req'[r].time = Newest(DOMAIN backups)
    /\ req'[r].from = "gcs" /\ req'[r].acked = req[r].acked
BucketFails(r) ==
    /\ req[r].at = "gcs" /\ req'[r].at = "done" /\ Same(r)
    /\ \/ "gcs read" \in slips'
       \/ Newest(DOMAIN backups) # 0 /\ backups[Newest(DOMAIN backups)] # kek
LoadIsRefused(r) == req[r].at = "idle" /\ req'[r].at = "refused" /\ Same(r)

LEMMA LoadGoes ==
    ASSUME TypeOK, NEW r \in Requests, LoadStep(r)
    PROVE  /\ OnlyMoves(r) /\ r \in Loads
           /\ req'[r].at \in {"gcs", "done", "refused"} /\ req'[r].time <= clock
           /\ UNCHANGED <<clock, active, stores, process, ledger>> /\ slips \subseteq slips'
           /\ \/ RedisAnswers(r) \/ AsksBucket(r) \/ BucketAnswers(r) \/ BucketFails(r)
              \/ LoadIsRefused(r)
<1>1. {"gcs", "done", "refused"} \subseteq Places4
  BY DEF Places4, LoadPlaces
<1>2. req[r].at \in {"idle", "gcs"} /\ r \in Loads /\ req[r].time <= clock /\ req[r] \in Request
  BY SessionAssumption DEF LoadStep, LoadRedis, LoadGcs, LoadRefused,
     At, TypeOK, RequestType, Places, StartPlaces, SubmitPlaces, SavePlaces, Requests
<1>3. CASE LoadRedis(r)
  <2> DEFINE acked == Newest(Acknowledged)
  <2>1. acked \in Nat
    BY AcknowledgedIs DEF TypeOK, RequestType
  <2>2. /\ req[r].at = "idle" /\ slips \subseteq slips'
        /\ UNCHANGED <<clock, active, stores, process, ledger>>
    BY <1>3 DEF LoadRedis, Slip, At
  <2>3. \/ redis.key = kek /\ Goes(r, Loaded(req[r], redis.time, "redis", acked))
        \/ Goes(r, Asking(req[r], acked))
    BY <1>3 DEF LoadRedis, Loaded, Asking, Opens
  <2>4. redis.time \in Nat /\ redis.time <= clock
    BY DEF TypeOK, RequestType, StoreType
  <2> HIDE DEF acked
  <2>5. CASE redis.key = kek /\ Goes(r, Loaded(req[r], redis.time, "redis", acked))
    <3> DEFINE to == Loaded(req[r], redis.time, "redis", acked)
    <3>1. /\ to \in Request /\ to.at = "done" /\ to.time = redis.time
          /\ to.from = "redis" /\ to.acked = acked
      <4>1. \A n \in Nat : LET it == Loaded(req[r], n, "redis", acked)
                           IN  /\ it \in Request /\ it.at = "done" /\ it.time = n
                               /\ it.from = "redis" /\ it.acked = acked
        BY <1>2, <2>1, LoadedIs
      <4>2. QED
        BY <2>4, <4>1
    <3>2. OnlyMoves(r) /\ req'[r] = to
      BY <2>5, <3>1, GoesTo
    <3> HIDE DEF to
    <3>3. RedisAnswers(r)
      BY <2>2, <2>5, <3>1, <3>2 DEF RedisAnswers, acked
    <3>4. QED
      BY <1>2, <2>2, <2>4, <3>1, <3>2, <3>3
  <2>6. CASE Goes(r, Asking(req[r], acked))
    <3> DEFINE to == Asking(req[r], acked)
    <3>1. /\ to \in Request /\ to.at = "gcs" /\ to.time = req[r].time
          /\ to.from = req[r].from /\ to.acked = acked
      BY <1>2, <2>1, AskingIs
    <3>2. OnlyMoves(r) /\ req'[r] = to
      BY <2>6, <3>1, GoesTo
    <3> HIDE DEF to
    <3>3. AsksBucket(r)
      BY <2>2, <3>1, <3>2 DEF AsksBucket, acked
    <3>4. QED
      BY <1>2, <2>2, <3>1, <3>2, <3>3
  <2>7. QED
    BY <2>3, <2>5, <2>6
<1>4. CASE LoadGcs(r)
  <2> DEFINE newest == Newest(DOMAIN backups)
  <2>1. newest \in 0..clock /\ clock \in Nat
    BY NewestIs DEF TypeOK, RequestType, StoreType
  <2>2. /\ req[r].at = "gcs" /\ slips \subseteq slips'
        /\ UNCHANGED <<clock, active, stores, process, ledger>>
    BY <1>4 DEF LoadGcs, Slip, At
  <2>3. \/ Goes(r, Answered(req[r], newest))
        \/ /\ Move(r, "done")
           /\ "gcs read" \in slips' \/ (newest # 0 /\ backups[newest] # kek)
    BY <1>4 DEF LoadGcs, Answered, Opens, Slip
  <2> HIDE DEF newest
  <2>4. CASE Goes(r, Answered(req[r], newest))
    <3> DEFINE to == Answered(req[r], newest)
    <3>1. /\ to \in Request /\ to.at = "done" /\ to.time = newest
          /\ to.from = "gcs" /\ to.acked = req[r].acked
      BY <1>2, <2>1, AnsweredIs
    <3>2. OnlyMoves(r) /\ req'[r] = to
      BY <2>4, <3>1, GoesTo
    <3> HIDE DEF to
    <3>3. BucketAnswers(r)
      BY <2>2, <3>1, <3>2 DEF BucketAnswers, newest
    <3>4. QED
      BY <1>2, <2>1, <2>2, <3>1, <3>2, <3>3
  <2>5. CASE /\ Move(r, "done")
             /\ "gcs read" \in slips' \/ (newest # 0 /\ backups[newest] # kek)
    <3>1. OnlyMoves(r) /\ Same(r) /\ req'[r].at = "done"
      BY <1>1, <2>5, MoveKeeps
    <3>2. BucketFails(r)
      BY <2>2, <2>5, <3>1 DEF BucketFails, newest
    <3>3. QED
      BY <1>2, <2>2, <3>1, <3>2 DEF Same
  <2>6. QED
    BY <2>3, <2>4, <2>5
<1>5. CASE LoadRefused(r)
  <2>1. OnlyMoves(r) /\ Same(r) /\ req'[r].at = "refused"
    BY <1>1, <1>5, MoveKeeps DEF LoadRefused
  <2>2. req[r].at = "idle"
    BY <1>5 DEF LoadRefused, At
  <2>3. LoadIsRefused(r)
    BY <2>1, <2>2 DEF LoadIsRefused
  <2>4. QED
    BY <1>2, <1>5, <2>1, <2>3 DEF LoadRefused, Same
<1>6. QED
  BY <1>3, <1>4, <1>5 DEF LoadStep
\* The surroundings end requests under way, let Redis forget, and change the
\* KEK only noticeably.
GivenUp(x) == Underway(x) /\ req'[x].at = "refused" /\ Same(x)

LEMMA SurroundingsGo ==
    ASSUME TypeOK, Surroundings
    PROVE  /\ req' \in [Requests -> Request] /\ \A x \in Requests : req'[x] = req[x] \/ GivenUp(x)
           /\ clock' \in Nat /\ clock <= clock' /\ slips \subseteq slips'
           /\ UNCHANGED <<doc, blobs, backups, index>> /\ redis' \in {redis, Nothing}
           /\ kek' \in Kek /\ (kek' = kek \/ "rekeyed" \in slips')
           /\ lastHash' \in Nat /\ (CutBlock \/ UNCHANGED ledger)
<1> USE DEF stores, process
<1>1. /\ req \in [Requests -> Request] /\ clock \in Nat /\ clock <= clock /\ clock <= clock + 1
      /\ kek \in Kek /\ lastHash \in Nat
  BY DEF TypeOK, RequestType, StoreType
<1>2. CASE Tick
  BY <1>1, <1>2 DEF Tick
<1>3. CASE ExamMoves
  BY <1>1, <1>3 DEF ExamMoves
<1>4. CASE Expire
  BY <1>1, <1>4 DEF Expire
<1>5. CASE Crash
  <2>1. \A x \in Requests : LET to == [req[x] EXCEPT !.at = "refused"]
                            IN  /\ to \in Request /\ to.at = "refused" /\ to.time = req[x].time
                                /\ to.sheet = req[x].sheet /\ to.redis = req[x].redis
                                /\ to.gcs = req[x].gcs /\ to.acked = req[x].acked
                                /\ to.from = req[x].from
    BY <1>1 DEF Request, Places4, LoadPlaces
  <2>2. req' = [x \in Requests |-> IF Underway(x) THEN [req[x] EXCEPT !.at = "refused"] ELSE req[x]]
    BY <1>5 DEF Crash
  <2>3. req' \in [Requests -> Request]
    BY <1>1, <2>1, <2>2
  <2>4. \A x \in Requests : req'[x] = req[x] \/ GivenUp(x)
    <3> SUFFICES ASSUME NEW x \in Requests PROVE req'[x] = req[x] \/ GivenUp(x)
      OBVIOUS
    <3>1. CASE Underway(x)
      <4>1. req'[x] = [req[x] EXCEPT !.at = "refused"]
        BY <2>2, <3>1
      <4>2. QED
        BY <2>1, <3>1, <4>1, Zenon DEF GivenUp, Same
    <3>2. CASE ~Underway(x)
      BY <2>2, <3>2
    <3>3. QED
      BY <3>1, <3>2
  <2>5. kek' \in Kek /\ slips \subseteq slips' /\ (kek' = kek \/ "rekeyed" \in slips')
    BY <1>5 DEF Crash, Kek
  <2>6. QED
    BY <1>1, <1>5, <2>3, <2>4, <2>5 DEF Crash
<1>6. CASE LedgerCuts
  BY <1>1, <1>6 DEF LedgerCuts
<1>7. QED
  BY <1>2, <1>3, <1>4, <1>5, <1>6 DEF Surroundings

(***************************************************************************)
(* Types.                                                                  *)
(***************************************************************************)
LEMMA EntityHashType ==
    ASSUME TypeOK, NEW r \in Requests
    PROVE  EntityHash(r) \in Event
<1>1. req[r].sheet \in Sheet /\ req[r].time \in Nat
  BY DEF TypeOK, RequestType, Request
<1>2. QED
  BY <1>1 DEF EntityHash, SubmissionHash, Event, Sheet

\* The ledger, for events of any kind.
TxOver(E) == [txId : Nat, event : E]
BlockOver(E) == {[data |-> data, dataHash |-> MerkleRoot(Leaves(data))] : data \in Seq(TxOver(E))}
LedgerOver(E) == pending \in Seq(TxOver(E)) /\ blocks \in Seq(BlockOver(E)) /\ txs \in Nat

\* What is pending stays or is in the new block.
LEMMA BlockIsCut ==
    ASSUME NEW E, LedgerOver(E), CutBlock
    PROVE  /\ pending' \in Seq(TxOver(E)) /\ blocks' \in Seq(BlockOver(E)) /\ txs' = txs
           /\ Known' = Known /\ Last(blocks').data \in Seq(TxOver(E))
           /\ CommittedTxs' = CommittedTxs \cup Range(Last(blocks').data)
<1>1. PICK n \in 1..Len(pending) :
         /\ blocks' = Append(blocks, [data |-> SubSeq(pending, 1, n),
                                      dataHash |-> MerkleRoot(Leaves(SubSeq(pending, 1, n)))])
         /\ pending' = SubSeq(pending, n + 1, Len(pending)) /\ txs' = txs
  BY DEF CutBlock
<1> DEFINE Tr == TxOver(E)
           data == SubSeq(pending, 1, n)
           rest == SubSeq(pending, n + 1, Len(pending))
           block == [data |-> data, dataHash |-> MerkleRoot(Leaves(data))]
<1> HIDE DEF Tr
<1>2. /\ pending \in Seq(Tr) /\ Len(pending) \in Nat /\ n \in Int /\ n <= Len(pending) /\ 1 <= n
      /\ DOMAIN pending = 1..Len(pending) /\ \A i \in 1..Len(pending) : pending[i] \in Tr
  BY LenProperties, ElementOfSeq DEF LedgerOver, Tr
<1>3. /\ data \in Seq(Tr) /\ Len(data) = n /\ \A i \in 1..n : data[i] = pending[i]
  <2>1. \A i \in 1..n : pending[i] \in Tr
    BY <1>2
  <2>2. /\ data \in Seq(Tr) /\ Len(data) = (IF 1 <= n THEN n - 1 + 1 ELSE 0)
        /\ \A i \in 1..n - 1 + 1 : data[i] = pending[1 + i - 1]
    BY <1>2, <2>1, SubSeqProperties
  <2> HIDE DEF data
  <2>3. \A i \in 1..n : 1 + i - 1 = i /\ i \in 1..n - 1 + 1
    BY <1>2
  <2>4. QED
    BY <1>2, <2>2, <2>3
<1>4. /\ rest \in Seq(Tr) /\ Len(rest) = Len(pending) - n
      /\ \A i \in 1..Len(pending) - n : rest[i] = pending[n + i]
  <2>1. \A i \in n + 1..Len(pending) : pending[i] \in Tr
    BY <1>2
  <2>2. /\ rest \in Seq(Tr)
        /\ Len(rest) = (IF n + 1 <= Len(pending) THEN Len(pending) - (n + 1) + 1 ELSE 0)
        /\ \A i \in 1..Len(pending) - (n + 1) + 1 : rest[i] = pending[n + 1 + i - 1]
    BY <1>2, <2>1, SubSeqProperties
  <2> HIDE DEF rest
  <2>3. Len(rest) = Len(pending) - n
    <3>1. /\ n + 1 <= Len(pending) => Len(pending) - (n + 1) + 1 = Len(pending) - n
          /\ ~(n + 1 <= Len(pending)) => 0 = Len(pending) - n
      <4> \A k, l \in Int : k <= l => /\ (k + 1 <= l => l - (k + 1) + 1 = l - k)
                                     /\ (~(k + 1 <= l) => 0 = l - k)
        OBVIOUS
      <4> n \in Int /\ Len(pending) \in Int /\ n <= Len(pending)
        BY <1>2
      <4> QED
        OBVIOUS
    <3>2. Len(rest) = IF n + 1 <= Len(pending) THEN Len(pending) - (n + 1) + 1 ELSE 0
      BY <2>2
    <3>3. QED
      BY <3>1, <3>2, Zenon
  <2>4. \A i \in 1..Len(pending) - n :
           n + 1 + i - 1 = n + i /\ i \in 1..Len(pending) - (n + 1) + 1
    BY <1>2
  <2>5. QED
    BY <2>2, <2>3, <2>4
<1>5. block \in BlockOver(E) /\ block.data = data
  BY <1>3 DEF BlockOver, Tr
<1> HIDE DEF data, rest, block
<1>6. blocks' = Append(blocks, block) /\ pending' = rest
  BY <1>1 DEF data, rest, block
<1>7. /\ blocks' \in Seq(BlockOver(E)) /\ Len(blocks) \in Nat /\ Len(blocks') = Len(blocks) + 1
      /\ DOMAIN blocks = 1..Len(blocks) /\ DOMAIN blocks' = 1..Len(blocks) + 1
      /\ \A b \in 1..Len(blocks) : blocks'[b] = blocks[b]
      /\ blocks'[Len(blocks) + 1] = block
  BY <1>5, <1>6, LenProperties, AppendProperties DEF LedgerOver
<1>8. Last(blocks').data = data
  BY <1>5, <1>7 DEF Last
<1>9. \A x : x \in CommittedTxs' <=> x \in CommittedTxs \/ x \in Range(data)
  <2>1. \A x : x \in CommittedTxs <=> \E b \in 1..Len(blocks) : x \in Range(blocks[b].data)
    BY <1>7 DEF CommittedTxs
  <2>2. \A x : x \in CommittedTxs' <=>
                  \E b \in 1..Len(blocks) + 1 : x \in Range(blocks'[b].data)
    BY <1>7 DEF CommittedTxs
  <2>3. \A b : b \in 1..Len(blocks) + 1 <=> b \in 1..Len(blocks) \/ b = Len(blocks) + 1
    BY <1>7
  <2>4. QED
    BY <1>5, <1>7, <2>1, <2>2, <2>3, SMTT(30)
<1>10. \A x : x \in Range(pending) <=> x \in Range(data) \/ x \in Range(rest)
  <2>1. DOMAIN data = 1..n /\ DOMAIN rest = 1..Len(pending) - n
    BY <1>3, <1>4, LenProperties
  <2>2. \A x : x \in Range(pending) <=> \E i \in 1..Len(pending) : x = pending[i]
    BY <1>2 DEF Range
  <2>3. \A x : x \in Range(data) <=> \E i \in 1..n : x = pending[i]
    BY <1>3, <2>1 DEF Range
  <2>4. \A x : x \in Range(rest) <=> \E i \in 1..Len(pending) - n : x = pending[n + i]
    BY <1>4, <2>1 DEF Range
  <2>5. \A i \in 1..Len(pending) : i \in 1..n \/ (i - n \in 1..Len(pending) - n /\ i = n + (i - n))
    BY <1>2
  <2>6. /\ \A i \in 1..n : i \in 1..Len(pending)
        /\ \A i \in 1..Len(pending) - n : n + i \in 1..Len(pending)
    BY <1>2
  <2>7. QED
    BY <2>2, <2>3, <2>4, <2>5, <2>6, Zenon
<1>11. Known' = Known
  BY <1>6, <1>9, <1>10 DEF Known
<1>12. data \in Seq(TxOver(E)) /\ rest \in Seq(TxOver(E))
  BY <1>3, <1>4 DEF Tr
<1>13. CommittedTxs' = CommittedTxs \cup Range(data)
  BY <1>9
<1>14. QED
  BY <1>1, <1>6, <1>7, <1>8, <1>11, <1>12, <1>13

\* A recorded event is the newest transaction the orderer has.
LEMMA EventIsOrdered ==
    ASSUME NEW E, LedgerOver(E), NEW event \in E, RecordEvent(event)
    PROVE  /\ pending' \in Seq(TxOver(E)) /\ blocks' = blocks /\ txs' = txs + 1
           /\ Known' = Known \cup {[txId |-> txs + 1, event |-> event]}
           /\ CommittedTxs' = CommittedTxs
<1> DEFINE tx == [txId |-> txs + 1, event |-> event]
<1>1. tx \in TxOver(E) /\ pending \in Seq(TxOver(E)) /\ txs \in Nat
  BY DEF LedgerOver, TxOver
<1> HIDE DEF tx
<1>2. pending' = Append(pending, tx) /\ blocks' = blocks /\ txs' = txs + 1
  BY DEF RecordEvent, tx
<1>3. /\ pending' \in Seq(TxOver(E)) /\ Len(pending) \in Nat /\ Len(pending') = Len(pending) + 1
      /\ DOMAIN pending = 1..Len(pending) /\ DOMAIN pending' = 1..Len(pending) + 1
      /\ \A i \in 1..Len(pending) : pending'[i] = pending[i]
      /\ pending'[Len(pending) + 1] = tx
  BY <1>1, <1>2, LenProperties, AppendProperties
<1>4. CommittedTxs' = CommittedTxs
  BY <1>2 DEF CommittedTxs
<1>5. \A x : x \in Range(pending') <=> x \in Range(pending) \/ x = tx
  BY <1>3, SMTT(30) DEF Range
<1>6. Known' = Known \cup {tx}
  BY <1>4, <1>5 DEF Known
<1>7. QED
  BY <1>2, <1>3, <1>4, <1>6, Zenon DEF tx

\* Both, for the session's events.
LEMMA CutBlockMoves ==
    ASSUME LedgerType, CutBlock
    PROVE  /\ LedgerType' /\ txs' = txs /\ Known' = Known /\ CommittedTxs \subseteq CommittedTxs'
<1>1. LedgerOver(Event) /\ Seq(TxOver(Event)) = Seq(Tx) /\ Seq(BlockOver(Event)) = Seq(Block)
  BY DEF LedgerType, LedgerOver, TxOver, BlockOver, Tx, Block
<1>2. /\ pending' \in Seq(Tx) /\ blocks' \in Seq(Block) /\ txs' = txs /\ Known' = Known
      /\ CommittedTxs' = CommittedTxs \cup Range(Last(blocks').data)
  BY <1>1, BlockIsCut
<1>3. txs \in Nat
  BY DEF LedgerType
<1>4. QED
  BY <1>2, <1>3 DEF LedgerType

LEMMA RecordMoves ==
    ASSUME TypeOK, NEW r \in Requests, RecordEvent(EntityHash(r))
    PROVE  LET tx == [txId |-> txs + 1, event |-> EntityHash(r)]
           IN  /\ LedgerType' /\ txs' = txs + 1 /\ tx \in Tx
               /\ Known' = Known \cup {tx} /\ CommittedTxs' = CommittedTxs
<1>1. EntityHash(r) \in Event
  BY EntityHashType
<1>2. LedgerOver(Event) /\ Seq(TxOver(Event)) = Seq(Tx)
  BY DEF TypeOK, LedgerType, LedgerOver, TxOver, BlockOver, Tx, Block
<1>3. /\ pending' \in Seq(Tx) /\ blocks' = blocks /\ txs' = txs + 1
      /\ Known' = Known \cup {[txId |-> txs + 1, event |-> EntityHash(r)]}
      /\ CommittedTxs' = CommittedTxs
  BY <1>1, <1>2, EventIsOrdered
<1>4. txs \in Nat /\ blocks \in Seq(Block)
  BY DEF TypeOK, LedgerType
<1>5. [txId |-> txs + 1, event |-> EntityHash(r)] \in Tx
  BY <1>1, <1>4 DEF Tx
<1>6. LedgerType'
  BY <1>3, <1>4 DEF LedgerType
<1>7. QED
  BY <1>3, <1>5, <1>6

LEMMA TypeInit == Init => TypeOK
<1> SUFFICES ASSUME Init PROVE TypeOK
  OBVIOUS
<1>1. PICK workload \in Workloads :
         /\ req = [r \in Requests |->
                     IF r \in workload.requests THEN Idle ELSE [Idle EXCEPT !.at = "absent"]]
         /\ LedgerInit(workload.earlier, [sheet |-> None, time |-> 0])
  BY DEF Init
<1>2. \A p \in {"idle", "absent"} : [Idle EXCEPT !.at = p] \in Request
  BY DEF Idle, Request, Places4, LoadPlaces, Written, Sheet
<1>3. Idle = [Idle EXCEPT !.at = "idle"]
  BY DEF Idle
<1>4. \A r \in Requests : req[r] \in {Idle, [Idle EXCEPT !.at = "absent"]}
  BY <1>1
<1>5. req \in [Requests -> Request]
  BY <1>1, <1>2, <1>3
<1>6. \A r \in Requests : req[r].at \in {"idle", "absent"} /\ req[r].time = 0
  BY <1>4 DEF Idle
<1>7. RequestType
  <2>1. clock = 1
    BY DEF Init
  <2>2. \A r \in Requests : {"idle", "absent"} \subseteq Places(r)
    BY DEF Places, StartPlaces, SubmitPlaces, SavePlaces, LoadPlaces
  <2>3. QED
    BY <1>5, <1>6, <2>1, <2>2 DEF RequestType
<1>8. StoreType
  <2>1. DOMAIN blobs = {} /\ DOMAIN backups = {}
    <3>1. DOMAIN <<>> = 1..0 /\ 1..0 = {}
      BY EmptySeq, LenProperties
    <3>2. QED
      BY <3>1 DEF Init
  <2>2. /\ doc = [session |-> None, responses |-> None]
        /\ redis = [time |-> 0, key |-> None] /\ clock = 1
    BY DEF Init, Nothing
  <2>3. kek \in Kek /\ lastHash = 0
    BY DEF Init, Kek
  <2>4. QED
    BY <2>1, <2>2, <2>3 DEF StoreType
<1>9. LedgerType
  <2> DEFINE event == [sheet |-> None, time |-> 0]
             n == workload.earlier
  <2>1. n \in Nat /\ event \in Event
    BY SessionAssumption DEF Event, Sheet
  <2>2. pending = [i \in 1..n |-> [txId |-> i, event |-> event]] /\ blocks = <<>> /\ txs = n
    BY <1>1 DEF LedgerInit
  <2> HIDE DEF n, event
  <2>3. pending \in [1..n -> Tx]
    BY <2>1, <2>2 DEF Tx
  <2>4. pending \in Seq(Tx)
    BY <2>1, <2>3, SeqDef
  <2>5. <<>> \in Seq(Block)
    BY EmptySeq
  <2>6. QED
    BY <2>1, <2>2, <2>4, <2>5 DEF LedgerType
<1>10. QED
  BY <1>7, <1>8, <1>9 DEF TypeOK

\* The stores and the ledger as they were.
LEMMA StoreKept ==
    ASSUME TypeOK, UNCHANGED <<clock, doc, blobs, redis, backups, process>> PROVE StoreType'
BY DEF TypeOK, StoreType, process

LEMMA LedgerKept == ASSUME TypeOK, UNCHANGED ledger PROVE LedgerType'
BY DEF TypeOK, LedgerType, ledger

LEMMA TypeSubmit ==
    ASSUME TypeOK, NEW r \in Requests, SubmitStep(r)
    PROVE  TypeOK'
<1>1. /\ OnlyMoves(r) /\ r \in Submits /\ req'[r].time <= clock
      /\ req'[r].at \in {"blob", "doc", "record", "done", "refused"}
      /\ UNCHANGED <<clock, active, redis, backups, process, ledger>>
  BY SubmitGoes
<1>2. RequestType'
  BY <1>1, RequestTypeStep, SessionAssumption DEF Places, SubmitPlaces
<1>3. DOMAIN blobs' \subseteq Nat
  <2>1. DOMAIN blobs \subseteq Nat /\ req[r].time \in Nat
    BY DEF TypeOK, StoreType, RequestType, Request
  <2>2. CASE SubmitBlob(r)
    BY <2>1, <2>2 DEF SubmitBlob
  <2>3. CASE ~SubmitBlob(r)
    <3>1. blobs' = blobs
      BY <2>3 DEF SubmitStep, SubmitBegin, SubmitDoc, SubmitRefused, SubmitIndex, stores
    <3>2. QED
      BY <2>1, <3>1
  <2>4. QED
    BY <2>2, <2>3
<1>4. doc'.responses \in {None} \cup Event
  <2>1. doc.responses \in {None} \cup Event
    BY DEF TypeOK, StoreType
  <2>2. CASE SubmitDoc(r)
    <3>1. SubmissionHash(r) \in Event
      BY <1>1, EntityHashType DEF EntityHash
    <3>2. doc' = [doc EXCEPT !.responses = SubmissionHash(r)]
      BY <2>2 DEF SubmitDoc
    <3>3. doc'.responses \in {SubmissionHash(r), doc.responses}
      BY <3>2
    <3>4. QED
      BY <2>1, <3>1, <3>3
  <2>3. CASE ~SubmitDoc(r)
    <3>1. doc' = doc
      BY <2>3 DEF SubmitStep, SubmitBegin, SubmitBlob, SubmitRefused, SubmitIndex, stores
    <3>2. QED
      BY <2>1, <3>1
  <2>4. QED
    BY <2>2, <2>3
<1>5. StoreType'
  BY <1>1, <1>3, <1>4 DEF TypeOK, StoreType, process
<1>6. QED
  BY <1>1, <1>2, <1>5, LedgerKept DEF TypeOK
LEMMA TypeSave ==
    ASSUME TypeOK, NEW r \in Requests, SaveStep(r)
    PROVE  TypeOK'
<1>1. /\ OnlyMoves(r) /\ r \in Saves /\ req'[r].time <= clock
      /\ req'[r].at \in {"storing", "record", "done", "refused"}
      /\ UNCHANGED <<clock, active, doc, blobs, index, kek, ledger>>
  BY SaveGoes
<1>2. RequestType'
  BY <1>1, RequestTypeStep, SessionAssumption DEF Places, SavePlaces
<1>3. /\ req[r].time \in 0..clock /\ kek \in Kek /\ lastHash \in Nat
      /\ redis \in [time : 0..clock, key : {None} \cup Kek] /\ DOMAIN backups \subseteq 0..clock
  BY DEF TypeOK, StoreType, RequestType, Request
<1>4. redis' \in [time : 0..clock, key : {None} \cup Kek]
  BY <1>3 DEF SaveStep, SaveBegin, SaveToRedis, SaveToGcs, SaveSettles, stores, Sealed
<1>5. DOMAIN backups' \subseteq 0..clock
  <2>1. CASE SaveToGcs(r)
    BY <1>3, <2>1 DEF SaveToGcs
  <2>2. CASE ~SaveToGcs(r)
    <3>1. backups' = backups
      BY <2>2 DEF SaveStep, SaveBegin, SaveToRedis, SaveSettles, stores
    <3>2. QED
      BY <1>3, <3>1
  <2>3. QED
    BY <2>1, <2>2
<1>6. lastHash' \in Nat
  BY <1>3 DEF SaveStep, SaveBegin, SaveToRedis, SaveToGcs, SaveSettles, process
<1>7. StoreType'
  BY <1>1, <1>3, <1>4, <1>5, <1>6 DEF TypeOK, StoreType
<1>8. QED
  BY <1>1, <1>2, <1>7, LedgerKept DEF TypeOK

LEMMA TypeRecord ==
    ASSUME TypeOK, NEW r \in Requests, RecordStep(r)
    PROVE  TypeOK'
<1>1. /\ OnlyMoves(r) /\ Same(r) /\ r \notin Loads
      /\ req'[r].at \in {"committing", "done"} \/ (r \in Submits /\ req'[r].at = "index")
      /\ UNCHANGED <<clock, active, stores, process>>
  BY RecordGoes
<1>2. req'[r].at \in Places(r) /\ req'[r].time <= clock
  BY <1>1, SessionAssumption DEF Places, StartPlaces, SubmitPlaces, SavePlaces, Same,
     TypeOK, RequestType, Requests
<1>3. RequestType'
  BY <1>1, <1>2, RequestTypeStep
<1>4. StoreType'
  BY <1>1, StoreKept DEF stores
<1>5. LedgerType'
  <2>1. CASE RecordOrdered(r)
    BY <2>1, RecordMoves DEF RecordOrdered
  <2>2. CASE ~RecordOrdered(r)
    <3>1. UNCHANGED ledger
      BY <2>2 DEF RecordStep, RecordFails, RecordAnswered, RecordLost
    <3>2. QED
      BY <3>1, LedgerKept
  <2>3. QED
    BY <2>1, <2>2
<1>6. QED
  BY <1>3, <1>4, <1>5 DEF TypeOK

LEMMA TypeSurroundings == ASSUME TypeOK, Surroundings PROVE TypeOK'
<1>1. /\ req' \in [Requests -> Request] /\ \A x \in Requests : req'[x] = req[x] \/ GivenUp(x)
      /\ clock' \in Nat /\ clock <= clock'
      /\ UNCHANGED <<doc, blobs, backups, index>> /\ redis' \in {redis, Nothing}
      /\ kek' \in Kek /\ lastHash' \in Nat /\ (CutBlock \/ UNCHANGED ledger)
  BY SurroundingsGo
<1>2. \A x \in Requests : req[x].time \in Nat /\ req[x].time <= clock /\ req[x].at \in Places(x)
  BY DEF TypeOK, RequestType, Request
<1>3. clock \in Nat \ {0} /\ DOMAIN backups \subseteq 0..clock /\ redis \in [time : 0..clock, key : {None} \cup Kek]
  BY DEF TypeOK, RequestType, StoreType
<1>4. \A x \in Requests : req'[x].at \in Places(x) /\ req'[x].time <= clock'
  <2> SUFFICES ASSUME NEW x \in Requests PROVE req'[x].at \in Places(x) /\ req'[x].time <= clock'
    OBVIOUS
  <2>1. CASE req'[x] = req[x]
    BY <1>1, <1>2, <1>3, <2>1
  <2>2. CASE GivenUp(x)
    <3>1. req'[x].at = "refused" /\ req'[x].time = req[x].time
      BY <2>2 DEF GivenUp, Same
    <3>2. QED
      BY <1>1, <1>2, <1>3, <3>1 DEF Places, StartPlaces, SubmitPlaces, SavePlaces, LoadPlaces
  <2>3. QED
    BY <1>1, <2>1, <2>2
<1>5. RequestType'
  BY <1>1, <1>3, <1>4 DEF RequestType
<1>6. 0..clock \subseteq 0..clock' /\ 0 \in 0..clock'
  BY <1>1, <1>3
<1>7. redis' \in [time : 0..clock', key : {None} \cup Kek]
  BY <1>1, <1>3, <1>6 DEF Nothing
<1>8. StoreType'
  BY <1>1, <1>3, <1>6, <1>7 DEF TypeOK, StoreType
<1>9. LedgerType'
  BY <1>1, LedgerKept, CutBlockMoves DEF TypeOK
<1>10. QED
  BY <1>5, <1>8, <1>9 DEF TypeOK

LEMMA TypeStep == TypeOK /\ [Next]_vars => TypeOK'
<1> SUFFICES ASSUME TypeOK, [Next]_vars PROVE TypeOK'
  OBVIOUS
<1>1. CASE UNCHANGED vars
  BY <1>1, StoreKept, LedgerKept DEF TypeOK, RequestType, vars, stores
<1>2. ASSUME NEW r \in Requests, RecordStep(r) PROVE TypeOK'
  BY <1>2, TypeRecord
<1>3. ASSUME NEW r \in Requests, StartStep(r) PROVE TypeOK'
  <2>1. /\ OnlyMoves(r) /\ r \in Starts
        /\ req'[r].at \in {"paper", "mark", "record", "refused"} /\ req'[r].time <= clock
        /\ UNCHANGED <<clock, active, blobs, redis, backups, index, process, slips, ledger>>
        /\ doc'.responses = doc.responses
    BY <1>3, StartGoes
  <2>2. RequestType'
    BY <2>1, RequestTypeStep DEF Places, StartPlaces
  <2>3. StoreType'
    BY <2>1 DEF TypeOK, StoreType, process
  <2>4. QED
    BY <2>1, <2>2, <2>3, LedgerKept DEF TypeOK
<1>4. ASSUME NEW r \in Requests, SubmitStep(r) PROVE TypeOK'
  BY <1>4, TypeSubmit
<1>5. ASSUME NEW r \in Requests, SaveStep(r) PROVE TypeOK'
  BY <1>5, TypeSave
<1>6. ASSUME NEW r \in Requests, LoadStep(r) PROVE TypeOK'
  <2>1. /\ OnlyMoves(r) /\ r \in Loads
        /\ req'[r].at \in {"gcs", "done", "refused"} /\ req'[r].time <= clock
        /\ UNCHANGED <<clock, active, stores, process, ledger>>
    BY <1>6, LoadGoes
  <2>2. RequestType'
    BY <2>1, RequestTypeStep, SessionAssumption DEF Places, LoadPlaces
  <2>3. StoreType'
    BY <2>1, StoreKept DEF stores
  <2>4. QED
    BY <2>1, <2>2, <2>3, LedgerKept DEF TypeOK
<1>7. CASE Surroundings
  BY <1>7, TypeSurroundings
<1>8. QED
  BY <1>1, <1>2, <1>3, <1>4, <1>5, <1>6, <1>7, NextIs
(***************************************************************************)
(* Checkpoints: a terminal resumes from the newest.                        *)
(***************************************************************************)
\* A save that stays where it was, records, or ends.
Later(s) ==
    \/ req'[s] = req[s]
    \/ /\ req[s].at \in {"record", "committing"} /\ req'[s].at \in {"record", "committing", "done"}
       /\ req'[s].time = req[s].time
    \/ req[s].at # "done" /\ req'[s].at = "refused"

\* What no save stores and no load reads.
LEMMA CheckpointKept ==
    ASSUME TypeOK, CheckpointInv, slips \subseteq slips', UNCHANGED backups,
           redis' \in {redis, Nothing}, kek' = kek \/ "rekeyed" \in slips',
           \A s \in Saves : Later(s),
           \A r \in Loads : req'[r] = req[r] \/ (req[r].at # "done" /\ req'[r].at = "refused")
    PROVE  CheckpointInv'
<1>1. /\ Storing' \subseteq Storing /\ \A s \in Storing' : req'[s] = req[s]
      /\ \A t \in Settled' : t \in Settled /\ req'[t].time = req[t].time
  BY DEF Storing, Settled, Later
<1>2. BackupsAreThere'
  <2>1. \A s \in Saves : req'[s].at = "idle" => req'[s].redis = "wait" /\ req'[s].gcs = "wait"
    BY DEF CheckpointInv, BackupsAreThere, Later
  <2>2. \A s \in Storing' : /\ req'[s].gcs = "ok" => req'[s].time \in DOMAIN backups'
                            /\ req'[s].gcs = "failed" => "gcs" \in slips'
                            /\ req'[s].redis = "failed" => "redis" \in slips'
    BY <1>1 DEF CheckpointInv, BackupsAreThere
  <2>3. \A s \in Settled' : req'[s].time \in DOMAIN backups' \/ "gcs" \in slips'
    BY <1>1 DEF CheckpointInv, BackupsAreThere
  <2>4. "rekeyed" \in slips' \/ \A t \in DOMAIN backups' : backups'[t] = kek'
    BY DEF CheckpointInv, BackupsAreThere
  <2>5. QED
    BY <2>1, <2>2, <2>3, <2>4 DEF BackupsAreThere
<1>3. RedisIsNewest'
  <2>1. CASE slips \cap {"redis", "overlap"} # {}
    BY <2>1 DEF RedisIsNewest
  <2>2. CASE slips \cap {"redis", "overlap"} = {}
    <3>1. /\ \A s, t \in Storing : s = t
          /\ \A s \in Storing, t \in Settled : req[t].time <= req[s].time
          /\ redis = Nothing \/ \A s \in Settled : req[s].time <= redis.time
          /\ \A s \in Storing : req[s].redis = "ok" => redis = Nothing \/ req[s].time <= redis.time
      BY <2>2 DEF CheckpointInv, RedisIsNewest
    <3>2. /\ \A s, t \in Storing' : s = t
          /\ \A s \in Storing', t \in Settled' : req'[t].time <= req'[s].time
      BY <1>1, <3>1
    <3>3. redis' = Nothing \/ \A s \in Settled' : req'[s].time <= redis'.time
      BY <1>1, <3>1
    <3>4. \A s \in Storing' : req'[s].redis = "ok" => redis' = Nothing \/ req'[s].time <= redis'.time
      BY <1>1, <3>1
    <3>5. Nothing' = Nothing
      BY DEF Nothing
    <3>6. QED
      BY <3>2, <3>3, <3>4, <3>5 DEF RedisIsNewest
  <2>3. QED
    BY <2>1, <2>2
<1>4. \A s \in Saves : req[s].at = "done" => req'[s] = req[s]
  BY DEF Later
<1>5. LoadsAsk'
  <2> SUFFICES ASSUME NEW r \in Loads
               PROVE  /\ req'[r].at \in {"idle", "gcs"} => req'[r].from = None
                      /\ req'[r].at \in {"gcs", "done"} =>
                            \/ req'[r].acked = 0
                            \/ \E s \in Saves : req'[s].at = "done" /\ req'[s].time = req'[r].acked
    BY DEF LoadsAsk
  <2>1. CASE req'[r] = req[r]
    BY <1>4, <2>1 DEF CheckpointInv, LoadsAsk
  <2>2. CASE req'[r].at = "refused"
    BY <2>2
  <2>3. QED
    BY <2>1, <2>2
<1>6. ResumesFromNewest'
  <2>1. \A r \in Loads : req'[r].at = "done" => req'[r] = req[r]
    OBVIOUS
  <2>2. QED
    BY <2>1 DEF CheckpointInv, ResumesFromNewest, At
<1>7. QED
  BY <1>2, <1>3, <1>5, <1>6 DEF CheckpointInv
\* The loads stand still while a save writes.
LEMMA LoadsKept ==
    ASSUME TypeOK, CheckpointInv, NEW r \in Saves, Others(r), slips \subseteq slips',
           req[r].at # "done"
    PROVE  LoadsAsk' /\ ResumesFromNewest'
<1>1. \A x \in Loads : x \in Requests /\ req'[x] = req[x]
  BY SessionAssumption DEF Others, Requests
<1>2. \A s \in Saves : req[s].at = "done" => req'[s] = req[s]
  BY DEF Others, Requests
<1>3. LoadsAsk'
  <2> SUFFICES ASSUME NEW x \in Loads
               PROVE  /\ req'[x].at \in {"idle", "gcs"} => req'[x].from = None
                      /\ req'[x].at \in {"gcs", "done"} =>
                            \/ req'[x].acked = 0
                            \/ \E s \in Saves : req'[s].at = "done" /\ req'[s].time = req'[x].acked
    BY DEF LoadsAsk
  <2>1. QED
    BY <1>1, <1>2 DEF CheckpointInv, LoadsAsk
<1>4. ResumesFromNewest'
  BY <1>1 DEF CheckpointInv, ResumesFromNewest, At
<1>5. QED
  BY <1>3, <1>4

\* A save that stays out of the stores.
LEMMA SaveEnds ==
    ASSUME TypeOK, CheckpointInv, NEW r \in Saves, OnlyMoves(r), slips \subseteq slips',
           UNCHANGED <<redis, backups, kek>>, Later(r)
    PROVE  CheckpointInv'
<1>1. \A s \in Saves : Later(s)
  BY DEF OnlyMoves, Others, Later, Requests
<1>2. \A x \in Loads : req'[x] = req[x]
  BY SessionAssumption DEF OnlyMoves, Others, Requests
<1>3. QED
  BY <1>1, <1>2, CheckpointKept

LEMMA CheckpointBegin ==
    ASSUME TypeOK, CheckpointInv, NEW r \in Saves, SaveBegin(r), OnlyMoves(r), req[r].at = "idle",
           req'[r].at \in {"storing", "refused"}, req'[r].time = clock,
           req'[r].redis = req[r].redis, req'[r].gcs = req[r].gcs
    PROVE  CheckpointInv'
<1>1. /\ UNCHANGED <<redis, backups, kek>> /\ slips \subseteq slips'
      /\ Storing # {} => "overlap" \in slips'
  BY DEF SaveBegin, stores, process, Storing, At
<1>2. CASE req'[r].at = "refused"
  BY <1>1, <1>2, SaveEnds DEF Later
<1>3. CASE req'[r].at = "storing"
  <2>1. \A s \in Saves : s \in Requests /\ (s # r => req'[s] = req[s])
    BY DEF OnlyMoves, Others, Requests
  <2>2. Storing' = Storing \cup {r} /\ Settled' = Settled /\ r \notin Storing /\ r \notin Settled
    BY <1>3, <2>1 DEF Storing, Settled
  <2>3. req[r].redis = "wait" /\ req[r].gcs = "wait"
    BY DEF CheckpointInv, BackupsAreThere
  <2>4. \A s \in Storing : s # r /\ req'[s] = req[s]
    BY <2>1, <2>2 DEF Storing
  <2>5. \A s \in Settled : s # r /\ req'[s] = req[s]
    BY <2>1, <2>2 DEF Settled
  <2>6. BackupsAreThere'
    <3>1. \A s \in Saves : req'[s].at = "idle" => req'[s].redis = "wait" /\ req'[s].gcs = "wait"
      BY <1>3, <2>1 DEF CheckpointInv, BackupsAreThere
    <3>2. \A s \in Storing' : /\ req'[s].gcs = "ok" => req'[s].time \in DOMAIN backups'
                              /\ req'[s].gcs = "failed" => "gcs" \in slips'
                              /\ req'[s].redis = "failed" => "redis" \in slips'
      BY <1>1, <2>2, <2>3, <2>4 DEF CheckpointInv, BackupsAreThere
    <3>3. \A s \in Settled' : req'[s].time \in DOMAIN backups' \/ "gcs" \in slips'
      BY <1>1, <2>2, <2>5 DEF CheckpointInv, BackupsAreThere
    <3>4. "rekeyed" \in slips' \/ \A t \in DOMAIN backups' : backups'[t] = kek'
      BY <1>1 DEF CheckpointInv, BackupsAreThere
    <3>5. QED
      BY <3>1, <3>2, <3>3, <3>4 DEF BackupsAreThere
  <2>7. RedisIsNewest'
    <3>1. CASE slips \cap {"redis", "overlap"} # {} \/ Storing # {}
      BY <1>1, <3>1 DEF RedisIsNewest
    <3>2. CASE slips \cap {"redis", "overlap"} = {} /\ Storing = {}
      <4>1. \A t \in Settled : req[t].time <= clock
        BY DEF Settled, TypeOK, RequestType, Requests
      <4>2. redis = Nothing \/ \A s \in Settled : req[s].time <= redis.time
        BY <3>2 DEF CheckpointInv, RedisIsNewest
      <4>3. Storing' = {r} /\ Settled' = Settled
        BY <2>2, <3>2
      <4>4. \A t \in Settled' : req'[t].time <= req'[r].time
        BY <2>2, <2>5, <4>1
      <4>5. redis' = Nothing' \/ \A s \in Settled' : req'[s].time <= redis'.time
        BY <1>1, <2>2, <2>5, <4>2 DEF Nothing
      <4>6. req'[r].redis # "ok"
        BY <2>3
      <4>7. QED
        BY <4>3, <4>4, <4>5, <4>6 DEF RedisIsNewest
    <3>3. QED
      BY <3>1, <3>2
  <2>8. QED
    BY <1>1, <2>6, <2>7, LoadsKept DEF CheckpointInv, OnlyMoves
<1>4. QED
  BY <1>2, <1>3
LEMMA CheckpointToRedis ==
    ASSUME TypeOK, CheckpointInv, NEW r \in Saves, SaveToRedis(r), OnlyMoves(r),
           req[r].at = "storing", req'[r].at = "storing", req'[r].time = req[r].time,
           req'[r].gcs = req[r].gcs, slips \subseteq slips'
    PROVE  CheckpointInv'
<1>1. /\ UNCHANGED <<backups, kek>>
      /\ \/ redis' = [time |-> req[r].time, key |-> kek] /\ req'[r].redis = "ok"
         \/ redis' = redis /\ req'[r].redis = "failed" /\ "redis" \in slips'
  BY DEF SaveToRedis, process, Sealed, Goes, Slip, TypeOK, RequestType, Request, Requests
<1>2. \A s \in Saves : s \in Requests /\ (s # r => req'[s] = req[s])
  BY DEF OnlyMoves, Others, Requests
<1>3. Storing' = Storing /\ Settled' = Settled /\ r \in Storing
  BY <1>2 DEF Storing, Settled
<1>4. \A s \in Settled : s # r /\ req'[s] = req[s]
  BY <1>2 DEF Settled
<1>5. BackupsAreThere'
  <2>1. \A s \in Saves : req'[s].at = "idle" => req'[s].redis = "wait" /\ req'[s].gcs = "wait"
    BY <1>2 DEF CheckpointInv, BackupsAreThere
  <2>2. \A s \in Storing' : /\ req'[s].gcs = "ok" => req'[s].time \in DOMAIN backups'
                            /\ req'[s].gcs = "failed" => "gcs" \in slips'
                            /\ req'[s].redis = "failed" => "redis" \in slips'
    <3> SUFFICES ASSUME NEW s \in Storing
                 PROVE  /\ req'[s].gcs = "ok" => req'[s].time \in DOMAIN backups'
                        /\ req'[s].gcs = "failed" => "gcs" \in slips'
                        /\ req'[s].redis = "failed" => "redis" \in slips'
      BY <1>3
    <3>1. /\ req[s].gcs = "ok" => req[s].time \in DOMAIN backups
          /\ req[s].gcs = "failed" => "gcs" \in slips
          /\ req[s].redis = "failed" => "redis" \in slips
      BY DEF CheckpointInv, BackupsAreThere
    <3>2. CASE s = r
      BY <1>1, <3>1, <3>2
    <3>3. CASE s # r
      BY <1>1, <1>2, <3>1, <3>3 DEF Storing
    <3>4. QED
      BY <3>2, <3>3
  <2>3. \A s \in Settled' : req'[s].time \in DOMAIN backups' \/ "gcs" \in slips'
    BY <1>1, <1>3, <1>4 DEF CheckpointInv, BackupsAreThere
  <2>4. "rekeyed" \in slips' \/ \A t \in DOMAIN backups' : backups'[t] = kek'
    BY <1>1 DEF CheckpointInv, BackupsAreThere
  <2>5. QED
    BY <2>1, <2>2, <2>3, <2>4 DEF BackupsAreThere
<1>6. RedisIsNewest'
  <2>1. CASE slips' \cap {"redis", "overlap"} # {}
    BY <2>1 DEF RedisIsNewest
  <2>2. CASE slips' \cap {"redis", "overlap"} = {}
    <3>1. /\ \A s, t \in Storing : s = t
          /\ \A s \in Storing, t \in Settled : req[t].time <= req[s].time
      BY <2>2 DEF CheckpointInv, RedisIsNewest
    <3>2. redis'.time = req[r].time /\ req[r].time <= req[r].time
      BY <1>1, <1>2, <2>2 DEF TypeOK, RequestType, Request
    <3>3. Storing' = {r}
      BY <1>3, <3>1
    <3>4. \A t \in Settled' : req'[t].time <= req'[r].time /\ req'[t].time <= redis'.time
      BY <1>3, <1>4, <3>1, <3>2
    <3>5. QED
      BY <3>2, <3>3, <3>4 DEF RedisIsNewest
  <2>3. QED
    BY <2>1, <2>2
<1>7. QED
  BY <1>5, <1>6, LoadsKept DEF CheckpointInv, OnlyMoves

LEMMA CheckpointToGcs ==
    ASSUME TypeOK, CheckpointInv, NEW r \in Saves, SaveToGcs(r), OnlyMoves(r),
           req[r].at = "storing", req'[r].at = "storing", req'[r].time = req[r].time,
           req'[r].redis = req[r].redis, slips \subseteq slips'
    PROVE  CheckpointInv'
<1>1. /\ UNCHANGED <<redis, kek>>
      /\ \/ /\ backups' = [t \in DOMAIN backups \cup {req[r].time} |->
                             IF t = req[r].time THEN kek ELSE backups[t]]
            /\ req'[r].gcs = "ok"
         \/ backups' = backups /\ req'[r].gcs = "failed" /\ "gcs" \in slips'
  BY DEF SaveToGcs, process, Goes, Slip, TypeOK, RequestType, Request, Requests
<1>2. \A s \in Saves : s \in Requests /\ (s # r => req'[s] = req[s])
  BY DEF OnlyMoves, Others, Requests
<1>3. Storing' = Storing /\ Settled' = Settled /\ r \in Storing
  BY <1>2 DEF Storing, Settled
<1>4. \A s \in Settled : s # r /\ req'[s] = req[s]
  BY <1>2 DEF Settled
<1>5. DOMAIN backups \subseteq DOMAIN backups'
      /\ (req'[r].gcs = "ok" => req[r].time \in DOMAIN backups')
  BY <1>1
<1>6. BackupsAreThere'
  <2>1. \A s \in Saves : req'[s].at = "idle" => req'[s].redis = "wait" /\ req'[s].gcs = "wait"
    BY <1>2 DEF CheckpointInv, BackupsAreThere
  <2>2. \A s \in Storing' : /\ req'[s].gcs = "ok" => req'[s].time \in DOMAIN backups'
                            /\ req'[s].gcs = "failed" => "gcs" \in slips'
                            /\ req'[s].redis = "failed" => "redis" \in slips'
    <3> SUFFICES ASSUME NEW s \in Storing
                 PROVE  /\ req'[s].gcs = "ok" => req'[s].time \in DOMAIN backups'
                        /\ req'[s].gcs = "failed" => "gcs" \in slips'
                        /\ req'[s].redis = "failed" => "redis" \in slips'
      BY <1>3
    <3>1. /\ req[s].gcs = "ok" => req[s].time \in DOMAIN backups
          /\ req[s].gcs = "failed" => "gcs" \in slips
          /\ req[s].redis = "failed" => "redis" \in slips
      BY DEF CheckpointInv, BackupsAreThere
    <3>2. CASE s = r
      BY <1>1, <1>5, <3>1, <3>2
    <3>3. CASE s # r
      BY <1>2, <1>5, <3>1, <3>3 DEF Storing
    <3>4. QED
      BY <3>2, <3>3
  <2>3. \A s \in Settled' : req'[s].time \in DOMAIN backups' \/ "gcs" \in slips'
    BY <1>3, <1>4, <1>5 DEF CheckpointInv, BackupsAreThere
  <2>4. "rekeyed" \in slips' \/ \A t \in DOMAIN backups' : backups'[t] = kek'
    BY <1>1 DEF CheckpointInv, BackupsAreThere
  <2>5. QED
    BY <2>1, <2>2, <2>3, <2>4 DEF BackupsAreThere
<1>7. RedisIsNewest'
  <2>1. CASE slips' \cap {"redis", "overlap"} # {}
    BY <2>1 DEF RedisIsNewest
  <2>2. CASE slips' \cap {"redis", "overlap"} = {}
    <3>1. /\ \A s, t \in Storing : s = t
          /\ \A s \in Storing, t \in Settled : req[t].time <= req[s].time
          /\ redis = Nothing \/ \A s \in Settled : req[s].time <= redis.time
          /\ \A s \in Storing : req[s].redis = "ok" => redis = Nothing \/ req[s].time <= redis.time
      BY <2>2 DEF CheckpointInv, RedisIsNewest
    <3>2. \A s \in Storing : req'[s].time = req[s].time /\ req'[s].redis = req[s].redis
      BY <1>2 DEF Storing
    <3>3. QED
      BY <1>1, <1>3, <1>4, <3>1, <3>2 DEF RedisIsNewest, Nothing
  <2>3. QED
    BY <2>1, <2>2
<1>8. QED
  BY <1>6, <1>7, LoadsKept DEF CheckpointInv, OnlyMoves
LEMMA CheckpointSettles ==
    ASSUME TypeOK, CheckpointInv, NEW r \in Saves, SaveSettles(r), OnlyMoves(r), Same(r),
           req[r].at = "storing", req'[r].at \in {"record", "done", "refused"}, slips \subseteq slips'
    PROVE  CheckpointInv'
<1>1. UNCHANGED <<redis, backups, kek>>
  BY DEF SaveSettles, stores
<1>2. CASE req'[r].at = "refused"
  BY <1>1, <1>2, SaveEnds DEF Later
<1>3. CASE req'[r].at # "refused"
  <2>1. \A s \in Saves : s \in Requests /\ (s # r => req'[s] = req[s])
    BY DEF OnlyMoves, Others, Requests
  <2>2. Storing' = Storing \ {r} /\ Settled' = Settled \cup {r} /\ r \in Storing
    BY <1>3, <2>1 DEF Storing, Settled
  <2>3. /\ \A s \in Storing' : s # r /\ req'[s] = req[s]
        /\ \A s \in Settled : s # r /\ req'[s] = req[s]
    BY <2>1 DEF Storing, Settled
  <2>4. /\ req'[r].time = req[r].time /\ req[r].redis \in {"ok", "failed"}
        /\ req[r].gcs \in {"ok", "failed"}
    <3>1. r \in Requests /\ req[r].redis \in Written /\ req[r].gcs \in Written
      BY DEF Requests, TypeOK, RequestType, Request
    <3>2. QED
      BY <3>1 DEF SaveSettles, Same, Written
  <2>5. /\ req[r].gcs = "ok" => req[r].time \in DOMAIN backups
        /\ req[r].gcs = "failed" => "gcs" \in slips
        /\ req[r].redis = "failed" => "redis" \in slips
    BY <2>2 DEF CheckpointInv, BackupsAreThere
  <2>6. BackupsAreThere'
    <3>1. \A s \in Saves : req'[s].at = "idle" => req'[s].redis = "wait" /\ req'[s].gcs = "wait"
      BY <2>1 DEF CheckpointInv, BackupsAreThere
    <3>2. \A s \in Storing' : /\ req'[s].gcs = "ok" => req'[s].time \in DOMAIN backups'
                              /\ req'[s].gcs = "failed" => "gcs" \in slips'
                              /\ req'[s].redis = "failed" => "redis" \in slips'
      BY <1>1, <2>2, <2>3 DEF CheckpointInv, BackupsAreThere
    <3>3. \A s \in Settled' : req'[s].time \in DOMAIN backups' \/ "gcs" \in slips'
      BY <1>1, <2>2, <2>3, <2>4, <2>5 DEF CheckpointInv, BackupsAreThere
    <3>4. "rekeyed" \in slips' \/ \A t \in DOMAIN backups' : backups'[t] = kek'
      BY <1>1 DEF CheckpointInv, BackupsAreThere
    <3>5. QED
      BY <3>1, <3>2, <3>3, <3>4 DEF BackupsAreThere
  <2>7. RedisIsNewest'
    <3>1. CASE slips' \cap {"redis", "overlap"} # {}
      BY <3>1 DEF RedisIsNewest
    <3>2. CASE slips' \cap {"redis", "overlap"} = {}
      <4>1. /\ \A s, t \in Storing : s = t
            /\ redis = Nothing \/ \A s \in Settled : req[s].time <= redis.time
            /\ \A s \in Storing : req[s].redis = "ok" => redis = Nothing \/ req[s].time <= redis.time
        BY <3>2 DEF CheckpointInv, RedisIsNewest
      <4>2. Storing' = {}
        BY <2>2, <4>1
      <4>3. req[r].redis = "ok"
        BY <2>4, <2>5, <3>2
      <4>4. redis = Nothing \/ req[r].time <= redis.time
        BY <2>2, <4>1, <4>3
      <4>5. redis' = Nothing' \/ \A s \in Settled' : req'[s].time <= redis'.time
        BY <1>1, <2>2, <2>3, <2>4, <4>1, <4>4 DEF Nothing
      <4>6. QED
        BY <4>2, <4>5 DEF RedisIsNewest
    <3>3. QED
      BY <3>1, <3>2
  <2>8. QED
    BY <2>6, <2>7, LoadsKept DEF CheckpointInv, OnlyMoves
<1>4. QED
  BY <1>2, <1>3

\* A load is answered with a checkpoint as new as it asks for.
LEMMA CheckpointLoad ==
    ASSUME TypeOK, CheckpointInv, NEW r \in Requests, LoadStep(r)
    PROVE  CheckpointInv'
<1>1. /\ OnlyMoves(r) /\ r \in Loads
      /\ UNCHANGED <<clock, redis, backups, kek>> /\ slips \subseteq slips'
      /\ \/ RedisAnswers(r) \/ AsksBucket(r) \/ BucketAnswers(r) \/ BucketFails(r)
         \/ LoadIsRefused(r)
  BY LoadGoes DEF stores, process
<1>2. /\ \A s \in Saves : s \in Requests /\ req'[s] = req[s]
      /\ \A x \in Loads : x # r => req'[x] = req[x]
  BY <1>1, SessionAssumption DEF OnlyMoves, Others, Requests
<1>3. Storing' = Storing /\ Settled' = Settled /\ Nothing' = Nothing
  BY <1>2 DEF Storing, Settled, Nothing
<1>4. BackupsAreThere'
  <2>1. \A s \in Saves : req'[s].at = "idle" => req'[s].redis = "wait" /\ req'[s].gcs = "wait"
    BY <1>2 DEF CheckpointInv, BackupsAreThere
  <2>2. \A s \in Storing' : /\ req'[s].gcs = "ok" => req'[s].time \in DOMAIN backups'
                            /\ req'[s].gcs = "failed" => "gcs" \in slips'
                            /\ req'[s].redis = "failed" => "redis" \in slips'
    BY <1>1, <1>2, <1>3 DEF CheckpointInv, BackupsAreThere, Storing
  <2>3. \A s \in Settled' : req'[s].time \in DOMAIN backups' \/ "gcs" \in slips'
    BY <1>1, <1>2, <1>3 DEF CheckpointInv, BackupsAreThere, Settled
  <2>4. "rekeyed" \in slips' \/ \A t \in DOMAIN backups' : backups'[t] = kek'
    BY <1>1 DEF CheckpointInv, BackupsAreThere
  <2>5. QED
    BY <2>1, <2>2, <2>3, <2>4 DEF BackupsAreThere
<1>5. RedisIsNewest'
  <2>1. /\ \A s \in Storing : req'[s] = req[s]
        /\ \A s \in Settled : req'[s] = req[s]
    BY <1>2 DEF Storing, Settled
  <2>2. QED
    BY <1>1, <1>3, <2>1 DEF CheckpointInv, RedisIsNewest
<1>6. /\ req[r].at \in {"idle", "gcs"} => req[r].from = None
      /\ req[r].at \in {"gcs", "done"} =>
            req[r].acked = 0 \/ \E s \in Saves : req[s].at = "done" /\ req[s].time = req[r].acked
  BY <1>1 DEF CheckpointInv, LoadsAsk
<1>7. /\ req'[r].at = "gcs" => req'[r].from = None
      /\ req'[r].at # "idle"
      /\ req'[r].at \in {"gcs", "done"} =>
            req'[r].acked = 0 \/ \E s \in Saves : req[s].at = "done" /\ req[s].time = req'[r].acked
  BY <1>1, <1>6, AcknowledgedIs
  DEF RedisAnswers, AsksBucket, BucketAnswers, BucketFails, LoadIsRefused, Same
<1>8. LoadsAsk'
  <2> SUFFICES ASSUME NEW x \in Loads
               PROVE  /\ req'[x].at \in {"idle", "gcs"} => req'[x].from = None
                      /\ req'[x].at \in {"gcs", "done"} =>
                            \/ req'[x].acked = 0
                            \/ \E s \in Saves : req'[s].at = "done" /\ req'[s].time = req'[x].acked
    BY DEF LoadsAsk
  <2>1. CASE x = r
    BY <1>2, <1>7, <2>1
  <2>2. CASE x # r
    BY <1>2, <2>2 DEF CheckpointInv, LoadsAsk
  <2>3. QED
    BY <2>1, <2>2
<1>9. ASSUME req'[r].at = "done"
      PROVE  \/ req'[r].time >= req'[r].acked
             \/ req'[r].from = "redis" /\ slips' \cap {"redis", "overlap"} # {}
             \/ req'[r].from = "gcs" /\ "gcs" \in slips'
             \/ req'[r].from = None /\ slips' \cap {"gcs read", "rekeyed"} # {}
  <2>1. /\ req[r].acked \in Nat /\ redis.time \in Nat /\ clock \in Nat
        /\ DOMAIN backups \in SUBSET (0..clock)
        /\ \A s \in Saves : req[s].time \in Nat
    BY <1>2 DEF TypeOK, RequestType, StoreType, Request
  <2>2. CASE RedisAnswers(r)
    <3>1. redis # Nothing
      <4>1. redis.key \in Kek
        BY <2>2 DEF RedisAnswers, TypeOK, StoreType
      <4>2. None \notin Kek
        BY SessionAssumption DEF Kek
      <4>3. QED
        BY <4>1, <4>2 DEF Nothing
    <3>2. CASE slips \cap {"redis", "overlap"} # {}
      BY <1>1, <2>2, <3>2 DEF RedisAnswers
    <3>3. CASE slips \cap {"redis", "overlap"} = {}
      <4>1. \A s \in Settled : req[s].time <= redis.time
        BY <3>1, <3>3 DEF CheckpointInv, RedisIsNewest
      <4>2. \A s \in Saves : req[s].at = "done" => s \in Settled
        BY DEF Settled
      <4>3. Newest(Acknowledged) <= redis.time
        BY <2>1, <4>1, <4>2, AcknowledgedIs
      <4>4. Newest(Acknowledged) \in Nat
        BY <2>1, AcknowledgedIs
      <4>5. QED
        BY <2>1, <2>2, <4>3, <4>4 DEF RedisAnswers
    <3>4. QED
      BY <3>2, <3>3
  <2>3. CASE BucketAnswers(r)
    <3>1. CASE "gcs" \in slips
      BY <1>1, <2>3, <3>1 DEF BucketAnswers
    <3>2. CASE "gcs" \notin slips
      <4>1. \A s \in Saves : req[s].at = "done" => req[s].time \in DOMAIN backups
        BY <3>2 DEF CheckpointInv, BackupsAreThere, Settled
      <4>2. /\ Newest(DOMAIN backups) \in 0..clock
            /\ \A t \in DOMAIN backups : t <= Newest(DOMAIN backups)
        BY <2>1, NewestIs
      <4>3. req[r].acked = 0 \/ req[r].acked \in DOMAIN backups
        BY <1>6, <2>3, <4>1 DEF BucketAnswers
      <4>4. req[r].acked <= Newest(DOMAIN backups)
        BY <2>1, <4>2, <4>3
      <4>5. QED
        BY <2>1, <2>3, <4>2, <4>4 DEF BucketAnswers
    <3>3. QED
      BY <3>1, <3>2
  <2>4. CASE BucketFails(r)
    <3>1. req'[r].from = None
      BY <1>6, <2>4 DEF BucketFails, Same
    <3>2. Newest(DOMAIN backups) = 0 \/ Newest(DOMAIN backups) \in DOMAIN backups
      BY <2>1, NewestIs
    <3>3. "gcs read" \in slips' \/ "rekeyed" \in slips
      BY <2>4, <3>2 DEF BucketFails, CheckpointInv, BackupsAreThere
    <3>4. QED
      BY <1>1, <3>1, <3>3
  <2>5. QED
    BY <1>1, <1>9, <2>2, <2>3, <2>4 DEF AsksBucket, LoadIsRefused
<1>10. ResumesFromNewest'
  <2> SUFFICES ASSUME NEW x \in Loads, req'[x].at = "done"
               PROVE  \/ req'[x].time >= req'[x].acked
                      \/ req'[x].from = "redis" /\ slips' \cap {"redis", "overlap"} # {}
                      \/ req'[x].from = "gcs" /\ "gcs" \in slips'
                      \/ req'[x].from = None /\ slips' \cap {"gcs read", "rekeyed"} # {}
    BY DEF ResumesFromNewest, At
  <2>1. CASE x = r
    BY <1>9, <2>1
  <2>2. CASE x # r
    BY <1>1, <1>2, <2>2 DEF CheckpointInv, ResumesFromNewest, At
  <2>3. QED
    BY <2>1, <2>2
<1>11. QED
  BY <1>4, <1>5, <1>8, <1>10 DEF CheckpointInv
LEMMA CheckpointStep == TypeOK /\ CheckpointInv /\ [Next]_vars => CheckpointInv'
<1> SUFFICES ASSUME TypeOK, CheckpointInv, [Next]_vars PROVE CheckpointInv'
  OBVIOUS
<1>1. CASE UNCHANGED vars
  <2>1. UNCHANGED <<redis, backups, kek, slips, req>>
    BY <1>1 DEF vars, stores, process
  <2>2. QED
    BY <2>1, CheckpointKept DEF Later
<1>2. ASSUME NEW r \in Requests, OnlyMoves(r), r \notin Loads, slips \subseteq slips',
             r \in Saves => Later(r), UNCHANGED <<redis, backups, kek>>
      PROVE  CheckpointInv'
  <2>1. \A s \in Saves : Later(s)
    BY <1>2 DEF OnlyMoves, Others, Later, Requests
  <2>2. \A x \in Loads : req'[x] = req[x]
    BY <1>2 DEF OnlyMoves, Others, Requests
  <2>3. QED
    BY <1>2, <2>1, <2>2, CheckpointKept
<1>3. ASSUME NEW r \in Requests, RecordStep(r) PROVE CheckpointInv'
  <2>1. /\ OnlyMoves(r) /\ Same(r) /\ r \notin Loads /\ req[r].at \in {"record", "committing"}
        /\ req'[r].at \in {"committing", "done"} \/ (r \in Submits /\ req'[r].at = "index")
        /\ UNCHANGED <<redis, backups, kek>> /\ slips \subseteq slips'
    BY <1>3, RecordGoes DEF stores, process
  <2>2. r \in Saves => Later(r)
    BY <2>1, SessionAssumption DEF Later, Same
  <2>3. QED
    BY <1>2, <2>1, <2>2
<1>4. ASSUME NEW r \in Requests, StartStep(r) PROVE CheckpointInv'
  <2>1. OnlyMoves(r) /\ r \in Starts /\ UNCHANGED <<redis, backups, kek, slips>>
    BY <1>4, StartGoes DEF process
  <2>2. QED
    BY <1>2, <2>1, SessionAssumption
<1>5. ASSUME NEW r \in Requests, SubmitStep(r) PROVE CheckpointInv'
  <2>1. OnlyMoves(r) /\ r \in Submits /\ UNCHANGED <<redis, backups, kek>> /\ slips \subseteq slips'
    BY <1>5, SubmitGoes DEF process
  <2>2. QED
    BY <1>2, <2>1, SessionAssumption
<1>6. ASSUME NEW r \in Requests, SaveStep(r) PROVE CheckpointInv'
  BY <1>6, SaveGoes, CheckpointBegin, CheckpointToRedis, CheckpointToGcs, CheckpointSettles
<1>7. ASSUME NEW r \in Requests, LoadStep(r) PROVE CheckpointInv'
  BY <1>7, CheckpointLoad
<1>8. CASE Surroundings
  <2>1. /\ \A x \in Requests : req'[x] = req[x] \/ GivenUp(x)
        /\ slips \subseteq slips' /\ UNCHANGED backups /\ redis' \in {redis, Nothing}
        /\ kek' = kek \/ "rekeyed" \in slips'
    BY <1>8, SurroundingsGo
  <2>2. \A x \in Requests : GivenUp(x) => req[x].at # "done" /\ req'[x].at = "refused"
    BY DEF GivenUp, Underway
  <2>3. \A s \in Saves : Later(s)
    BY <2>1, <2>2 DEF Later, Requests
  <2>4. \A x \in Loads : req'[x] = req[x] \/ (req[x].at # "done" /\ req'[x].at = "refused")
    BY <2>1, <2>2 DEF Requests
  <2>5. QED
    BY <2>1, <2>3, <2>4, CheckpointKept
<1>9. QED
  BY <1>1, <1>3, <1>4, <1>5, <1>6, <1>7, <1>8, NextIs

(***************************************************************************)
(* Submissions: a receipt keeps its answers.                               *)
(***************************************************************************)
\* A submission that goes on from the bucket, or ends.
Further(r) ==
    /\ req'[r].time = req[r].time /\ req'[r].sheet = req[r].sheet
    /\ \/ req'[r].at = req[r].at
       \/ req[r].at # "idle" /\ req'[r].at = "refused"
       \/ req[r].at \in Stored /\ req'[r].at \in Stored

LEMMA ReceiptKept ==
    ASSUME TypeOK, ReceiptInv, UNCHANGED blobs, \A r \in Submits : Further(r),
           doc'.responses = doc.responses
    PROVE  ReceiptInv'
<1>1. \A r \in Submits : req'[r].at = "idle" => req'[r].time = 0
  BY DEF ReceiptInv, Further, Stored
<1>2. \A r \in Submits : req'[r].at \in Stored \cup {"blob"} => req'[r].time # 0
  BY DEF ReceiptInv, Further, Stored
<1>3. ASSUME NEW r \in Submits, req'[r].at \in Stored PROVE HasObject(r)'
  <2>1. HasObject(r)
    BY <1>3 DEF ReceiptInv, Further, Stored
  <2>2. \A x \in Submits : req'[x].time = req[x].time /\ req'[x].sheet = req[x].sheet
    BY DEF Further
  <2>3. QED
    BY <2>1, <2>2 DEF HasObject
<1>4. doc'.responses # None => doc'.responses.time \in DOMAIN blobs'
  BY DEF ReceiptInv
<1>5. QED
  BY <1>1, <1>2, <1>3, <1>4 DEF ReceiptInv

LEMMA ReceiptBegin ==
    ASSUME TypeOK, ReceiptInv, NEW r \in Submits, SubmitBegin(r), OnlyMoves(r), req[r].at = "idle",
           req'[r].at \in {"blob", "refused"}, req'[r].time = clock
    PROVE  ReceiptInv'
<1>1. UNCHANGED <<blobs, doc>> /\ clock # 0
  BY DEF SubmitBegin, stores, TypeOK, RequestType
<1>2. \A x \in Submits : x # r => req'[x] = req[x]
  BY DEF OnlyMoves, Others, Requests
<1>3. req[r].time = 0
  BY DEF ReceiptInv
<1>4. ASSUME NEW x \in Submits, req'[x].at \in Stored PROVE HasObject(x)'
  <2>1. x # r /\ req'[x] = req[x]
    BY <1>2, <1>4 DEF Stored
  <2>2. HasObject(x) /\ req[x].time # 0
    BY <1>4, <2>1 DEF ReceiptInv
  <2>3. CASE blobs[req[x].time] = req[x].sheet
    BY <1>1, <2>1, <2>2, <2>3 DEF HasObject
  <2>4. CASE blobs[req[x].time] # req[x].sheet
    <3>1. PICK other \in Submits \ {x} : req[other].time = req[x].time
      BY <2>2, <2>4 DEF HasObject
    <3>2. req'[other].time = req'[x].time
      BY <1>2, <1>3, <2>1, <2>2, <3>1
    <3>3. QED
      BY <1>1, <2>1, <2>2, <3>1, <3>2 DEF HasObject
  <2>5. QED
    BY <2>3, <2>4
<1>5. QED
  BY <1>1, <1>2, <1>4 DEF ReceiptInv, Stored

LEMMA ReceiptBlob ==
    ASSUME TypeOK, ReceiptInv, NEW r \in Submits, SubmitBlob(r), OnlyMoves(r), Same(r),
           req[r].at = "blob", req'[r].at = "doc"
    PROVE  ReceiptInv'
<1>1. /\ blobs' = [t \in DOMAIN blobs \cup {req[r].time} |->
                     IF t = req[r].time THEN req[r].sheet ELSE blobs[t]]
      /\ doc' = doc
  BY DEF SubmitBlob
<1>2. /\ \A x \in Submits : x # r => req'[x] = req[x]
      /\ \A x \in Submits : req'[x].time = req[x].time /\ req'[x].sheet = req[x].sheet
  BY DEF OnlyMoves, Others, Requests, Same
<1>3. /\ DOMAIN blobs' = DOMAIN blobs \cup {req[r].time} /\ blobs'[req[r].time] = req[r].sheet
      /\ \A t \in DOMAIN blobs : t # req[r].time => blobs'[t] = blobs[t]
  BY <1>1
<1>4. ASSUME NEW x \in Submits, req'[x].at \in Stored PROVE HasObject(x)'
  <2>1. CASE x = r
    BY <1>2, <1>3, <2>1 DEF HasObject
  <2>2. CASE x # r /\ req[x].time = req[r].time
    BY <1>2, <1>3, <2>2 DEF HasObject
  <2>3. CASE x # r /\ req[x].time # req[r].time
    <3>1. HasObject(x)
      BY <1>2, <1>4, <2>3 DEF ReceiptInv
    <3>2. QED
      BY <1>2, <1>3, <2>3, <3>1 DEF HasObject
  <2>4. QED
    BY <2>1, <2>2, <2>3
<1>5. \A x \in Submits : req'[x].at = "idle" => req'[x].time = 0
  BY <1>2 DEF ReceiptInv
<1>6. \A x \in Submits : req'[x].at \in Stored \cup {"blob"} => req'[x].time # 0
  BY <1>2 DEF ReceiptInv, Stored
<1>7. doc'.responses # None => doc'.responses.time \in DOMAIN blobs'
  BY <1>1, <1>3 DEF ReceiptInv
<1>8. QED
  BY <1>4, <1>5, <1>6, <1>7 DEF ReceiptInv

LEMMA ReceiptDoc ==
    ASSUME TypeOK, ReceiptInv, NEW r \in Submits, SubmitDoc(r), OnlyMoves(r), Same(r),
           req[r].at = "doc", req'[r].at = "record"
    PROVE  ReceiptInv'
<1>1. UNCHANGED blobs /\ doc' = [doc EXCEPT !.responses = SubmissionHash(r)]
  BY DEF SubmitDoc
<1>2. /\ \A x \in Submits : x # r => req'[x] = req[x]
      /\ \A x \in Submits : req'[x].time = req[x].time /\ req'[x].sheet = req[x].sheet
  BY DEF OnlyMoves, Others, Requests, Same
<1>3. ASSUME NEW x \in Submits, req'[x].at \in Stored PROVE HasObject(x)'
  <2>1. HasObject(x)
    BY <1>2, <1>3 DEF ReceiptInv, Stored
  <2>2. QED
    BY <1>1, <1>2, <2>1 DEF HasObject
<1>4. doc'.responses \in {SubmissionHash(r), doc.responses}
  BY <1>1
<1>5. SubmissionHash(r).time \in DOMAIN blobs
  BY DEF SubmissionHash, ReceiptInv, HasObject, Stored
<1>6. doc'.responses # None => doc'.responses.time \in DOMAIN blobs'
  BY <1>1, <1>4, <1>5 DEF ReceiptInv
<1>7. \A x \in Submits : req'[x].at = "idle" => req'[x].time = 0
  BY <1>2 DEF ReceiptInv
<1>8. \A x \in Submits : req'[x].at \in Stored \cup {"blob"} => req'[x].time # 0
  BY <1>2 DEF ReceiptInv, Stored
<1>9. QED
  BY <1>3, <1>6, <1>7, <1>8 DEF ReceiptInv

LEMMA ReceiptStep == TypeOK /\ ReceiptInv /\ [Next]_vars => ReceiptInv'
<1> SUFFICES ASSUME TypeOK, ReceiptInv, [Next]_vars PROVE ReceiptInv'
  OBVIOUS
<1>1. CASE UNCHANGED vars
  BY <1>1, ReceiptKept DEF Further, vars, stores
<1>2. ASSUME NEW r \in Requests, OnlyMoves(r), r \in Submits => Further(r),
             UNCHANGED blobs, doc'.responses = doc.responses
      PROVE  ReceiptInv'
  <2>1. \A x \in Submits : Further(x)
    BY <1>2 DEF OnlyMoves, Others, Further, Requests
  <2>2. QED
    BY <1>2, <2>1, ReceiptKept
<1>3. ASSUME NEW r \in Requests, RecordStep(r) PROVE ReceiptInv'
  <2>1. /\ OnlyMoves(r) /\ Same(r) /\ r \notin Loads /\ req[r].at \in {"record", "committing"}
        /\ req'[r].at \in {"committing", "done"} \/ (r \in Submits /\ req'[r].at = "index")
        /\ UNCHANGED <<blobs, doc>>
    BY <1>3, RecordGoes DEF stores
  <2>2. Further(r)
    BY <2>1 DEF Further, Same, Stored
  <2>3. QED
    BY <1>2, <2>1, <2>2
<1>4. ASSUME NEW r \in Requests, StartStep(r) PROVE ReceiptInv'
  <2>1. OnlyMoves(r) /\ r \in Starts /\ UNCHANGED blobs /\ doc'.responses = doc.responses
    BY <1>4, StartGoes
  <2>2. QED
    BY <1>2, <2>1, SessionAssumption
<1>5. ASSUME NEW r \in Requests, SubmitStep(r) PROVE ReceiptInv'
  <2>1. /\ OnlyMoves(r) /\ r \in Submits /\ (req[r].at # "idle" => Same(r))
        /\ \/ SubmitBegin(r) /\ req'[r].at \in {"blob", "refused"} /\ req'[r].time = clock
           \/ SubmitBlob(r) /\ req[r].at = "blob" /\ req'[r].at = "doc"
           \/ SubmitDoc(r) /\ req[r].at = "doc" /\ req'[r].at = "record"
           \/ SubmitRefused(r) /\ req[r].at \in {"blob", "doc"} /\ req'[r].at = "refused"
           \/ SubmitIndex(r) /\ req[r].at = "index" /\ req'[r].at = "done"
    BY <1>5, SubmitGoes
  <2>2. CASE SubmitBegin(r) /\ req'[r].at \in {"blob", "refused"} /\ req'[r].time = clock
    <3>1. req[r].at = "idle"
      BY <2>2 DEF SubmitBegin, At
    <3>2. QED
      BY <2>1, <2>2, <3>1, ReceiptBegin
  <2>3. CASE SubmitBlob(r) /\ req[r].at = "blob" /\ req'[r].at = "doc"
    BY <2>1, <2>3, ReceiptBlob
  <2>4. CASE SubmitDoc(r) /\ req[r].at = "doc" /\ req'[r].at = "record"
    BY <2>1, <2>4, ReceiptDoc
  <2>5. CASE SubmitRefused(r) /\ req[r].at \in {"blob", "doc"} /\ req'[r].at = "refused"
    <3>1. UNCHANGED <<blobs, doc>>
      BY <2>5 DEF SubmitRefused, stores
    <3>2. QED
      BY <1>2, <2>1, <2>5, <3>1 DEF Further, Same
  <2>6. CASE SubmitIndex(r) /\ req[r].at = "index" /\ req'[r].at = "done"
    <3>1. UNCHANGED <<blobs, doc>>
      BY <2>6 DEF SubmitIndex
    <3>2. QED
      BY <1>2, <2>1, <2>6, <3>1 DEF Further, Same, Stored
  <2>7. QED
    BY <2>1, <2>2, <2>3, <2>4, <2>5, <2>6
<1>6. ASSUME NEW r \in Requests, SaveStep(r) PROVE ReceiptInv'
  <2>1. OnlyMoves(r) /\ r \in Saves /\ UNCHANGED <<blobs, doc>>
    BY <1>6, SaveGoes
  <2>2. QED
    BY <1>2, <2>1, SessionAssumption
<1>7. ASSUME NEW r \in Requests, LoadStep(r) PROVE ReceiptInv'
  <2>1. OnlyMoves(r) /\ r \in Loads /\ UNCHANGED <<blobs, doc>>
    BY <1>7, LoadGoes DEF stores
  <2>2. QED
    BY <1>2, <2>1, SessionAssumption
<1>8. CASE Surroundings
  <2>1. /\ \A x \in Requests : req'[x] = req[x] \/ GivenUp(x)
        /\ UNCHANGED <<blobs, doc>>
    BY <1>8, SurroundingsGo
  <2>2. \A x \in Submits : Further(x)
    BY <2>1 DEF Requests, Further, GivenUp, Underway, Same
  <2>3. QED
    BY <2>1, <2>2, ReceiptKept
<1>9. QED
  BY <1>1, <1>3, <1>4, <1>5, <1>6, <1>7, <1>8, NextIs
(***************************************************************************)
(* Events: what is called verified is on the ledger.                       *)
(***************************************************************************)
\* Nothing waits for an event that did not before, and no event is forgotten.
LEMMA EventsKept ==
    ASSUME TypeOK, LedgerInv, Known' = Known, CommittedTxs \subseteq CommittedTxs', txs' = txs,
           UNCHANGED index,
           \A r \in Requests : req'[r] = req[r] \/ req'[r].at \notin {"committing", "index"}
    PROVE  LedgerInv'
<1>1. \A x \in Known' : x.txId <= txs' /\ \A y \in Known' : x.txId = y.txId => x = y
  BY DEF LedgerInv
<1>2. \A r \in Requests : req'[r].at \in {"committing", "index"} =>
         \E x \in Known' : x.txId = req'[r].event /\ x.event = EntityHash(r)'
  <2> SUFFICES ASSUME NEW r \in Requests, req'[r].at \in {"committing", "index"}
               PROVE  \E x \in Known' : x.txId = req'[r].event /\ x.event = EntityHash(r)'
    OBVIOUS
  <2>1. req'[r] = req[r]
    OBVIOUS
  <2>2. EntityHash(r)' = EntityHash(r)
    BY <2>1 DEF EntityHash, SubmissionHash
  <2>3. QED
    BY <2>1, <2>2 DEF LedgerInv
<1>3. \A r \in Requests : req'[r].at = "index" => IsCommitted(req[r].event)'
  <2> SUFFICES ASSUME NEW r \in Requests, req'[r].at = "index"
               PROVE  \E tx \in CommittedTxs' : tx.txId = req'[r].event
    BY DEF IsCommitted
  <2>1. req'[r] = req[r]
    OBVIOUS
  <2>2. QED
    BY <2>1 DEF LedgerInv, IsCommitted
<1>4. \A hash \in DOMAIN index' :
         \E x \in CommittedTxs' : x.txId = index'[hash] /\ x.event = hash
  BY DEF LedgerInv
<1>5. QED
  BY <1>1, <1>2, <1>3, <1>4 DEF LedgerInv

LEMMA EventOrdered ==
    ASSUME TypeOK, LedgerInv, NEW r \in Requests, RecordOrdered(r)
    PROVE  LedgerInv'
<1> DEFINE tx == [txId |-> txs + 1, event |-> EntityHash(r)]
<1>1. /\ txs' = txs + 1 /\ tx \in Tx /\ Known' = Known \cup {tx} /\ CommittedTxs' = CommittedTxs
  BY RecordMoves DEF RecordOrdered
<1>2. UNCHANGED index
  BY DEF RecordOrdered, stores
<1>3. /\ OnlyMoves(r) /\ Same(r) /\ req'[r].at = "committing" /\ req'[r].event = txs + 1
  <2>1. OnlyMoves(r) /\ Same(r)
    BY RecordGoes DEF RecordStep
  <2>2. req[r] \in Request /\ Goes(r, Awaiting(req[r], "committing", txs + 1)) /\ txs + 1 \in Nat
        /\ "committing" \in Places4
    BY DEF RecordOrdered, Awaiting, TypeOK, RequestType, LedgerType, Places4, SavePlaces
  <2>3. /\ Awaiting(req[r], "committing", txs + 1) \in Request
        /\ Awaiting(req[r], "committing", txs + 1).at = "committing"
        /\ Awaiting(req[r], "committing", txs + 1).event = txs + 1
    BY <2>2, AwaitedIs
  <2>4. req'[r] = Awaiting(req[r], "committing", txs + 1)
    BY <2>2, <2>3, GoesTo
  <2>5. QED
    BY <2>1, <2>3, <2>4
<1>4. tx.txId = txs + 1 /\ tx.event = EntityHash(r)
  OBVIOUS
<1>5. EntityHash(r)' = EntityHash(r)
  BY <1>3 DEF Same, EntityHash, SubmissionHash
<1> HIDE DEF tx
<1>6. \A x \in Known : x.txId <= txs /\ x.txId \in Int
  <2>1. Known \subseteq Tx
    <3>1. Range(pending) \subseteq Tx
      BY LenProperties DEF TypeOK, LedgerType, Range
    <3>2. \A b \in DOMAIN blocks : Range(blocks[b].data) \subseteq Tx
      <4> SUFFICES ASSUME NEW b \in DOMAIN blocks PROVE Range(blocks[b].data) \subseteq Tx
        OBVIOUS
      <4>1. blocks[b] \in Block
        BY LenProperties, ElementOfSeq DEF TypeOK, LedgerType
      <4>2. blocks[b].data \in Seq(Tx)
        BY <4>1 DEF Block
      <4>3. QED
        BY <4>2, LenProperties DEF Range
    <3>3. CommittedTxs \subseteq Tx
      BY <3>2 DEF CommittedTxs
    <3>4. QED
      BY <3>1, <3>3 DEF Known
  <2>2. QED
    BY <2>1 DEF LedgerInv, Tx
<1>7. \A x \in Known' : x.txId <= txs' /\ \A y \in Known' : x.txId = y.txId => x = y
  <2>1. txs \in Nat
    BY DEF TypeOK, LedgerType
  <2>2. \A x \in Known : x.txId <= txs + 1 /\ x.txId # txs + 1
    BY <1>6, <2>1
  <2>3. txs + 1 <= txs + 1
    BY <2>1
  <2>4. \A x, y \in Known : x.txId = y.txId => x = y
    BY DEF LedgerInv
  <2>5. QED
    BY <1>1, <1>4, <2>2, <2>3, <2>4
<1>8. \A x \in Requests : req'[x].at \in {"committing", "index"} =>
         \E y \in Known' : y.txId = req'[x].event /\ y.event = EntityHash(x)'
  <2> SUFFICES ASSUME NEW x \in Requests, req'[x].at \in {"committing", "index"}
               PROVE  \E y \in Known' : y.txId = req'[x].event /\ y.event = EntityHash(x)'
    OBVIOUS
  <2>1. CASE x = r
    BY <1>1, <1>3, <1>4, <1>5, <2>1
  <2>2. CASE x # r
    <3>1. req'[x] = req[x]
      BY <1>3, <2>2 DEF OnlyMoves, Others
    <3>2. EntityHash(x)' = EntityHash(x)
      BY <3>1 DEF EntityHash, SubmissionHash
    <3>3. QED
      BY <1>1, <3>1, <3>2 DEF LedgerInv
  <2>3. QED
    BY <2>1, <2>2
<1>9. \A x \in Requests : req'[x].at = "index" => IsCommitted(req[x].event)'
  <2> SUFFICES ASSUME NEW x \in Requests, req'[x].at = "index"
               PROVE  \E y \in CommittedTxs' : y.txId = req'[x].event
    BY DEF IsCommitted
  <2>1. req'[x] = req[x]
    BY <1>3 DEF OnlyMoves, Others
  <2>2. QED
    BY <1>1, <2>1 DEF LedgerInv, IsCommitted
<1>10. \A hash \in DOMAIN index' :
         \E x \in CommittedTxs' : x.txId = index'[hash] /\ x.event = hash
  BY <1>1, <1>2 DEF LedgerInv
<1>11. QED
  BY <1>7, <1>8, <1>9, <1>10 DEF LedgerInv

LEMMA EventAnswered ==
    ASSUME TypeOK, LedgerInv, NEW r \in Requests, RecordAnswered(r)
    PROVE  LedgerInv'
<1>1. /\ UNCHANGED <<index, ledger>> /\ req[r].at = "committing" /\ IsCommitted(req[r].event)
      /\ \E place \in {"index", "done"} : Move(r, place)
  BY DEF RecordAnswered, stores, At
<1>2. Known' = Known /\ CommittedTxs' = CommittedTxs /\ txs' = txs
  BY <1>1 DEF Known, CommittedTxs, ledger
<1>3. OnlyMoves(r) /\ Same(r) /\ req'[r].event = req[r].event
  <2>1. {"index", "done"} \subseteq Places4
    BY DEF Places4, SubmitPlaces
  <2>2. QED
    BY <1>1, <2>1, MoveKeeps
<1>4. EntityHash(r)' = EntityHash(r)
  BY <1>3 DEF Same, EntityHash, SubmissionHash
<1>5. \A x \in Requests : req'[x].at \in {"committing", "index"} =>
         \E y \in Known' : y.txId = req'[x].event /\ y.event = EntityHash(x)'
  <2> SUFFICES ASSUME NEW x \in Requests, req'[x].at \in {"committing", "index"}
               PROVE  \E y \in Known' : y.txId = req'[x].event /\ y.event = EntityHash(x)'
    OBVIOUS
  <2>1. CASE x = r
    BY <1>1, <1>2, <1>3, <1>4, <2>1 DEF LedgerInv
  <2>2. CASE x # r
    <3>1. req'[x] = req[x]
      BY <1>3, <2>2 DEF OnlyMoves, Others
    <3>2. EntityHash(x)' = EntityHash(x)
      BY <3>1 DEF EntityHash, SubmissionHash
    <3>3. QED
      BY <1>2, <3>1, <3>2 DEF LedgerInv
  <2>3. QED
    BY <2>1, <2>2
<1>6. \A x \in Requests : req'[x].at = "index" => IsCommitted(req[x].event)'
  <2> SUFFICES ASSUME NEW x \in Requests, req'[x].at = "index"
               PROVE  \E y \in CommittedTxs' : y.txId = req'[x].event
    BY DEF IsCommitted
  <2>1. CASE x = r
    BY <1>1, <1>2, <1>3, <2>1 DEF IsCommitted
  <2>2. CASE x # r
    <3>1. req'[x] = req[x]
      BY <1>3, <2>2 DEF OnlyMoves, Others
    <3>2. QED
      BY <1>2, <3>1 DEF LedgerInv, IsCommitted
  <2>3. QED
    BY <2>1, <2>2
<1>7. /\ \A x \in Known' : x.txId <= txs' /\ \A y \in Known' : x.txId = y.txId => x = y
      /\ \A hash \in DOMAIN index' :
            \E x \in CommittedTxs' : x.txId = index'[hash] /\ x.event = hash
  BY <1>1, <1>2 DEF LedgerInv
<1>8. QED
  BY <1>5, <1>6, <1>7 DEF LedgerInv
\* The index has an event only when the ledger has it, with that very hash.
LEMMA EventIndexed ==
    ASSUME TypeOK, LedgerInv, NEW r \in Submits, SubmitIndex(r), OnlyMoves(r),
           req[r].at = "index", req'[r].at = "done", UNCHANGED ledger
    PROVE  LedgerInv'
<1>1. Known' = Known /\ CommittedTxs' = CommittedTxs /\ txs' = txs
  BY DEF Known, CommittedTxs, ledger
<1>2. PICK x \in CommittedTxs : x.txId = req[r].event /\ x.event = SubmissionHash(r)
  <2>1. r \in Requests
    BY DEF Requests
  <2>2. PICK x \in Known : x.txId = req[r].event /\ x.event = EntityHash(r)
    BY <2>1 DEF LedgerInv
  <2>3. PICK y \in CommittedTxs : y.txId = req[r].event
    BY <2>1 DEF LedgerInv, IsCommitted
  <2>4. x = y
    BY <2>2, <2>3 DEF LedgerInv, Known
  <2>5. QED
    BY <2>2, <2>3, <2>4 DEF EntityHash
<1>3. \/ index' = index
      \/ index' = [h \in DOMAIN index \cup {SubmissionHash(r)} |->
                      IF h = SubmissionHash(r) THEN req[r].event ELSE index[h]]
  BY DEF SubmitIndex
<1>4. \A hash \in DOMAIN index' :
         \E x1 \in CommittedTxs' : x1.txId = index'[hash] /\ x1.event = hash
  <2>1. CASE index' = index
    BY <1>1, <2>1 DEF LedgerInv
  <2>2. CASE index' = [h \in DOMAIN index \cup {SubmissionHash(r)} |->
                          IF h = SubmissionHash(r) THEN req[r].event ELSE index[h]]
    <3> SUFFICES ASSUME NEW hash \in DOMAIN index'
                 PROVE  \E x1 \in CommittedTxs' : x1.txId = index'[hash] /\ x1.event = hash
      OBVIOUS
    <3>1. CASE hash = SubmissionHash(r)
      BY <1>1, <1>2, <2>2, <3>1
    <3>2. CASE hash # SubmissionHash(r)
      <4>1. hash \in DOMAIN index /\ index'[hash] = index[hash]
        BY <2>2, <3>2
      <4>2. QED
        BY <1>1, <4>1 DEF LedgerInv
    <3>3. QED
      BY <3>1, <3>2
  <2>3. QED
    BY <1>3, <2>1, <2>2
<1>5. \A y \in Requests : req'[y].at \in {"committing", "index"} => req'[y] = req[y]
  BY DEF OnlyMoves, Others
<1>6. \A y \in Requests : req'[y].at \in {"committing", "index"} =>
         \E x1 \in Known' : x1.txId = req'[y].event /\ x1.event = EntityHash(y)'
  <2> SUFFICES ASSUME NEW y \in Requests, req'[y].at \in {"committing", "index"}
               PROVE  \E x1 \in Known' : x1.txId = req'[y].event /\ x1.event = EntityHash(y)'
    OBVIOUS
  <2>1. req'[y] = req[y]
    BY <1>5
  <2>2. EntityHash(y)' = EntityHash(y)
    BY <2>1 DEF EntityHash, SubmissionHash
  <2>3. QED
    BY <1>1, <2>1, <2>2 DEF LedgerInv
<1>7. \A y \in Requests : req'[y].at = "index" => IsCommitted(req[y].event)'
  <2> SUFFICES ASSUME NEW y \in Requests, req'[y].at = "index"
               PROVE  \E x1 \in CommittedTxs' : x1.txId = req'[y].event
    BY DEF IsCommitted
  <2>1. req'[y] = req[y]
    BY <1>5
  <2>2. QED
    BY <1>1, <2>1 DEF LedgerInv, IsCommitted
<1>8. \A x1 \in Known' : x1.txId <= txs' /\ \A y \in Known' : x1.txId = y.txId => x1 = y
  BY <1>1 DEF LedgerInv
<1>9. QED
  BY <1>4, <1>6, <1>7, <1>8 DEF LedgerInv

LEMMA LedgerStep == TypeOK /\ LedgerInv /\ [Next]_vars => LedgerInv'
<1> SUFFICES ASSUME TypeOK, LedgerInv, [Next]_vars PROVE LedgerInv'
  OBVIOUS
<1>1. ASSUME UNCHANGED ledger
      PROVE  Known' = Known /\ CommittedTxs \subseteq CommittedTxs' /\ txs' = txs
  BY <1>1 DEF Known, CommittedTxs, ledger
<1>2. CASE UNCHANGED vars
  BY <1>1, <1>2, EventsKept DEF vars, stores
<1>3. ASSUME NEW r \in Requests, OnlyMoves(r), req'[r].at \notin {"committing", "index"},
             UNCHANGED <<index, ledger>>
      PROVE  LedgerInv'
  <2>1. \A x \in Requests : req'[x] = req[x] \/ req'[x].at \notin {"committing", "index"}
    BY <1>3 DEF OnlyMoves, Others
  <2>2. QED
    BY <1>1, <1>3, <2>1, EventsKept
<1>4. ASSUME NEW r \in Requests, RecordStep(r) PROVE LedgerInv'
  <2>1. CASE RecordOrdered(r)
    BY <2>1, EventOrdered
  <2>2. CASE RecordAnswered(r)
    BY <2>2, EventAnswered
  <2>3. CASE RecordFails(r) \/ RecordLost(r)
    <3>1. Move(r, "done") /\ UNCHANGED <<index, ledger>>
      BY <2>3 DEF RecordFails, RecordLost, stores
    <3>2. "done" \in Places4
      BY DEF Places4, LoadPlaces
    <3>3. OnlyMoves(r) /\ req'[r].at = "done"
      BY <3>1, <3>2, MoveKeeps
    <3>4. QED
      BY <1>3, <3>1, <3>3
  <2>4. QED
    BY <1>4, <2>1, <2>2, <2>3 DEF RecordStep
<1>5. ASSUME NEW r \in Requests, StartStep(r) PROVE LedgerInv'
  <2>1. /\ OnlyMoves(r) /\ req'[r].at \in {"paper", "mark", "record", "refused"}
        /\ UNCHANGED <<index, ledger>>
    BY <1>5, StartGoes
  <2>2. QED
    BY <1>3, <2>1
<1>6. ASSUME NEW r \in Requests, SubmitStep(r) PROVE LedgerInv'
  <2>1. /\ OnlyMoves(r) /\ r \in Submits /\ UNCHANGED ledger
        /\ \/ SubmitBegin(r) /\ req'[r].at \in {"blob", "refused"} /\ req'[r].time = clock
           \/ SubmitBlob(r) /\ req[r].at = "blob" /\ req'[r].at = "doc"
           \/ SubmitDoc(r) /\ req[r].at = "doc" /\ req'[r].at = "record"
           \/ SubmitRefused(r) /\ req[r].at \in {"blob", "doc"} /\ req'[r].at = "refused"
           \/ SubmitIndex(r) /\ req[r].at = "index" /\ req'[r].at = "done"
    BY <1>6, SubmitGoes
  <2>2. CASE SubmitIndex(r) /\ req[r].at = "index" /\ req'[r].at = "done"
    BY <2>1, <2>2, EventIndexed
  <2>3. CASE /\ SubmitBegin(r) \/ SubmitBlob(r) \/ SubmitDoc(r) \/ SubmitRefused(r)
             /\ req'[r].at \in {"blob", "doc", "record", "refused"}
    <3>1. UNCHANGED index
      BY <2>3 DEF SubmitBegin, SubmitBlob, SubmitDoc, SubmitRefused, stores
    <3>2. QED
      BY <1>3, <2>1, <2>3, <3>1
  <2>4. QED
    BY <2>1, <2>2, <2>3
<1>7. ASSUME NEW r \in Requests, SaveStep(r) PROVE LedgerInv'
  <2>1. /\ OnlyMoves(r) /\ req'[r].at \in {"storing", "record", "done", "refused"}
        /\ UNCHANGED <<index, ledger>>
    BY <1>7, SaveGoes
  <2>2. QED
    BY <1>3, <2>1
<1>8. ASSUME NEW r \in Requests, LoadStep(r) PROVE LedgerInv'
  <2>1. /\ OnlyMoves(r) /\ req'[r].at \in {"gcs", "done", "refused"}
        /\ UNCHANGED <<index, ledger>>
    BY <1>8, LoadGoes DEF stores
  <2>2. QED
    BY <1>3, <2>1
<1>9. CASE Surroundings
  <2>1. /\ \A x \in Requests : req'[x] = req[x] \/ GivenUp(x)
        /\ UNCHANGED index /\ (CutBlock \/ UNCHANGED ledger)
    BY <1>9, SurroundingsGo
  <2>2. Known' = Known /\ CommittedTxs \subseteq CommittedTxs' /\ txs' = txs
    BY <1>1, <2>1, CutBlockMoves DEF TypeOK
  <2>3. \A x \in Requests : req'[x] = req[x] \/ req'[x].at \notin {"committing", "index"}
    BY <2>1 DEF GivenUp
  <2>4. QED
    BY <2>1, <2>2, <2>3, EventsKept
<1>10. QED
  BY <1>2, <1>4, <1>5, <1>6, <1>7, <1>8, <1>9, NextIs

LEMMA IInvInit == Init => IInv
<1> SUFFICES ASSUME Init PROVE IInv
  OBVIOUS
<1>1. TypeOK
  BY TypeInit
<1>2. PICK workload \in Workloads :
         /\ req = [r \in Requests |->
                     IF r \in workload.requests THEN Idle ELSE [Idle EXCEPT !.at = "absent"]]
         /\ LedgerInit(workload.earlier, [sheet |-> None, time |-> 0])
  BY DEF Init
<1>3. \A r \in Requests : /\ req[r].at \in {"idle", "absent"} /\ req[r].time = 0
                          /\ req[r].redis = "wait" /\ req[r].gcs = "wait" /\ req[r].from = None
  BY <1>2 DEF Idle
<1>4. /\ \A s \in Saves : s \in Requests
      /\ \A s \in Loads : s \in Requests
      /\ \A s \in Submits : s \in Requests
  BY DEF Requests
<1>5. DOMAIN backups = {} /\ DOMAIN index = {} /\ DOMAIN blocks = {}
  <2>1. DOMAIN <<>> = 1..0 /\ 1..0 = {}
    BY EmptySeq, LenProperties
  <2>2. blocks = <<>> /\ backups = <<>> /\ index = <<>>
    BY <1>2 DEF Init, LedgerInit
  <2>3. QED
    BY <2>1, <2>2
<1>6. Storing = {} /\ Settled = {}
  BY <1>3, <1>4 DEF Storing, Settled
<1>7. CheckpointInv
  <2>1. BackupsAreThere
    BY <1>3, <1>4, <1>5, <1>6 DEF BackupsAreThere
  <2>2. RedisIsNewest
    BY <1>6 DEF RedisIsNewest
  <2>3. LoadsAsk
    BY <1>3, <1>4 DEF LoadsAsk
  <2>4. ResumesFromNewest
    BY <1>3, <1>4 DEF ResumesFromNewest, At
  <2>5. QED
    BY <2>1, <2>2, <2>3, <2>4 DEF CheckpointInv
<1>8. ReceiptInv
  <2>1. doc.responses = None
    BY DEF Init
  <2>2. QED
    BY <1>3, <1>4, <2>1 DEF ReceiptInv, Stored
<1>9. LedgerInv
  <2> DEFINE n == workload.earlier
             event == [sheet |-> None, time |-> 0]
  <2>1. n \in Nat /\ pending = [i \in 1..n |-> [txId |-> i, event |-> event]] /\ txs = n
    BY <1>2, SessionAssumption DEF LedgerInit
  <2> HIDE DEF n, event
  <2>2. CommittedTxs = {}
    BY <1>5 DEF CommittedTxs
  <2>3. Known = {[txId |-> i, event |-> event] : i \in 1..n}
    BY <2>1, <2>2 DEF Known, Range
  <2>4. \A x \in Known : x.txId <= txs /\ \A y \in Known : x.txId = y.txId => x = y
    BY <2>1, <2>3
  <2>5. QED
    BY <1>3, <1>5, <2>4 DEF LedgerInv
<1>10. QED
  BY <1>1, <1>7, <1>8, <1>9 DEF IInv

LEMMA InvariantHolds == Spec => []IInv
<1>1. IInv /\ [Next]_vars => IInv'
  BY TypeStep, CheckpointStep, ReceiptStep, LedgerStep DEF IInv
<1>2. QED
  BY <1>1, IInvInit, PTL DEF Spec

(***************************************************************************)
(* Recursion: numbers, rounds, hashes.                                     *)
(***************************************************************************)
\* A set that has 0, and with every number the next, has them all: there would
\* be a least one that it lacks.
LEMMA EveryNumber ==
    ASSUME NEW P, 0 \in P, \A k \in Nat : k \in P => k + 1 \in P
    PROVE  \A k \in Nat : k \in P
<1> DEFINE R == {k \in Nat : k \notin P}
<1>1. SUFFICES ASSUME R # {} PROVE FALSE
  OBVIOUS
<1>2. PICK y \in R : \A z \in R : ~(<<z, y>> \in OpToRel(<, Nat))
  <2>1. R \subseteq Nat /\ R # {}
    BY <1>1
  <2> HIDE DEF R
  <2>2. QED
    BY <2>1, NatLessThanWellFounded, WFMin, Zenon
<1>3. y \in Nat /\ y # 0 /\ y \notin P
  OBVIOUS
<1>4. y - 1 \in Nat /\ y - 1 < y /\ (y - 1) + 1 = y
  BY <1>3
<1>5. y - 1 \notin R
  BY <1>2, <1>3, <1>4 DEF OpToRel
<1>6. y - 1 \in P
  BY <1>4, <1>5
<1>7. QED
  BY <1>3, <1>4, <1>6

\* The loop of computeMerkleProof is what its definition says: for every
\* number of rounds there is a function, they agree, and together they are one.
LEMMA RoundsAre ==
    ASSUME NEW leaves, NEW target
    PROVE  /\ Rounds(leaves, target)[0] = [level |-> leaves, index |-> target, proof |-> <<>>]
           /\ \A k \in Nat : Rounds(leaves, target)[k + 1] = NextRound(Rounds(leaves, target)[k])
<1> DEFINE x == [level |-> leaves, index |-> target, proof |-> <<>>]
           UpTo(f, n) == f = [k \in 0 .. n |-> IF k = 0 THEN x ELSE NextRound(f[k - 1])]
           P == {n \in Nat : \E f : UpTo(f, n)}
<1> HIDE DEF x
<1>1. 0 \in P
  <2>1. UpTo([k \in 0 .. 0 |-> x], 0)
    <3>1. \A k \in 0 .. 0 : k = 0
      OBVIOUS
    <3>2. QED
      BY <3>1
  <2>2. QED
    BY <2>1
<1>2. \A n \in Nat : n \in P => n + 1 \in P
  <2>1. SUFFICES ASSUME NEW n \in Nat, NEW f, UpTo(f, n) PROVE \E g : UpTo(g, n + 1)
    OBVIOUS
  <2> DEFINE g == [k \in 0 .. n + 1 |-> IF k = n + 1 THEN NextRound(f[n]) ELSE f[k]]
  <2>2. \A k \in 0 .. n : f[k] = IF k = 0 THEN x ELSE NextRound(f[k - 1])
    BY <2>1
  <2>3. \A k \in 0 .. n + 1 : g[k] = IF k = 0 THEN x ELSE NextRound(g[k - 1])
    <3>1. SUFFICES ASSUME NEW k \in 0 .. n + 1
                   PROVE  g[k] = IF k = 0 THEN x ELSE NextRound(g[k - 1])
      OBVIOUS
    <3>2. CASE k = n + 1
      <4>1. k - 1 = n /\ k # 0 /\ n \in 0 .. n + 1 /\ n # n + 1
        BY <3>2
      <4>2. g[k - 1] = f[n] /\ g[k] = NextRound(f[n])
        BY <3>2, <4>1
      <4>3. QED
        BY <4>1, <4>2
    <3>3. CASE k # n + 1
      <4>1. k \in 0 .. n /\ (k # 0 => k - 1 \in 0 .. n + 1 /\ k - 1 # n + 1)
        BY <3>3
      <4>2. g[k] = f[k] /\ (k # 0 => g[k - 1] = f[k - 1])
        BY <3>3, <4>1
      <4>3. QED
        BY <2>2, <4>1, <4>2
    <3>4. QED
      BY <3>2, <3>3
  <2>4. UpTo(g, n + 1)
    BY <2>3
  <2>5. QED
    BY <2>4
<1>3. \A n \in Nat : \E f : UpTo(f, n)
  <2>1. \A n \in Nat : n \in P
    <3> HIDE DEF P
    <3> QED
      BY <1>1, <1>2, EveryNumber
  <2>2. QED
    BY <2>1
<1>4. ASSUME NEW m \in Nat, NEW n \in Nat, NEW f, NEW g, UpTo(f, m), UpTo(g, n)
      PROVE  \A k \in Nat : k <= m /\ k <= n => f[k] = g[k]
  <2> DEFINE Q == {k \in Nat : k <= m /\ k <= n => f[k] = g[k]}
  <2>1. /\ \A k \in 0 .. m : f[k] = IF k = 0 THEN x ELSE NextRound(f[k - 1])
        /\ \A k \in 0 .. n : g[k] = IF k = 0 THEN x ELSE NextRound(g[k - 1])
    BY <1>4
  <2> HIDE DEF UpTo
  <2>2. 0 \in Q
    BY <2>1
  <2>3. \A k \in Nat : k \in Q => k + 1 \in Q
    <3>1. SUFFICES ASSUME NEW k \in Nat, k \in Q, k + 1 <= m, k + 1 <= n
                   PROVE  f[k + 1] = g[k + 1]
      OBVIOUS
    <3>2. k + 1 \in 0 .. m /\ k + 1 \in 0 .. n /\ k + 1 # 0 /\ (k + 1) - 1 = k
      BY <3>1
    <3>3. f[k] = g[k]
      BY <3>1
    <3>4. f[k + 1] = NextRound(f[k]) /\ g[k + 1] = NextRound(g[k])
      BY <2>1, <3>2
    <3>5. QED
      BY <3>3, <3>4
  <2>4. \A k \in Nat : k \in Q
    <3> HIDE DEF Q
    <3> QED
      BY <2>2, <2>3, EveryNumber
  <2>5. QED
    BY <2>4
<1> DEFINE h(n) == CHOOSE f : UpTo(f, n)
           F == [k \in Nat |-> h(k)[k]]
<1>5. \A n \in Nat : UpTo(h(n), n)
  BY <1>3
<1>6. F[0] = x
  <2>1. h(0)[0] = x
    <3>1. UpTo(h(0), 0)
      BY <1>5
    <3> HIDE DEF h
    <3>2. QED
      BY <3>1
  <2>2. QED
    BY <2>1
<1>7. \A k \in Nat : F[k + 1] = NextRound(F[k])
  <2>1. TAKE k \in Nat
  <2>2. UpTo(h(k + 1), k + 1) /\ UpTo(h(k), k)
    <3>1. k + 1 \in Nat
      OBVIOUS
    <3> HIDE DEF h, UpTo
    <3>2. QED
      BY <1>5, <3>1
  <2> HIDE DEF h
  <2>3. h(k + 1)[k + 1] = NextRound(h(k + 1)[k])
    <3>1. k + 1 \in 0 .. k + 1 /\ k + 1 # 0 /\ (k + 1) - 1 = k
      OBVIOUS
    <3>2. QED
      BY <2>2, <3>1
  <2>4. h(k + 1)[k] = h(k)[k]
    <3> HIDE DEF UpTo
    <3>1. QED
      BY <1>4, <2>2
  <2>5. QED
    BY <2>3, <2>4
<1> HIDE DEF h, P
<1>8. F = [k \in Nat |-> IF k = 0 THEN x ELSE NextRound(F[k - 1])]
  <2>1. \A k \in Nat : F[k] = IF k = 0 THEN x ELSE NextRound(F[k - 1])
    <3>1. TAKE k \in Nat
    <3>2. CASE k = 0
      BY <1>6, <3>2
    <3>3. CASE k # 0
      <4>1. k - 1 \in Nat /\ (k - 1) + 1 = k
        BY <3>3
      <4> HIDE DEF F
      <4>2. QED
        BY <1>7, <3>3, <4>1
    <3>4. QED
      BY <3>2, <3>3
  <2>2. F = [k \in Nat |-> F[k]]
    OBVIOUS
  <2> HIDE DEF F
  <2>3. QED
    BY <2>1, <2>2
<1> DEFINE at == Rounds(leaves, target)
<1>9. at = [k \in Nat |-> IF k = 0 THEN x ELSE NextRound(at[k - 1])]
  <2>1. at = CHOOSE f : f = [k \in Nat |-> IF k = 0 THEN x ELSE NextRound(f[k - 1])]
    BY DEF Rounds, x
  <2>2. \E f : f = [k \in Nat |-> IF k = 0 THEN x ELSE NextRound(f[k - 1])]
    <3> HIDE DEF F
    <3> QED
      BY <1>8
  <2> HIDE DEF at
  <2>3. QED
    BY <2>1, <2>2
<1> HIDE DEF at
<1>10. at[0] = x
  BY <1>9
<1>11. \A k \in Nat : at[k + 1] = NextRound(at[k])
  <2>1. TAKE k \in Nat
  <2>2. k + 1 \in Nat /\ k + 1 # 0 /\ (k + 1) - 1 = k
    OBVIOUS
  <2>3. QED
    BY <1>9, <2>2
<1>12. QED
  BY <1>10, <1>11 DEF at, x

\* So is the loop of recomputeRoot.
LEMMA HashesAre ==
    ASSUME NEW leaf, NEW proof
    PROVE  /\ Hashes(leaf, proof)[0] = leaf
           /\ \A k \in Nat : Hashes(leaf, proof)[k + 1] = Combined(Hashes(leaf, proof)[k], proof[k + 1])
<1> DEFINE x == leaf
           UpTo(f, n) == f = [k \in 0 .. n |-> IF k = 0 THEN x ELSE Combined(f[k - 1], proof[k])]
           P == {n \in Nat : \E f : UpTo(f, n)}
<1> HIDE DEF x
<1>1. 0 \in P
  <2>1. UpTo([k \in 0 .. 0 |-> x], 0)
    <3>1. \A k \in 0 .. 0 : k = 0
      OBVIOUS
    <3>2. QED
      BY <3>1
  <2>2. QED
    BY <2>1
<1>2. \A n \in Nat : n \in P => n + 1 \in P
  <2>1. SUFFICES ASSUME NEW n \in Nat, NEW f, UpTo(f, n) PROVE \E g : UpTo(g, n + 1)
    OBVIOUS
  <2> DEFINE g == [k \in 0 .. n + 1 |-> IF k = n + 1 THEN Combined(f[n], proof[n + 1]) ELSE f[k]]
  <2>2. \A k \in 0 .. n : f[k] = IF k = 0 THEN x ELSE Combined(f[k - 1], proof[k])
    BY <2>1
  <2>3. \A k \in 0 .. n + 1 : g[k] = IF k = 0 THEN x ELSE Combined(g[k - 1], proof[k])
    <3>1. SUFFICES ASSUME NEW k \in 0 .. n + 1
                   PROVE  g[k] = IF k = 0 THEN x ELSE Combined(g[k - 1], proof[k])
      OBVIOUS
    <3>2. CASE k = n + 1
      <4>1. k - 1 = n /\ k # 0 /\ n \in 0 .. n + 1 /\ n # n + 1
        BY <3>2
      <4>2. g[k - 1] = f[n] /\ g[k] = Combined(f[n], proof[n + 1])
        BY <3>2, <4>1
      <4>3. QED
        BY <4>1, <4>2
    <3>3. CASE k # n + 1
      <4>1. k \in 0 .. n /\ (k # 0 => k - 1 \in 0 .. n + 1 /\ k - 1 # n + 1)
        BY <3>3
      <4>2. g[k] = f[k] /\ (k # 0 => g[k - 1] = f[k - 1])
        BY <3>3, <4>1
      <4>3. QED
        BY <2>2, <4>1, <4>2
    <3>4. QED
      BY <3>2, <3>3
  <2>4. UpTo(g, n + 1)
    BY <2>3
  <2>5. QED
    BY <2>4
<1>3. \A n \in Nat : \E f : UpTo(f, n)
  <2>1. \A n \in Nat : n \in P
    <3> HIDE DEF P
    <3> QED
      BY <1>1, <1>2, EveryNumber
  <2>2. QED
    BY <2>1
<1>4. ASSUME NEW m \in Nat, NEW n \in Nat, NEW f, NEW g, UpTo(f, m), UpTo(g, n)
      PROVE  \A k \in Nat : k <= m /\ k <= n => f[k] = g[k]
  <2> DEFINE Q == {k \in Nat : k <= m /\ k <= n => f[k] = g[k]}
  <2>1. /\ \A k \in 0 .. m : f[k] = IF k = 0 THEN x ELSE Combined(f[k - 1], proof[k])
        /\ \A k \in 0 .. n : g[k] = IF k = 0 THEN x ELSE Combined(g[k - 1], proof[k])
    BY <1>4
  <2> HIDE DEF UpTo
  <2>2. 0 \in Q
    BY <2>1
  <2>3. \A k \in Nat : k \in Q => k + 1 \in Q
    <3>1. SUFFICES ASSUME NEW k \in Nat, k \in Q, k + 1 <= m, k + 1 <= n
                   PROVE  f[k + 1] = g[k + 1]
      OBVIOUS
    <3>2. k + 1 \in 0 .. m /\ k + 1 \in 0 .. n /\ k + 1 # 0 /\ (k + 1) - 1 = k
      BY <3>1
    <3>3. f[k] = g[k]
      BY <3>1
    <3>4. f[k + 1] = Combined(f[k], proof[k + 1]) /\ g[k + 1] = Combined(g[k], proof[k + 1])
      BY <2>1, <3>2
    <3>5. QED
      BY <3>3, <3>4
  <2>4. \A k \in Nat : k \in Q
    <3> HIDE DEF Q
    <3> QED
      BY <2>2, <2>3, EveryNumber
  <2>5. QED
    BY <2>4
<1> DEFINE h(n) == CHOOSE f : UpTo(f, n)
           F == [k \in Nat |-> h(k)[k]]
<1>5. \A n \in Nat : UpTo(h(n), n)
  BY <1>3
<1>6. F[0] = x
  <2>1. h(0)[0] = x
    <3>1. UpTo(h(0), 0)
      BY <1>5
    <3> HIDE DEF h
    <3>2. QED
      BY <3>1
  <2>2. QED
    BY <2>1
<1>7. \A k \in Nat : F[k + 1] = Combined(F[k], proof[k + 1])
  <2>1. TAKE k \in Nat
  <2>2. UpTo(h(k + 1), k + 1) /\ UpTo(h(k), k)
    <3>1. k + 1 \in Nat
      OBVIOUS
    <3> HIDE DEF h, UpTo
    <3>2. QED
      BY <1>5, <3>1
  <2> HIDE DEF h
  <2>3. h(k + 1)[k + 1] = Combined(h(k + 1)[k], proof[k + 1])
    <3>1. k + 1 \in 0 .. k + 1 /\ k + 1 # 0 /\ (k + 1) - 1 = k
      OBVIOUS
    <3>2. QED
      BY <2>2, <3>1
  <2>4. h(k + 1)[k] = h(k)[k]
    <3> HIDE DEF UpTo
    <3>1. QED
      BY <1>4, <2>2
  <2>5. QED
    BY <2>3, <2>4
<1> HIDE DEF h, P
<1>8. F = [k \in Nat |-> IF k = 0 THEN x ELSE Combined(F[k - 1], proof[k])]
  <2>1. \A k \in Nat : F[k] = IF k = 0 THEN x ELSE Combined(F[k - 1], proof[k])
    <3>1. TAKE k \in Nat
    <3>2. CASE k = 0
      BY <1>6, <3>2
    <3>3. CASE k # 0
      <4>1. k - 1 \in Nat /\ (k - 1) + 1 = k
        BY <3>3
      <4> HIDE DEF F
      <4>2. QED
        BY <1>7, <3>3, <4>1
    <3>4. QED
      BY <3>2, <3>3
  <2>2. F = [k \in Nat |-> F[k]]
    OBVIOUS
  <2> HIDE DEF F
  <2>3. QED
    BY <2>1, <2>2
<1> DEFINE at == Hashes(leaf, proof)
<1>9. at = [k \in Nat |-> IF k = 0 THEN x ELSE Combined(at[k - 1], proof[k])]
  <2>1. at = CHOOSE f : f = [k \in Nat |-> IF k = 0 THEN x ELSE Combined(f[k - 1], proof[k])]
    BY DEF Hashes, x
  <2>2. \E f : f = [k \in Nat |-> IF k = 0 THEN x ELSE Combined(f[k - 1], proof[k])]
    <3> HIDE DEF F
    <3> QED
      BY <1>8
  <2> HIDE DEF at
  <2>3. QED
    BY <2>1, <2>2
<1> HIDE DEF at
<1>10. at[0] = x
  BY <1>9
<1>11. \A k \in Nat : at[k + 1] = Combined(at[k], proof[k + 1])
  <2>1. TAKE k \in Nat
  <2>2. k + 1 \in Nat /\ k + 1 # 0 /\ (k + 1) - 1 = k
    OBVIOUS
  <2>3. QED
    BY <1>9, <2>2
<1>12. QED
  BY <1>10, <1>11 DEF at, x

(***************************************************************************)
(* The Merkle tree, of any number of leaves.                               *)
(***************************************************************************)
IsSequence(s) == \E S : s \in Seq(S)

\* In a round of computeMerkleProof the proof leads from the leaf to the
\* target of the round.
Leads(leaf, at) ==
    /\ IsSequence(at.level) /\ IsSequence(at.proof)
    /\ Len(at.level) >= 1 /\ at.index \in 0 .. Len(at.level) - 1
    /\ RecomputeRoot(leaf, at.proof) = at.level[at.index + 1]

\* One more sibling is one more hash: the earlier ones do not depend on it.
LEMMA OneMoreHash ==
    ASSUME NEW leaf, NEW proof, IsSequence(proof), NEW node
    PROVE  /\ IsSequence(proof \o <<node>>)
           /\ RecomputeRoot(leaf, proof \o <<node>>) = Combined(RecomputeRoot(leaf, proof), node)
<1> DEFINE longer == proof \o <<node>>
           n == Len(proof)
           P == {k \in Nat : k <= n => Hashes(leaf, longer)[k] = Hashes(leaf, proof)[k]}
<1>1. PICK S : proof \in Seq(S)
  BY DEF IsSequence
<1>2. n \in Nat
  BY <1>1
<1>3. longer \in Seq(S \cup {node}) /\ Len(longer) = n + 1
  <2>1. proof \in Seq(S \cup {node}) /\ <<node>> \in Seq(S \cup {node})
    BY <1>1
  <2>2. QED
    BY <2>1, ConcatProperties
<1>4. (\A k \in 1 .. n : longer[k] = proof[k]) /\ longer[n + 1] = node
  <2>1. proof \in Seq(S \cup {node}) /\ <<node>> \in Seq(S \cup {node})
    BY <1>1
  <2>2. QED
    BY <2>1, ConcatProperties
<1> HIDE DEF longer, n
<1>5. 0 \in P
  BY HashesAre
<1>6. \A k \in Nat : k \in P => k + 1 \in P
  <2>1. SUFFICES ASSUME NEW k \in Nat, k \in P, k + 1 <= n
                 PROVE  Hashes(leaf, longer)[k + 1] = Hashes(leaf, proof)[k + 1]
    OBVIOUS
  <2>2. k <= n /\ k + 1 \in 1 .. n
    BY <1>2, <2>1
  <2>3. Hashes(leaf, longer)[k] = Hashes(leaf, proof)[k] /\ longer[k + 1] = proof[k + 1]
    BY <1>4, <2>1, <2>2
  <2>4. QED
    BY <2>3, HashesAre
<1>7. n \in P
  <2> HIDE DEF P
  <2> QED
    BY <1>2, <1>5, <1>6, EveryNumber
<1>8. Hashes(leaf, longer)[n + 1] = Combined(Hashes(leaf, longer)[n], longer[n + 1])
  BY <1>2, HashesAre
<1>9. Hashes(leaf, longer)[n] = Hashes(leaf, proof)[n]
  BY <1>2, <1>7
<1>10. QED
  BY <1>3, <1>4, <1>8, <1>9 DEF RecomputeRoot, IsSequence, n, longer

\* A level above one has half its nodes, rounded up.
LEMMA LevelAbove ==
    ASSUME NEW level, IsSequence(level), Len(level) > 1
    PROVE  /\ IsSequence(NextLevel(level))
           /\ Len(NextLevel(level)) = (Len(level) + 1) \div 2
           /\ \A i \in 1 .. (Len(level) + 1) \div 2 :
                 NextLevel(level)[i] = IF 2 * i <= Len(level) THEN Node(level[2 * i - 1], level[2 * i])
                                       ELSE level[2 * i - 1]
<1> DEFINE m == (Len(level) + 1) \div 2
           above == NextLevel(level)
<1>1. m \in Nat
  BY DEF IsSequence
<1>2. above = [i \in 1 .. m |-> IF 2 * i <= Len(level) THEN Node(level[2 * i - 1], level[2 * i])
                                ELSE level[2 * i - 1]]
  BY DEF NextLevel
<1> HIDE DEF m, above
<1>3. above \in Seq({above[i] : i \in 1 .. m}) /\ Len(above) = m
  <2> DEFINE S == {above[i] : i \in 1 .. m}
  <2>1. above \in [1 .. m -> S]
    BY <1>2
  <2> HIDE DEF S
  <2>2. QED
    BY <1>1, <2>1 DEF S
<1>4. QED
  BY <1>2, <1>3 DEF IsSequence, m, above

LEMMA RoundLeads ==
    ASSUME NEW leaf, NEW at, Leads(leaf, at)
    PROVE  /\ Leads(leaf, NextRound(at))
           /\ Len(at.level) = 1 => NextRound(at) = at
           /\ Len(at.level) > 1 => /\ NextRound(at).level = NextLevel(at.level)
                                   /\ Len(NextRound(at).level) < Len(at.level)
<1> DEFINE n == Len(at.level)
           i == at.index
           j == i \div 2
           up == NextRound(at)
<1>1. n \in Nat /\ n >= 1 /\ i \in 0 .. n - 1
  <2>1. n \in Nat
    BY DEF Leads, IsSequence
  <2>2. QED
    BY <2>1 DEF Leads
<1> HIDE DEF n, i
<1>2. n = 1 => up = at
  BY <1>1 DEF NextRound, n
<1>3. n > 1 => Leads(leaf, up) /\ up.level = NextLevel(at.level) /\ Len(up.level) < n
  <2> SUFFICES ASSUME n > 1 PROVE Leads(leaf, up) /\ up.level = NextLevel(at.level) /\ Len(up.level) < n
    OBVIOUS
  <2>1. up = [level |-> NextLevel(at.level), index |-> j, proof |-> at.proof \o Sibling(at.level, i)]
    BY <1>1 DEF NextRound, n, i
  <2>2. up.level = NextLevel(at.level) /\ up.index = j /\ up.proof = at.proof \o Sibling(at.level, i)
    <3> HIDE DEF up, j
    <3> QED
      BY <2>1
  <2> HIDE DEF up
  <2>3. /\ IsSequence(up.level) /\ Len(up.level) = (n + 1) \div 2
        /\ up.level[j + 1] = IF 2 * (j + 1) <= n
                             THEN Node(at.level[2 * (j + 1) - 1], at.level[2 * (j + 1)])
                             ELSE at.level[2 * (j + 1) - 1]
    <3>1. j + 1 \in 1 .. (n + 1) \div 2
      BY <1>1
    <3>2. QED
      BY <2>2, <3>1, LevelAbove DEF Leads, n
  <2>4. (n + 1) \div 2 < n /\ (n + 1) \div 2 >= 1 /\ j \in 0 .. (n + 1) \div 2 - 1
    BY <1>1
  <2>5. IsSequence(up.proof) /\ RecomputeRoot(leaf, up.proof) = up.level[j + 1]
    <3> DEFINE here == at.level[i + 1]
    <3>1. RecomputeRoot(leaf, at.proof) = here /\ IsSequence(at.proof)
      BY DEF Leads, i
    <3>2. CASE i % 2 = 1
      <4>1. 2 * (j + 1) <= n /\ 2 * (j + 1) - 1 = i /\ 2 * (j + 1) = i + 1
        BY <1>1, <3>2
      <4>2. up.level[j + 1] = Node(at.level[i], here)
        BY <2>3, <4>1
      <4>3. up.proof = at.proof \o <<[hash |-> at.level[i], position |-> "left"]>>
        BY <2>2, <3>2 DEF Sibling, n
      <4>4. Combined(here, [hash |-> at.level[i], position |-> "left"]) = Node(at.level[i], here)
        BY DEF Combined
      <4>5. QED
        BY <3>1, <4>2, <4>3, <4>4, OneMoreHash
    <3>3. CASE i % 2 # 1 /\ i + 1 < n
      <4>1. 2 * (j + 1) <= n /\ 2 * (j + 1) - 1 = i + 1 /\ 2 * (j + 1) = i + 2
        BY <1>1, <3>3
      <4>2. up.level[j + 1] = Node(here, at.level[i + 2])
        BY <2>3, <4>1
      <4>3. up.proof = at.proof \o <<[hash |-> at.level[i + 2], position |-> "right"]>>
        BY <2>2, <3>3 DEF Sibling, n
      <4>4. Combined(here, [hash |-> at.level[i + 2], position |-> "right"]) = Node(here, at.level[i + 2])
        BY DEF Combined
      <4>5. QED
        BY <3>1, <4>2, <4>3, <4>4, OneMoreHash
    <3>4. CASE i % 2 # 1 /\ ~(i + 1 < n)
      <4>1. ~(2 * (j + 1) <= n) /\ 2 * (j + 1) - 1 = i + 1
        BY <1>1, <3>4
      <4>2. up.level[j + 1] = here
        BY <2>3, <4>1
      <4>3. up.proof = at.proof
        <5>1. up.proof = at.proof \o <<>>
          BY <2>2, <3>4 DEF Sibling, n
        <5>2. QED
          BY <3>1, <5>1, ConcatEmptySeq DEF IsSequence
      <4>4. QED
        BY <3>1, <4>2, <4>3
    <3>5. QED
      BY <3>2, <3>3, <3>4
  <2>6. Leads(leaf, up)
    BY <2>2, <2>3, <2>4, <2>5 DEF Leads
  <2>7. QED
    BY <2>2, <2>3, <2>4, <2>6
<1>4. Leads(leaf, up)
  <2>1. n = 1 \/ n > 1
    BY <1>1
  <2> HIDE DEF up
  <2>2. QED
    BY <1>2, <1>3, <2>1, Zenon
<1>5. QED
  BY <1>2, <1>3, <1>4, Zenon DEF n, up

\* The target is of no account for the levels, and the rounds are enough for
\* the last level to be the root alone.
LEMMA ProofLeadsToRoot ==
    ASSUME NEW L, NEW leaves \in Seq(L), NEW target \in 0 .. Len(leaves) - 1
    PROVE  /\ IsSequence(ComputeMerkleProof(leaves, target))
           /\ RecomputeRoot(leaves[target + 1], ComputeMerkleProof(leaves, target)) = MerkleRoot(leaves)
<1> DEFINE n == Len(leaves)
           at(k) == Rounds(leaves, target)[k]
           first(k) == Rounds(leaves, 0)[k]
           leaf == leaves[target + 1]
           P == {k \in Nat : /\ Leads(leaf, at(k)) /\ Leads(leaves[1], first(k))
                             /\ at(k).level = first(k).level
                             /\ Len(at(k).level) = 1 \/ Len(at(k).level) + k <= n}
<1>1. n \in Nat /\ n >= 1 /\ 0 \in 0 .. n - 1
  <2>1. n \in Nat
    OBVIOUS
  <2>2. QED
    BY <2>1
<1>2. ASSUME NEW t \in 0 .. n - 1
      PROVE  Leads(leaves[t + 1], Rounds(leaves, t)[0]) /\ Rounds(leaves, t)[0].level = leaves
  <2>1. Rounds(leaves, t)[0] = [level |-> leaves, index |-> t, proof |-> <<>>]
    BY RoundsAre
  <2>2. IsSequence(leaves) /\ IsSequence(<<>>)
    BY EmptySeq DEF IsSequence
  <2>3. RecomputeRoot(leaves[t + 1], <<>>) = leaves[t + 1]
    BY HashesAre, EmptySeq DEF RecomputeRoot
  <2>4. QED
    BY <1>1, <2>1, <2>2, <2>3 DEF Leads
<1> HIDE DEF n, leaf
<1>3. 0 \in P
  <2>1. Leads(leaf, at(0)) /\ at(0).level = leaves
    BY <1>2 DEF leaf, n
  <2>2. Leads(leaves[1], first(0)) /\ first(0).level = leaves
    BY <1>1, <1>2
  <2>3. Len(at(0).level) + 0 <= n
    BY <1>1, <2>1 DEF n
  <2>4. QED
    BY <2>1, <2>2, <2>3
<1>4. \A k \in Nat : k \in P => k + 1 \in P
  <2>1. SUFFICES ASSUME NEW k \in Nat, k \in P PROVE k + 1 \in P
    OBVIOUS
  <2>2. at(k + 1) = NextRound(at(k)) /\ first(k + 1) = NextRound(first(k))
    BY RoundsAre
  <2> HIDE DEF at, first
  <2>3. /\ Leads(leaf, at(k)) /\ Leads(leaves[1], first(k)) /\ at(k).level = first(k).level
        /\ Len(at(k).level) = 1 \/ Len(at(k).level) + k <= n
    BY <2>1
  <2>4. Len(at(k).level) \in Nat /\ Len(at(k).level) >= 1
    <3>1. Len(at(k).level) \in Nat
      BY <2>3 DEF Leads, IsSequence
    <3>2. QED
      BY <2>3, <3>1 DEF Leads
  <2>5. Leads(leaf, at(k + 1)) /\ Leads(leaves[1], first(k + 1))
    BY <2>2, <2>3, RoundLeads
  <2>6. CASE Len(at(k).level) = 1
    <3>1. at(k + 1) = at(k) /\ first(k + 1) = first(k)
      BY <2>2, <2>3, <2>6, RoundLeads
    <3>2. QED
      BY <2>3, <2>5, <2>6, <3>1
  <2>7. CASE Len(at(k).level) > 1
    <3>1. /\ at(k + 1).level = NextLevel(at(k).level) /\ first(k + 1).level = NextLevel(first(k).level)
          /\ Len(at(k + 1).level) < Len(at(k).level)
      BY <2>2, <2>3, <2>7, RoundLeads
    <3>2. Len(at(k + 1).level) \in Nat
      BY <2>5 DEF Leads, IsSequence
    <3>3. Len(at(k + 1).level) + (k + 1) <= n
      <4> DEFINE a == Len(at(k).level)
                 b == Len(at(k + 1).level)
      <4>1. a \in Nat /\ b \in Nat /\ b < a /\ a + k <= n
        <5>1. a = 1 \/ a + k <= n
          BY <2>3, Zenon
        <5>2. b < a /\ a > 1 /\ a \in Nat /\ b \in Nat
          BY <2>4, <2>7, <3>1, <3>2, Zenon
        <5> HIDE DEF a, b
        <5>3. QED
          BY <5>1, <5>2
      <4> HIDE DEF a, b
      <4>2. b + (k + 1) <= n
        BY <1>1, <4>1
      <4>3. QED
        BY <4>2 DEF b
    <3>4. QED
      <4>1. k + 1 \in Nat /\ at(k + 1).level = first(k + 1).level
        BY <2>3, <3>1
      <4>2. QED
        BY <2>5, <3>3, <4>1, Zenon
  <2>8. QED
    <3> DEFINE a == Len(at(k).level)
    <3>1. a \in Nat /\ a >= 1
      BY <2>4
    <3>2. a = 1 \/ a > 1
      <4> HIDE DEF a
      <4> QED
        BY <3>1
    <3>3. QED
      BY <2>6, <2>7, <3>2, Zenon
<1>5. n \in P
  <2> HIDE DEF P
  <2> QED
    BY <1>1, <1>3, <1>4, EveryNumber
<1> HIDE DEF at, first
<1>6. Leads(leaf, at(n)) /\ at(n).level = first(n).level
  BY <1>5
<1>7. Len(at(n).level) = 1 /\ at(n).index = 0
  <2>1. Len(at(n).level) \in Nat /\ Len(at(n).level) >= 1 /\ at(n).index \in 0 .. Len(at(n).level) - 1
    <3>1. Len(at(n).level) \in Nat
      BY <1>6 DEF Leads, IsSequence
    <3>2. QED
      BY <1>6, <3>1 DEF Leads
  <2>2. Len(at(n).level) = 1 \/ Len(at(n).level) + n <= n
    BY <1>5
  <2> DEFINE a == Len(at(n).level)
             b == at(n).index
  <2>3. a \in Nat /\ a >= 1 /\ b \in 0 .. a - 1 /\ (a = 1 \/ a + n <= n)
    BY <2>1, <2>2, Zenon
  <2> HIDE DEF a, b
  <2>4. a = 1 /\ b = 0
    BY <1>1, <2>3
  <2>5. QED
    BY <2>4 DEF a, b
<1>8. RecomputeRoot(leaf, at(n).proof) = first(n).level[1]
  <2>1. at(n).index + 1 = 1
    BY <1>7
  <2>2. QED
    BY <1>6, <2>1 DEF Leads
<1>9. QED
  BY <1>6, <1>8 DEF ComputeMerkleProof, MerkleRoot, Leads, at, first, leaf, n

\* A proof leads from one leaf only: a node has one pair of children.
LEMMA LeadsFromOne ==
    ASSUME NEW leaf, NEW other, NEW proof, Len(proof) \in Nat,
           RecomputeRoot(leaf, proof) = RecomputeRoot(other, proof)
    PROVE  leaf = other
<1> DEFINE n == Len(proof)
           P == {k \in Nat : k <= n => (Hashes(leaf, proof)[k] = Hashes(other, proof)[k] => leaf = other)}
<1> HIDE DEF n
<1>1. 0 \in P
  BY HashesAre
<1>2. \A k \in Nat : k \in P => k + 1 \in P
  <2>1. SUFFICES ASSUME NEW k \in Nat, k \in P, k + 1 <= n,
                        Hashes(leaf, proof)[k + 1] = Hashes(other, proof)[k + 1]
                 PROVE  leaf = other
    OBVIOUS
  <2>2. Combined(Hashes(leaf, proof)[k], proof[k + 1]) = Combined(Hashes(other, proof)[k], proof[k + 1])
    BY <2>1, HashesAre
  <2>3. Hashes(leaf, proof)[k] = Hashes(other, proof)[k]
    BY <2>2 DEF Combined, Node
  <2>4. k <= n
    BY <2>1 DEF n
  <2>5. QED
    BY <2>1, <2>3, <2>4
<1>3. n \in P
  <2> HIDE DEF P
  <2> QED
    BY <1>1, <1>2, EveryNumber DEF n
<1>4. QED
  BY <1>3 DEF RecomputeRoot, n

\* What the lemma asks of the ledger.
BlocksAreTrees ==
    \A b \in DOMAIN blocks : /\ IsSequence(blocks[b].data)
                             /\ blocks[b].dataHash = MerkleRoot(Leaves(blocks[b].data))
IdsAreUnique == \A x, y \in CommittedTxs : x.txId = y.txId => x = y

\* With one id for every transaction, the proof of an event is computed from
\* its own block and position, and leads from no other leaf to the root.
LEMMA ProofsFit ==
    ASSUME BlocksAreTrees, IdsAreUnique
    PROVE  ProofsFitOneLeaf
<1>1. \A b \in DOMAIN blocks : /\ IsSequence(blocks[b].data)
                               /\ blocks[b].dataHash = MerkleRoot(Leaves(blocks[b].data))
  BY DEF BlocksAreTrees
<1>2. \A x, y \in CommittedTxs : x.txId = y.txId => x = y
  BY DEF IdsAreUnique
<1>3. \A b \in DOMAIN blocks : \A x \in Range(blocks[b].data) : x \in CommittedTxs
  BY DEF CommittedTxs
<1>4. SUFFICES ASSUME NEW event \in CommittedTxs
               PROVE  LET proof == GetMerkleProof(event.txId) IN
                      /\ VerifyMerkleProof(proof)
                      /\ \A other \in Range(BlockOf(event.txId).data) \ {event} :
                            ~ VerifyMerkleProof([proof EXCEPT !.txHash = Leaf(other)])
  BY DEF ProofsFitOneLeaf
<1> DEFINE id == event.txId
           block == BlockOf(id)
           place == TxIndex(block, id)
           leaves == Leaves(block.data)
           path == ComputeMerkleProof(leaves, place)
           proof == GetMerkleProof(id)
<1>5. PICK b \in DOMAIN blocks : block = blocks[b] /\ \E tx \in Range(blocks[b].data) : tx.txId = id
  <2>1. \E b \in DOMAIN blocks : \E tx \in Range(blocks[b].data) : tx.txId = id
    BY DEF CommittedTxs
  <2>2. QED
    BY <2>1 DEF BlockOf
<1> HIDE DEF block
<1>6. IsSequence(block.data) /\ block.dataHash = MerkleRoot(leaves)
  BY <1>1, <1>5
<1>7. PICK i \in DOMAIN block.data : place = i - 1 /\ block.data[i].txId = id
  <2>1. \E i \in DOMAIN block.data : block.data[i].txId = id
    BY <1>5 DEF Range
  <2>2. QED
    BY <2>1 DEF TxIndex
<1> HIDE DEF place, id
<1>8. block.data[i] = event
  <2>1. block.data[i] \in CommittedTxs
    BY <1>3, <1>5 DEF Range
  <2>2. QED
    BY <1>2, <1>7, <2>1 DEF id
<1>9. i \in 1 .. Len(block.data) /\ Len(block.data) \in Nat /\ DOMAIN block.data = 1 .. Len(block.data)
  BY <1>6, <1>7 DEF IsSequence
<1>10. /\ leaves \in Seq({Leaf(block.data[k]) : k \in DOMAIN block.data})
       /\ Len(leaves) = Len(block.data) /\ leaves[i] = Leaf(event)
  <2> DEFINE S == {Leaf(block.data[k]) : k \in DOMAIN block.data}
  <2>1. leaves = [k \in DOMAIN block.data |-> Leaf(block.data[k])]
    BY DEF Leaves
  <2>2. leaves \in [1 .. Len(block.data) -> S] /\ leaves[i] = Leaf(event)
    BY <1>8, <1>9, <2>1
  <2> HIDE DEF S, leaves
  <2>3. leaves \in Seq(S) /\ Len(leaves) = Len(block.data)
    BY <1>9, <2>2
  <2>4. QED
    BY <2>2, <2>3, Zenon DEF S
<1> HIDE DEF leaves
<1>11. place \in 0 .. Len(leaves) - 1 /\ place + 1 = i
  BY <1>7, <1>9, <1>10
<1>12. IsSequence(path) /\ RecomputeRoot(Leaf(event), path) = MerkleRoot(leaves)
  BY <1>10, <1>11, ProofLeadsToRoot
<1>13. proof = [txHash |-> Leaf(event), proof |-> path, merkleRoot |-> MerkleRoot(leaves)]
  <2>1. proof = [txHash |-> Leaf(block.data[place + 1]), proof |-> path, merkleRoot |-> block.dataHash]
    BY DEF GetMerkleProof, block, place, leaves, id
  <2>2. QED
    BY <1>6, <1>8, <1>11, <2>1
<1> HIDE DEF path, proof
<1>14. VerifyMerkleProof(proof)
  BY <1>12, <1>13 DEF VerifyMerkleProof
<1>15. ASSUME NEW other \in Range(block.data) \ {event},
              VerifyMerkleProof([proof EXCEPT !.txHash = Leaf(other)])
       PROVE  FALSE
  <2>1. RecomputeRoot(Leaf(other), path) = MerkleRoot(leaves)
    BY <1>13, <1>15 DEF VerifyMerkleProof
  <2>2. Len(path) \in Nat
    BY <1>12 DEF IsSequence
  <2>3. Leaf(other) = Leaf(event)
    BY <1>12, <2>1, <2>2, LeadsFromOne
  <2>4. other.txId = event.txId
    BY <2>3 DEF Leaf
  <2>5. other \in CommittedTxs
    BY <1>3, <1>5
  <2>6. QED
    BY <1>2, <2>4, <2>5
<1>16. QED
  BY <1>14, <1>15 DEF proof, block, id

(***************************************************************************)
(* Sorting.                                                                *)
(***************************************************************************)
StrictOrder(R, S) ==
    /\ \A x \in S : <<x, x>> \notin R
    /\ \A x, y, z \in S : <<x, y>> \in R /\ <<y, z>> \in R => <<x, z>> \in R
    /\ \A x, y \in S : x = y \/ <<x, y>> \in R \/ <<y, x>> \in R

\* InOrder lists every element once, and those before in the order before.
RunsThrough(list, S, R) ==
    /\ list \in Seq(S) /\ Cardinality(S) \in Nat /\ Len(list) = Cardinality(S)
    /\ \A x \in S : \E i \in 1..Cardinality(S) : list[i] = x
    /\ \A i, j \in 1..Cardinality(S) : i < j => <<list[i], list[j]>> \in R

LEMMA InOrderIs ==
    ASSUME NEW S, IsFiniteSet(S), NEW R, StrictOrder(R, S)
    PROVE  RunsThrough(InOrder(S, R), S, R)
<1> DEFINE n == Cardinality(S)
           before(x) == Earlier(x, S, R)
           place == [x \in S |-> Cardinality(before(x)) + 1]
           list == InOrder(S, R)
<1>1. n \in Nat
  BY FS_CardinalityType
<1>2. ASSUME NEW x \in S
      PROVE  IsFiniteSet(before(x)) /\ Cardinality(before(x)) \in Nat /\ place[x] \in 1..n
  <2>1. IsFiniteSet(S \ {x}) /\ Cardinality(S \ {x}) = n - 1
    BY FS_RemoveElement
  <2>2. before(x) \in SUBSET (S \ {x})
    BY DEF Earlier, StrictOrder
  <2> HIDE DEF before
  <2>3. IsFiniteSet(before(x)) /\ Cardinality(before(x)) <= n - 1
    BY <2>1, <2>2, FS_Subset
  <2>4. Cardinality(before(x)) \in Nat
    BY <2>3, FS_CardinalityType
  <2>5. QED
    BY <1>1, <2>3, <2>4
<1>3. ASSUME NEW x \in S, NEW y \in S, <<x, y>> \in R
      PROVE  place[x] < place[y]
  <2>1. x \notin before(x) /\ before(x) \cup {x} \subseteq before(y)
    BY <1>3 DEF Earlier, StrictOrder
  <2> HIDE DEF before
  <2>2. Cardinality(before(x) \cup {x}) = Cardinality(before(x)) + 1
    BY <1>2, <2>1, FS_AddElement
  <2>3. Cardinality(before(x) \cup {x}) <= Cardinality(before(y))
    BY <1>2, <2>1, FS_Subset
  <2>4. QED
    BY <1>2, <2>2, <2>3
<1> HIDE DEF n, before
<1>4. \A x, y \in S : place[x] = place[y] => x = y
  <2>1. \A x, y \in S : place[x] \in Int /\ place[y] \in Int
    BY <1>1, <1>2
  <2> HIDE DEF place
  <2>2. SUFFICES ASSUME NEW x \in S, NEW y \in S, place[x] = place[y] PROVE x = y
    OBVIOUS
  <2>3. ~(place[x] < place[y]) /\ ~(place[y] < place[x])
    BY <2>1, <2>2
  <2>4. <<x, y>> \notin R /\ <<y, x>> \notin R
    BY <1>3, <2>3
  <2>5. QED
    BY <2>4 DEF StrictOrder
<1>5. \A i \in 1..n : \E x \in S : place[x] = i
  <2>1. place \in Injection(S, 1..n)
    <3>1. place \in [S -> 1..n]
      BY <1>2
    <3> HIDE DEF place
    <3>2. QED
      BY <1>4, <3>1 DEF Injection, IsInjective
  <2>2. IsFiniteSet(1..n) /\ Cardinality(1..n) = n
    BY <1>1, FS_Interval
  <2> HIDE DEF place
  <2>3. place \in Surjection(S, 1..n)
    BY <2>1, <2>2, FS_Injection DEF n
  <2>4. QED
    BY <2>3 DEF Surjection
<1>6. \A i \in 1..n : list[i] \in S /\ place[list[i]] = i
  <2>1. TAKE i \in 1..n
  <2>2. list[i] = CHOOSE x \in S : Cardinality(before(x)) = i - 1
    BY DEF InOrder, n, before
  <2>3. PICK x \in S : place[x] = i
    BY <1>5
  <2>4. Cardinality(before(x)) = i - 1
    BY <1>2, <2>3
  <2>5. list[i] \in S /\ Cardinality(before(list[i])) = i - 1
    <3> HIDE DEF list
    <3> QED
      BY <2>2, <2>4
  <2>6. QED
    BY <1>2, <2>5
<1>7. list \in Seq(S) /\ Len(list) = n
  <2>1. list = [i \in 1..n |-> list[i]]
    BY DEF InOrder, n
  <2> HIDE DEF list, place
  <2>2. list \in [1..n -> S]
    BY <1>6, <2>1
  <2>3. QED
    BY <1>1, <2>2
<1> HIDE DEF place, list
<1>8. \A x \in S : \E i \in 1..n : list[i] = x
  <2>1. TAKE x \in S
  <2>2. place[x] \in 1..n
    BY <1>2
  <2>3. list[place[x]] \in S /\ place[list[place[x]]] = place[x]
    BY <1>6, <2>2
  <2>4. QED
    BY <1>4, <2>2, <2>3
<1>9. \A i, j \in 1..n : i < j => <<list[i], list[j]>> \in R
  <2>1. SUFFICES ASSUME NEW i \in 1..n, NEW j \in 1..n, i < j PROVE <<list[i], list[j]>> \in R
    OBVIOUS
  <2>2. list[i] \in S /\ list[j] \in S /\ place[list[i]] = i /\ place[list[j]] = j
    BY <1>6
  <2>3. list[i] # list[j] /\ <<list[j], list[i]>> \notin R
    BY <1>3, <2>1, <2>2
  <2>4. QED
    BY <2>2, <2>3 DEF StrictOrder
<1>10. QED
  BY <1>1, <1>7, <1>8, <1>9 DEF RunsThrough, n, list

\* A list has every member of a set once.
Lists(list, T) ==
    /\ list \in Seq(T)
    /\ \A x \in T : \E i \in 1..Len(list) : list[i] = x
    /\ \A i, j \in 1..Len(list) : list[i] = list[j] => i = j

LEMMA OnceListed ==
    ASSUME NEW T, NEW list, Lists(list, T), NEW x \in T
    PROVE  Cardinality(PlacesOf(x, list)) = 1
<1>1. PICK i \in 1..Len(list) : list[i] = x
  BY DEF Lists
<1>2. DOMAIN list = 1..Len(list)
  BY LenProperties DEF Lists
<1>3. PlacesOf(x, list) = {i}
  BY <1>1, <1>2 DEF Lists, PlacesOf
<1>4. QED
  BY <1>3, FS_Singleton

\* The keys are one for one those of the events of T.
Holds(keys, T) ==
    /\ keys \subseteq DOMAIN world /\ IsFiniteSet(keys)
    /\ \A k \in keys : world[k] \in T
    /\ \A x \in T : \E k \in keys : world[k] = x
    /\ \A k, l \in keys : world[k] = world[l] => k = l

\* The texts of keys in order.
Walks(list, keys, T, R) ==
    /\ Lists(list, T) /\ Len(list) = Cardinality(keys)
    /\ \A i, j \in 1..Len(list) : i < j =>
          \E k, l \in keys : <<k, l>> \in R /\ world[k] = list[i] /\ world[l] = list[j]

LEMMA TextsAre ==
    ASSUME NEW keys, NEW T, Holds(keys, T), NEW R, StrictOrder(R, keys)
    PROVE  Walks(Texts(InOrder(keys, R)), keys, T, R)
<1> DEFINE s == InOrder(keys, R)
           n == Cardinality(keys)
           list == Texts(s)
<1>1. /\ keys \subseteq DOMAIN world /\ IsFiniteSet(keys)
      /\ \A k \in keys : world[k] \in T
      /\ \A x \in T : \E k \in keys : world[k] = x
      /\ \A k, l \in keys : world[k] = world[l] => k = l
  BY DEF Holds
<1>2. /\ s \in Seq(keys) /\ n \in Nat /\ Len(s) = n
      /\ \A k \in keys : \E i \in 1..n : s[i] = k
      /\ \A i, j \in 1..n : i < j => <<s[i], s[j]>> \in R
  BY <1>1, InOrderIs DEF RunsThrough
<1> HIDE DEF s, n
<1>3. DOMAIN s = 1..n /\ \A i \in 1..n : s[i] \in keys
  BY <1>2, LenProperties, ElementOfSeq
<1>4. list = [i \in 1..n |-> world[s[i]]]
  BY <1>3 DEF Texts
<1> HIDE DEF list
<1>5. list \in Seq(T) /\ Len(list) = n
  <2>1. list \in [1..n -> T]
    BY <1>1, <1>3, <1>4
  <2>2. QED
    BY <1>2, <2>1
<1>6. \A x \in T : \E i \in 1..n : list[i] = x
  <2>1. TAKE x \in T
  <2>2. PICK k \in keys : world[k] = x
    BY <1>1
  <2>3. PICK i \in 1..n : s[i] = k
    BY <1>2
  <2>4. QED
    BY <1>4, <2>2, <2>3
<1>7. \A i, j \in 1..n : list[i] = list[j] => i = j
  <2>1. SUFFICES ASSUME NEW i \in 1..n, NEW j \in 1..n, list[i] = list[j] PROVE i = j
    OBVIOUS
  <2>2. s[i] = s[j]
    BY <1>1, <1>3, <1>4, <2>1
  <2>3. ~(i < j) /\ ~(j < i)
    BY <1>2, <1>3, <2>2 DEF StrictOrder
  <2>4. QED
    BY <2>3, <1>2
<1>8. \A i, j \in 1..n : i < j =>
         \E k, l \in keys : <<k, l>> \in R /\ world[k] = list[i] /\ world[l] = list[j]
  BY <1>2, <1>3, <1>4
<1>9. Lists(list, T)
  BY <1>5, <1>6, <1>7 DEF Lists
<1>10. \A i, j \in 1..Len(list) : i < j =>
         \E k, l \in keys : <<k, l>> \in R /\ world[k] = list[i] /\ world[l] = list[j]
  BY <1>5, <1>8
<1>11. QED
  BY <1>5, <1>9, <1>10, Zenon DEF Walks, list, s, n
\* The stable sort of a list.
StablySorted(sorted, list) ==
    \A i, j \in 1..Len(list) : i < j =>
        \E a, b \in 1..Len(list) :
           /\ sorted[i] = list[a] /\ sorted[j] = list[b]
           /\ \/ list[a].event.time < list[b].event.time
              \/ list[a].event.time = list[b].event.time /\ a < b

LEMMA ByTimeIs ==
    ASSUME NEW T, NEW list, Lists(list, T), \A x \in T : x.event.time \in Nat
    PROVE  /\ Lists(ByTime(list), T) /\ Len(ByTime(list)) = Len(list)
           /\ StablySorted(ByTime(list), list)
<1> DEFINE n == Len(list)
           R == StableOrder(list)
           s == InOrder(1..n, R)
           sorted == ByTime(list)
<1>1. n \in Nat /\ DOMAIN list = 1..n /\ \A a \in 1..n : list[a] \in T
  BY LenProperties, ElementOfSeq DEF Lists
<1>2. IsFiniteSet(1..n) /\ Cardinality(1..n) = n
  BY <1>1, FS_Interval
<1> DEFINE t == [a \in 1..n |-> list[a].event.time]
<1>3. \A a \in 1..n : t[a] \in Nat
  <2>1. \A a \in 1..n : list[a].event.time \in Nat
    BY <1>1
  <2>2. QED
    BY <2>1
<1>4. \A a, b \in 1..n : <<a, b>> \in R <=> t[a] < t[b] \/ (t[a] = t[b] /\ a < b)
  <2>1. R = {pair \in (1..n) \X (1..n) :
                LET time == list[pair[1]].event.time
                    other == list[pair[2]].event.time
                IN  time < other \/ (time = other /\ pair[1] < pair[2])}
    BY <1>1 DEF StableOrder
  <2> HIDE DEF R, n
  <2>2. QED
    BY <2>1
<1> HIDE DEF R
<1>5. StrictOrder(R, 1..n)
  <2> HIDE DEF n, t
  <2>1. \A a \in 1..n : <<a, a>> \notin R
    BY <1>1, <1>3, <1>4
  <2>2. ASSUME NEW a \in 1..n, NEW b \in 1..n, NEW c \in 1..n, <<a, b>> \in R, <<b, c>> \in R
        PROVE  <<a, c>> \in R
    <3>1. t[a] \in Nat /\ t[b] \in Nat /\ t[c] \in Nat /\ a \in Int /\ b \in Int /\ c \in Int
      BY <1>3
    <3>2. (t[a] < t[b] \/ (t[a] = t[b] /\ a < b)) /\ (t[b] < t[c] \/ (t[b] = t[c] /\ b < c))
      BY <1>4, <2>2
    <3>3. t[a] < t[c] \/ (t[a] = t[c] /\ a < c)
      BY <3>1, <3>2
    <3>4. QED
      BY <1>4, <3>3
  <2>3. ASSUME NEW a \in 1..n, NEW b \in 1..n PROVE a = b \/ <<a, b>> \in R \/ <<b, a>> \in R
    <3>1. t[a] \in Nat /\ t[b] \in Nat /\ a \in Int /\ b \in Int
      BY <1>3
    <3>2. a = b \/ t[a] < t[b] \/ (t[a] = t[b] /\ a < b) \/ t[b] < t[a] \/ (t[b] = t[a] /\ b < a)
      BY <3>1
    <3>3. QED
      BY <1>4, <3>2
  <2>4. QED
    BY <2>1, <2>2, <2>3 DEF StrictOrder
<1>6. /\ s \in Seq(1..n) /\ Len(s) = n
      /\ \A a \in 1..n : \E i \in 1..n : s[i] = a
      /\ \A i, j \in 1..n : i < j => <<s[i], s[j]>> \in R
  <2> HIDE DEF n, s
  <2>1. RunsThrough(s, 1..n, R)
    BY <1>2, <1>5, InOrderIs, Zenon DEF s
  <2>2. QED
    BY <1>2, <2>1 DEF RunsThrough
<1>7. sorted = [i \in DOMAIN s |-> list[s[i]]]
  BY <1>1 DEF ByTime, R
<1> HIDE DEF s, n, sorted
<1>8. DOMAIN s = 1..n /\ \A i \in 1..n : s[i] \in 1..n
  BY <1>6, LenProperties, ElementOfSeq
<1>9. sorted \in Seq(T) /\ Len(sorted) = n
  <2>1. sorted \in [1..n -> T]
    BY <1>1, <1>7, <1>8
  <2>2. QED
    BY <1>1, <2>1
<1>10. \A x \in T : \E i \in 1..n : sorted[i] = x
  <2>1. TAKE x \in T
  <2>2. PICK a \in 1..n : list[a] = x
    BY DEF Lists, n
  <2>3. PICK i \in 1..n : s[i] = a
    BY <1>6
  <2>4. QED
    BY <1>7, <1>8, <2>2, <2>3
<1>11. \A i, j \in 1..n : sorted[i] = sorted[j] => i = j
  <2>1. SUFFICES ASSUME NEW i \in 1..n, NEW j \in 1..n, sorted[i] = sorted[j] PROVE i = j
    OBVIOUS
  <2>2. s[i] = s[j]
    <3>1. list[s[i]] = list[s[j]]
      BY <1>7, <1>8, <2>1
    <3>2. QED
      BY <1>8, <3>1 DEF Lists, n
  <2>3. ~(i < j) /\ ~(j < i)
    BY <1>5, <1>6, <1>8, <2>2 DEF StrictOrder
  <2>4. QED
    BY <1>1, <2>3
<1>12. ASSUME NEW i \in 1..n, NEW j \in 1..n, i < j
       PROVE  \E a, b \in 1..n :
                 /\ sorted[i] = list[a] /\ sorted[j] = list[b]
                 /\ \/ list[a].event.time < list[b].event.time
                    \/ list[a].event.time = list[b].event.time /\ a < b
  <2>1. <<s[i], s[j]>> \in R /\ s[i] \in 1..n /\ s[j] \in 1..n
    BY <1>6, <1>8, <1>12
  <2>2. t[s[i]] < t[s[j]] \/ (t[s[i]] = t[s[j]] /\ s[i] < s[j])
    BY <1>4, <2>1
  <2>3. sorted[i] = list[s[i]] /\ sorted[j] = list[s[j]]
    BY <1>7, <1>8
  <2>4. QED
    BY <2>1, <2>2, <2>3
<1>13. Lists(sorted, T)
  BY <1>9, <1>10, <1>11 DEF Lists
<1>14. QED
  BY <1>9, <1>12, <1>13 DEF StablySorted, n, sorted

\* In the order of time, and of equal times in that of the ids.
Precedes(x, y) ==
    \/ x.event.time < y.event.time
    \/ x.event.time = y.event.time /\ x.event.id < y.event.id
InTrailOrder(list) == \A i, j \in 1..Len(list) : i < j => Precedes(list[i], list[j])

\* What is in the order of ids, at least where times are equal, is in that
\* order once it is sorted.
TiesById(list) ==
    \A i, j \in 1..Len(list) :
        i < j /\ list[i].event.time = list[j].event.time => list[i].event.id < list[j].event.id

LEMMA SortedInOrder ==
    ASSUME NEW T, NEW list, Lists(list, T), \A x \in T : x.event.time \in Nat, TiesById(list)
    PROVE  Lists(ByTime(list), T) /\ Len(ByTime(list)) = Len(list) /\ InTrailOrder(ByTime(list))
<1>1. /\ Lists(ByTime(list), T) /\ Len(ByTime(list)) = Len(list)
      /\ StablySorted(ByTime(list), list)
  BY ByTimeIs, Zenon
<1>2. ASSUME NEW i \in 1..Len(list), NEW j \in 1..Len(list), i < j
      PROVE  Precedes(ByTime(list)[i], ByTime(list)[j])
  <2>1. PICK a \in 1..Len(list), b \in 1..Len(list) :
           /\ ByTime(list)[i] = list[a] /\ ByTime(list)[j] = list[b]
           /\ \/ list[a].event.time < list[b].event.time
              \/ list[a].event.time = list[b].event.time /\ a < b
    BY <1>1, <1>2 DEF StablySorted
  <2>2. QED
    BY <2>1 DEF Precedes, TiesById
<1>3. QED
  BY <1>1, <1>2 DEF InTrailOrder

LEMMA OrderedTies ==
    ASSUME NEW T, NEW list, Lists(list, T), \A x \in T : x.event.time \in Nat, InTrailOrder(list)
    PROVE  TiesById(list)
<1>1. SUFFICES ASSUME NEW i \in 1..Len(list), NEW j \in 1..Len(list), i < j,
                      list[i].event.time = list[j].event.time
               PROVE  list[i].event.id < list[j].event.id
  BY DEF TiesById
<1>2. list[i] \in T
  BY ElementOfSeq DEF Lists
<1> DEFINE t == list[i].event.time
<1>3. t \in Nat
  BY <1>2
<1>4. t < list[j].event.time \/ list[i].event.id < list[j].event.id
  BY <1>1 DEF InTrailOrder, Precedes
<1>5. t = list[j].event.time
  BY <1>1
<1> HIDE DEF t
<1>6. ~(t < list[j].event.time)
  BY <1>3, <1>5
<1>7. QED
  BY <1>4, <1>6

\* Two lists in that order agree on what they share.
LEMMA OrdersAgree ==
    ASSUME NEW T, \A x \in T : x.event.time \in Nat /\ x.event.id \in Nat,
           NEW list, NEW other, list \in Seq(T), other \in Seq(T),
           InTrailOrder(list), InTrailOrder(other), NEW a, NEW b, Before(a, b, list)
    PROVE  ~ Before(b, a, other)
<1>1. PICK i \in 1..Len(list), j \in 1..Len(list) : list[i] = a /\ list[j] = b /\ i < j
  BY LenProperties DEF Before, PlacesOf
<1>2. Precedes(a, b) /\ a \in T /\ b \in T
  BY <1>1, ElementOfSeq DEF InTrailOrder
<1>3. SUFFICES ASSUME Before(b, a, other) PROVE FALSE
  OBVIOUS
<1>4. PICK i2 \in 1..Len(other), j2 \in 1..Len(other) : other[i2] = b /\ other[j2] = a /\ i2 < j2
  BY <1>3, LenProperties DEF Before, PlacesOf
<1>5. Precedes(b, a)
  BY <1>4 DEF InTrailOrder
<1> DEFINE s == a.event.time  t == b.event.time  p == a.event.id  q == b.event.id
<1>6. s \in Nat /\ t \in Nat /\ p \in Nat /\ q \in Nat
  BY <1>2
<1>7. (s < t \/ (s = t /\ p < q)) /\ (t < s \/ (t = s /\ q < p))
  BY <1>2, <1>5 DEF Precedes
<1> HIDE DEF s, t, p, q
<1>8. QED
  BY <1>6, <1>7

(***************************************************************************)
(* The audit trail: its inductive invariant.                               *)
(***************************************************************************)
TrailEvent == [exam : Exams, type : Types, time : Nat, id : Nat]
Endorsement == [at : {"endorsed"}, event : TrailEvent]
Commitment == [at : {"committing"}, txId : Nat]
Endorsed == {d \in Clients : call[d].at = "endorsed"}

TrailType ==
    /\ LedgerOver(TrailEvent) /\ instant \in Nat
    /\ call \in [Clients -> {NoCall} \cup Endorsement \cup Commitment]
    /\ txs + Cardinality(Endorsed) <= Len(HashRank)

\* A transaction has one id, and its event the id of that.
TrailIds ==
    \A x \in Known : /\ x.txId \in 1..txs /\ x.event.id = HashRank[x.txId]
                     /\ \A y \in Known : x.txId = y.txId => x = y

\* The chaincode's state has the keys of what is committed, and no other.
WorldIs ==
    /\ DOMAIN world = UNION {KeysOf(x.event) : x \in CommittedTxs}
    /\ \A x \in CommittedTxs : \A k \in KeysOf(x.event) : world[k] = x

ToldIsCommitted == \A id \in told : IsCommitted(id)

TrailInv == TrailType /\ TrailIds /\ WorldIs /\ ToldIsCommitted

LEMMA EndorsedIsFinite == IsFiniteSet(Endorsed) /\ Cardinality(Endorsed) \in Nat
<1>1. IsFiniteSet(Clients) /\ Endorsed \in SUBSET Clients
  BY TrailAssumption DEF Endorsed
<1>2. IsFiniteSet(Endorsed)
  BY <1>1, FS_Subset
<1>3. QED
  BY <1>2, FS_CardinalityType

LEMMA RanksAre ==
    /\ Len(HashRank) \in Nat
    /\ \A i \in 1..Len(HashRank) : HashRank[i] \in Nat
    /\ \A i, j \in 1..Len(HashRank) : HashRank[i] = HashRank[j] => i = j
<1>1. HashRank \in Seq(Nat) /\ IsInjective(HashRank)
  BY TrailAssumption
<1>2. DOMAIN HashRank = 1..Len(HashRank) /\ Len(HashRank) \in Nat
  BY <1>1, LenProperties
<1>3. QED
  BY <1>1, <1>2, ElementOfSeq DEF IsInjective

\* What is known is a transaction of the trail, ...
LEMMA KnownAre ==
    ASSUME TrailType
    PROVE  \A x \in Known : x \in TxOver(TrailEvent)
<1>1. \A x \in Range(pending) : x \in TxOver(TrailEvent)
  BY LenProperties, ElementOfSeq DEF TrailType, LedgerOver, Range
<1>2. ASSUME NEW x \in CommittedTxs PROVE x \in TxOver(TrailEvent)
  <2>1. PICK b \in DOMAIN blocks : x \in Range(blocks[b].data)
    BY DEF CommittedTxs
  <2>2. blocks[b] \in BlockOver(TrailEvent)
    BY <2>1, LenProperties, ElementOfSeq DEF TrailType, LedgerOver
  <2>3. blocks[b].data \in Seq(TxOver(TrailEvent))
    BY <2>2 DEF BlockOver
  <2>4. QED
    BY <2>1, <2>3, LenProperties, ElementOfSeq DEF Range
<1>3. QED
  BY <1>1, <1>2 DEF Known

\* ... and two of them do not share a key.
LEMMA KeysAreOwn ==
    ASSUME TrailType, TrailIds, NEW x \in Known, NEW y \in Known, NEW k,
           k \in KeysOf(x.event), k \in KeysOf(y.event)
    PROVE  x = y
<1>1. k[3] = x.event.id /\ k[3] = y.event.id
  BY DEF KeysOf
<1>2. HashRank[x.txId] = HashRank[y.txId]
  BY <1>1 DEF TrailIds
<1>3. x.txId \in 1..Len(HashRank) /\ y.txId \in 1..Len(HashRank)
  <2> DEFINE n == Len(HashRank)  c == Cardinality(Endorsed)
  <2>1. x.txId \in 1..txs /\ y.txId \in 1..txs
    BY DEF TrailIds
  <2>2. txs \in Nat /\ n \in Nat /\ c \in Nat /\ txs + c <= n
    BY RanksAre, EndorsedIsFinite DEF TrailType, LedgerOver
  <2> HIDE DEF n, c
  <2>3. x.txId \in 1..n /\ y.txId \in 1..n
    BY <2>1, <2>2
  <2>4. QED
    BY <2>3 DEF n
<1>4. x.txId = y.txId
  BY <1>2, <1>3, RanksAre
<1>5. QED
  BY <1>4 DEF TrailIds

\* The writer of a key is one of the block that has it.
LEMMA WriterIs ==
    ASSUME NEW T, NEW data \in Seq(T), NEW k \in WrittenBy(data)
    PROVE  Writer(data, k) \in Range(data) /\ k \in KeysOf(Writer(data, k).event)
<1> DEFINE S == {i \in DOMAIN data : k \in KeysOf(data[i].event)}
           n == Len(data)
<1>1. n \in Nat /\ DOMAIN data = 1..n
  BY LenProperties
<1>2. S # {}
  BY DEF WrittenBy
<1> HIDE DEF n
<1>3. S \in SUBSET (0..n)
  BY <1>1
<1>4. Max(S) \in S
  <2> HIDE DEF S
  <2>1. Newest(S) \in S
    BY <1>1, <1>2, <1>3, NewestIs
  <2>2. QED
    BY <1>2, <2>1 DEF Newest
<1>5. Writer(data, k) = data[Max(S)]
  BY DEF Writer
<1>6. QED
  BY <1>4, <1>5 DEF Range

\* What is written is the keys of the block's events.
LEMMA WrittenIs ==
    ASSUME NEW data
    PROVE  WrittenBy(data) = UNION {KeysOf(x.event) : x \in Range(data)}
BY DEF WrittenBy, Range

(***************************************************************************)
(* Its steps.                                                              *)
(***************************************************************************)
LEMMA TrailInits == TrailInit => TrailInv
<1> SUFFICES ASSUME TrailInit PROVE TrailInv
  OBVIOUS
<1>1. pending = <<>> /\ blocks = <<>> /\ txs = 0 /\ world = <<>> /\ told = {}
      /\ instant = 1 /\ call = [c \in Clients |-> NoCall]
  BY DEF TrailInit, ReadersInit
<1>2. Range(pending) = {} /\ CommittedTxs = {} /\ DOMAIN world = {}
  <2>1. DOMAIN <<>> = 1..0 /\ 1..0 = {}
    BY EmptySeq, LenProperties
  <2>2. QED
    BY <1>1, <2>1 DEF Range, CommittedTxs
<1>3. Known = {}
  BY <1>2 DEF Known
<1>4. Endorsed = {}
  BY <1>1 DEF Endorsed, NoCall
<1>5. TrailType
  <2>1. Cardinality(Endorsed) = 0
    BY <1>4, FS_EmptySet
  <2>2. LedgerOver(TrailEvent)
    BY <1>1, EmptySeq DEF LedgerOver
  <2>3. txs + Cardinality(Endorsed) <= Len(HashRank)
    BY <1>1, <2>1, RanksAre
  <2>4. QED
    BY <1>1, <2>2, <2>3 DEF TrailType
<1>6. TrailIds
  BY <1>3 DEF TrailIds
<1>7. WorldIs
  BY <1>2 DEF WorldIs
<1>8. ToldIsCommitted
  BY <1>1 DEF ToldIsCommitted
<1>9. QED
  BY <1>5, <1>6, <1>7, <1>8 DEF TrailInv

\* A step that leaves the ledger leaves what is known of it.
LEMMA LedgerStays ==
    ASSUME TrailInv, UNCHANGED <<ledger, world>>
    PROVE  /\ CommittedTxs' = CommittedTxs /\ Known' = Known
           /\ LedgerOver(TrailEvent)' /\ TrailIds' /\ WorldIs'
<1>1. pending' = pending /\ blocks' = blocks /\ txs' = txs /\ world' = world
  BY DEF ledger
<1>2. CommittedTxs' = CommittedTxs
  BY <1>1 DEF CommittedTxs
<1>3. Known' = Known
  BY <1>1, <1>2 DEF Known
<1>4. LedgerOver(TrailEvent)'
  BY <1>1 DEF TrailInv, TrailType, LedgerOver
<1>5. TrailIds'
  BY <1>1, <1>3 DEF TrailInv, TrailIds
<1>6. WorldIs'
  BY <1>1, <1>2 DEF TrailInv, WorldIs
<1>7. QED
  BY <1>2, <1>3, <1>4, <1>5, <1>6

\* A call that ends was endorsed or was not.
LEMMA CallEnds ==
    ASSUME TrailType, NEW c \in Clients, Ends(c), txs' = txs
    PROVE  /\ call' \in [Clients -> {NoCall} \cup Endorsement \cup Commitment]
           /\ txs' + Cardinality(Endorsed') <= Len(HashRank)
           /\ call[c].at = "endorsed" => Cardinality(Endorsed') = Cardinality(Endorsed) - 1
<1>1. call \in [Clients -> {NoCall} \cup Endorsement \cup Commitment]
  BY DEF TrailType
<1>2. /\ call' = [call EXCEPT ![c] = NoCall]
      /\ call' \in [Clients -> {NoCall} \cup Endorsement \cup Commitment]
  BY <1>1 DEF Ends
<1>3. Endorsed' = Endorsed \ {c}
  BY <1>1, <1>2 DEF Endorsed, NoCall
<1> DEFINE n == Len(HashRank)  k == Cardinality(Endorsed)
<1>4. Cardinality(Endorsed \ {c}) = IF c \in Endorsed THEN k - 1 ELSE k
  BY EndorsedIsFinite, FS_RemoveElement
<1>5. k \in Nat /\ txs \in Nat /\ n \in Nat /\ txs + k <= n
  BY EndorsedIsFinite, RanksAre DEF TrailType, LedgerOver
<1> HIDE DEF n, k
<1>6. txs + Cardinality(Endorsed \ {c}) <= n
  BY <1>4, <1>5
<1>7. call[c].at = "endorsed" => c \in Endorsed
  BY DEF Endorsed
<1>8. QED
  BY <1>2, <1>3, <1>4, <1>6, <1>7 DEF n, k

LEMMA ProposeKeeps ==
    ASSUME TrailInv, NEW c \in Clients, Propose(c)
    PROVE  TrailInv'
<1>1. UNCHANGED <<ledger, world>> /\ instant' = instant /\ told' = told
  BY DEF Propose
<1>2. /\ CommittedTxs' = CommittedTxs /\ LedgerOver(TrailEvent)' /\ TrailIds' /\ WorldIs'
  BY <1>1, LedgerStays
<1>3. ToldIsCommitted'
  BY <1>1, <1>2 DEF TrailInv, ToldIsCommitted, IsCommitted
<1>4. /\ call \in [Clients -> {NoCall} \cup Endorsement \cup Commitment] /\ instant \in Nat
      /\ txs + Cardinality(Endorsed) <= Len(HashRank) /\ txs \in Nat
  BY DEF TrailInv, TrailType, LedgerOver
<1>5. /\ call' \in [Clients -> {NoCall} \cup Endorsement \cup Commitment]
      /\ txs' + Cardinality(Endorsed') <= Len(HashRank)
  <2>1. PICK exam \in Exams, type \in Types :
          IF type \in ValidTypes
          THEN call' = [call EXCEPT ![c] = [at |-> "endorsed",
                   event |-> [exam |-> exam, type |-> type, time |-> instant, id |-> 0]]]
          ELSE UNCHANGED call
    BY DEF Propose
  <2>2. txs' = txs
    BY <1>1 DEF ledger
  <2>3. CASE type \notin ValidTypes
    <3>1. call' = call
      BY <2>1, <2>3
    <3>2. QED
      BY <1>4, <2>2, <3>1 DEF Endorsed
  <2>4. CASE type \in ValidTypes
    <3> DEFINE e == [at |-> "endorsed",
                     event |-> [exam |-> exam, type |-> type, time |-> instant, id |-> 0]]
    <3>1. e \in Endorsement /\ e.at = "endorsed"
      BY <1>4 DEF Endorsement, TrailEvent
    <3> HIDE DEF e
    <3>2. call' = [call EXCEPT ![c] = e]
      BY <2>1, <2>4 DEF e
    <3>3. Endorsed' = Endorsed \cup {c}
      BY <1>4, <3>1, <3>2 DEF Endorsed
    <3> DEFINE n == Len(HashRank)  k == Cardinality(Endorsed)
    <3>4. k \in Nat /\ txs \in Nat /\ n \in Nat /\ txs + k < n
      BY <1>4, EndorsedIsFinite, RanksAre DEF Propose, Endorsed
    <3>5. Cardinality(Endorsed \cup {c}) = IF c \in Endorsed THEN k ELSE k + 1
      BY EndorsedIsFinite, FS_AddElement
    <3> HIDE DEF n, k
    <3>6. txs + Cardinality(Endorsed \cup {c}) <= n
      BY <3>4, <3>5
    <3>7. QED
      BY <1>4, <2>2, <3>1, <3>2, <3>3, <3>6 DEF n
  <2>5. QED
    BY <2>3, <2>4
<1>6. TrailType'
  BY <1>1, <1>2, <1>4, <1>5 DEF TrailType
<1>7. QED
  BY <1>2, <1>3, <1>6 DEF TrailInv

\* A call that ends without a transaction more.
LEMMA EndKeeps ==
    ASSUME TrailInv, NEW c \in Clients, Ends(c), UNCHANGED <<ledger, world, instant>>,
           told' \subseteq told \cup {id \in Nat : IsCommitted(id)}
    PROVE  TrailInv'
<1>1. /\ CommittedTxs' = CommittedTxs /\ LedgerOver(TrailEvent)' /\ TrailIds' /\ WorldIs'
  BY LedgerStays
<1>2. \A id : IsCommitted(id)' <=> IsCommitted(id)
  BY <1>1 DEF IsCommitted
<1>3. ToldIsCommitted'
  BY <1>2 DEF TrailInv, ToldIsCommitted
<1>4. TrailType'
  <2>1. txs' = txs /\ instant' = instant /\ TrailType
    BY DEF ledger, TrailInv
  <2>2. QED
    BY <1>1, <2>1, CallEnds DEF TrailType
<1>5. QED
  BY <1>1, <1>3, <1>4 DEF TrailInv

LEMMA SubmitKeeps ==
    ASSUME TrailInv, NEW c \in Clients, Submit(c)
    PROVE  TrailInv'
<1> DEFINE rank == EventId(txs + 1, call[c].event.time)
           event == [call[c].event EXCEPT !.id = rank]
           tx == [txId |-> txs + 1, event |-> event]
<1>1. /\ call[c].at = "endorsed" /\ RecordEvent(event)
      /\ call' = [call EXCEPT ![c] = [at |-> "committing", txId |-> txs + 1]]
      /\ world' = world /\ instant' = instant /\ told' = told
  BY DEF Submit
<1>2. /\ call \in [Clients -> {NoCall} \cup Endorsement \cup Commitment] /\ instant \in Nat
      /\ LedgerOver(TrailEvent) /\ txs \in Nat /\ txs + Cardinality(Endorsed) <= Len(HashRank)
  BY DEF TrailInv, TrailType, LedgerOver
<1>3. c \in Endorsed /\ Endorsed' = Endorsed \ {c}
  BY <1>1, <1>2 DEF Endorsed
<1>4. txs + 1 \in 1..Len(HashRank) /\ txs + 1 + Cardinality(Endorsed') <= Len(HashRank)
  <2> DEFINE n == Len(HashRank)  k == Cardinality(Endorsed)
  <2>1. k \in Nat /\ txs \in Nat /\ n \in Nat /\ txs + k <= n
    BY <1>2, EndorsedIsFinite, RanksAre
  <2>2. Cardinality(Endorsed \ {c}) = k - 1 /\ Cardinality(Endorsed \ {c}) \in Nat
    <3>1. IsFiniteSet(Endorsed \ {c}) /\ Cardinality(Endorsed \ {c}) = k - 1
      BY <1>3, EndorsedIsFinite, FS_RemoveElement
    <3>2. QED
      BY <3>1, FS_CardinalityType
  <2> HIDE DEF n, k
  <2>3. txs + 1 \in 1..n /\ txs + 1 + Cardinality(Endorsed \ {c}) <= n
    BY <2>1, <2>2
  <2>4. QED
    BY <1>3, <2>3 DEF n
<1>5. rank = HashRank[txs + 1] /\ rank \in Nat
  BY <1>4, RanksAre DEF EventId
<1>6. event \in TrailEvent /\ event.id = rank
  <2>1. call[c] \in Endorsement
    BY <1>1, <1>2 DEF NoCall, Commitment
  <2>2. call[c].event \in TrailEvent
    BY <2>1 DEF Endorsement
  <2> HIDE DEF rank
  <2>3. QED
    BY <1>5, <2>2 DEF TrailEvent
<1> HIDE DEF event, rank
<1>7. /\ pending' \in Seq(TxOver(TrailEvent)) /\ blocks' = blocks /\ txs' = txs + 1
      /\ Known' = Known \cup {tx} /\ CommittedTxs' = CommittedTxs
  BY <1>1, <1>2, <1>6, EventIsOrdered
<1>8. TrailType'
  <2>1. LedgerOver(TrailEvent)'
    BY <1>2, <1>7 DEF LedgerOver
  <2>2. [at |-> "committing", txId |-> txs + 1] \in Commitment
    BY <1>2 DEF Commitment
  <2>3. call' \in [Clients -> {NoCall} \cup Endorsement \cup Commitment]
    BY <1>1, <1>2, <2>2
  <2>4. QED
    BY <1>1, <1>2, <1>4, <1>7, <2>1, <2>3 DEF TrailType
<1>9. TrailIds'
  <2>1. \A x \in Known : /\ x.txId \in 1..txs /\ x.event.id = HashRank[x.txId]
                         /\ \A y \in Known : x.txId = y.txId => x = y
    BY DEF TrailInv, TrailIds
  <2>2. tx.txId = txs + 1 /\ tx.event.id = HashRank[tx.txId]
    BY <1>5, <1>6
  <2> HIDE DEF tx
  <2>3. \A x \in Known : x.txId \in 1..txs + 1 /\ x.txId # tx.txId
    BY <1>2, <2>1, <2>2
  <2>4. tx.txId \in 1..txs + 1
    BY <1>2, <2>2
  <2>5. \A x \in Known' : /\ x.txId \in 1..txs + 1 /\ x.event.id = HashRank[x.txId]
                          /\ \A y \in Known' : x.txId = y.txId => x = y
    <3> SUFFICES ASSUME NEW x \in Known \cup {tx}
                 PROVE  /\ x.txId \in 1..txs + 1 /\ x.event.id = HashRank[x.txId]
                        /\ \A y \in Known \cup {tx} : x.txId = y.txId => x = y
      BY <1>7
    <3>1. CASE x = tx
      BY <2>2, <2>3, <2>4, <3>1
    <3>2. CASE x \in Known
      BY <2>1, <2>3, <3>2
    <3>3. QED
      BY <3>1, <3>2
  <2>6. QED
    BY <1>7, <2>5 DEF TrailIds
<1>10. WorldIs'
  BY <1>1, <1>7 DEF TrailInv, WorldIs
<1>11. ToldIsCommitted'
  BY <1>1, <1>7 DEF TrailInv, ToldIsCommitted, IsCommitted
<1>12. QED
  BY <1>8, <1>9, <1>10, <1>11 DEF TrailInv

\* A commit adds the keys of its transactions, which nothing had.
LEMMA CutKeeps ==
    ASSUME TrailInv, Cut
    PROVE  TrailInv'
<1> DEFINE data == Last(blocks').data
<1>1. /\ CutBlock /\ world' = Put(world, data)
      /\ instant' = instant /\ call' = call /\ told' = told
  BY DEF Cut
<1>2. TrailType /\ TrailIds /\ WorldIs /\ ToldIsCommitted /\ LedgerOver(TrailEvent)
  BY DEF TrailInv, TrailType
<1>3. /\ pending' \in Seq(TxOver(TrailEvent)) /\ blocks' \in Seq(BlockOver(TrailEvent)) /\ txs' = txs
      /\ Known' = Known /\ data \in Seq(TxOver(TrailEvent))
      /\ CommittedTxs' = CommittedTxs \cup Range(data)
  BY <1>1, <1>2, BlockIsCut
<1> HIDE DEF data
<1>4. TrailType'
  <2>1. LedgerOver(TrailEvent)'
    BY <1>2, <1>3 DEF LedgerOver
  <2>2. Endorsed' = Endorsed
    BY <1>1 DEF Endorsed
  <2>3. QED
    BY <1>1, <1>2, <1>3, <2>1, <2>2 DEF TrailType
<1>5. TrailIds'
  BY <1>2, <1>3 DEF TrailIds
<1>6. WrittenBy(data) = UNION {KeysOf(x.event) : x \in Range(data)}
  BY WrittenIs
<1>7. world' = [k \in DOMAIN world \union WrittenBy(data) |->
                  IF k \in WrittenBy(data) THEN Writer(data, k) ELSE world[k]]
  BY <1>1 DEF Put
<1>8. CommittedTxs' \subseteq Known'
  BY DEF Known
<1>9. ASSUME NEW x \in CommittedTxs', NEW k \in KeysOf(x.event)
      PROVE  k \in DOMAIN world' /\ world'[k] = x
  <2>1. CASE k \in WrittenBy(data)
    <3>1. Writer(data, k) \in Range(data) /\ k \in KeysOf(Writer(data, k).event)
      BY <1>3, <2>1, WriterIs
    <3> DEFINE w == Writer(data, k)
    <3>2. w \in Known /\ x \in Known
      BY <1>3, <1>8, <1>9, <3>1
    <3>3. w \in Range(data) /\ k \in KeysOf(w.event)
      BY <3>1
    <3>4. world'[k] = w /\ k \in DOMAIN world'
      BY <1>7, <2>1
    <3> HIDE DEF w
    <3>5. x = w
      BY <1>2, <1>9, <3>2, <3>3, KeysAreOwn
    <3>6. QED
      BY <3>4, <3>5
  <2>2. CASE k \notin WrittenBy(data)
    <3>1. x \in CommittedTxs
      BY <1>3, <1>6, <1>9, <2>2
    <3>2. k \in DOMAIN world /\ world[k] = x
      BY <1>2, <1>9, <3>1 DEF WorldIs
    <3>3. QED
      BY <1>7, <2>2, <3>2
  <2>3. QED
    BY <2>1, <2>2
<1>10. DOMAIN world' = UNION {KeysOf(x.event) : x \in CommittedTxs'}
  <2>1. DOMAIN world' = DOMAIN world \cup WrittenBy(data)
    BY <1>7
  <2>2. DOMAIN world = UNION {KeysOf(x.event) : x \in CommittedTxs}
    BY <1>2 DEF WorldIs
  <2>3. QED
    BY <1>3, <1>6, <2>1, <2>2
<1>11. WorldIs'
  BY <1>9, <1>10 DEF WorldIs
<1>12. ToldIsCommitted'
  BY <1>1, <1>2, <1>3 DEF ToldIsCommitted, IsCommitted
<1>13. QED
  BY <1>4, <1>5, <1>11, <1>12 DEF TrailInv

LEMMA TrailSteps == TrailInv /\ [TrailNext]_trail => TrailInv'
<1> SUFFICES ASSUME TrailInv, [TrailNext]_trail PROVE TrailInv'
  OBVIOUS
<1>1. ASSUME NEW c \in Clients, Propose(c) PROVE TrailInv'
  BY <1>1, ProposeKeeps
<1>2. ASSUME NEW c \in Clients, Refuse(c) PROVE TrailInv'
  <2>1. Ends(c) /\ UNCHANGED <<ledger, world, instant>> /\ told' = told
    BY <1>2 DEF Refuse
  <2>2. QED
    BY <2>1, EndKeeps
<1>3. ASSUME NEW c \in Clients, Submit(c) PROVE TrailInv'
  BY <1>3, SubmitKeeps
<1>4. ASSUME NEW c \in Clients, Recorded(c) PROVE TrailInv'
  <2>1. /\ Ends(c) /\ UNCHANGED <<ledger, world, instant>> /\ call[c].at = "committing"
        /\ told' = told \union {call[c].txId} /\ IsCommitted(call[c].txId)
    BY <1>4 DEF Recorded
  <2>2. call[c].txId \in Nat
    BY <2>1 DEF TrailInv, TrailType, NoCall, Endorsement, Commitment
  <2>3. told' \subseteq told \cup {id \in Nat : IsCommitted(id)}
    BY <2>1, <2>2
  <2>4. QED
    BY <2>1, <2>3, EndKeeps
<1>5. ASSUME NEW c \in Clients, TimeOut(c) PROVE TrailInv'
  <2>1. Ends(c) /\ UNCHANGED <<ledger, world, instant>> /\ told' = told
    BY <1>5 DEF TimeOut
  <2>2. QED
    BY <2>1, EndKeeps
<1>6. ASSUME TimePasses PROVE TrailInv'
  <2>1. UNCHANGED <<ledger, world>> /\ call' = call /\ told' = told /\ instant' = instant + 1
    BY <1>6 DEF TimePasses
  <2>2. /\ CommittedTxs' = CommittedTxs /\ LedgerOver(TrailEvent)' /\ TrailIds' /\ WorldIs'
    BY <2>1, LedgerStays
  <2>3. TrailType'
    BY <2>1, <2>2 DEF TrailInv, TrailType, Endorsed, ledger
  <2>4. ToldIsCommitted'
    BY <2>1, <2>2 DEF TrailInv, ToldIsCommitted, IsCommitted
  <2>5. QED
    BY <2>2, <2>3, <2>4 DEF TrailInv
<1>7. ASSUME Cut PROVE TrailInv'
  BY <1>7, CutKeeps
<1>8. ASSUME UNCHANGED trail PROVE TrailInv'
  <2>1. UNCHANGED <<ledger, world>> /\ call' = call /\ told' = told /\ instant' = instant
    BY <1>8 DEF trail, readers
  <2>2. /\ CommittedTxs' = CommittedTxs /\ LedgerOver(TrailEvent)' /\ TrailIds' /\ WorldIs'
    BY <2>1, LedgerStays
  <2>3. TrailType'
    BY <2>1, <2>2 DEF TrailInv, TrailType, Endorsed, ledger
  <2>4. ToldIsCommitted'
    BY <2>1, <2>2 DEF TrailInv, ToldIsCommitted, IsCommitted
  <2>5. QED
    BY <2>2, <2>3, <2>4 DEF TrailInv
<1>9. QED
  BY <1>1, <1>2, <1>3, <1>4, <1>5, <1>6, <1>7, <1>8 DEF TrailNext

LEMMA TrailHolds == TrailSpec => []TrailInv
<1>1. TrailInit => TrailInv
  BY TrailInits
<1>2. TrailInv /\ [TrailNext]_trail => TrailInv'
  BY TrailSteps
<1>3. QED
  BY <1>1, <1>2, PTL DEF TrailSpec

(***************************************************************************)
(* What the queries find.                                                  *)
(***************************************************************************)
\* Keys of committed events, each with its own, are as many as those at most.
LEMMA KeysAreFinite ==
    ASSUME TrailInv, NEW keys, \A k \in keys : world[k] \in CommittedTxs,
           \A k, l \in keys : world[k] = world[l] => k = l
    PROVE  IsFiniteSet(keys)
<1> DEFINE f == [k \in keys |-> world[k].txId]
<1>1. txs \in Nat /\ \A x \in CommittedTxs : x.txId \in 1..txs
  BY DEF TrailInv, TrailType, LedgerOver, TrailIds, Known
<1>2. \A x, y \in CommittedTxs : x.txId = y.txId => x = y
  BY DEF TrailInv, TrailIds, Known
<1>3. f \in [keys -> 1..txs]
  BY <1>1
<1>4. \A k, l \in keys : f[k] = f[l] => k = l
  BY <1>2
<1>5. f \in Injection(keys, 1..txs)
  <2> HIDE DEF f
  <2> QED
    BY <1>3, <1>4 DEF Injection, IsInjective
<1>6. IsFiniteSet(1..txs)
  BY <1>1, FS_Interval
<1>7. QED
  BY <1>5, <1>6, FS_Injection

LEMMA CommittedAre ==
    ASSUME TrailInv
    PROVE  \A x \in CommittedTxs :
              /\ x.event.time \in Nat /\ x.event.id \in Nat
              /\ \A k \in KeysOf(x.event) : k \in DOMAIN world /\ world[k] = x
<1>1. \A x \in CommittedTxs : x \in TxOver(TrailEvent)
  BY KnownAre DEF TrailInv, Known
<1>2. \A x \in CommittedTxs : x.event.time \in Nat /\ x.event.id \in Nat
  BY <1>1 DEF TxOver, TrailEvent
<1>3. \A x \in CommittedTxs : \A k \in KeysOf(x.event) : k \in DOMAIN world /\ world[k] = x
  BY DEF TrailInv, WorldIs
<1>4. QED
  BY <1>2, <1>3

OfExam(exam) == {x \in CommittedTxs : x.event.exam = exam}
OfTimes(start, end) == {x \in CommittedTxs : start <= x.event.time /\ x.event.time <= end}

LEMMA ExamKeysAre ==
    ASSUME TrailInv, NEW exam
    PROVE  /\ Holds(ExamKeys(exam), OfExam(exam))
           /\ StrictOrder(IdOrder(ExamKeys(exam)), ExamKeys(exam))
           /\ \A k, l \in ExamKeys(exam) :
                 <<k, l>> \in IdOrder(ExamKeys(exam)) => world[k].event.id < world[l].event.id
<1> DEFINE keys == ExamKeys(exam)
<1>1. ASSUME NEW k \in keys
      PROVE  /\ k \in DOMAIN world /\ world[k] \in OfExam(exam)
             /\ k[3] = world[k].event.id /\ k[3] \in Nat /\ k = <<"exam", exam, k[3]>>
  <2>1. k \in DOMAIN world /\ k[1] = "exam" /\ k[2] = exam
    BY DEF ExamKeys
  <2>2. PICK x \in CommittedTxs : k \in KeysOf(x.event)
    BY <2>1 DEF TrailInv, WorldIs
  <2>3. k = <<"exam", x.event.exam, x.event.id>>
    BY <2>1, <2>2 DEF KeysOf
  <2>4. world[k] = x /\ x.event.id \in Nat
    BY <2>2, CommittedAre
  <2>5. QED
    BY <2>1, <2>3, <2>4 DEF OfExam
<1>2. ASSUME NEW x \in OfExam(exam) PROVE \E k \in keys : world[k] = x
  <2>1. x \in CommittedTxs /\ x.event.exam = exam
    BY DEF OfExam
  <2> DEFINE k == <<"exam", x.event.exam, x.event.id>>
  <2>2. k \in KeysOf(x.event) /\ k[1] = "exam" /\ k[2] = exam
    BY <2>1 DEF KeysOf
  <2> HIDE DEF k
  <2>3. k \in DOMAIN world /\ world[k] = x
    BY <2>1, <2>2, CommittedAre
  <2>4. QED
    BY <2>2, <2>3 DEF ExamKeys
<1>3. \A pair : pair \in IdOrder(keys) <=> pair \in keys \X keys /\ pair[1][3] < pair[2][3]
  BY DEF IdOrder
<1> HIDE DEF keys
<1>4. \A k, l \in keys : <<k, l>> \in IdOrder(keys) <=> k[3] < l[3]
  BY <1>3
<1>5. \A k, l \in keys : k[3] = l[3] => k = l
  BY <1>1
<1>6. \A k, l \in keys : world[k] = world[l] => k = l
  BY <1>1, <1>5
<1>7. IsFiniteSet(keys)
  <2>1. \A k \in keys : world[k] \in CommittedTxs
    BY <1>1 DEF OfExam
  <2>2. QED
    BY <1>6, <2>1, KeysAreFinite
<1>8. Holds(keys, OfExam(exam))
  BY <1>1, <1>2, <1>6, <1>7 DEF Holds
<1>9. StrictOrder(IdOrder(keys), keys)
  <2>1. \A k \in keys : <<k, k>> \notin IdOrder(keys)
    BY <1>1, <1>4
  <2>2. \A x, y, z \in keys :
           <<x, y>> \in IdOrder(keys) /\ <<y, z>> \in IdOrder(keys) => <<x, z>> \in IdOrder(keys)
    <3> SUFFICES ASSUME NEW x \in keys, NEW y \in keys, NEW z \in keys,
                        <<x, y>> \in IdOrder(keys), <<y, z>> \in IdOrder(keys)
                 PROVE  <<x, z>> \in IdOrder(keys)
      OBVIOUS
    <3>1. x[3] < y[3] /\ y[3] < z[3]
      BY <1>4
    <3>2. x[3] \in Nat /\ y[3] \in Nat /\ z[3] \in Nat
      BY <1>1
    <3>3. x[3] < z[3]
      BY <3>1, <3>2
    <3>4. QED
      BY <1>4, <3>3
  <2>3. \A x, y \in keys : x = y \/ <<x, y>> \in IdOrder(keys) \/ <<y, x>> \in IdOrder(keys)
    <3> SUFFICES ASSUME NEW x \in keys, NEW y \in keys
                 PROVE  x = y \/ <<x, y>> \in IdOrder(keys) \/ <<y, x>> \in IdOrder(keys)
      OBVIOUS
    <3>1. x[3] \in Nat /\ y[3] \in Nat
      BY <1>1
    <3>2. x[3] = y[3] \/ x[3] < y[3] \/ y[3] < x[3]
      BY <3>1
    <3>3. QED
      BY <1>4, <1>5, <3>2
  <2>4. QED
    BY <2>1, <2>2, <2>3 DEF StrictOrder
<1>10. \A k, l \in keys : <<k, l>> \in IdOrder(keys) => world[k].event.id < world[l].event.id
  <2> SUFFICES ASSUME NEW k \in keys, NEW l \in keys, <<k, l>> \in IdOrder(keys)
               PROVE  world[k].event.id < world[l].event.id
    OBVIOUS
  <2>1. k[3] < l[3]
    BY <1>4
  <2>2. QED
    BY <1>1, <2>1
<1>11. QED
  BY <1>8, <1>9, <1>10, Zenon DEF keys

\* The scan by time: it ends after the last key of the range.
LEMMA KeysBetweenAre ==
    ASSUME TrailInv, NEW start \in Nat, NEW end \in Nat
    PROVE  LET keys == KeysBetween(start, end) IN
           /\ Holds(keys, OfTimes(start, end)) /\ StrictOrder(TimeOrder(keys), keys)
           /\ \A k, l \in keys : <<k, l>> \in TimeOrder(keys) => Precedes(world[k], world[l])
<1> DEFINE keys == KeysBetween(start, end)
<1>1. ASSUME NEW k \in TimeKeys
      PROVE  /\ k \in DOMAIN world /\ world[k] \in CommittedTxs
             /\ k[2] = world[k].event.time /\ k[3] = world[k].event.id
             /\ k[2] \in Nat /\ k[3] \in Nat /\ k = <<"time", k[2], k[3]>>
  <2>1. k \in DOMAIN world /\ k[1] = "time"
    BY DEF TimeKeys
  <2>2. PICK x \in CommittedTxs : k \in KeysOf(x.event)
    BY <2>1 DEF TrailInv, WorldIs
  <2>3. k = <<"time", x.event.time, x.event.id>>
    BY <2>1, <2>2 DEF KeysOf
  <2>4. world[k] = x /\ x.event.id \in Nat /\ x.event.time \in Nat
    BY <2>2, CommittedAre
  <2>5. QED
    BY <2>1, <2>2, <2>3, <2>4
<1>2. ASSUME NEW S
      PROVE  \A k, l \in S : <<k, l>> \in TimeOrder(S) <=> k[2] < l[2] \/ (k[2] = l[2] /\ k[3] < l[3])
  <2>1. \A pair : pair \in TimeOrder(S) <=>
           /\ pair \in S \X S
           /\ pair[1][2] < pair[2][2] \/ (pair[1][2] = pair[2][2] /\ pair[1][3] < pair[2][3])
    BY DEF TimeOrder
  <2>2. QED
    BY <2>1
<1>3. ASSUME NEW k \in TimeKeys, k[2] <= end PROVE k \in Scanned(end)
  <2>1. ASSUME NEW past \in TimeKeys, Passed(past[2], end), <<past, k>> \in TimeOrder(TimeKeys)
        PROVE  FALSE
    <3>1. past[2] > end
      BY <2>1 DEF Passed
    <3>2. past[2] < k[2] \/ past[2] = k[2]
      BY <1>2, <2>1
    <3>3. past[2] \in Nat /\ k[2] \in Nat
      BY <1>1
    <3>4. QED
      BY <1>3, <3>1, <3>2, <3>3
  <2>2. QED
    BY <2>1 DEF Scanned
<1>4. \A k : k \in keys <=> k \in TimeKeys /\ start <= k[2] /\ k[2] <= end
  BY <1>3 DEF KeysBetween, Scanned
<1> HIDE DEF keys
<1>5. ASSUME NEW k \in keys
      PROVE  /\ k \in DOMAIN world /\ world[k] \in OfTimes(start, end)
             /\ k[2] = world[k].event.time /\ k[3] = world[k].event.id
             /\ k[2] \in Nat /\ k[3] \in Nat /\ k = <<"time", k[2], k[3]>>
  <2>1. k \in TimeKeys /\ start <= k[2] /\ k[2] <= end
    BY <1>4
  <2>2. QED
    BY <1>1, <2>1 DEF OfTimes
<1>6. ASSUME NEW x \in OfTimes(start, end) PROVE \E k \in keys : world[k] = x
  <2>1. x \in CommittedTxs /\ start <= x.event.time /\ x.event.time <= end
    BY DEF OfTimes
  <2> DEFINE k == <<"time", x.event.time, x.event.id>>
  <2>2. k \in KeysOf(x.event) /\ k[1] = "time" /\ k[2] = x.event.time
    BY DEF KeysOf
  <2> HIDE DEF k
  <2>3. k \in DOMAIN world /\ world[k] = x
    BY <2>1, <2>2, CommittedAre
  <2>4. QED
    BY <1>4, <2>1, <2>2, <2>3 DEF TimeKeys
<1>7. \A k, l \in keys : <<k, l>> \in TimeOrder(keys) <=> k[2] < l[2] \/ (k[2] = l[2] /\ k[3] < l[3])
  BY <1>2
<1>8. \A k, l \in keys : k[2] = l[2] /\ k[3] = l[3] => k = l
  BY <1>5
<1>9. \A k, l \in keys : world[k] = world[l] => k = l
  BY <1>5, <1>8
<1>10. IsFiniteSet(keys)
  <2>1. \A k \in keys : world[k] \in CommittedTxs
    BY <1>5 DEF OfTimes
  <2>2. QED
    BY <1>9, <2>1, KeysAreFinite
<1>11. Holds(keys, OfTimes(start, end))
  BY <1>5, <1>6, <1>9, <1>10 DEF Holds
<1>12. StrictOrder(TimeOrder(keys), keys)
  <2>1. \A k \in keys : <<k, k>> \notin TimeOrder(keys)
    BY <1>5, <1>7
  <2>2. \A x, y, z \in keys :
           <<x, y>> \in TimeOrder(keys) /\ <<y, z>> \in TimeOrder(keys) => <<x, z>> \in TimeOrder(keys)
    <3> SUFFICES ASSUME NEW x \in keys, NEW y \in keys, NEW z \in keys,
                        <<x, y>> \in TimeOrder(keys), <<y, z>> \in TimeOrder(keys)
                 PROVE  <<x, z>> \in TimeOrder(keys)
      OBVIOUS
    <3>1. /\ x[2] < y[2] \/ (x[2] = y[2] /\ x[3] < y[3])
          /\ y[2] < z[2] \/ (y[2] = z[2] /\ y[3] < z[3])
      BY <1>7
    <3>2. /\ x[2] \in Nat /\ y[2] \in Nat /\ z[2] \in Nat
          /\ x[3] \in Nat /\ y[3] \in Nat /\ z[3] \in Nat
      BY <1>5
    <3>3. x[2] < z[2] \/ (x[2] = z[2] /\ x[3] < z[3])
      BY <3>1, <3>2
    <3>4. QED
      BY <1>7, <3>3
  <2>3. \A x, y \in keys : x = y \/ <<x, y>> \in TimeOrder(keys) \/ <<y, x>> \in TimeOrder(keys)
    <3> SUFFICES ASSUME NEW x \in keys, NEW y \in keys
                 PROVE  x = y \/ <<x, y>> \in TimeOrder(keys) \/ <<y, x>> \in TimeOrder(keys)
      OBVIOUS
    <3>1. x[2] \in Nat /\ y[2] \in Nat /\ x[3] \in Nat /\ y[3] \in Nat
      BY <1>5
    <3>2. \/ x[2] = y[2] /\ x[3] = y[3]
          \/ x[2] < y[2] \/ (x[2] = y[2] /\ x[3] < y[3])
          \/ y[2] < x[2] \/ (y[2] = x[2] /\ y[3] < x[3])
      BY <3>1
    <3>3. QED
      BY <1>7, <1>8, <3>2
  <2>4. QED
    BY <2>1, <2>2, <2>3 DEF StrictOrder
<1>13. \A k, l \in keys : <<k, l>> \in TimeOrder(keys) => Precedes(world[k], world[l])
  <2> SUFFICES ASSUME NEW k \in keys, NEW l \in keys, <<k, l>> \in TimeOrder(keys)
               PROVE  Precedes(world[k], world[l])
    OBVIOUS
  <2>1. k[2] < l[2] \/ (k[2] = l[2] /\ k[3] < l[3])
    BY <1>7
  <2>2. QED
    BY <1>5, <2>1 DEF Precedes
<1>14. QED
  BY <1>11, <1>12, <1>13, Zenon DEF keys

\* An exam's events, each once, in the order of time and id; as many as counted.
LEMMA TimelineIs ==
    ASSUME TrailInv, NEW exam
    PROVE  /\ Lists(GetTimeline(exam), OfExam(exam)) /\ InTrailOrder(GetTimeline(exam))
           /\ Len(GetTimeline(exam)) = GetEventCount(exam)
<1> DEFINE keys == ExamKeys(exam)
           R == IdOrder(keys)
           T == OfExam(exam)
           list == Texts(InOrder(keys, R))
           once == ByTime(list)
<1>1. /\ Holds(keys, T) /\ StrictOrder(R, keys)
      /\ \A k, l \in keys : <<k, l>> \in R => world[k].event.id < world[l].event.id
  BY ExamKeysAre, Zenon
<1>2. \A x \in T : x.event.time \in Nat
  BY CommittedAre DEF OfExam
<1> HIDE DEF keys, R, T
<1>3. /\ Lists(list, T) /\ Len(list) = Cardinality(keys)
      /\ \A i, j \in 1..Len(list) : i < j =>
            \E k, l \in keys : <<k, l>> \in R /\ world[k] = list[i] /\ world[l] = list[j]
  <2>1. Walks(list, keys, T, R)
    BY <1>1, TextsAre, Zenon
  <2>2. QED
    BY <2>1 DEF Walks
<1> HIDE DEF list
<1>4. TiesById(list)
  <2>1. SUFFICES ASSUME NEW i \in 1..Len(list), NEW j \in 1..Len(list), i < j
                 PROVE  list[i].event.id < list[j].event.id
    BY DEF TiesById
  <2>2. PICK k \in keys, l \in keys : <<k, l>> \in R /\ world[k] = list[i] /\ world[l] = list[j]
    BY <1>3, <2>1
  <2>3. world[k].event.id < world[l].event.id
    BY <1>1, <2>2
  <2>4. QED
    BY <2>2, <2>3
<1>5. Lists(once, T) /\ Len(once) = Len(list) /\ InTrailOrder(once)
  BY <1>2, <1>3, <1>4, SortedInOrder
<1> HIDE DEF once
<1>6. TiesById(once)
  BY <1>2, <1>5, OrderedTies
<1>7. Lists(ByTime(once), T) /\ Len(ByTime(once)) = Len(once) /\ InTrailOrder(ByTime(once))
  BY <1>2, <1>5, <1>6, SortedInOrder
<1>8. GetTimeline(exam) = ByTime(once)
  BY DEF GetTimeline, GetEventsByExam, once, list, R, keys
<1>9. GetEventCount(exam) = Cardinality(keys)
  BY DEF GetEventCount, keys
<1>10. QED
  BY <1>3, <1>5, <1>7, <1>8, <1>9 DEF T

\* The events of a range of times, in the same order.
LEMMA TimeRangeIs ==
    ASSUME TrailInv, NEW start \in Nat, NEW end \in Nat
    PROVE  /\ Lists(GetEventsByTimeRange(start, end), OfTimes(start, end))
           /\ InTrailOrder(GetEventsByTimeRange(start, end))
<1> DEFINE keys == KeysBetween(start, end)
           R == TimeOrder(keys)
           T == OfTimes(start, end)
           list == Texts(InOrder(keys, R))
<1>1. /\ Holds(keys, T) /\ StrictOrder(R, keys)
      /\ \A k, l \in keys : <<k, l>> \in R => Precedes(world[k], world[l])
  BY KeysBetweenAre, Zenon
<1>2. \A x \in T : x.event.time \in Nat
  BY CommittedAre DEF OfTimes
<1> HIDE DEF keys, R, T
<1>3. /\ Lists(list, T)
      /\ \A i, j \in 1..Len(list) : i < j =>
            \E k, l \in keys : <<k, l>> \in R /\ world[k] = list[i] /\ world[l] = list[j]
  <2>1. Walks(list, keys, T, R)
    BY <1>1, TextsAre, Zenon
  <2>2. QED
    BY <2>1 DEF Walks
<1> HIDE DEF list
<1>4. InTrailOrder(list)
  BY <1>1, <1>3 DEF InTrailOrder
<1>5. TiesById(list)
  BY <1>2, <1>3, <1>4, OrderedTies
<1>6. Lists(ByTime(list), T) /\ InTrailOrder(ByTime(list))
  BY <1>2, <1>3, <1>5, SortedInOrder
<1>7. GetEventsByTimeRange(start, end) = ByTime(list)
  BY DEF GetEventsByTimeRange, list, R, keys
<1>8. QED
  BY <1>6, <1>7 DEF T

\* An event that is committed is found by its id, with its proof, and once in
\* every list that has it.
LEMMA CommittedIsFound ==
    ASSUME TrailInv, NEW tx \in CommittedTxs
    PROVE  /\ EventOf(tx.txId) = tx /\ Found(tx.event.id) = {tx} /\ VerifyEvent(tx.txId)
           /\ Cardinality(PlacesOf(tx, GetTimeline(tx.event.exam))) = 1
           /\ Cardinality(PlacesOf(tx, GetEventsByTimeRange(tx.event.time, tx.event.time))) = 1
<1>1. \A x, y \in CommittedTxs : x.txId = y.txId => x = y
  BY DEF TrailInv, TrailIds, Known
<1>2. EventOf(tx.txId) = tx
  BY <1>1, Zenon DEF EventOf
<1>3. Found(tx.event.id) = {tx}
  <2> DEFINE k == <<"event", "id", tx.event.id>>
  <2>1. k \in KeysOf(tx.event)
    BY DEF KeysOf
  <2>2. Found(tx.event.id) = {world[key] : key \in DOMAIN world \intersect {k}}
    BY DEF Found
  <2> HIDE DEF k
  <2>3. k \in DOMAIN world /\ world[k] = tx
    BY <2>1, CommittedAre
  <2>4. DOMAIN world \intersect {k} = {k}
    BY <2>3
  <2>5. QED
    BY <2>2, <2>3, <2>4
<1>4. VerifyEvent(tx.txId)
  <2>1. \A b \in DOMAIN blocks : blocks[b] \in BlockOver(TrailEvent)
    BY LenProperties, ElementOfSeq DEF TrailInv, TrailType, LedgerOver
  <2>2. BlocksAreTrees
    BY <2>1 DEF BlockOver, BlocksAreTrees, IsSequence
  <2>3. IdsAreUnique
    BY <1>1 DEF IdsAreUnique
  <2>4. ProofsFitOneLeaf
    BY <2>2, <2>3, ProofsFit
  <2>5. VerifyMerkleProof(GetMerkleProof(tx.txId))
    BY <2>4 DEF ProofsFitOneLeaf
  <2>6. QED
    BY <2>5 DEF VerifyEvent, IsCommitted
<1>5. Cardinality(PlacesOf(tx, GetTimeline(tx.event.exam))) = 1
  <2>1. tx \in OfExam(tx.event.exam)
    BY DEF OfExam
  <2>2. QED
    BY <2>1, TimelineIs, OnceListed
<1>6. Cardinality(PlacesOf(tx, GetEventsByTimeRange(tx.event.time, tx.event.time))) = 1
  <2> DEFINE t == tx.event.time
  <2>1. t \in Nat
    BY CommittedAre
  <2>2. tx \in OfTimes(t, t)
    BY <2>1 DEF OfTimes
  <2> HIDE DEF t
  <2>3. Lists(GetEventsByTimeRange(t, t), OfTimes(t, t))
    BY <2>1, TimeRangeIs
  <2>4. Cardinality(PlacesOf(tx, GetEventsByTimeRange(t, t))) = 1
    BY <2>2, <2>3, OnceListed
  <2>5. QED
    BY <2>4 DEF t
<1>7. QED
  BY <1>2, <1>3, <1>4, <1>5, <1>6

\* Timelines and ranges count right and agree.
LEMMA ListsAgree ==
    ASSUME TrailInv, NEW exam, NEW t \in Nat
    PROVE  LET list == GetTimeline(exam)
               range == GetEventsByTimeRange(1, t)
           IN  /\ GetEventCount(exam) = Len(list)
               /\ \A a, b : Before(a, b, list) => ~ Before(b, a, range)
<1> DEFINE list == GetTimeline(exam)
           range == GetEventsByTimeRange(1, t)
<1>1. Lists(list, OfExam(exam)) /\ InTrailOrder(list) /\ GetEventCount(exam) = Len(list)
  BY TimelineIs
<1>2. Lists(range, OfTimes(1, t)) /\ InTrailOrder(range)
  BY TimeRangeIs
<1> HIDE DEF list, range
<1>3. \A x \in CommittedTxs : x.event.time \in Nat /\ x.event.id \in Nat
  BY CommittedAre
<1>4. list \in Seq(CommittedTxs) /\ range \in Seq(CommittedTxs)
  <2>1. list \in Seq(OfExam(exam)) /\ range \in Seq(OfTimes(1, t))
    BY <1>1, <1>2 DEF Lists
  <2>2. OfExam(exam) \subseteq CommittedTxs /\ OfTimes(1, t) \subseteq CommittedTxs
    BY DEF OfExam, OfTimes
  <2> HIDE DEF OfExam, OfTimes
  <2>3. QED
    BY <2>1, <2>2
<1>5. ASSUME NEW a, NEW b, Before(a, b, list) PROVE ~ Before(b, a, range)
  BY <1>1, <1>2, <1>3, <1>4, <1>5, OrdersAgree
<1>6. QED
  BY <1>1, <1>5 DEF list, range

(***************************************************************************)
(* The theorems.                                                           *)
(***************************************************************************)
\* Whatever requests interleave, crash or are refused, a request is at a place
\* of its handler with an instant that has been, and the stores, the bucket
\* and the ledger keep their types.
THEOREM SessionTypeCorrect == Spec => []TypeOK
<1>1. IInv => TypeOK
  BY DEF IInv
<1>2. QED
  BY <1>1, InvariantHolds, PTL

\* For any number of saves and loads, KEKs and faults, loadCheckpoint answers
\* with a checkpoint as new as any acknowledged before, but for the faults the
\* property names.
THEOREM ResumesAreNewest == Spec => []ResumesFromNewest
<1>1. IInv => ResumesFromNewest
  BY DEF IInv, CheckpointInv
<1>2. QED
  BY <1>1, InvariantHolds, PTL

\* For any number of submissions, a receipt's object keeps its answers, the
\* document names one that is there, and what getSubmissionVerification calls
\* verified is on the ledger with that very hash.
THEOREM ReceiptsAreKept == Spec => []ReceiptsKeepTheirAnswers
<1>1. IInv => \A hash \in DOMAIN index :
                  IsCommitted(index[hash]) /\ EventOf(index[hash]).event = hash
  <2> SUFFICES ASSUME IInv, NEW hash \in DOMAIN index
               PROVE  IsCommitted(index[hash]) /\ EventOf(index[hash]).event = hash
    OBVIOUS
  <2>1. PICK x \in CommittedTxs : x.txId = index[hash] /\ x.event = hash
    BY DEF IInv, LedgerInv
  <2>2. \A y \in CommittedTxs : y.txId = index[hash] => y = x
    BY <2>1 DEF IInv, LedgerInv, Known
  <2>3. EventOf(index[hash]) = x
    BY <2>1, <2>2, Zenon DEF EventOf
  <2>4. QED
    BY <2>1, <2>3 DEF IsCommitted
<1>2. IInv => ReceiptsKeepTheirAnswers
  BY <1>1 DEF IInv, ReceiptInv, ReceiptsKeepTheirAnswers, HasObject, Stored, At
<1>3. QED
  BY <1>2, InvariantHolds, PTL

\* For blocks of any size, the proof of every committed event recomputes the
\* root of its block from its own leaf, and from no other transaction's.
THEOREM ProofsLeadFromOneLeaf == Spec => []ProofsFitOneLeaf
<1>1. IInv => ProofsFitOneLeaf
  <2>1. SUFFICES ASSUME IInv PROVE BlocksAreTrees /\ IdsAreUnique
    BY ProofsFit
  <2>2. \A b \in DOMAIN blocks : blocks[b] \in Block
    BY <2>1 DEF IInv, TypeOK, LedgerType
  <2>3. BlocksAreTrees
    BY <2>2 DEF Block, BlocksAreTrees, IsSequence
  <2>4. IdsAreUnique
    BY <2>1 DEF IInv, LedgerInv, Known, IdsAreUnique
  <2>5. QED
    BY <2>3, <2>4
<1>2. QED
  BY <1>1, InvariantHolds, PTL

\* For any clients, exams, ids, times and lost answers: an event a service was
\* told is recorded is found from then on by its id, with its proof, once in
\* its exam's timeline and once in the range of its time; and timelines and
\* ranges count right and never list two events in opposite orders.
THEOREM WhatIsToldIsFound == TrailSpec => []ToldIsFound
<1>1. TrailInv => ToldIsFound
  <2> SUFFICES ASSUME TrailInv PROVE ToldIsFound
    OBVIOUS
  <2>1. ASSUME NEW id \in told
        PROVE  LET tx == EventOf(id)
                   t == tx.event.time
               IN  /\ Found(tx.event.id) = {tx} /\ VerifyEvent(id)
                   /\ Cardinality(PlacesOf(tx, GetTimeline(tx.event.exam))) = 1
                   /\ Cardinality(PlacesOf(tx, GetEventsByTimeRange(t, t))) = 1
    <3>1. PICK tx \in CommittedTxs : tx.txId = id
      BY DEF TrailInv, ToldIsCommitted, IsCommitted
    <3>2. EventOf(id) = tx
      BY <3>1, CommittedIsFound
    <3>3. QED
      BY <3>1, <3>2, CommittedIsFound
  <2>2. ASSUME NEW exam \in Exams, NEW t \in 1..MaxInstant
        PROVE  LET list == GetTimeline(exam)
                   range == GetEventsByTimeRange(1, t)
               IN  /\ GetEventCount(exam) = Len(list)
                   /\ \A a, b \in Range(list) \intersect Range(range) :
                         Before(a, b, list) => ~ Before(b, a, range)
    <3>1. t \in Nat
      BY TrailAssumption
    <3>2. QED
      BY <3>1, ListsAgree
  <2>3. QED
    BY <2>1, <2>2, Zenon DEF ToldIsFound
<1>2. QED
  BY <1>1, TrailHolds, PTL

=============================================================================
