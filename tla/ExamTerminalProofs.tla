------------------------- MODULE ExamTerminalProofs -------------------------
(***************************************************************************)
(* Proofs, for any number of overlapping runs, sessions, edits and faults, *)
(* that what the exam terminal of ExamTerminal submits, shows and queues   *)
(* is the candidate's.                                                     *)
(***************************************************************************)
EXTENDS ExamTerminal, AnswerSheet, SequenceTheorems, TLAPS

(***************************************************************************)
(* The inductive invariant.                                                *)
(***************************************************************************)
Phases == {"idle", "active", "submitting", "submitted", "error"}
Awaited == {"idle", "save", "send", "put", "arrived", "read", "remove", "clear"}
Item == [id : Nat, session : Sessions, ver : Versions]

StoreType ==
    /\ phase \in Phases /\ session \in 0 .. MaxSessions
    /\ ver \in [Sessions -> Versions] /\ hash \subseteq Versions

RunType ==
    /\ ownRuns \subseteq Syncs
    /\ local \in (0 .. MaxSessions) \X Versions /\ queue \in Seq(Item) /\ stamp \in Nat
    /\ pc \in [Callers -> Awaited]
    /\ payload \in [Callers -> {NoSnapshot} \union Item]
    /\ todo \in [Syncs -> Seq(Item)]

ServerType ==
    /\ started \in 0 .. MaxSessions
    /\ cp \in [Sessions -> Versions] /\ received \subseteq Sessions \X Versions
    /\ subs \in [Sessions -> SUBSET Versions]
    /\ ticks \in 0 .. MaxTicks /\ outages \in 0 .. MaxOutages /\ faults \in 0 .. MaxFaults

TypeOK == StoreType /\ RunType /\ ServerType

\* The phase says what handleSubmit awaits, and the interval is off from the
\* moment it sends until it has failed.
PhaseFollows ==
    /\ phase # "idle" => session \in Sessions
    /\ ticking => phase # "idle"
    /\ pc["submit"] \in {"idle", "save", "send", "arrived", "clear"}
    /\ pc["submit"] \in {"save", "send", "arrived"} <=> phase = "submitting"
    /\ pc["submit"] = "clear" => phase = "submitted"
    /\ pc["submit"] \in {"send", "arrived", "clear"} => ~ticking

\* What is sent is what the candidate left, and until it is known to be there
\* it is in localStorage as well.
NothingIsLost ==
    /\ phase = "submitting" => local = <<session, ver[session]>>
    /\ pc["submit"] \in {"send", "arrived"} =>
          payload["submit"].session = session /\ payload["submit"].ver = ver[session]
    /\ pc["submit"] = "arrived" => ver[session] \in subs[session]
    /\ pc["submit"] = "clear" => \/ ver[session] \in subs[session]
                                 \/ sw /\ local = <<0, 0>>

SubmitInv == PhaseFollows /\ NothingIsLost /\ SubmissionFaithful

\* A snapshot has no edits that its session has not.
Sound(p) == p \in Item /\ p.ver <= ver[p.session]
OnTheWay == {"send", "put", "arrived", "remove"}
Held == {c \in Syncs : pc[c] \in OnTheWay}

\* The queued checkpoints, in the queue or with a run that read them.
Queued ==
    ToSet(queue) \union (UNION {ToSet(todo[c]) : c \in Syncs}) \union {payload[c] : c \in Held}

ItemsAreKeyed ==
    \A x \in Queued : /\ Sound(x) /\ x.id <= stamp
                      /\ \A y \in Queued : x.id = y.id => x = y

PayloadsAreSound == \A c \in Callers : pc[c] \in OnTheWay => Sound(payload[c])

Got(p) == <<p.session, p.ver>> \in received

Receipts ==
    \A c \in Syncs : /\ pc[c] = "arrived" => Got(payload[c])
                     /\ pc[c] = "remove" => sw \/ Got(payload[c])

CheckpointsAreSound == \A s \in Sessions : cp[s] <= ver[s]

QueueInv == ItemsAreKeyed /\ PayloadsAreSound /\ Receipts /\ CheckpointsAreSound

IInv == TypeOK /\ SubmitInv /\ QueueInv

(***************************************************************************)
(* The steps' parts.                                                       *)
(***************************************************************************)
LEMMA CallersApart ==
    /\ "submit" \in Callers /\ Checkpoints \subseteq Callers /\ Syncs \subseteq Callers
    /\ "submit" \notin Checkpoints /\ "submit" \notin Syncs
    /\ \A c \in Checkpoints : c \notin Syncs
BY TerminalAssumption DEF Callers

LEMMA AwaitMoves ==
    ASSUME RunType, NEW c \in Callers, NEW what \in Awaited, Await(c, what)
    PROVE  /\ pc' \in [Callers -> Awaited] /\ pc'[c] = what
           /\ \A x \in Callers : x # c => pc'[x] = pc[x]
BY DEF RunType, Await

LEMMA SaveLocallyType ==
    ASSUME StoreType, session \in Sessions, SaveLocally
    PROVE  local' \in (0 .. MaxSessions) \X Versions
BY DEF StoreType, SaveLocally

LEMMA SendAnswersMoves ==
    ASSUME StoreType, RunType, session \in Sessions, NEW c \in Callers, SendAnswers(c)
    PROVE  /\ payload' \in [Callers -> {NoSnapshot} \union Item]
           /\ payload'[c] = [id |-> 0, session |-> session, ver |-> ver[session]]
           /\ payload'[c] \in Item
           /\ \A x \in Callers : x # c => payload'[x] = payload[x]
<1>1. [id |-> 0, session |-> session, ver |-> ver[session]] \in Item
  BY DEF StoreType, Item
<1>2. QED
  BY <1>1 DEF RunType, SendAnswers

\* The loop goes on with items it knows, or ends.
LEMMA NextItemMoves ==
    ASSUME RunType, NEW c \in Syncs, NEW items \in Seq(Item), NEW left \in Seq(Item),
           NextItem(c, items, left)
    PROVE  /\ pc' \in [Callers -> Awaited] /\ pc'[c] \in {"idle", "send"}
           /\ payload' \in [Callers -> {NoSnapshot} \union Item]
           /\ todo' \in [Syncs -> Seq(Item)]
           /\ \A x \in Callers : x # c => pc'[x] = pc[x] /\ payload'[x] = payload[x]
           /\ \A x \in Syncs : x # c => todo'[x] = todo[x]
           /\ pc'[c] = "send" => payload'[c] \in ToSet(items)
           /\ ToSet(todo'[c]) \subseteq ToSet(todo[c]) \union ToSet(items)
<1> USE CallersApart
<1>1. c \in Callers /\ {"idle", "send"} \subseteq Awaited
  BY DEF Awaited
<1>2. CASE items = <<>>
  BY <1>1, <1>2, AwaitMoves DEF NextItem, RunType
<1>3. CASE items # <<>>
  <2>1. /\ Await(c, "send") /\ payload' = [payload EXCEPT ![c] = Head(items)]
        /\ todo' = [todo EXCEPT ![c] = Tail(items)] /\ UNCHANGED <<pending, syncing>>
    BY <1>3 DEF NextItem
  <2>2. /\ Head(items) \in Item /\ Tail(items) \in Seq(Item)
        /\ Head(items) = items[1] /\ 1 \in DOMAIN items
        /\ \A i \in DOMAIN Tail(items) : i + 1 \in DOMAIN items /\ Tail(items)[i] = items[i + 1]
    BY <1>3
  <2>3. Head(items) \in ToSet(items) /\ ToSet(Tail(items)) \subseteq ToSet(items)
    BY <2>2 DEF ToSet
  <2>4. /\ payload' \in [Callers -> {NoSnapshot} \union Item] /\ payload'[c] = Head(items)
        /\ todo' \in [Syncs -> Seq(Item)] /\ todo'[c] = Tail(items)
        /\ \A x \in Callers : x # c => payload'[x] = payload[x]
        /\ \A x \in Syncs : x # c => todo'[x] = todo[x]
    BY <1>1, <2>1, <2>2 DEF RunType
  <2>5. /\ pc' \in [Callers -> Awaited] /\ pc'[c] = "send"
        /\ \A x \in Callers : x # c => pc'[x] = pc[x]
    BY <1>1, <2>1, AwaitMoves
  <2>6. QED
    BY <2>1, <2>3, <2>4, <2>5
<1>4. QED
  BY <1>2, <1>3

\* A record leaves the queue and the others stay.
LEMMA RemoveLeaves ==
    ASSUME NEW q \in Seq(Item), NEW i \in DOMAIN q
    PROVE  /\ RemoveAt(q, i) \in Seq(Item)
           /\ ToSet(RemoveAt(q, i)) \subseteq ToSet(q)
           /\ ToSet(q) \ ToSet(RemoveAt(q, i)) \subseteq {q[i]}
<1> DEFINE before == SubSeq(q, 1, i - 1)
           after == SubSeq(q, i + 1, Len(q))
           r == before \o after
<1>1. /\ i \in 1 .. Len(q) /\ Len(q) \in Nat
      /\ \A j \in 1 .. Len(q) : q[j] \in Item
  OBVIOUS
<1>2. /\ before \in Seq(Item) /\ Len(before) = i - 1
      /\ \A j \in 1 .. i - 1 : before[j] = q[j]
  BY <1>1, SubSeqProperties
<1>3. /\ after \in Seq(Item) /\ Len(after) = Len(q) - i
      /\ \A j \in 1 .. Len(q) - i : after[j] = q[j + i]
  BY <1>1
<1> HIDE DEF before, after
<1>4. /\ r \in Seq(Item) /\ Len(r) = Len(q) - 1
      /\ \A j \in 1 .. Len(q) - 1 : r[j] = IF j < i THEN q[j] ELSE q[j + 1]
  <2>1. r \in Seq(Item) /\ Len(r) = Len(q) - 1
    BY <1>1, <1>2, <1>3
  <2>2. ASSUME NEW j \in 1 .. Len(q) - 1 PROVE r[j] = IF j < i THEN q[j] ELSE q[j + 1]
    <3>1. CASE j < i
      BY <1>1, <1>2, <1>3, <3>1
    <3>2. CASE j >= i
      <4>1. r[j] = after[j - (i - 1)]
        <5>1. j \in 1 .. Len(before) + Len(after) /\ ~(j <= Len(before))
          BY <1>1, <1>2, <1>3, <3>2
        <5>2. r[j] = after[j - Len(before)]
          BY <1>2, <1>3, <5>1, ConcatProperties
        <5>3. QED
          BY <1>2, <5>2
      <4>2. j - (i - 1) \in 1 .. Len(q) - i
        BY <1>1, <3>2
      <4>3. after[j - (i - 1)] = q[j + 1] /\ ~(j < i)
        BY <1>1, <1>3, <3>2, <4>2
      <4>4. QED
        BY <4>1, <4>3
    <3>3. j < i \/ j >= i
      BY <1>1
    <3>4. QED
      BY <3>1, <3>2, <3>3
  <2>3. QED
    BY <2>1, <2>2
<1> HIDE DEF r
<1>5. ToSet(r) \subseteq ToSet(q)
  BY <1>1, <1>4 DEF ToSet
<1>6. ToSet(q) \ ToSet(r) \subseteq {q[i]}
  <2> SUFFICES ASSUME NEW j \in 1 .. Len(q), q[j] # q[i] PROVE q[j] \in ToSet(r)
    BY <1>1 DEF ToSet
  <2>1. CASE j < i
    <3>1. j \in 1 .. Len(q) - 1 /\ r[j] = q[j]
      BY <1>1, <1>4, <2>1
    <3>2. QED
      BY <1>4, <3>1 DEF ToSet
  <2>2. CASE j > i
    <3>1. j - 1 \in 1 .. Len(q) - 1 /\ r[j - 1] = q[j]
      BY <1>1, <1>4, <2>2
    <3>2. QED
      BY <1>4, <3>1 DEF ToSet
  <2>3. QED
    BY <1>1, <2>1, <2>2
<1>7. r = RemoveAt(q, i)
  BY DEF r, before, after, RemoveAt
<1>8. QED
  BY <1>4, <1>5, <1>6, <1>7

LEMMA AppendAdds ==
    ASSUME NEW q \in Seq(Item), NEW x \in Item
    PROVE  ToSet(Append(q, x)) = ToSet(q) \union {x}
<1> DEFINE r == Append(q, x)
<1>1. /\ Len(q) \in Nat /\ DOMAIN q = 1 .. Len(q) /\ DOMAIN r = 1 .. Len(q) + 1
      /\ \A j \in 1 .. Len(q) : r[j] = q[j]
      /\ r[Len(q) + 1] = x
  OBVIOUS
<1> HIDE DEF r
<1>2. 1 .. Len(q) + 1 = (1 .. Len(q)) \union {Len(q) + 1}
  BY <1>1
<1>3. ToSet(r) = ToSet(q) \union {x}
  BY <1>1, <1>2 DEF ToSet
<1>4. QED
  BY <1>3 DEF r

(***************************************************************************)
(* Types.                                                                  *)
(***************************************************************************)
LEMMA FaultType == ASSUME ServerType, Fault PROVE faults' \in 0 .. MaxFaults
BY TerminalAssumption DEF ServerType, Fault

LEMMA TypeInit == Init => TypeOK
<1> SUFFICES ASSUME Init PROVE TypeOK
  OBVIOUS
<1> USE TerminalAssumption
<1>1. StoreType
  BY DEF Init, StoreType, Phases, Versions
<1>2. RunType
  BY DEF Init, RunType, Versions, Awaited
<1>3. ServerType
  BY DEF Init, ServerType, Versions
<1>4. QED
  BY <1>1, <1>2, <1>3 DEF TypeOK

\* The requests are the same for all callers.
Bounded == ticks \in 0 .. MaxTicks /\ outages \in 0 .. MaxOutages /\ faults \in 0 .. MaxFaults

LEMMA OutcomeType ==
    ASSUME ServerType, NEW c \in Callers,
           Answered(c) \/ Faked(c) \/ Rejected(c) \/ Fault
    PROVE  Bounded'
<1>1. UNCHANGED bounds \/ Fault
  BY DEF Answered, Faked, Rejected, Refused, NetworkError
<1>2. QED
  BY <1>1, FaultType DEF Bounded, bounds, Fault, ServerType

LEMMA ArriveType ==
    ASSUME TypeOK, PayloadsAreSound, NEW c \in Callers, Arrive(c)
    PROVE  TypeOK'
<1>1. payload[c].session \in Sessions /\ payload[c].ver \in Versions
  BY DEF Arrive, PayloadsAreSound, OnTheWay, Sound, Item
<1>2. "arrived" \in Awaited
  BY DEF Awaited
<1>3. StoreType'
  BY DEF Arrive, TypeOK, StoreType, store
<1>4. RunType'
  BY <1>2, AwaitMoves DEF Arrive, TypeOK, RunType, ui, storage
<1>5. ServerType'
  BY <1>1 DEF Arrive, TypeOK, ServerType, bounds
<1>6. QED
  BY <1>3, <1>4, <1>5 DEF TypeOK

LEMMA CheckpointType ==
    ASSUME TypeOK, PhaseFollows, PayloadsAreSound, NEW c \in Checkpoints, CheckpointStep(c)
    PROVE  TypeOK'
<1> USE CallersApart DEF ui, storage, server, bounds
<1>1. CASE Arrive(c)
  BY <1>1, ArriveType
<1>2. CASE Tick(c)
  <2>1. "save" \in Awaited
    BY DEF Awaited
  <2>2. StoreType'
    BY <1>2 DEF Tick, TypeOK, StoreType, store
  <2>3. local' \in (0 .. MaxSessions) \X Versions
    BY <1>2, SaveLocallyType DEF Tick, TypeOK, PhaseFollows
  <2>4. pc' \in [Callers -> Awaited]
    BY <1>2, <2>1, AwaitMoves DEF Tick, TypeOK
  <2>5. RunType'
    BY <1>2, <2>3, <2>4 DEF Tick, TypeOK, RunType
  <2>6. ServerType'
    BY <1>2, TerminalAssumption DEF Tick, TypeOK, ServerType
  <2>7. QED
    BY <2>2, <2>5, <2>6 DEF TypeOK
<1>3. CASE ~Arrive(c) /\ ~Tick(c)
  <2>1. StoreType'
    BY <1>3 DEF CheckpointStep, SendCheckpoint, SkipCheckpoint, PutInQueue, CheckpointDone,
           CheckpointRejected, StorageFailsCheckpoint, TypeOK, StoreType, store
  <2>2. \E what \in Awaited : Await(c, what)
    <3>1. {"send", "put", "idle"} \subseteq Awaited
      BY DEF Awaited
    <3>2. QED
      BY <1>3, <3>1 DEF CheckpointStep, SendCheckpoint, SkipCheckpoint, PutInQueue,
             CheckpointDone, CheckpointRejected, StorageFailsCheckpoint
  <2>3. pc' \in [Callers -> Awaited]
    BY <2>2, AwaitMoves DEF TypeOK
  <2>4. payload' \in [Callers -> {NoSnapshot} \union Item]
    <3>1. CASE SendCheckpoint(c)
      BY <3>1, SendAnswersMoves DEF SendCheckpoint, TypeOK, PhaseFollows
    <3>2. CASE ~SendCheckpoint(c)
      BY <1>3, <3>2 DEF CheckpointStep, SkipCheckpoint, PutInQueue,
             CheckpointDone, CheckpointRejected, StorageFailsCheckpoint, TypeOK, RunType
    <3>3. QED
      BY <3>1, <3>2
  <2>5. queue' \in Seq(Item) /\ stamp' \in Nat
    <3>1. CASE PutInQueue(c)
      <4>1. payload[c] \in Item /\ stamp \in Nat /\ queue \in Seq(Item)
        BY <3>1 DEF PutInQueue, PayloadsAreSound, OnTheWay, Sound, TypeOK, RunType
      <4>2. [payload[c] EXCEPT !.id = stamp + 1] \in Item
        BY <4>1 DEF Item
      <4>3. QED
        BY <3>1, <4>1, <4>2 DEF PutInQueue
    <3>2. CASE ~PutInQueue(c)
      BY <1>3, <3>2 DEF CheckpointStep, SkipCheckpoint, SendCheckpoint,
             CheckpointDone, CheckpointRejected, StorageFailsCheckpoint, TypeOK, RunType
    <3>3. QED
      BY <3>1, <3>2
  <2>6. UNCHANGED <<ownRuns, local, todo>>
    BY <1>3 DEF CheckpointStep, SendCheckpoint, SkipCheckpoint, PutInQueue, CheckpointDone,
           CheckpointRejected, StorageFailsCheckpoint
  <2>7. RunType'
    BY <2>3, <2>4, <2>5, <2>6 DEF TypeOK, RunType
  <2>8. Bounded'
    BY <1>3, OutcomeType DEF CheckpointStep, SendCheckpoint, SkipCheckpoint, PutInQueue,
           CheckpointDone, CheckpointRejected, StorageFailsCheckpoint, TypeOK, ServerType, Bounded
  <2>9. UNCHANGED server
    BY <1>3 DEF CheckpointStep, SendCheckpoint, SkipCheckpoint, PutInQueue, CheckpointDone,
           CheckpointRejected, StorageFailsCheckpoint
  <2>10. ServerType'
    BY <2>8, <2>9 DEF TypeOK, ServerType, Bounded
  <2>11. QED
    BY <2>1, <2>7, <2>10 DEF TypeOK
<1>4. QED
  BY <1>1, <1>2, <1>3
\* What a run of processSyncQueue does to the runs and to the queue.
LEMMA SyncMoves ==
    ASSUME TypeOK, NEW c \in Syncs, SyncStep(c), ~Arrive(c)
    PROVE  /\ UNCHANGED <<phase, session, ver, hash, local, stamp, ticking, server, sw>>
           /\ \/ queue' = queue
              \/ RemoveItem(c) /\ \E i \in DOMAIN queue :
                    queue[i].id = payload[c].id /\ queue' = RemoveAt(queue, i)
           /\ \/ /\ \E what \in {"read", "remove", "idle"} :
                       Await(c, what) /\ (what = "remove" => SyncDone(c))
                 /\ UNCHANGED <<payload, todo>>
              \/ NextItem(c, queue, queue) /\ UNCHANGED queue
              \/ NextItem(c, todo[c], queue')
           /\ ownRuns' \in {ownRuns, ownRuns \union {c}}
<1> USE DEF store, storage, server
<1>1. UNCHANGED <<phase, session, ver, hash, local, stamp, ticking, server, sw>>
  BY DEF SyncStep, SyncClick, ReadQueue, SyncDone, SyncRejected, RemoveItem, StorageFailsSync, ui
<1>2. \/ queue' = queue
      \/ RemoveItem(c) /\ \E i \in DOMAIN queue :
            queue[i].id = payload[c].id /\ queue' = RemoveAt(queue, i)
  BY DEF SyncStep, SyncClick, ReadQueue, SyncDone, SyncRejected, RemoveItem, StorageFailsSync
<1>3. \/ /\ \E what \in {"read", "remove", "idle"} :
               Await(c, what) /\ (what = "remove" => SyncDone(c))
         /\ UNCHANGED <<payload, todo>>
      \/ NextItem(c, queue, queue) /\ UNCHANGED queue
      \/ NextItem(c, todo[c], queue')
  BY DEF SyncStep, SyncClick, ReadQueue, SyncDone, SyncRejected, RemoveItem, StorageFailsSync
<1>4. ownRuns' \in {ownRuns, ownRuns \union {c}}
  BY DEF SyncStep, SyncClick, ReadQueue, SyncDone, SyncRejected, RemoveItem, StorageFailsSync, ui
<1>5. QED
  BY <1>1, <1>2, <1>3, <1>4

LEMMA SyncType ==
    ASSUME TypeOK, PayloadsAreSound, NEW c \in Syncs, SyncStep(c)
    PROVE  TypeOK'
<1> USE CallersApart
<1>1. CASE Arrive(c)
  BY <1>1, ArriveType
<1>2. CASE ~Arrive(c)
  <2>1. queue \in Seq(Item) /\ queue' \in Seq(Item) /\ todo[c] \in Seq(Item)
    <3>1. queue \in Seq(Item) /\ todo[c] \in Seq(Item)
      BY DEF TypeOK, RunType
    <3>2. QED
      BY <1>2, <3>1, SyncMoves, RemoveLeaves
  <2>2. /\ pc' \in [Callers -> Awaited]
        /\ payload' \in [Callers -> {NoSnapshot} \union Item]
        /\ todo' \in [Syncs -> Seq(Item)]
    <3>1. CASE \E what \in {"read", "remove", "idle"} : Await(c, what) /\ UNCHANGED <<payload, todo>>
      <4>1. {"read", "remove", "idle"} \subseteq Awaited
        BY DEF Awaited
      <4>2. QED
        BY <3>1, <4>1, AwaitMoves DEF TypeOK, RunType
    <3>2. CASE NextItem(c, queue, queue)
      BY <2>1, <3>2, NextItemMoves DEF TypeOK
    <3>3. CASE NextItem(c, todo[c], queue')
      BY <2>1, <3>3, NextItemMoves DEF TypeOK
    <3>4. QED
      BY <1>2, <3>1, <3>2, <3>3, SyncMoves
  <2>3. StoreType'
    BY <1>2, SyncMoves DEF TypeOK, StoreType
  <2>4. RunType'
    BY <1>2, <2>1, <2>2, SyncMoves DEF TypeOK, RunType
  <2>5. Bounded'
    BY <1>2, OutcomeType DEF SyncStep, SyncClick, ReadQueue, SyncDone, SyncRejected, RemoveItem,
           StorageFailsSync, TypeOK, ServerType, Bounded, bounds
  <2>6. ServerType'
    BY <1>2, <2>5, SyncMoves DEF TypeOK, ServerType, Bounded, server
  <2>7. QED
    BY <2>3, <2>4, <2>6 DEF TypeOK
<1>3. QED
  BY <1>1, <1>2

\* The steps of handleSubmit.
SubmitSteps == Submit \/ AutoSubmit \/ SubmitStep \/ StorageFailsSubmit

LEMMA SubmitType ==
    ASSUME TypeOK, PhaseFollows, PayloadsAreSound, SubmitSteps
    PROVE  TypeOK'
<1> USE CallersApart
<1> USE DEF Submitted, SubmitFails, SubmissionAnswered, SubmissionFaked, SubmissionRejected,
            ClearOfflineData, SendSubmission, StorageFailsSubmit, Submit, AutoSubmit, SubmitStep,
            SubmitSteps
<1>1. CASE Arrive("submit")
  BY <1>1, ArriveType
<1>2. CASE ~Arrive("submit")
  <2>1. UNCHANGED <<ownRuns, session, ver, stamp, todo, server>>
    BY <1>2 DEF store, ui, storage
  <2>2. phase' \in Phases
    <3>1. {"submitting", "submitted", "error"} \subseteq Phases
      BY DEF Phases
    <3>2. phase' \in {phase, "submitting", "submitted", "error"}
      BY <1>2 DEF store
    <3>3. QED
      BY <3>1, <3>2 DEF TypeOK, StoreType
  <2>3. hash' \subseteq Versions
    <3>1. payload["submit"] \in Item \/ pc["submit"] # "arrived"
      BY DEF PayloadsAreSound, OnTheWay, Sound
    <3>2. hash' \in {hash, {}, {payload["submit"].ver}}
          /\ (SubmissionAnswered \/ hash' \in {hash, {}})
      BY <1>2 DEF store
    <3>3. SubmissionAnswered => payload["submit"].ver \in Versions
      BY <3>1 DEF Answered, Item
    <3>4. QED
      BY <3>2, <3>3 DEF TypeOK, StoreType
  <2>4. pc' \in [Callers -> Awaited]
    <3>1. {"save", "send", "clear", "idle"} \subseteq Awaited
      BY DEF Awaited
    <3>2. \E what \in {"save", "send", "clear", "idle"} : Await("submit", what)
      BY <1>2
    <3>3. QED
      BY <3>1, <3>2, AwaitMoves DEF TypeOK
  <2>5. payload' \in [Callers -> {NoSnapshot} \union Item]
    <3>1. CASE SendSubmission
      <4>1. session \in Sessions
        BY <3>1 DEF TypeOK, PhaseFollows
      <4>2. QED
        BY <3>1, <4>1, SendAnswersMoves DEF TypeOK
    <3>2. CASE ~SendSubmission
      BY <1>2, <3>2 DEF TypeOK, RunType
    <3>3. QED
      BY <3>1, <3>2
  <2>6. local' \in (0 .. MaxSessions) \X Versions
    <3>1. CASE Submit \/ AutoSubmit
      <4>1. session \in Sessions
        BY <3>1 DEF TypeOK, PhaseFollows
      <4>2. QED
        BY <3>1, <4>1, SaveLocallyType DEF TypeOK
    <3>2. CASE ~(Submit \/ AutoSubmit)
      <4>1. local' \in {local, <<0, 0>>}
        BY <1>2, <3>2 DEF storage
      <4>2. <<0, 0>> \in (0 .. MaxSessions) \X Versions
        BY TerminalAssumption DEF Versions
      <4>3. QED
        BY <4>1, <4>2 DEF TypeOK, RunType
    <3>3. QED
      BY <3>1, <3>2
  <2>7. queue' \in Seq(Item)
    <3>1. queue' \in {queue, <<>>}
      BY <1>2 DEF storage
    <3>2. <<>> \in Seq(Item)
      OBVIOUS
    <3>3. queue \in Seq(Item)
      BY DEF TypeOK, RunType
    <3>4. QED
      BY <3>1, <3>2, <3>3
  <2>8. Bounded'
    BY <1>2, OutcomeType DEF TypeOK, ServerType, Bounded, bounds
  <2>9. QED
    BY <2>1, <2>2, <2>3, <2>4, <2>5, <2>6, <2>7, <2>8
    DEF TypeOK, StoreType, RunType, ServerType, Bounded, server
<1>3. QED
  BY <1>1, <1>2

\* A new page knows nothing of the old one.
LEMMA NewPageMoves ==
    ASSUME TypeOK, NewPage
    PROVE  /\ phase' = "idle" /\ session' = 0 /\ hash' = {} /\ ownRuns' = {} /\ ~ticking'
           /\ \A c \in Callers : pc'[c] = "idle" /\ payload'[c] = NoSnapshot
           /\ \A c \in Syncs : todo'[c] = <<>>
           /\ pc' \in [Callers -> Awaited]
           /\ payload' \in [Callers -> {NoSnapshot} \union Item] /\ todo' \in [Syncs -> Seq(Item)]
           /\ UNCHANGED <<ver, stamp, link, server>>
<1>1. "idle" \in Awaited
  BY DEF Awaited
<1>2. QED
  BY <1>1 DEF NewPage
\* The steps of the candidate outside handleSubmit, and of the environment.
CandidateStep == Start \/ StartLost \/ Edit \/ TimeUp \/ ReturnToExam
Reloads == NextCandidate \/ \E kept \in BOOLEAN : Restart(kept)
LinkStep == LinkDown \/ LinkUp \/ ClaimClients

LEMMA CandidateType ==
    ASSUME TypeOK, PhaseFollows, CandidateStep
    PROVE  TypeOK'
<1> USE DEF CandidateStep, Start, StartLost, Edit, TimeUp, ReturnToExam, Mount
<1>1. UNCHANGED <<storage, runs, cp, received, subs>> /\ ownRuns' \in {ownRuns, {}}
  BY DEF server, ui
<1>2. RunType'
  BY <1>1 DEF TypeOK, RunType, storage, runs
<1>3. started' \in 0 .. MaxSessions /\ (Start => started' \in Sessions)
  <2>1. CASE Start \/ StartLost
    BY <2>1, TerminalAssumption DEF TypeOK, ServerType, Sessions
  <2>2. CASE ~(Start \/ StartLost)
    BY <2>2 DEF TypeOK, ServerType, server
  <2>3. QED
    BY <2>1, <2>2
<1>4. Bounded'
  <2>1. UNCHANGED bounds \/ Fault
    OBVIOUS
  <2>2. QED
    BY <2>1, FaultType DEF Bounded, bounds, Fault, TypeOK, ServerType
<1>5. ServerType'
  BY <1>1, <1>3, <1>4 DEF TypeOK, ServerType, Bounded
<1>6. phase' \in Phases
  <2>1. "active" \in Phases
    BY DEF Phases
  <2>2. phase' \in {phase, "active"}
    BY DEF store
  <2>3. QED
    BY <2>1, <2>2 DEF TypeOK, StoreType
<1>7. session' \in 0 .. MaxSessions
  <2>1. session' = session \/ (Start /\ session' = started')
    BY DEF store
  <2>2. QED
    BY <1>3, <2>1 DEF TypeOK, StoreType
<1>8. hash' \in {hash, {}}
  BY DEF store
<1>9. ver' \in [Sessions -> Versions]
  <2>1. CASE Edit
    <3>1. session \in Sessions /\ ver[session] + 1 \in Versions
      BY <2>1, TerminalAssumption DEF PhaseFollows, TypeOK, StoreType, Versions
    <3>2. QED
      BY <2>1, <3>1 DEF TypeOK, StoreType
  <2>2. CASE ~Edit
    BY <2>2 DEF store, TypeOK, StoreType
  <2>3. QED
    BY <2>1, <2>2
<1>10. QED
  BY <1>2, <1>5, <1>6, <1>7, <1>8, <1>9 DEF TypeOK, StoreType

LEMMA ReloadMoves ==
    ASSUME Reloads
    PROVE  /\ NewPage
           /\ local' = local \/ local' = <<0, 0>>
           /\ queue' = queue \/ queue' = <<>>
           /\ UNCHANGED bounds \/ Fault
BY DEF Reloads, NextCandidate, Restart, NewPage

LEMMA ReloadType == ASSUME TypeOK, Reloads PROVE TypeOK'
<1>1. NewPage /\ "idle" \in Phases
  BY ReloadMoves DEF Phases
<1>2. StoreType'
  BY <1>1, NewPageMoves, TerminalAssumption DEF TypeOK, StoreType
<1>3. local' \in (0 .. MaxSessions) \X Versions
  <2>1. <<0, 0>> \in (0 .. MaxSessions) \X Versions
    BY TerminalAssumption DEF Versions
  <2>2. QED
    BY <2>1, ReloadMoves DEF TypeOK, RunType
<1>4. queue' \in Seq(Item)
  <2>1. <<>> \in Seq(Item)
    OBVIOUS
  <2>2. QED
    BY <2>1, ReloadMoves DEF TypeOK, RunType
<1>5. RunType'
  BY <1>1, <1>3, <1>4, NewPageMoves DEF TypeOK, RunType
<1>6. Bounded'
  BY ReloadMoves, FaultType DEF Bounded, bounds, Fault, TypeOK, ServerType
<1>7. ServerType'
  BY <1>1, <1>6, NewPageMoves DEF TypeOK, ServerType, Bounded, server
<1>8. QED
  BY <1>2, <1>5, <1>7 DEF TypeOK

LEMMA LinkMoves ==
    ASSUME TypeOK, LinkStep
    PROVE  /\ UNCHANGED <<phase, session, ver, hash, storage, ticking, payload, todo, server>>
           /\ sw' = sw \/ sw' = TRUE
           /\ \/ UNCHANGED <<pc, ownRuns>>
              \/ \E c \in Syncs : pc[c] = "idle" /\ Await(c, "read")
                                  /\ ownRuns' = ownRuns \union {c}
BY DEF LinkStep, LinkDown, LinkUp, ClaimClients, store, ui, runs

LEMMA LinkType == ASSUME TypeOK, LinkStep PROVE TypeOK'
<1>1. StoreType'
  BY LinkMoves DEF TypeOK, StoreType
<1>2. pc' \in [Callers -> Awaited] /\ ownRuns' \subseteq Syncs
  <2>1. "read" \in Awaited
    BY DEF Awaited
  <2>2. QED
    BY <2>1, LinkMoves, AwaitMoves, CallersApart DEF TypeOK, RunType
<1>3. RunType'
  BY <1>2, LinkMoves DEF TypeOK, RunType, storage
<1>4. Bounded'
  <2>1. \/ UNCHANGED <<ticks, outages, faults>>
        \/ outages < MaxOutages /\ outages' = outages + 1 /\ UNCHANGED <<ticks, faults>>
    BY DEF LinkStep, LinkDown, LinkUp, ClaimClients, bounds
  <2>2. QED
    BY <2>1, TerminalAssumption DEF TypeOK, ServerType, Bounded
<1>5. ServerType'
  BY <1>4, LinkMoves DEF TypeOK, ServerType, Bounded, server
<1>6. QED
  BY <1>1, <1>3, <1>5 DEF TypeOK

LEMMA NextIsKnown ==
    Next <=> \/ \E c \in Checkpoints : CheckpointStep(c)
             \/ \E c \in Syncs : SyncStep(c)
             \/ SubmitSteps \/ CandidateStep \/ Reloads \/ LinkStep
BY DEF Next, SubmitSteps, CandidateStep, Reloads, LinkStep

LEMMA TypeStep ==
    ASSUME TypeOK, PhaseFollows, PayloadsAreSound, [Next]_vars
    PROVE  TypeOK'
<1>1. CASE UNCHANGED vars
  BY <1>1 DEF vars, store, storage, runs, ui, server, bounds, TypeOK, StoreType, RunType, ServerType
<1>2. CASE Next
  BY <1>2, NextIsKnown, CheckpointType, SyncType, SubmitType, CandidateType, ReloadType, LinkType
<1>3. QED
  BY <1>1, <1>2
(***************************************************************************)
(* What is submitted.                                                      *)
(***************************************************************************)
\* SubmitInv is about these alone.
LEMMA SubmitKept ==
    ASSUME SubmitInv, UNCHANGED <<phase, session, ver, hash, local, ticking, subs, sw>>,
           pc'["submit"] = pc["submit"], payload'["submit"] = payload["submit"]
    PROVE  SubmitInv'
BY DEF SubmitInv, PhaseFollows, NothingIsLost, SubmissionFaithful

\* A service worker that takes control takes nothing back.
LEMMA SubmitClaimed ==
    ASSUME SubmitInv, UNCHANGED <<phase, session, ver, hash, local, ticking, subs>>,
           sw' = sw \/ sw' = TRUE,
           pc'["submit"] = pc["submit"], payload'["submit"] = payload["submit"]
    PROVE  SubmitInv'
BY DEF SubmitInv, PhaseFollows, NothingIsLost, SubmissionFaithful

LEMMA SubmitCheckpoint ==
    ASSUME TypeOK, SubmitInv, NEW c \in Checkpoints, CheckpointStep(c)
    PROVE  SubmitInv'
<1> USE CallersApart
<1> USE DEF CheckpointStep, Tick, SendCheckpoint, SkipCheckpoint, PutInQueue, CheckpointDone,
            CheckpointRejected, StorageFailsCheckpoint, Arrive
<1>1. UNCHANGED <<phase, session, ver, hash, ticking, subs, sw>>
  BY DEF store, ui, server
<1>2. pc'["submit"] = pc["submit"]
  <2>1. \E what : Await(c, what)
    OBVIOUS
  <2>2. PICK what : pc' = [pc EXCEPT ![c] = what]
    BY <2>1 DEF Await
  <2>3. pc \in [Callers -> Awaited] /\ "submit" \in Callers /\ "submit" # c
    BY DEF TypeOK, RunType
  <2> HIDE DEF CheckpointStep
  <2>4. QED
    BY <2>2, <2>3
<1>3. payload'["submit"] = payload["submit"]
  BY DEF SendAnswers, TypeOK, RunType
<1>4. CASE Tick(c)
  <2>1. ticking /\ local' = <<session, ver[session]>>
    BY <1>4 DEF SaveLocally
  <2>2. pc["submit"] \in {"idle", "save"}
    BY <2>1 DEF SubmitInv, PhaseFollows
  <2>3. QED
    BY <1>1, <1>2, <1>3, <2>1, <2>2 DEF SubmitInv, PhaseFollows, NothingIsLost, SubmissionFaithful
<1>5. CASE ~Tick(c)
  <2>1. local' = local
    BY <1>5 DEF storage
  <2>2. QED
    BY <1>1, <1>2, <1>3, <2>1, SubmitKept
<1>6. QED
  BY <1>4, <1>5

LEMMA SubmitSync ==
    ASSUME TypeOK, SubmitInv, NEW c \in Syncs, SyncStep(c)
    PROVE  SubmitInv'
<1> USE CallersApart
<1>1. CASE Arrive(c)
  BY <1>1, SubmitKept DEF Arrive, Await, store, ui, storage, TypeOK, RunType
<1>2. CASE ~Arrive(c)
  <2>1. UNCHANGED <<phase, session, ver, hash, local, ticking, subs, sw>>
    BY <1>2, SyncMoves DEF server
  <2>2. pc'["submit"] = pc["submit"] /\ payload'["submit"] = payload["submit"]
    <3>1. /\ pc \in [Callers -> Awaited] /\ payload \in [Callers -> {NoSnapshot} \union Item]
          /\ c \in Callers /\ "submit" \in Callers /\ c # "submit"
      BY DEF TypeOK, RunType
    <3>2. CASE \E what \in {"read", "remove", "idle"} : Await(c, what) /\ UNCHANGED <<payload, todo>>
      BY <3>1, <3>2 DEF Await
    <3>3. CASE NextItem(c, queue, queue)
      BY <3>1, <3>3 DEF NextItem, Await
    <3>4. CASE NextItem(c, todo[c], queue')
      BY <3>1, <3>4 DEF NextItem, Await
    <3>5. QED
      BY <1>2, <3>2, <3>3, <3>4, SyncMoves
  <2>3. QED
    BY <2>1, <2>2, SubmitKept
<1>3. QED
  BY <1>1, <1>2

LEMMA SubmitSubmit ==
    ASSUME TypeOK, SubmitInv, SubmitSteps
    PROVE  SubmitInv'
<1> USE CallersApart DEF SubmitInv
<1>1. CASE Submit \/ AutoSubmit
  <2>1. /\ phase = "active" /\ phase' = "submitting" /\ local' = <<session, ver[session]>>
        /\ pc' = [pc EXCEPT !["submit"] = "save"]
        /\ UNCHANGED <<session, ver, payload, subs, sw, ticking, hash>>
    BY <1>1 DEF Submit, AutoSubmit, SaveLocally, Await, server, ui
  <2>2. pc'["submit"] = "save"
    BY <2>1 DEF TypeOK, RunType
  <2>3. QED
    BY <2>1, <2>2 DEF PhaseFollows, NothingIsLost, SubmissionFaithful
<1>2. CASE SendSubmission
  <2>1. /\ pc["submit"] = "save" /\ ticking' = FALSE
        /\ UNCHANGED <<phase, session, ver, hash, local, subs, sw>>
    BY <1>2 DEF SendSubmission, store, storage, server
  <2>2. pc'["submit"] = "send"
    BY <1>2 DEF SendSubmission, Await, TypeOK, RunType
  <2>3. phase = "submitting" /\ session \in Sessions
    BY <2>1 DEF PhaseFollows
  <2>4. payload'["submit"].session = session /\ payload'["submit"].ver = ver[session]
    BY <1>2, <2>3, SendAnswersMoves DEF SendSubmission, TypeOK
  <2>5. QED
    BY <2>1, <2>2, <2>3, <2>4 DEF PhaseFollows, NothingIsLost, SubmissionFaithful
<1>3. CASE Arrive("submit")
  <2>1. /\ pc["submit"] = "send" /\ pc' = [pc EXCEPT !["submit"] = "arrived"]
        /\ subs' = [subs EXCEPT ![payload["submit"].session] =
                       subs[payload["submit"].session] \union {payload["submit"].ver}]
        /\ UNCHANGED <<phase, session, ver, hash, local, ticking, payload, sw>>
    BY <1>3 DEF Arrive, Await, store, storage, ui
  <2>2. pc'["submit"] = "arrived"
    BY <2>1 DEF TypeOK, RunType
  <2>3. /\ phase = "submitting" /\ session \in Sessions
        /\ payload["submit"].session = session /\ payload["submit"].ver = ver[session]
    BY <2>1 DEF PhaseFollows, NothingIsLost
  <2>4. ver[session] \in subs'[session]
    BY <2>1, <2>3 DEF TypeOK, ServerType
  <2>5. QED
    BY <2>1, <2>2, <2>3, <2>4 DEF PhaseFollows, NothingIsLost, SubmissionFaithful
<1>4. CASE SubmissionAnswered \/ SubmissionFaked
  <2>1. /\ phase' = "submitted" /\ local' = <<0, 0>> /\ pc' = [pc EXCEPT !["submit"] = "clear"]
        /\ UNCHANGED <<session, ver, ticking, subs, sw>>
    BY <1>4 DEF SubmissionAnswered, SubmissionFaked, Submitted, Await, ui, server
  <2>2. pc'["submit"] = "clear"
    BY <2>1 DEF TypeOK, RunType
  <2>3. pc["submit"] \in {"send", "arrived"}
    BY <1>4 DEF SubmissionAnswered, SubmissionFaked, Answered, Faked, NetworkError
  <2>4. /\ session \in Sessions /\ ~ticking
        /\ payload["submit"].ver = ver[session]
    BY <2>3 DEF PhaseFollows, NothingIsLost
  <2>5. \/ hash' = {ver[session]} /\ ver[session] \in subs[session]
        \/ hash' = {} /\ sw
    BY <1>4, <2>4 DEF SubmissionAnswered, SubmissionFaked, Submitted, Answered, Faked,
           NothingIsLost
  <2>6. QED
    BY <2>1, <2>2, <2>4, <2>5 DEF PhaseFollows, NothingIsLost, SubmissionFaithful
<1>5. CASE SubmissionRejected \/ StorageFailsSubmit
  <2>1. /\ phase' = "error" /\ pc' = [pc EXCEPT !["submit"] = "idle"]
        /\ pc["submit"] \in {"send", "arrived", "save", "clear"}
        /\ UNCHANGED <<session, ver, hash, local, subs, sw>>
    BY <1>5 DEF SubmissionRejected, StorageFailsSubmit, SubmitFails, Rejected, Refused,
           NetworkError, Await, storage, server
  <2>2. pc'["submit"] = "idle"
    BY <2>1 DEF TypeOK, RunType
  <2>3. session \in Sessions
    BY <2>1 DEF PhaseFollows
  <2>4. \/ local = <<session, ver[session]>>
        \/ ver[session] \in subs[session]
        \/ sw /\ local = <<0, 0>>
    BY <2>1 DEF PhaseFollows, NothingIsLost
  <2>5. QED
    BY <2>1, <2>2, <2>3, <2>4 DEF PhaseFollows, NothingIsLost, SubmissionFaithful
<1>6. CASE ClearOfflineData
  <2>1. /\ pc["submit"] = "clear" /\ pc' = [pc EXCEPT !["submit"] = "idle"]
        /\ UNCHANGED <<phase, session, ver, hash, local, ticking, subs, sw>>
    BY <1>6 DEF ClearOfflineData, Await, store, ui, server
  <2>2. pc'["submit"] = "idle"
    BY <2>1 DEF TypeOK, RunType
  <2>3. QED
    BY <2>1, <2>2 DEF PhaseFollows, NothingIsLost, SubmissionFaithful
<1>7. QED
  BY <1>1, <1>2, <1>3, <1>4, <1>5, <1>6 DEF SubmitSteps, SubmitStep

LEMMA SubmitCandidate ==
    ASSUME TypeOK, SubmitInv, CandidateStep
    PROVE  SubmitInv'
<1> USE DEF SubmitInv
<1>1. UNCHANGED <<runs, local, sw, subs>>
  BY DEF CandidateStep, Start, StartLost, Edit, TimeUp, ReturnToExam, server, storage
<1>2. CASE StartLost \/ TimeUp
  <2>1. UNCHANGED <<phase, session, ver, hash, ticking>>
    BY <1>2 DEF StartLost, TimeUp, store, ui
  <2>2. QED
    BY <1>1, <2>1, SubmitKept DEF runs
<1>3. CASE Edit
  <2>1. phase = "active" /\ UNCHANGED <<phase, session, hash, ticking>>
    BY <1>3 DEF Edit, ui
  <2>2. pc["submit"] = "idle"
    BY <2>1 DEF PhaseFollows
  <2>3. QED
    BY <1>1, <2>1, <2>2 DEF runs, PhaseFollows, NothingIsLost, SubmissionFaithful
<1>4. CASE Start
  <2>1. phase = "idle" /\ phase' = "active" /\ session' \in Sessions
    BY <1>4, TerminalAssumption DEF Start, TypeOK, ServerType, Sessions
  <2>2. pc["submit"] = "idle"
    BY <2>1 DEF PhaseFollows
  <2>3. QED
    BY <1>1, <2>1, <2>2 DEF runs, PhaseFollows, NothingIsLost, SubmissionFaithful
<1>5. CASE ReturnToExam
  <2>1. phase = "error" /\ phase' = "active" /\ session' = session
    BY <1>5 DEF ReturnToExam
  <2>2. pc["submit"] = "idle" /\ session \in Sessions
    BY <2>1 DEF PhaseFollows
  <2>3. QED
    BY <1>1, <2>1, <2>2 DEF runs, PhaseFollows, NothingIsLost, SubmissionFaithful
<1>6. QED
  BY <1>2, <1>3, <1>4, <1>5 DEF CandidateStep

LEMMA SubmitReload ==
    ASSUME TypeOK, Reloads
    PROVE  SubmitInv'
<1>1. phase' = "idle" /\ ~ticking' /\ pc'["submit"] = "idle"
  BY ReloadMoves, NewPageMoves, CallersApart
<1>2. QED
  BY <1>1 DEF SubmitInv, PhaseFollows, NothingIsLost, SubmissionFaithful

LEMMA SubmitLink ==
    ASSUME TypeOK, SubmitInv, LinkStep
    PROVE  SubmitInv'
<1>1. pc'["submit"] = pc["submit"]
  BY LinkMoves, CallersApart DEF Await, TypeOK, RunType
<1>2. QED
  BY <1>1, LinkMoves, SubmitClaimed DEF storage, server

LEMMA SubmitInvStep ==
    ASSUME TypeOK, SubmitInv, [Next]_vars
    PROVE  SubmitInv'
<1>1. CASE UNCHANGED vars
  BY <1>1, SubmitKept DEF vars, store, storage, runs, ui, server
<1>2. CASE Next
  BY <1>2, NextIsKnown, SubmitCheckpoint, SubmitSync, SubmitSubmit, SubmitCandidate, SubmitReload,
     SubmitLink
<1>3. QED
  BY <1>1, <1>2
(***************************************************************************)
(* What is queued.                                                         *)
(***************************************************************************)
VerGrows == \A s \in Sessions : ver[s] <= ver'[s]

LEMMA SoundStays ==
    ASSUME StoreType, StoreType', VerGrows, NEW p, Sound(p)
    PROVE  p \in Item /\ p.ver <= ver'[p.session]
<1>1. p.session \in Sessions /\ p.ver \in Nat
  BY TerminalAssumption DEF Sound, Item, Versions
<1>2. ver[p.session] \in Nat /\ ver'[p.session] \in Nat
  BY <1>1, TerminalAssumption DEF StoreType, Versions
<1>3. QED
  BY <1>1, <1>2 DEF Sound, VerGrows

\* Nothing new is queued.
LEMMA ItemsKept ==
    ASSUME StoreType, StoreType', VerGrows, ItemsAreKeyed, stamp' = stamp, Queued' \subseteq Queued
    PROVE  ItemsAreKeyed'
<1>1. ASSUME NEW x \in Queued' PROVE /\ Sound(x)' /\ x.id <= stamp'
                                     /\ \A y \in Queued' : x.id = y.id => x = y
  <2>1. x \in Queued /\ Sound(x) /\ x.id <= stamp /\ \A y \in Queued : x.id = y.id => x = y
    BY DEF ItemsAreKeyed
  <2>2. Sound(x)'
    BY <2>1, SoundStays DEF Sound
  <2>3. QED
    BY <2>1, <2>2
<1>2. QED
  BY <1>1 DEF ItemsAreKeyed

\* The queue is the only thing that gets shorter.
LEMMA QueuedShrinks ==
    ASSUME ToSet(queue') \subseteq ToSet(queue), todo' = todo,
           \A c \in Syncs : pc'[c] \in OnTheWay => pc[c] \in OnTheWay /\ payload'[c] = payload[c]
    PROVE  Queued' \subseteq Queued
BY DEF Queued, Held

LEMMA QueueArrive ==
    ASSUME TypeOK, TypeOK', QueueInv, NEW c \in Callers, Arrive(c)
    PROVE  QueueInv'
<1> USE CallersApart DEF QueueInv
<1>1. /\ pc[c] = "send" /\ pc' = [pc EXCEPT ![c] = "arrived"]
      /\ UNCHANGED <<ver, queue, stamp, payload, todo, sw>>
  BY DEF Arrive, Await, store, storage
<1>2. /\ pc'[c] = "arrived" /\ \A x \in Callers : x # c => pc'[x] = pc[x]
      /\ "arrived" \in OnTheWay /\ "send" \in OnTheWay
  BY <1>1 DEF TypeOK, RunType, OnTheWay
<1>3. VerGrows /\ StoreType /\ StoreType'
  BY <1>1, TerminalAssumption DEF VerGrows, TypeOK, StoreType, Versions
<1>4. \A x \in Callers : pc'[x] \in OnTheWay => pc[x] \in OnTheWay /\ payload'[x] = payload[x]
  BY <1>1, <1>2
<1>5. ItemsAreKeyed'
  BY <1>1, <1>3, <1>4, QueuedShrinks, ItemsKept
<1>6. PayloadsAreSound'
  BY <1>3, <1>4, SoundStays DEF PayloadsAreSound, Sound
<1>7. Sound(payload[c])
  BY <1>1, <1>2 DEF PayloadsAreSound
<1>8. received \subseteq received' /\ (c # "submit" => Got(payload[c])')
  BY <1>1 DEF Arrive, Got
<1>9. Receipts'
  <2> SUFFICES ASSUME NEW x \in Syncs
               PROVE  /\ pc'[x] = "arrived" => Got(payload[x])'
                      /\ pc'[x] = "remove" => sw' \/ Got(payload[x])'
    BY DEF Receipts
  <2>1. CASE x = c
    BY <1>2, <1>8, <2>1
  <2>2. CASE x # c
    BY <1>1, <1>2, <1>8, <2>2 DEF Receipts, Got
  <2>3. QED
    BY <2>1, <2>2
<1>10. CheckpointsAreSound'
  <2>1. CASE c = "submit"
    BY <1>1, <2>1 DEF Arrive, CheckpointsAreSound
  <2>2. CASE c # "submit"
    <3>1. cp' = [cp EXCEPT ![payload[c].session] = payload[c].ver]
      BY <2>2 DEF Arrive
    <3>2. payload[c].session \in Sessions /\ payload[c].ver <= ver[payload[c].session]
      BY <1>7 DEF Sound, Item
    <3>3. QED
      BY <1>1, <3>1, <3>2 DEF CheckpointsAreSound, TypeOK, ServerType
  <2>3. QED
    BY <2>1, <2>2
<1>11. QED
  BY <1>5, <1>6, <1>9, <1>10

LEMMA QueueCheckpoint ==
    ASSUME TypeOK, TypeOK', PhaseFollows, QueueInv, NEW c \in Checkpoints, CheckpointStep(c)
    PROVE  QueueInv' /\ ToSet(queue) \subseteq ToSet(queue')
<1> USE CallersApart DEF QueueInv
<1>1. CASE Arrive(c)
  BY <1>1, QueueArrive DEF Arrive, storage
<1>2. CASE ~Arrive(c)
  <2>1. UNCHANGED <<ver, todo, sw, cp, received>>
    BY <1>2 DEF CheckpointStep, Tick, SendCheckpoint, SkipCheckpoint, PutInQueue, CheckpointDone,
           CheckpointRejected, StorageFailsCheckpoint, store, server
  <2>2. PICK what \in {"save", "send", "put", "idle"} :
           /\ Await(c, what)
           /\ what = "send" => SendCheckpoint(c)
           /\ what = "put" => SendCheckpoint(c) \/ pc[c] \in OnTheWay
    BY <1>2 DEF CheckpointStep, Tick, SendCheckpoint, SkipCheckpoint, PutInQueue, CheckpointDone,
           CheckpointRejected, StorageFailsCheckpoint, Rejected, Refused, NetworkError, OnTheWay
  <2>3. /\ c \in Callers /\ c \notin Syncs /\ pc'[c] = what
        /\ \A x \in Callers : x # c => pc'[x] = pc[x]
    BY <2>2 DEF Await, TypeOK, RunType
  <2>4. /\ \A x \in Callers : x # c => payload'[x] = payload[x]
        /\ ~SendCheckpoint(c) => payload' = payload
        /\ SendCheckpoint(c) => Sound(payload[c])'
    <3>1. CASE SendCheckpoint(c)
      <4>1. session \in Sessions /\ SendAnswers(c)
        BY <3>1 DEF SendCheckpoint, PhaseFollows
      <4>2. /\ payload'[c] = [id |-> 0, session |-> session, ver |-> ver[session]]
            /\ payload'[c] \in Item /\ ver[session] \in Nat
            /\ \A x \in Callers : x # c => payload'[x] = payload[x]
        BY <4>1, SendAnswersMoves, TerminalAssumption DEF TypeOK, StoreType, Versions
      <4>3. Sound(payload[c])'
        BY <2>1, <4>2 DEF Sound
      <4>4. QED
        BY <3>1, <4>2, <4>3
    <3>2. CASE ~SendCheckpoint(c)
      BY <1>2, <3>2 DEF CheckpointStep, Tick, SkipCheckpoint, PutInQueue, CheckpointDone,
             CheckpointRejected, StorageFailsCheckpoint
    <3>3. QED
      BY <3>1, <3>2
  <2>5. VerGrows /\ StoreType /\ StoreType'
    BY <2>1, TerminalAssumption DEF VerGrows, TypeOK, StoreType, Versions
  <2>6. PayloadsAreSound'
    <3>1. \A x \in Callers : x # c /\ pc'[x] \in OnTheWay => Sound(payload[x])'
      BY <2>3, <2>4, <2>5, SoundStays DEF PayloadsAreSound, Sound
    <3>2. pc'[c] \in OnTheWay => Sound(payload[c])'
      <4>1. CASE SendCheckpoint(c)
        BY <2>4, <4>1
      <4>2. CASE ~SendCheckpoint(c) /\ what = "put"
        BY <2>2, <2>3, <2>4, <2>5, <4>2, SoundStays DEF PayloadsAreSound, Sound
      <4>3. CASE ~SendCheckpoint(c) /\ what # "put"
        BY <2>2, <2>3, <4>3 DEF OnTheWay
      <4>4. QED
        BY <4>1, <4>2, <4>3
    <3>3. QED
      BY <3>1, <3>2 DEF PayloadsAreSound
  <2>7. Receipts' /\ CheckpointsAreSound'
    BY <2>1, <2>3, <2>4 DEF Receipts, CheckpointsAreSound, Got
  <2>8. CASE PutInQueue(c)
    <3> DEFINE item == [payload[c] EXCEPT !.id = stamp + 1]
    <3>1. /\ queue' = Append(queue, item) /\ stamp' = stamp + 1 /\ payload' = payload
          /\ payload[c] \in Item /\ Sound(payload[c])
      BY <2>8 DEF PutInQueue, PayloadsAreSound, OnTheWay, Sound
    <3>2. /\ item \in Item /\ item.id = stamp + 1 /\ stamp \in Nat
          /\ item.session = payload[c].session /\ item.ver = payload[c].ver
      BY <3>1 DEF TypeOK, RunType, Item
    <3> HIDE DEF item
    <3>3. ToSet(queue') = ToSet(queue) \union {item}
      BY <3>1, <3>2, AppendAdds DEF TypeOK, RunType
    <3>4. Queued' = Queued \union {item}
      <4>1. Held' = Held /\ \A x \in Syncs : payload'[x] = payload[x]
        BY <2>3, <3>1 DEF Held
      <4>2. {payload'[x] : x \in Held'} = {payload[x] : x \in Held}
        BY <4>1 DEF Held
      <4>3. UNION {ToSet(todo'[x]) : x \in Syncs} = UNION {ToSet(todo[x]) : x \in Syncs}
        BY <2>1
      <4>4. QED
        BY <3>3, <4>2, <4>3 DEF Queued
    <3>5. Sound(item)
      BY <3>1, <3>2 DEF Sound
    <3>6. \A x \in Queued : x \in Item /\ x.id \in Nat
      BY DEF ItemsAreKeyed, Sound, Item
    <3>7. ItemsAreKeyed'
      <4>1. \A x \in Queued \union {item} : x \in Item /\ x.ver <= ver'[x.session]
        BY <2>5, <3>5, SoundStays DEF ItemsAreKeyed
      <4>2. \A x \in Queued \union {item} :
               x.id <= stamp + 1 /\ \A y \in Queued \union {item} : x.id = y.id => x = y
        BY <3>2, <3>6 DEF ItemsAreKeyed
      <4>3. QED
        BY <3>1, <3>4, <4>1, <4>2 DEF ItemsAreKeyed, Sound
    <3>8. QED
      BY <2>6, <2>7, <3>3, <3>7
  <2>9. CASE ~PutInQueue(c)
    <3>1. UNCHANGED <<queue, stamp>>
      BY <1>2, <2>9 DEF CheckpointStep, Tick, SendCheckpoint, SkipCheckpoint, CheckpointDone,
             CheckpointRejected, StorageFailsCheckpoint, storage
    <3>2. \A x \in Syncs : pc'[x] \in OnTheWay => pc[x] \in OnTheWay /\ payload'[x] = payload[x]
      BY <2>3, <2>4
    <3>3. ItemsAreKeyed'
      BY <2>1, <2>5, <3>1, <3>2, QueuedShrinks, ItemsKept
    <3>4. QED
      BY <2>6, <2>7, <3>1, <3>3
  <2>10. QED
    BY <2>8, <2>9
<1>3. QED
  BY <1>1, <1>2
LEMMA QueuedHas ==
    /\ \A x : x \in Queued <=> \/ x \in ToSet(queue)
                               \/ \E c \in Syncs : x \in ToSet(todo[c])
                               \/ \E c \in Syncs : pc[c] \in OnTheWay /\ x = payload[c]
    /\ \A x : x \in Queued' <=> \/ x \in ToSet(queue')
                                \/ \E c \in Syncs : x \in ToSet(todo'[c])
                                \/ \E c \in Syncs : pc'[c] \in OnTheWay /\ x = payload'[c]
BY DEF Queued, Held

\* A run goes on with queued checkpoints only, and removes only what the
\* server has had or the service worker made up.
Replays(c) ==
    /\ \A x \in Callers : x # c => pc'[x] = pc[x] /\ payload'[x] = payload[x]
    /\ \A x \in Syncs : x # c => todo'[x] = todo[x]
    /\ ToSet(todo'[c]) \subseteq Queued
    /\ pc'[c] \in OnTheWay => payload'[c] \in Queued
    /\ pc'[c] # "arrived"
    /\ pc'[c] = "remove" => sw \/ Got(payload'[c])

LEMMA QueueSync ==
    ASSUME TypeOK, TypeOK', QueueInv, NEW c \in Syncs, SyncStep(c)
    PROVE  QueueInv' /\ \A x \in ToSet(queue) \ ToSet(queue') : sw \/ Got(x)
<1> USE CallersApart DEF QueueInv
<1>1. CASE Arrive(c)
  <2>1. queue' = queue /\ c \in Callers
    BY <1>1 DEF Arrive, storage
  <2>2. QED
    BY <1>1, <2>1, QueueArrive
<1>2. CASE ~Arrive(c)
  <2>1. UNCHANGED <<ver, stamp, cp, received, sw>>
    BY <1>2, SyncMoves DEF server
  <2>2. VerGrows /\ StoreType /\ StoreType'
    BY <2>1, TerminalAssumption DEF VerGrows, TypeOK, StoreType, Versions
  <2>3. /\ queue \in Seq(Item) /\ queue' \in Seq(Item) /\ todo[c] \in Seq(Item) /\ RunType
        /\ ToSet(todo[c]) \subseteq Queued /\ ToSet(queue) \subseteq Queued
    BY DEF TypeOK, RunType, Queued
  <2>4. /\ ToSet(queue') \subseteq ToSet(queue)
        /\ \A x \in ToSet(queue) \ ToSet(queue') : sw \/ Got(x)
    <3>1. CASE queue' = queue
      BY <3>1
    <3>2. ASSUME RemoveItem(c), NEW i \in DOMAIN queue, queue[i].id = payload[c].id,
                 queue' = RemoveAt(queue, i)
          PROVE  /\ ToSet(queue') \subseteq ToSet(queue)
                 /\ \A x \in ToSet(queue) \ ToSet(queue') : sw \/ Got(x)
      <4>1. pc[c] = "remove"
        BY <3>2 DEF RemoveItem
      <4>2. payload[c] \in Queued /\ queue[i] \in Queued
        BY <4>1, QueuedHas DEF OnTheWay, ToSet
      <4>3. queue[i] = payload[c]
        BY <3>2, <4>2 DEF ItemsAreKeyed
      <4>4. sw \/ Got(queue[i])
        BY <4>1, <4>3 DEF Receipts
      <4>5. QED
        BY <2>3, <3>2, <4>4, RemoveLeaves
    <3>3. QED
      BY <1>2, <3>1, <3>2, SyncMoves
  <2>5. Replays(c)
    <3>1. ASSUME NEW what \in {"read", "remove", "idle"}, Await(c, what),
                 what = "remove" => SyncDone(c), UNCHANGED <<payload, todo>>
          PROVE  Replays(c)
      <4>1. /\ pc'[c] = what /\ c \in Callers
            /\ \A x \in Callers : x # c => pc'[x] = pc[x]
        BY <2>3, <3>1 DEF Await, RunType
      <4>2. what = "remove" => /\ payload[c] \in Queued
                               /\ sw \/ Got(payload[c])
        BY <3>1, QueuedHas DEF SyncDone, Answered, Faked, NetworkError, OnTheWay, Receipts
      <4>3. pc'[c] \in OnTheWay => what = "remove"
        BY <4>1 DEF OnTheWay
      <4>4. QED
        BY <2>3, <3>1, <4>1, <4>2, <4>3 DEF Replays
    <3>2. ASSUME NEW items \in Seq(Item), NEW left \in Seq(Item), NextItem(c, items, left),
                 ToSet(items) \subseteq Queued
          PROVE  Replays(c)
      BY <2>3, <3>2, NextItemMoves DEF OnTheWay, Replays
    <3>3. QED
      BY <1>2, <2>3, <3>1, <3>2, SyncMoves
  <2>6. Queued' \subseteq Queued
    <3>1. \A x \in Syncs : ToSet(todo'[x]) \subseteq Queued
      BY <2>5, QueuedHas DEF Replays
    <3>2. \A x \in Syncs : pc'[x] \in OnTheWay => payload'[x] \in Queued
      BY <2>5, QueuedHas DEF Replays
    <3>3. QED
      BY <2>3, <2>4, <3>1, <3>2, QueuedHas
  <2>7. ItemsAreKeyed'
    BY <2>1, <2>2, <2>6, ItemsKept
  <2>8. PayloadsAreSound'
    <3>1. \A x \in Callers : pc'[x] \in OnTheWay => Sound(payload'[x])
      BY <2>5 DEF PayloadsAreSound, ItemsAreKeyed, Held, Replays
    <3>2. \A x \in Callers : pc'[x] \in OnTheWay => Sound(payload[x])'
      BY <3>1, <2>2, SoundStays DEF Sound
    <3>3. QED
      BY <3>2 DEF PayloadsAreSound
  <2>9. Receipts' /\ CheckpointsAreSound'
    BY <2>1, <2>5 DEF Receipts, CheckpointsAreSound, Got, Replays
  <2>10. QED
    BY <2>4, <2>7, <2>8, <2>9
<1>3. QED
  BY <1>1, <1>2
\* A step that queues nothing, reads nothing and forgets no edit.
LEMMA QueueKept ==
    ASSUME TypeOK, TypeOK', QueueInv, VerGrows, UNCHANGED <<stamp, cp, received>>,
           ToSet(queue') \subseteq ToSet(queue), todo' = todo, sw => sw',
           \A c \in Syncs : pc'[c] \in OnTheWay => pc[c] = pc'[c] /\ payload'[c] = payload[c],
           \A c \in Callers \ Syncs : pc'[c] \in OnTheWay => Sound(payload[c])'
    PROVE  QueueInv'
<1> USE CallersApart DEF QueueInv
<1>1. StoreType /\ StoreType' /\ ServerType
  BY DEF TypeOK
<1>2. ItemsAreKeyed'
  <2>1. Queued' \subseteq Queued
    BY QueuedShrinks
  <2>2. QED
    BY <1>1, <2>1, ItemsKept
<1>3. PayloadsAreSound'
  <2> SUFFICES ASSUME NEW c \in Callers, pc'[c] \in OnTheWay PROVE Sound(payload[c])'
    BY DEF PayloadsAreSound
  <2>1. CASE c \in Syncs
    BY <1>1, <2>1, SoundStays DEF PayloadsAreSound, Sound
  <2>2. CASE c \notin Syncs
    BY <2>2
  <2>3. QED
    BY <2>1, <2>2
<1>4. Receipts'
  BY DEF Receipts, Got, OnTheWay
<1>5. CheckpointsAreSound'
  <2> SUFFICES ASSUME NEW s \in Sessions PROVE cp'[s] <= ver'[s]
    BY DEF CheckpointsAreSound
  <2>1. cp[s] \in Nat /\ ver[s] \in Nat /\ ver'[s] \in Nat
    BY <1>1, TerminalAssumption DEF StoreType, ServerType, Versions
  <2>2. cp'[s] = cp[s] /\ cp[s] <= ver[s] /\ ver[s] <= ver'[s]
    BY DEF CheckpointsAreSound, VerGrows
  <2>3. QED
    BY <2>1, <2>2
<1>6. QED
  BY <1>2, <1>3, <1>4, <1>5

LEMMA SameVer == ASSUME StoreType, ver' = ver PROVE VerGrows
BY TerminalAssumption DEF StoreType, Versions, VerGrows

LEMMA QueueSubmit ==
    ASSUME TypeOK, TypeOK', PhaseFollows, QueueInv, SubmitSteps
    PROVE  QueueInv' /\ (queue' = queue \/ phase = "submitted")
<1> USE CallersApart
<1>1. CASE Arrive("submit")
  BY <1>1, QueueArrive DEF Arrive, storage
<1>2. CASE ~Arrive("submit")
  <2> USE DEF SubmitSteps, Submit, AutoSubmit, SubmitStep, SendSubmission, SubmissionAnswered,
              SubmissionFaked, SubmissionRejected, Submitted, SubmitFails, StorageFailsSubmit,
              ClearOfflineData
  <2>1. UNCHANGED <<ver, stamp, cp, received, todo, sw>>
    BY <1>2 DEF store, storage, server
  <2>2. queue' = queue \/ (pc["submit"] = "clear" /\ queue' = <<>>)
    <3>1. queue' = queue \/ ClearOfflineData
      BY <1>2 DEF storage
    <3>2. QED
      BY <3>1
  <2>3. PICK what \in {"save", "send", "clear", "idle"} :
           /\ Await("submit", what)
           /\ what = "send" => SendSubmission
           /\ what # "send" => payload' = payload
    <3>1. \/ Await("submit", "send") /\ SendSubmission
          \/ Await("submit", "save") /\ payload' = payload
          \/ Await("submit", "clear") /\ payload' = payload
          \/ Await("submit", "idle") /\ payload' = payload
      BY <1>2
    <3> HIDE DEF SendSubmission
    <3>2. QED
      BY <3>1
  <2>4. /\ pc'["submit"] = what
        /\ \A x \in Callers : x # "submit" => pc'[x] = pc[x]
    BY <2>3 DEF Await, TypeOK, RunType
  <2>5. /\ \A x \in Callers : x # "submit" => payload'[x] = payload[x]
        /\ what = "send" => Sound(payload["submit"])'
    <3>1. CASE what = "send"
      <4>1. session \in Sessions /\ SendAnswers("submit")
        BY <2>3, <3>1 DEF PhaseFollows
      <4>2. /\ payload'["submit"] = [id |-> 0, session |-> session, ver |-> ver[session]]
            /\ payload'["submit"] \in Item /\ ver[session] \in Nat
            /\ \A x \in Callers : x # "submit" => payload'[x] = payload[x]
        BY <4>1, SendAnswersMoves, TerminalAssumption DEF TypeOK, StoreType, Versions
      <4>3. Sound(payload["submit"])'
        BY <2>1, <4>2 DEF Sound
      <4>4. QED
        BY <4>2, <4>3
    <3>2. QED
      BY <2>3, <3>1
  <2>6. \A c \in Callers \ Syncs : pc'[c] \in OnTheWay => Sound(payload[c])'
    <3> SUFFICES ASSUME NEW c \in Callers \ Syncs, pc'[c] \in OnTheWay PROVE Sound(payload[c])'
      OBVIOUS
    <3>1. CASE c = "submit"
      BY <2>4, <2>5, <3>1 DEF OnTheWay
    <3>2. CASE c # "submit"
      BY <2>1, <2>4, <2>5, <3>2 DEF Sound, QueueInv, PayloadsAreSound
    <3>3. QED
      BY <3>1, <3>2
  <2>7. ToSet(queue') \subseteq ToSet(queue) /\ (queue' = queue \/ phase = "submitted")
    BY <2>2 DEF ToSet, PhaseFollows
  <2>8. VerGrows
    BY <2>1, SameVer DEF TypeOK
  <2>9. \A c \in Syncs : pc'[c] = pc[c] /\ payload'[c] = payload[c]
    BY <2>4, <2>5
  <2>10. QueueInv'
    BY <2>1, <2>6, <2>7, <2>8, <2>9, QueueKept
  <2>11. QED
    BY <2>7, <2>10
<1>3. QED
  BY <1>1, <1>2

LEMMA QueueCandidate ==
    ASSUME TypeOK, TypeOK', QueueInv, CandidateStep
    PROVE  QueueInv' /\ queue' = queue
<1> USE DEF CandidateStep, Start, StartLost, Edit, TimeUp, ReturnToExam, store, storage, runs, server
<1>1. UNCHANGED <<queue, stamp, pc, payload, todo, sw, cp, received>>
  OBVIOUS
<1>2. VerGrows
  <2>1. ver' = ver \/ ver' = [ver EXCEPT ![session] = ver[session] + 1]
    OBVIOUS
  <2>2. QED
    BY <2>1, TerminalAssumption DEF TypeOK, StoreType, Versions, VerGrows
<1>3. \A c \in Callers \ Syncs : pc'[c] \in OnTheWay => Sound(payload[c])'
  BY <1>1, <1>2, SoundStays DEF QueueInv, PayloadsAreSound, Sound, TypeOK
<1>4. QED
  BY <1>1, <1>2, <1>3, QueueKept

LEMMA QueueReload ==
    ASSUME TypeOK, TypeOK', QueueInv, Reloads
    PROVE  QueueInv' /\ phase' = "idle"
<1> USE CallersApart
<1>1. /\ phase' = "idle" /\ UNCHANGED <<ver, stamp, cp, received>>
      /\ \A c \in Callers : pc'[c] \notin OnTheWay
      /\ \A c \in Syncs : todo'[c] = <<>>
  BY ReloadMoves, NewPageMoves DEF server, OnTheWay
<1>2. ToSet(queue') \subseteq ToSet(queue)
  BY ReloadMoves DEF ToSet
<1>3. Queued' \subseteq Queued
  <2>1. \A c \in Syncs : ToSet(todo'[c]) = {}
    BY <1>1 DEF ToSet
  <2>2. QED
    BY <1>1, <1>2, <2>1, QueuedHas
<1>4. StoreType /\ StoreType' /\ VerGrows
  BY <1>1, SameVer DEF TypeOK
<1>5. ItemsAreKeyed'
  BY <1>1, <1>3, <1>4, ItemsKept DEF QueueInv
<1>6. PayloadsAreSound' /\ Receipts'
  BY <1>1 DEF PayloadsAreSound, Receipts, OnTheWay
<1>7. CheckpointsAreSound'
  BY <1>1 DEF QueueInv, CheckpointsAreSound
<1>8. QED
  BY <1>1, <1>5, <1>6, <1>7 DEF QueueInv

LEMMA QueueLink ==
    ASSUME TypeOK, TypeOK', QueueInv, LinkStep
    PROVE  QueueInv' /\ queue' = queue
<1> USE CallersApart
<1>1. UNCHANGED <<ver, queue, stamp, payload, todo, cp, received>>
  BY LinkMoves DEF storage, server
<1>2. sw => sw'
  BY LinkMoves, Zenon
<1>3. \A c \in Callers : pc'[c] \in OnTheWay => pc'[c] = pc[c]
  BY LinkMoves DEF Await, TypeOK, RunType, OnTheWay
<1>4. VerGrows
  BY <1>1, SameVer DEF TypeOK
<1>5. \A c \in Callers \ Syncs : pc'[c] \in OnTheWay => Sound(payload[c])'
  BY <1>1, <1>3 DEF QueueInv, PayloadsAreSound, Sound
<1>6. QED
  BY <1>1, <1>2, <1>3, <1>4, <1>5, QueueKept

LEMMA QueueInvStep ==
    ASSUME TypeOK, TypeOK', SubmitInv, QueueInv, [Next]_vars
    PROVE  /\ QueueInv'
           /\ \/ queue' = queue
              \/ \A x \in ToSet(queue) \ ToSet(queue') :
                    sw \/ phase = "submitted" \/ phase' = "idle" \/ Got(x)
<1>1. CASE UNCHANGED vars
  <2>1. UNCHANGED <<ver, queue, stamp, pc, payload, todo, sw, cp, received>>
    BY <1>1 DEF vars, store, storage, runs, server
  <2>2. VerGrows
    BY <2>1, SameVer DEF TypeOK
  <2>3. \A c \in Callers \ Syncs : pc'[c] \in OnTheWay => Sound(payload[c])'
    BY <2>1 DEF QueueInv, PayloadsAreSound, Sound
  <2>4. QED
    BY <2>1, <2>2, <2>3, QueueKept
<1>2. CASE Next
  BY <1>2, NextIsKnown, QueueCheckpoint, QueueSync, QueueSubmit, QueueCandidate, QueueReload,
     QueueLink DEF SubmitInv
<1>3. QED
  BY <1>1, <1>2
(***************************************************************************)
(* The theorems.                                                           *)
(***************************************************************************)
LEMMA IInvInit == Init => IInv
<1> SUFFICES ASSUME Init PROVE IInv
  OBVIOUS
<1> USE CallersApart
<1>1. /\ phase = "idle" /\ ~ticking /\ queue = <<>>
      /\ \A c \in Callers : pc[c] = "idle"
      /\ \A c \in Syncs : todo[c] = <<>>
      /\ \A s \in Sessions : cp[s] = 0 /\ ver[s] = 0
  BY DEF Init
<1>2. SubmitInv
  BY <1>1 DEF SubmitInv, PhaseFollows, NothingIsLost, SubmissionFaithful
<1>3. Queued = {}
  <2>1. ToSet(queue) = {} /\ \A c \in Syncs : ToSet(todo[c]) = {}
    BY <1>1 DEF ToSet
  <2>2. QED
    BY <1>1, <2>1, QueuedHas DEF OnTheWay
<1>4. QueueInv
  BY <1>1, <1>3 DEF QueueInv, ItemsAreKeyed, PayloadsAreSound, Receipts, CheckpointsAreSound, OnTheWay
<1>5. QED
  BY <1>2, <1>4, TypeInit DEF IInv

LEMMA IInvStep == IInv /\ [Next]_vars => IInv'
<1> SUFFICES ASSUME IInv, [Next]_vars PROVE IInv'
  OBVIOUS
<1>1. TypeOK'
  BY TypeStep DEF IInv, SubmitInv, QueueInv
<1>2. SubmitInv'
  BY SubmitInvStep DEF IInv
<1>3. QueueInv'
  BY <1>1, QueueInvStep DEF IInv
<1>4. QED
  BY <1>1, <1>2, <1>3 DEF IInv

LEMMA InvariantHolds == Spec => []IInv
BY IInvInit, IInvStep, PTL DEF Spec

\* The terminal's phases, snapshots, queue and server state keep their types:
\* no run of performCheckpoint, processSyncQueue or handleSubmit, whatever it
\* overlaps with, sends or stores anything but a snapshot of a session.
THEOREM TerminalTypeCorrect == Spec => []TypeOK
<1>1. IInv => TypeOK
  BY DEF IInv
<1>2. QED
  BY <1>1, InvariantHolds, PTL

\* Whatever runs overlap, requests fail and answers are lost or made up, the
\* hash on the last screen vouches for the candidate's last edit at the server,
\* and the error screen does not promise a local copy that is not there.
THEOREM SubmissionsAreFaithful == Spec => []SubmissionFaithful
<1>1. IInv => SubmissionFaithful
  BY DEF IInv, SubmitInv
<1>2. QED
  BY <1>1, InvariantHolds, PTL

\* A stored checkpoint has edits of its own session only, and a queued one is
\* dropped only once the server has had it, however many runs of
\* processSyncQueue replay and remove the same records.
THEOREM CheckpointsDoArrive == Spec => CheckpointsArrive
<1>1. IInv /\ IInv' /\ [Next]_vars =>
         [/\ \A s \in Sessions : cp'[s] <= ver'[s]
          /\ \A item \in ToSet(queue) \ ToSet(queue') :
                \/ sw
                \/ phase = "submitted"
                \/ phase' = "idle"
                \/ <<item.session, item.ver>> \in received]_vars
  <2> SUFFICES ASSUME IInv, IInv', [Next]_vars
               PROVE  /\ \A s \in Sessions : cp'[s] <= ver'[s]
                      /\ \A item \in ToSet(queue) \ ToSet(queue') :
                            \/ sw
                            \/ phase = "submitted"
                            \/ phase' = "idle"
                            \/ <<item.session, item.ver>> \in received
    OBVIOUS
  <2>1. \A s \in Sessions : cp'[s] <= ver'[s]
    BY DEF IInv, QueueInv, CheckpointsAreSound
  <2>2. \A item \in ToSet(queue) \ ToSet(queue') :
           sw \/ phase = "submitted" \/ phase' = "idle" \/ Got(item)
    BY QueueInvStep DEF IInv
  <2>3. QED
    BY <2>1, <2>2 DEF Got
<1>2. QED
  BY <1>1, InvariantHolds, PTL DEF Spec, CheckpointsArrive

(***************************************************************************)
(* The answer sheet: what the candidate sees is what is sent.              *)
(***************************************************************************)
ResponsesOf(q) == [choice : Options[q] \union {NoChoice}, marked : BOOLEAN]

PlaceType ==
    /\ screen \in {"active", "submitting", "submitted", "error"}
    /\ current \in Questions /\ visited \subseteq Questions /\ touched \subseteq Questions
    /\ activeSection \in {Sections[q] : q \in Questions}
    /\ time \in 0 .. Duration /\ dialog \in BOOLEAN /\ failures \in 0 .. MaxFailures

ResponseType ==
    /\ DOMAIN responses \subseteq Questions
    /\ \A q \in DOMAIN responses : responses[q] \in ResponsesOf(q)

DrawnType == grid \in [Questions -> Statuses] /\ counts \in [Questions -> Statuses]

SheetTypeOK == PlaceType /\ ResponseType /\ DrawnType

\* getQuestionStatus answers one of five statuses, and says "answered" of the
\* questions that have a choice and of no others.
LEMMA StatusSays ==
    ASSUME NEW seen, NEW given, NEW q
    PROVE  /\ StatusIn(seen, given, q) \in Statuses
           /\ StatusIn(seen, given, q) \in {"answered", "review-answered"}
                 <=> q \in DOMAIN given /\ given[q].choice # NoChoice
<1> DEFINE answered == q \in DOMAIN given /\ given[q].choice # NoChoice
           marked == q \in DOMAIN given /\ given[q].marked
<1>1. StatusIn(seen, given, q) =
        CASE q \notin seen \union DOMAIN given -> "not-visited"
          [] marked /\ answered -> "review-answered"
          [] marked /\ ~answered -> "review"
          [] ~marked /\ answered -> "answered"
          [] OTHER -> "not-answered"
  BY DEF StatusIn
<1>2. q \notin seen \union DOMAIN given => ~answered /\ ~marked
  OBVIOUS
<1> HIDE DEF answered, marked
<1>3. QED
  <2>1. CASE q \notin seen \union DOMAIN given
    BY <1>1, <1>2, <2>1 DEF Statuses, answered
  <2>2. CASE q \in seen \union DOMAIN given /\ marked /\ answered
    BY <1>1, <2>2 DEF Statuses, answered
  <2>3. CASE q \in seen \union DOMAIN given /\ marked /\ ~answered
    BY <1>1, <2>3 DEF Statuses, answered
  <2>4. CASE q \in seen \union DOMAIN given /\ ~marked /\ answered
    BY <1>1, <2>4 DEF Statuses, answered
  <2>5. CASE q \in seen \union DOMAIN given /\ ~marked /\ ~answered
    BY <1>1, <2>5 DEF Statuses, answered
  <2>6. QED
    BY <2>1, <2>2, <2>3, <2>4, <2>5

\* A status depends on its own question only.
LEMMA StatusIsOwn ==
    ASSUME NEW seen, NEW given, NEW seenToo, NEW givenToo, NEW q,
           q \in seen <=> q \in seenToo,
           q \in DOMAIN given <=> q \in DOMAIN givenToo,
           q \in DOMAIN given => given[q] = givenToo[q]
    PROVE  StatusIn(seen, given, q) = StatusIn(seenToo, givenToo, q)
<1>1. CASE q \in DOMAIN given
  BY <1>1 DEF StatusIn
<1>2. CASE q \notin DOMAIN given
  BY <1>2 DEF StatusIn
<1>3. QED
  BY <1>1, <1>2

LEMMA StatusesAreStatuses ==
    \A seen, given : AllStatuses(seen, given) \in [Questions -> Statuses]
BY StatusSays DEF AllStatuses

LEMMA ResponseHasType ==
    ASSUME ResponseType, NEW q \in Questions
    PROVE  Response(q) \in ResponsesOf(q)
BY DEF ResponseType, Response, ResponsesOf

LEMMA SheetTypeInit == SheetInit => SheetTypeOK
<1> SUFFICES ASSUME SheetInit PROVE SheetTypeOK
  OBVIOUS
<1>1. PlaceType
  <2>1. activeSection \in {Sections[q] : q \in Questions}
    BY SheetAssumption DEF SheetInit
  <2>2. time \in 0 .. Duration /\ failures \in 0 .. MaxFailures
    BY SheetAssumption DEF SheetInit
  <2>3. QED
    BY <2>1, <2>2, SheetAssumption DEF SheetInit, PlaceType
<1>2. ResponseType
  BY DEF SheetInit, ResponseType
<1>3. DrawnType
  BY StatusesAreStatuses DEF SheetInit, DrawnType
<1>4. QED
  BY <1>1, <1>2, <1>3 DEF SheetTypeOK

\* The steps at the keyboard, at the buttons and in the grid, and the others.
LEMMA GoToKeepsType ==
    ASSUME SheetTypeOK, screen = "active", NEW q \in Questions, GoTo(q)
    PROVE  SheetTypeOK'
<1>1. PlaceType'
  BY DEF SheetTypeOK, PlaceType, GoTo
<1>2. ResponseType'
  BY DEF SheetTypeOK, ResponseType, ResponsesOf, GoTo
<1>3. DrawnType'
  BY StatusesAreStatuses DEF SheetTypeOK, DrawnType, GoTo, DrawGrid
<1>4. QED
  BY <1>1, <1>2, <1>3 DEF SheetTypeOK

LEMMA RespondKeepsType ==
    ASSUME SheetTypeOK, NEW response \in ResponsesOf(current), Respond(response)
    PROVE  SheetTypeOK'
<1>1. PlaceType'
  BY DEF SheetTypeOK, PlaceType, Respond
<1>2. ResponseType'
  BY DEF SheetTypeOK, PlaceType, ResponseType, ResponsesOf, Respond
<1>3. DrawnType'
  BY DEF SheetTypeOK, DrawnType, Respond
<1>4. QED
  BY <1>1, <1>2, <1>3 DEF SheetTypeOK

\* What a step at the question may be.
LEMMA QuestionStepIs ==
    ASSUME SheetTypeOK, KeyDown \/ QuestionButton
    PROVE  \/ screen = "active" /\ \E q \in Questions : GoTo(q)
           \/ \E response \in ResponsesOf(current) : Respond(response)
<1>1. Response(current) \in ResponsesOf(current)
  BY ResponseHasType DEF SheetTypeOK, PlaceType
<1>2. ASSUME NEW label \in Options[current], SelectChoice(label)
      PROVE  \E response \in ResponsesOf(current) : Respond(response)
  BY <1>1, <1>2 DEF SelectChoice, ResponsesOf
<1>3. ClearResponse => \E response \in ResponsesOf(current) : Respond(response)
  BY <1>1 DEF ClearResponse, ResponsesOf
<1>4. ToggleMarkForReview => \E response \in ResponsesOf(current) : Respond(response)
  BY <1>1 DEF ToggleMarkForReview, ResponsesOf
<1>5. NextQuestion \/ PreviousQuestion => screen = "active" /\ \E q \in Questions : GoTo(q)
  BY DEF NextQuestion, PreviousQuestion
<1>6. QED
  BY <1>2, <1>3, <1>4, <1>5 DEF KeyDown, QuestionButton

LEMMA SheetTypeStep == SheetTypeOK /\ [SheetNext]_sheet => SheetTypeOK'
<1> SUFFICES ASSUME SheetTypeOK, [SheetNext]_sheet PROVE SheetTypeOK'
  OBVIOUS
<1> USE DEF SheetTypeOK
<1>1. CASE KeyDown \/ QuestionButton
  BY <1>1, QuestionStepIs, GoToKeepsType, RespondKeepsType
<1>2. ASSUME NEW q \in Questions, GoToQuestion(q) PROVE SheetTypeOK'
  BY <1>2, GoToKeepsType DEF GoToQuestion
<1>3. ASSUME NEW q \in Questions, SetActiveSection(Sections[q]) PROVE SheetTypeOK'
  <2>1. PlaceType'
    BY <1>3 DEF PlaceType, SetActiveSection
  <2>2. ResponseType'
    BY <1>3 DEF ResponseType, ResponsesOf, SetActiveSection
  <2>3. DrawnType'
    BY <1>3, StatusesAreStatuses DEF DrawnType, SetActiveSection, DrawGrid
  <2>4. QED
    BY <2>1, <2>2, <2>3
<1>4. CASE TickTimer \/ Redraw \/ RemountScreen
  <2>1. PlaceType'
    BY <1>4, SheetAssumption DEF PlaceType, TickTimer, Redraw, RemountScreen
  <2>2. ResponseType'
    BY <1>4 DEF ResponseType, ResponsesOf, TickTimer, Redraw, RemountScreen
  <2>3. DrawnType'
    BY <1>4, StatusesAreStatuses DEF DrawnType, TickTimer, Redraw, RemountScreen, Draw, DrawGrid
  <2>4. QED
    BY <2>1, <2>2, <2>3
<1>5. ASSUME NEW open \in BOOLEAN, ShowDialog(open) PROVE SheetTypeOK'
  <2>1. PlaceType'
    BY <1>5 DEF PlaceType, ShowDialog
  <2>2. ResponseType'
    BY <1>5 DEF ResponseType, ResponsesOf, ShowDialog
  <2>3. DrawnType'
    BY <1>5, StatusesAreStatuses DEF DrawnType, ShowDialog, Draw, DrawGrid
  <2>4. QED
    BY <2>1, <2>2, <2>3
<1>6. CASE HandleSubmit \/ SubmissionSucceeds \/ SubmissionFails \/ UNCHANGED sheet
  <2>1. PlaceType'
    <3>1. CASE HandleSubmit
      BY <3>1 DEF PlaceType, HandleSubmit
    <3>2. CASE SubmissionSucceeds \/ UNCHANGED sheet
      BY <3>2 DEF PlaceType, SubmissionSucceeds, sheet
    <3>3. CASE SubmissionFails
      <4>1. failures' \in 0 .. MaxFailures
        BY <3>3, SheetAssumption DEF PlaceType, SubmissionFails
      <4>2. QED
        BY <3>3, <4>1 DEF PlaceType, SubmissionFails
    <3>4. QED
      BY <1>6, <3>1, <3>2, <3>3
  <2>2. ResponseType'
    BY <1>6 DEF ResponseType, ResponsesOf, HandleSubmit, SubmissionSucceeds, SubmissionFails, sheet
  <2>3. DrawnType'
    BY <1>6 DEF DrawnType, HandleSubmit, SubmissionSucceeds, SubmissionFails, sheet
  <2>4. QED
    BY <2>1, <2>2, <2>3
<1>7. QED
  BY <1>1, <1>2, <1>3, <1>4, <1>5, <1>6 DEF SheetNext, GridButton, Listed

\* The answer sheet keeps its types: a response is one of its question's
\* options or none, and what is drawn are statuses.
THEOREM SheetTypeCorrect == SheetSpec => []SheetTypeOK
BY SheetTypeInit, SheetTypeStep, PTL DEF SheetSpec

\* SheetIsShown by its parts: the grid, the dialog, and the submission.
GridIsFresh == \A q \in Questions \ {current} : grid[q] = StatusIn(visited, responses, q)
DialogIsFresh == \A q \in Questions \ touched : counts[q] = StatusIn(visited, responses, q)
SentAsShown ==
    \A q \in Questions \ {current} :
        grid[q] \in {"answered", "review-answered"}
            <=> q \in DOMAIN sent /\ sent[q].choice # NoChoice

ShownInv ==
    /\ screen = "active" => GridIsFresh /\ DialogIsFresh
    /\ screen \in {"submitting", "submitted"} => SentAsShown

LEMMA ShownInvSays == ShownInv <=> SheetIsShown
<1>1. \A q \in Questions : AllStatuses(visited, responses)[q] = StatusIn(visited, responses, q)
  BY DEF AllStatuses
<1>2. (\A q \in Questions \ {current} : grid[q] = AllStatuses(visited, responses)[q]) <=> GridIsFresh
  BY <1>1 DEF GridIsFresh
<1>3. (\A q \in Questions \ touched : counts[q] = AllStatuses(visited, responses)[q]) <=> DialogIsFresh
  BY <1>1 DEF DialogIsFresh
<1>4. (\A q \in Questions \ {current} :
          q \in {x \in Questions : grid[x] \in {"answered", "review-answered"}}
            <=> q \in DOMAIN sent /\ sent[q].choice # NoChoice) <=> SentAsShown
  BY DEF SentAsShown
<1>5. QED
  BY <1>2, <1>3, <1>4 DEF ShownInv, SheetIsShown

LEMMA DrawnGridIsFresh == DrawGrid => GridIsFresh'
BY DEF DrawGrid, AllStatuses, GridIsFresh

LEMMA DrawnIsFresh == Draw => GridIsFresh' /\ DialogIsFresh'
BY DEF Draw, DrawGrid, AllStatuses, GridIsFresh, DialogIsFresh

LEMMA GoToShows ==
    ASSUME SheetTypeOK, ShownInv, screen = "active", NEW q \in Questions, GoTo(q)
    PROVE  ShownInv'
<1>1. \A x \in Questions \ {q} : StatusIn(visited', responses', x) = StatusIn(visited, responses, x)
  BY StatusIsOwn DEF GoTo
<1>2. GridIsFresh'
  <2>1. CASE q = current
    BY <1>1, <2>1 DEF GoTo, GridIsFresh, ShownInv
  <2>2. CASE q # current
    BY <2>2, DrawnGridIsFresh DEF GoTo
  <2>3. QED
    BY <2>1, <2>2
<1>3. DialogIsFresh'
  BY <1>1 DEF GoTo, DialogIsFresh, ShownInv
<1>4. QED
  BY <1>2, <1>3 DEF ShownInv, GoTo

LEMMA RespondShows ==
    ASSUME SheetTypeOK, ShownInv, NEW response, Respond(response)
    PROVE  ShownInv'
<1>1. ASSUME NEW x \in Questions \ {current}
      PROVE  StatusIn(visited', responses', x) = StatusIn(visited, responses, x)
  <2>1. x \in DOMAIN responses' <=> x \in DOMAIN responses
    BY DEF Respond
  <2>2. x \in DOMAIN responses => responses'[x] = responses[x]
    BY DEF Respond
  <2>3. QED
    BY <2>1, <2>2, StatusIsOwn DEF Respond
<1>2. GridIsFresh' /\ DialogIsFresh'
  BY <1>1 DEF Respond, GridIsFresh, DialogIsFresh, ShownInv
<1>3. QED
  BY <1>2 DEF ShownInv, Respond

LEMMA ShownInvStep == SheetTypeOK /\ ShownInv /\ [SheetNext]_sheet => ShownInv'
<1> SUFFICES ASSUME SheetTypeOK, ShownInv, [SheetNext]_sheet PROVE ShownInv'
  OBVIOUS
<1>1. CASE KeyDown \/ QuestionButton
  BY <1>1, QuestionStepIs, GoToShows, RespondShows
<1>2. ASSUME NEW q \in Questions, GoToQuestion(q) PROVE ShownInv'
  BY <1>2, GoToShows DEF GoToQuestion
<1>3. ASSUME NEW section, SetActiveSection(section) PROVE ShownInv'
  <2>1. DialogIsFresh'
    BY <1>3 DEF SetActiveSection, ShownInv, DialogIsFresh
  <2>2. GridIsFresh'
    <3>1. CASE section = activeSection
      BY <1>3, <3>1 DEF SetActiveSection, ShownInv, GridIsFresh
    <3>2. CASE section # activeSection
      BY <1>3, <3>2, DrawnGridIsFresh DEF SetActiveSection
    <3>3. QED
      BY <3>1, <3>2
  <2>3. QED
    BY <1>3, <2>1, <2>2 DEF SetActiveSection, ShownInv
<1>4. CASE TickTimer \/ Redraw \/ RemountScreen
  <2>1. screen' = "active" /\ Draw
    BY <1>4 DEF TickTimer, Redraw, RemountScreen
  <2>2. QED
    BY <2>1, DrawnIsFresh DEF ShownInv
<1>5. ASSUME NEW open \in BOOLEAN, ShowDialog(open) PROVE ShownInv'
  <2>1. CASE open = dialog
    BY <1>5, <2>1 DEF ShowDialog, ShownInv, GridIsFresh, DialogIsFresh
  <2>2. CASE open # dialog
    BY <1>5, <2>2, DrawnIsFresh DEF ShowDialog, ShownInv
  <2>3. QED
    BY <2>1, <2>2
<1>6. CASE HandleSubmit
  <2>1. GridIsFresh /\ sent' = responses /\ grid' = grid /\ current' = current
    BY <1>6 DEF HandleSubmit, ShownInv
  <2>2. SentAsShown'
    BY <2>1, StatusSays DEF GridIsFresh, SentAsShown
  <2>3. QED
    BY <1>6, <2>2 DEF HandleSubmit, ShownInv
<1>7. CASE SubmissionSucceeds
  BY <1>7 DEF SubmissionSucceeds, ShownInv, SentAsShown
<1>8. CASE SubmissionFails
  BY <1>8 DEF SubmissionFails, ShownInv
<1>9. CASE UNCHANGED sheet
  BY <1>9 DEF sheet, ShownInv, GridIsFresh, DialogIsFresh, SentAsShown
<1>10. QED
  BY <1>1, <1>2, <1>3, <1>4, <1>5, <1>6, <1>7, <1>8, <1>9 DEF SheetNext, GridButton, Listed

\* Whatever the candidate does in whatever order, and however rarely grid and
\* dialog are drawn, the grid is out of date at the current question only, the
\* dialog only by what was done since the clock moved, and a submission has
\* the answers the grid showed as answered: for any number of questions.
THEOREM SheetsAreShown == SheetSpec => []SheetIsShown
<1>1. SheetInit => ShownInv
  BY DEF SheetInit, ShownInv, GridIsFresh, DialogIsFresh, AllStatuses
<1>2. SheetSpec => [](SheetTypeOK /\ ShownInv)
  BY <1>1, SheetTypeInit, SheetTypeStep, ShownInvStep, PTL DEF SheetSpec
<1>3. QED
  BY <1>2, ShownInvSays, PTL

=============================================================================
