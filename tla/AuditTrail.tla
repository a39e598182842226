----------------------------- MODULE AuditTrail -----------------------------
(***************************************************************************)
(* The audit trail of the exams as its readers see it: what the exam-audit *)
(* chaincode puts under its four kinds of keys, what its queries make of   *)
(* them, and how the blockchain service passes both on.                    *)
(*                                                                         *)
(*   chaincode/exam-audit/src/exam-audit-contract.ts                       *)
(*   packages/blockchain-service/src/fabric/fabric.service.ts              *)
(*   packages/blockchain-service/src/events/events.{service,controller}.ts *)
(*                                                                         *)
(* An event carries the time its client proposed it at, but its keys are   *)
(* there only when its block is: events come into the trail in another     *)
(* order than their times say.  AuditLedger has the orderer and the blocks.*)
(* An event's id is a hash, whose order among the ids has nothing to do    *)
(* with when it came: HashRank.                                            *)
(***************************************************************************)
EXTENDS AuditLedger, FiniteSetsExt

CONSTANTS
    Clients,        \* services that record events
    Exams,
    Types,          \* event types they name
    ValidTypes,     \* VALID_EVENT_TYPES
    HashRank,       \* of every txId: its event's id, as its place among the ids
    MaxInstant,     \* bound: the last instant
    MaxLost         \* bound: calls that fail

\* Two transactions have two ids: an id is a hash of the transaction's.
ASSUME TrailAssumption ==
    /\ IsFiniteSet(Clients) /\ MaxInstant \in Nat /\ MaxLost \in Nat
    /\ HashRank \in Seq(Nat) /\ IsInjective(HashRank)

VARIABLES
    world,          \* the chaincode's state: key -> transaction
    instant,
    call,           \* of every client: [at, event, txId], what RecordEvent waits for
    told,           \* events the service said it had recorded: their txIds
    lost
readers == <<world, instant, call, told, lost>>
trail == <<ledger, readers>>

NoCall == [at |-> "idle"]

ReadersInit ==
    /\ world = <<>> /\ instant = 1
    /\ call = [c \in Clients |-> NoCall]
    /\ told = {} /\ lost = 0

TrailInit == pending = <<>> /\ blocks = <<>> /\ txs = 0 /\ ReadersInit

----------------------------------------------------------------------------
(* The chaincode's keys.                                                    *)

\* A hash of transaction, type, exam and time.
EventId(txId, time) == HashRank[txId]

\* The primary key, exam~event, type~event, time~event.  All hold the event.
KeysOf(e) == {<<"event", "id", e.id>>, <<"exam", e.exam, e.id>>,
              <<"type", e.type, e.id>>, <<"time", e.time, e.id>>}

\* A block's writes, in the order of its transactions: the last one stays.
WrittenBy(data) == UNION {KeysOf(data[i].event) : i \in DOMAIN data}
Writer(data, k) == data[Max({i \in DOMAIN data : k \in KeysOf(data[i].event)})]
Put(state, data) ==
    [k \in DOMAIN state \union WrittenBy(data) |->
        IF k \in WrittenBy(data) THEN Writer(data, k) ELSE state[k]]

\* A finite set as a sequence, by an order on it (a set of pairs): the place of
\* an element is the number of those before it.
Earlier(x, S, order) == {y \in S : <<y, x>> \in order}
InOrder(S, order) ==
    [i \in 1..Cardinality(S) |-> CHOOSE x \in S : Cardinality(Earlier(x, S, order)) = i - 1]

\* getStateByPartialCompositeKey: the keys of an exam in the order of the ids,
\* those of the times in the order of time and id.
ExamKeys(exam) == {k \in DOMAIN world : k[1] = "exam" /\ k[2] = exam}
TimeKeys == {k \in DOMAIN world : k[1] = "time"}
IdOrder(keys) == {pair \in keys \X keys : pair[1][3] < pair[2][3]}
TimeOrder(keys) ==
    {pair \in keys \X keys : \/ pair[1][2] < pair[2][2]
                             \/ pair[1][2] = pair[2][2] /\ pair[1][3] < pair[2][3]}

Texts(keys) == [i \in DOMAIN keys |-> world[keys[i]]]

\* Array.prototype.sort is stable: of equal times the order stays.
StableOrder(list) ==
    {pair \in (DOMAIN list) \X (DOMAIN list) :
        LET time == list[pair[1]].event.time
            other == list[pair[2]].event.time
        IN  time < other \/ (time = other /\ pair[1] < pair[2])}
ByTime(list) ==
    LET places == InOrder(DOMAIN list, StableOrder(list))
    IN  [i \in DOMAIN places |-> list[places[i]]]

----------------------------------------------------------------------------
(* Queries: the chaincode's, and the service's, which sorts again.          *)

\* getEvent and verifyEvent; null where there is none.
Found(id) == {world[k] : k \in DOMAIN world \intersect {<<"event", "id", id>>}}

GetEventsByExam(exam) == ByTime(Texts(InOrder(ExamKeys(exam), IdOrder(ExamKeys(exam)))))

GetTimeline(exam) == ByTime(GetEventsByExam(exam))

GetEventCount(exam) == Cardinality(ExamKeys(exam))

\* As if the scan stopped at the end of the range and not after it.
PassedAt(time, end) == time >= end

Passed(time, end) == time > end

\* getEventsByTimeRange: the scan breaks at the first key past the end; of the
\* keys up to there, those in the range.
Scanned(end) ==
    {k \in TimeKeys : ~ \E past \in TimeKeys :
                           Passed(past[2], end) /\ <<past, k>> \in TimeOrder(TimeKeys)}
KeysBetween(start, end) == {k \in Scanned(end) : start <= k[2] /\ k[2] <= end}

GetEventsByTimeRange(start, end) ==
    LET keys == KeysBetween(start, end) IN ByTime(Texts(InOrder(keys, TimeOrder(keys))))

----------------------------------------------------------------------------
(* RecordEvent: gRPC or REST, through the gateway, to the orderer.          *)

Ends(c) == call' = [call EXCEPT ![c] = NoCall]
Lose == lost < MaxLost /\ lost' = lost + 1

\* The proposal has its time; the peers of both organisations run the
\* chaincode on it, and write the same.  A type that is not valid is refused.
Propose(c) ==
    /\ call[c].at = "idle"
    /\ txs + Cardinality({d \in Clients : call[d].at = "endorsed"}) < Len(HashRank)
    /\ \E exam \in Exams, type \in Types :
          IF type \in ValidTypes
          THEN call' = [call EXCEPT ![c] = [at |-> "endorsed",
                   event |-> [exam |-> exam, type |-> type, time |-> instant, id |-> 0]]]
          ELSE UNCHANGED call
    /\ UNCHANGED <<ledger, world, instant, told, lost>>

\* No endorsement, or the orderer cannot be reached: success is false.
Refuse(c) ==
    /\ call[c].at = "endorsed" /\ Lose
    /\ Ends(c)
    /\ UNCHANGED <<ledger, world, instant, told>>

Submit(c) ==
    /\ call[c].at = "endorsed"
    /\ RecordEvent([call[c].event EXCEPT !.id = EventId(txs + 1, call[c].event.time)])
    /\ call' = [call EXCEPT ![c] = [at |-> "committing", txId |-> txs + 1]]
    /\ UNCHANGED <<world, instant, told, lost>>

\* submitTransaction returns with the commit.
Recorded(c) ==
    /\ call[c].at = "committing" /\ IsCommitted(call[c].txId)
    /\ told' = told \union {call[c].txId}
    /\ Ends(c)
    /\ UNCHANGED <<ledger, world, instant, lost>>

\* The deadline of the commit status passes: success is false, and the event
\* may be recorded all the same.
TimeOut(c) ==
    /\ call[c].at = "committing" /\ Lose
    /\ Ends(c)
    /\ UNCHANGED <<ledger, world, instant, told>>

TimePasses ==
    /\ instant < MaxInstant /\ instant' = instant + 1
    /\ UNCHANGED <<ledger, world, call, told, lost>>

\* A block is committed, and what its transactions wrote with it.
Cut ==
    /\ CutBlock
    /\ world' = Put(world, Last(blocks').data)
    /\ UNCHANGED <<instant, call, told, lost>>

TrailNext ==
    \/ \E c \in Clients : Propose(c) \/ Refuse(c) \/ Submit(c) \/ Recorded(c) \/ TimeOut(c)
    \/ TimePasses \/ Cut

TrailSpec == TrailInit /\ [][TrailNext]_trail

----------------------------------------------------------------------------
(* Properties *)

PlacesOf(tx, list) == {i \in DOMAIN list : list[i] = tx}
Before(a, b, list) == \E i \in PlacesOf(a, list), j \in PlacesOf(b, list) : i < j

\* Every event a service was told is recorded is found from then on by its
\* id, with its proof, in its exam's timeline, and in the range of times that
\* has just its time; and the timelines and the ranges list the events they
\* share in the same order, although the one walks the ids and the other the
\* times, and blocks fill in events between older ones.
ToldIsFound ==
    /\ \A id \in told :
          LET tx == EventOf(id)
              t == tx.event.time
          IN  /\ Found(tx.event.id) = {tx} /\ VerifyEvent(id)
              /\ Cardinality(PlacesOf(tx, GetTimeline(tx.event.exam))) = 1
              /\ Cardinality(PlacesOf(tx, GetEventsByTimeRange(t, t))) = 1
    /\ \A exam \in Exams, t \in 1..MaxInstant :
          LET list == GetTimeline(exam)
              range == GetEventsByTimeRange(1, t)
          IN  /\ GetEventCount(exam) = Len(list)
              /\ \A a, b \in Range(list) \intersect Range(range) :
                    Before(a, b, list) => ~ Before(b, a, range)

=============================================================================
