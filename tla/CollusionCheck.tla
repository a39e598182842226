--------------------------- MODULE CollusionCheck ---------------------------
(***************************************************************************)
(* The collusion check of one exam: the trigger that publishes a job per   *)
(* centre, the detector workers that run beside each other, and what they  *)
(* store.                                                                  *)
(*                                                                         *)
(*   packages/collusion-engine/src/triggers/triggers.service.ts            *)
(*   workers/collusion-detector/src/{main,detector}.py                     *)
(*   workers/collusion-detector/src/{threshold_calibration,                *)
(*                                   cluster_analysis}.py                  *)
(*                                                                         *)
(* Log-likelihoods are integers in some unit, thresholds tenths of it.     *)
(* What nothing reads is left out: the BigQuery copy of the results and    *)
(* the links to the PDF reports, whose failures are logged and skipped.    *)
(***************************************************************************)
EXTENDS Integers, FiniteSets, SequencesExt

CONSTANTS
    Centers,       \* the centres of the exam, as a sequence of documents
    CandidatesOf,  \* candidates of every centre, sorted
    Answers,       \* option every candidate chose per question, -1 for none
    Correct,       \* the correct option of every question
    Likeness,      \* per question and option: log(p_wrong / p_k)
    Unlikeness,    \* per question: what two different wrong answers subtract
    NullScores,    \* the null distributions the profiles may lead to
    OneIn,         \* target_fpr is 1 / OneIn
    Handlers,      \* requests to run the detection
    Workers,       \* detector workers, one message each (flow control)
    MaxMsgs,       \* bound: messages published
    MaxBreaks      \* bound: exceptions and crashes

Candidates == UNION {Range(CandidatesOf[c]) : c \in Range(Centers)}
Pairs(c) ==
    LET S == CandidatesOf[c]
    IN  UNION {{<<S[i], S[j]>> : j \in i + 1 .. Len(S)} : i \in DOMAIN S}
None == 0

ASSUME CollusionAssumption ==
    /\ IsInjective(Centers) /\ None \notin Range(Centers)
    /\ Centers \in Seq(Range(Centers))
    /\ \A c \in Range(Centers) : CandidatesOf[c] \in Seq(Range(CandidatesOf[c]))
    /\ OneIn \in Nat \ {0, 1} /\ MaxMsgs \in Nat /\ MaxBreaks \in Nat
    /\ \A N \in NullScores : N \in Seq(Int) /\ Len(N) > 0
    /\ \A c, d \in Range(Centers) :
          c # d => Range(CandidatesOf[c]) \intersect Range(CandidatesOf[d]) = {}

VARIABLES
    exam,       \* status in the exam document
    handler,    \* handlers: position in the list of centres, or their state
    batch,      \* the documents of a handler's batch: centre -> message
    jobs,       \* collusionJobs/{exam}/centers: the message recorded, or None
    msgs,       \* the topic: [center, form, state] of every message
    ready,      \* responses and profiles are in the warehouse
    null,       \* scores of the simulated pairs: the generator is seeded
    threshold,  \* collusionThreshold of the exam document, in a set
    worker,     \* [pc, msg, limit, pairs, next] of every worker
    results,    \* pair documents: [pair, limit]
    rings,      \* cluster documents: [index, center, members]
    breaks
check == <<exam, handler, batch, jobs, msgs, ready, null, threshold, worker,
           results, rings, breaks>>

Allowed == {"COLLECTING", "COLLUSION_CHECK", "ACTIVE"}
Idle == [pc |-> "idle", msg |-> None, limit |-> 0, pairs |-> <<>>, next |-> 1]
CenterOf(w) == msgs[worker[w].msg].center

-----------------------------------------------------------------------------
(* The statistic, the threshold and the rings.                             *)

\* profile[r]: in Python the index -1 of an unanswered question is the last.
LikenessOf(profile, r) == IF r = -1 THEN profile[Len(profile)] ELSE profile[r + 1]

\* The arrays of a centre end at the last question anybody answered there:
\* scoring a later question is an IndexError on every delivery.
Scorable(c) == Pairs(c) = {} \/ \A u \in Range(CandidatesOf[c]) : Len(Answers[u]) >= Len(Correct)

\* compute_collusion_score over the questions both got wrong.
Score ==
    [p \in UNION {Pairs(c) : c \in {d \in Range(Centers) : Scorable(d)}} |->
       LET u == p[1]  v == p[2]
           wrong == {q \in DOMAIN Correct :
                       Answers[u][q] # Correct[q] /\ Answers[v][q] # Correct[q]}
           part(q) == IF Answers[u][q] = Answers[v][q] THEN LikenessOf(Likeness[q], Answers[u][q])
                      ELSE -Unlikeness[q]
       IN  SumFunctionOnSet([q \in wrong |-> part(q)], wrong)]

Flagged(c, limit) == {p \in Pairs(c) : 10 * Score[p] > limit}

\* ceil((1 - fpr) * n) - 1 in base 0, that is ceil((1 - fpr) * n) in base 1.
QuantileIndex(n) == ((OneIn - 1) * n + OneIn - 1) \div OneIn

\* The element of sorted_scores with that index: the least score that so many
\* are not above.
NotAbove(scores, n) == Cardinality({i \in DOMAIN scores : scores[i] <= n})
Quantile(scores) ==
    CHOOSE n \in Range(scores) :
        /\ NotAbove(scores, n) >= QuantileIndex(Len(scores))
        /\ \A l \in Range(scores) :
              NotAbove(scores, l) >= QuantileIndex(Len(scores)) => n <= l

\* calibrate_threshold: the quantile and a tenth of it, or one, on top.
Calibrated(scores) ==
    IF Quantile(scores) > 0 THEN 11 * Quantile(scores) ELSE 10 * Quantile(scores) + 10

\* _build_adjacency_graph.
Neighbours(pairs, u) == {v \in Candidates : <<u, v>> \in pairs \/ <<v, u>> \in pairs}

\* _bfs_connected_components: a queue in which a node may be several times.
Component(pairs, start) ==
    LET bfs[s \in Seq(Candidates) \X SUBSET Candidates] ==
          IF s[1] = <<>> THEN s[2]
          ELSE LET u == Head(s[1])
               IN  IF u \in s[2] THEN bfs[<<Tail(s[1]), s[2]>>]
                   ELSE bfs[<<Tail(s[1]) \o SetToSeq(Neighbours(pairs, u) \ s[2]),
                              s[2] \union {u}>>]
    IN  bfs[<<<<start>>, {}>>]

\* The components of a set of pairs, in the order their first nodes are met.
Components(pairs, nodes) ==
    FoldLeft(LAMBDA found, u :
               IF \E r \in Range(found) : u \in r THEN found
               ELSE Append(found, Component(pairs, u)), <<>>, nodes)

\* find_cheating_rings.
Rings(pairs) == Components(Range(pairs), [i \in DOMAIN pairs |-> pairs[i][1]])

(* ResultsService groups the pairs again when it is asked for them.  It     *)
(* looks for them in another collection than the worker's, so the operators *)
(* take the stored pairs as an argument.                                    *)

\* getResults: the most suspicious pair first.
FlaggedPairs(stored) == SetToSortSeq(stored, LAMBDA p, r : Score[p] > Score[r])

\* getResultsForCenter.
ResultsForCenter(stored, c) == FlaggedPairs(stored \intersect Pairs(c))

\* getClusters; a cluster's centre is that of its first candidate.
Clusters(stored) ==
    LET pairs == FlaggedPairs(stored)
        nodes == FlattenSeq(pairs)
        within(S) == {p \in stored : p[1] \in S /\ p[2] \in S}
        cluster(S) ==
            [members |-> S, pairs |-> within(S),
             center  |-> CHOOSE c \in Range(Centers) : \E u \in S : u \in Range(CandidatesOf[c]),
             top     |-> CHOOSE n \in {Score[p] : p \in within(S)} : \A p \in within(S) : n >= Score[p]]
        found == Components(stored, nodes)
    IN  SortSeq([i \in DOMAIN found |-> cluster(found[i])], LAMBDA k, l : k.top > l.top)

-----------------------------------------------------------------------------
CheckInit ==
    /\ exam = "CREATED"
    /\ handler = [h \in Handlers |-> "idle"]
    /\ batch = [h \in Handlers |-> <<>>]
    /\ jobs = [c \in Range(Centers) |-> None]
    /\ msgs = <<>> /\ ready = FALSE /\ null \in NullScores /\ threshold = {}
    /\ worker = [w \in Workers |-> Idle]
    /\ results = {} /\ rings = {} /\ breaks = 0

NewMsg(c, form) == Append(msgs, [center |-> c, form |-> form, state |-> "queued"])

-----------------------------------------------------------------------------
(* TriggersService.runCollusionDetection.                                  *)

triggerVars == <<exam, handler, batch, jobs>>
workerVars  == <<threshold, worker, results, rings>>

\* The status check; batch[h] has an entry per centre already passed.
StartTrigger(h) ==
    /\ handler[h] = "idle" /\ exam \in Allowed
    /\ handler' = [handler EXCEPT ![h] = "publishing"]
    /\ UNCHANGED <<exam, batch, jobs, msgs, ready, null, workerVars, breaks>>

\* A centre without candidates is skipped.
SkipCenter(h) ==
    /\ handler[h] = "publishing" /\ Len(batch[h]) < Len(Centers)
    /\ CandidatesOf[Centers[Len(batch[h]) + 1]] = <<>>
    /\ batch' = [batch EXCEPT ![h] = Append(@, None)]
    /\ UNCHANGED <<exam, handler, jobs, msgs, ready, null, workerVars, breaks>>

PublishJob(h) ==
    /\ handler[h] = "publishing" /\ Len(batch[h]) < Len(Centers)
    /\ LET c == Centers[Len(batch[h]) + 1]
       IN  CandidatesOf[c] # <<>> /\ Len(msgs) < MaxMsgs /\ msgs' = NewMsg(c, "examId")
    /\ batch' = [batch EXCEPT ![h] = Append(@, Len(msgs) + 1)]
    /\ UNCHANGED <<exam, handler, jobs, ready, null, workerVars, breaks>>

\* A publish that fails, or a commit, ends the request: the jobs published
\* before stay published and have no documents.
PublishFails(h) ==
    /\ handler[h] = "publishing" /\ breaks < MaxBreaks
    /\ breaks' = breaks + 1
    /\ handler' = [handler EXCEPT ![h] = "idle"]
    /\ batch' = [batch EXCEPT ![h] = <<>>]
    /\ UNCHANGED <<exam, jobs, msgs, ready, null, workerVars>>

\* One batch: the centres' documents, the parent document, the exam's status.
CommitBatch(h) ==
    /\ handler[h] = "publishing" /\ Len(batch[h]) = Len(Centers)
    /\ jobs' = [c \in DOMAIN jobs |->
                  LET i == CHOOSE k \in DOMAIN Centers : Centers[k] = c
                  IN  IF batch[h][i] # None THEN batch[h][i] ELSE jobs[c]]
    /\ exam' = "COLLUSION_CHECK"
    /\ handler' = [handler EXCEPT ![h] = "idle"]
    /\ batch' = [batch EXCEPT ![h] = <<>>]
    /\ UNCHANGED <<msgs, ready, null, workerVars, breaks>>

-----------------------------------------------------------------------------
(* Around the service: the exam opens, responses are exported, and a job   *)
(* in the form of the worker's docstring is published by hand.             *)

OpenExam ==
    /\ exam = "CREATED" /\ exam' = "COLLECTING"
    /\ UNCHANGED <<handler, batch, jobs, msgs, ready, null, workerVars, breaks>>

Export ==
    /\ ~ready /\ ready' = TRUE
    /\ UNCHANGED <<triggerVars, msgs, null, workerVars, breaks>>

PublishByHand(c) ==
    /\ CandidatesOf[c] # <<>> /\ Len(msgs) < MaxMsgs
    /\ msgs' = NewMsg(c, "exam_id")
    /\ UNCHANGED <<triggerVars, ready, null, workerVars, breaks>>

-----------------------------------------------------------------------------
(* The detector workers: _handle_message.                                  *)

Settle(w, outcome) ==
    /\ msgs' = [msgs EXCEPT ![worker[w].msg].state = outcome]
    /\ worker' = [worker EXCEPT ![w] = Idle]

At(w, pc) == worker[w].pc = pc

\* Flow control hands a worker one message at a time; a stream that fails is
\* opened again, and a shutdown ends like a crash.
Free(w) == At(w, "idle")

Advance(w, pc) == worker' = [worker EXCEPT ![w].pc = pc]
Others == UNCHANGED <<triggerVars, ready, null, breaks>>

\* exam_id and center_id are missing in what the service publishes: ack.
Drop(w, m) ==
    /\ Free(w) /\ msgs[m].state = "queued" /\ msgs[m].form # "exam_id"
    /\ msgs' = [msgs EXCEPT ![m].state = "dropped"]
    /\ UNCHANGED workerVars /\ Others

Take(w, m) ==
    /\ Free(w) /\ msgs[m].state = "queued" /\ msgs[m].form = "exam_id"
    /\ msgs' = [msgs EXCEPT ![m].state = "leased"]
    /\ worker' = [worker EXCEPT ![w] = [Idle EXCEPT !.pc = "loading", !.msg = m]]
    /\ UNCHANGED <<threshold, results, rings>> /\ Others

\* No responses or no profiles yet: acknowledged all the same.
NoResponses(w) ==
    /\ At(w, "loading") /\ ~ready
    /\ Settle(w, "nodata")
    /\ UNCHANGED <<threshold, results, rings>> /\ Others

\* _load_or_calibrate_threshold: the read, ...
ReadThreshold(w) ==
    /\ At(w, "loading") /\ ready
    /\ \/ /\ threshold = {} /\ Advance(w, "calibrating")
       \/ \E x \in threshold :
             worker' = [worker EXCEPT ![w].pc = "detecting", ![w].limit = x]
    /\ UNCHANGED <<threshold, msgs, results, rings>> /\ Others

\* Mutant of StoreThreshold: the simulation is not seeded.
StoreThresholdUnseeded(w) ==
    /\ At(w, "calibrating")
    /\ \E N \in NullScores :
          /\ threshold' = {Calibrated(N)}
          /\ worker' = [worker EXCEPT ![w].pc = "detecting", ![w].limit = Calibrated(N)]
    /\ UNCHANGED <<msgs, results, rings>> /\ Others

\* ... and, after a simulation during which others read too, the write.
StoreThreshold(w) ==
    /\ At(w, "calibrating")
    /\ threshold' = {Calibrated(null)}
    /\ worker' = [worker EXCEPT ![w].pc = "detecting", ![w].limit = Calibrated(null)]
    /\ UNCHANGED <<msgs, results, rings>> /\ Others

\* detect_collusion: every pair of the centre.
Detect(w) ==
    /\ At(w, "detecting") /\ Scorable(CenterOf(w))
    /\ worker' = [worker EXCEPT ![w].pc = "writing",
                                ![w].pairs = SetToSeq(Flagged(CenterOf(w), worker[w].limit))]
    /\ UNCHANGED <<threshold, msgs, results, rings>> /\ Others

\* The element of S the worker is at; its loop goes on, or to the next one.
Loop(w, S, pc, nextPc) ==
    /\ At(w, pc)
    /\ worker' = [worker EXCEPT ![w].next = IF @ < Len(S) THEN @ + 1 ELSE 1,
                                ![w].pc = IF worker[w].next < Len(S) THEN @ ELSE nextPc]

\* _write_results_to_stores: each pair document is replaced.
WritePair(w) ==
    LET S == worker[w].pairs  k == worker[w].next
    IN  /\ Loop(w, S, "writing", "clustering")
        /\ results' = IF S = <<>> THEN results
                      ELSE {r \in results : r.pair # S[k]}
                           \union {[pair |-> S[k], limit |-> worker[w].limit]}
        /\ UNCHANGED <<threshold, msgs, rings>> /\ Others

\* cluster_{index}: the index is the centre's own, the document the exam's.
WriteRing(w) ==
    LET S == Rings(worker[w].pairs)  k == worker[w].next
    IN  /\ Loop(w, S, "clustering", "done")
        /\ rings' = IF S = <<>> THEN rings
                    ELSE {r \in rings : r.index # k} \union
                         {[index |-> k, center |-> CenterOf(w), members |-> S[k]]}
        /\ UNCHANGED <<threshold, msgs, results>> /\ Others

Acknowledge(w) ==
    /\ At(w, "done") /\ Settle(w, "answered")
    /\ UNCHANGED <<threshold, results, rings>> /\ Others

\* The IndexError of a centre that is not Scorable: nacked, every time.
Refuse(w) ==
    /\ At(w, "detecting") /\ ~Scorable(CenterOf(w))
    /\ Settle(w, "queued")
    /\ UNCHANGED <<threshold, results, rings>> /\ Others

\* Mutant of Abort: an exception is acknowledged.
AbortAcknowledged(w) ==
    /\ ~At(w, "idle") /\ breaks < MaxBreaks
    /\ breaks' = breaks + 1
    /\ Settle(w, "answered")
    /\ UNCHANGED <<triggerVars, ready, null, threshold, results, rings>>

\* Mutant of Abort: neither an exception nor a crash gives the job back.
AbortLost(w) ==
    /\ ~At(w, "idle") /\ breaks < MaxBreaks
    /\ breaks' = breaks + 1
    /\ Settle(w, "leased")
    /\ UNCHANGED <<triggerVars, ready, null, threshold, results, rings>>

\* An exception of a store is nacked, a crashed worker's lease ends.
Abort(w) ==
    /\ ~At(w, "idle") /\ breaks < MaxBreaks
    /\ breaks' = breaks + 1
    /\ Settle(w, "queued")
    /\ UNCHANGED <<triggerVars, ready, null, threshold, results, rings>>

Work(w) == \/ NoResponses(w) \/ ReadThreshold(w) \/ StoreThreshold(w) \/ Detect(w)
           \/ WritePair(w) \/ WriteRing(w) \/ Acknowledge(w) \/ Refuse(w)

CheckNext ==
    \/ \E h \in Handlers : StartTrigger(h) \/ SkipCenter(h) \/ PublishJob(h)
                           \/ PublishFails(h) \/ CommitBatch(h)
    \/ OpenExam \/ Export
    \/ \E c \in Range(Centers) : PublishByHand(c)
    \/ \E w \in Workers : Work(w) \/ Abort(w) \/ (\E m \in DOMAIN msgs : Drop(w, m) \/ Take(w, m))

\* A worker goes on, and Pub/Sub does not offer it for ever nothing but jobs of
\* centres that cannot be scored.
CheckFairness ==
    /\ \A w \in Workers : WF_check(Work(w))
    /\ SF_check(\E w \in Workers : \E m \in DOMAIN msgs :
                 Scorable(msgs[m].center) /\ (Drop(w, m) \/ Take(w, m)))

CheckSpec == CheckInit /\ [][CheckNext]_check /\ CheckFairness

-----------------------------------------------------------------------------
\* Workers that race to calibrate agree: all stored pairs of an exam were
\* flagged by one threshold, the one in the exam document, and that one keeps
\* the false positive rate it was asked for: of the simulated independent
\* pairs at most the target share exceed it.
OneThreshold ==
    /\ \A r \in results : threshold = {r.limit}
    /\ \A x \in threshold :
          OneIn * Cardinality({i \in DOMAIN null : 10 * null[i] > x}) <= Len(null)

\* Whole: it cannot be divided without cutting a stored pair of its centre,
\* and no pair leads out of it.
Whole(ring) ==
    LET edges == {x.pair : x \in results} \intersect Pairs(ring.center)
        Crossed(S, T) == \E u \in S, v \in T : <<u, v>> \in edges \/ <<v, u>> \in edges
    IN  /\ ~Crossed(ring.members, Candidates \ ring.members)
        /\ \A S \in (SUBSET ring.members) \ {{}, ring.members} : Crossed(S, ring.members \ S)

\* The job list names messages that were really published for their centres,
\* also when requests break off.
JobsWerePublished ==
    \A c \in Range(Centers) : jobs[c] # None =>
        jobs[c] \in DOMAIN msgs /\ msgs[jobs[c]].center = c

\* An answered job has all its pairs stored and no others of its centre.
AnsweredIsStored ==
    \A m \in DOMAIN msgs : msgs[m].state = "answered" =>
        \E x \in threshold :
            {r.pair : r \in results} \intersect Pairs(msgs[m].center) = Flagged(msgs[m].center, x)

\* That, as the engine shows the results; every ring that is stored is one of
\* the clusters it finds in the pairs, which are whole, of one centre, hold each
\* pair once and begin with the most suspicious one, however many workers,
\* redeliveries and crashes it took; and the job list is true.
AnsweredIsComplete ==
    LET stored == {r.pair : r \in results}
        clusters == Clusters(stored)
    IN  /\ JobsWerePublished /\ AnsweredIsStored
        /\ \A m \in DOMAIN msgs : msgs[m].state = "answered" =>
              Range(ResultsForCenter(stored, msgs[m].center))
                 = stored \intersect Pairs(msgs[m].center)
        /\ \A r \in rings : \E k \in Range(clusters) : k.members = r.members /\ k.center = r.center
        /\ \A k \in Range(clusters) : Whole(k) /\ k.pairs \subseteq Pairs(k.center)
        /\ \A p \in stored :
              /\ Cardinality({i \in DOMAIN clusters : p \in clusters[i].pairs}) = 1
              /\ clusters[1].top >= Score[p]

\* Every job of a centre that can be scored is settled, even when a job of one
\* that cannot be scored comes back for ever.
JobsAnswered ==
    LET waiting == {m \in DOMAIN msgs : /\ msgs[m].state \in {"queued", "leased"}
                                        /\ Scorable(msgs[m].center)}
    IN  waiting # {} ~> waiting = {}
=============================================================================
