--------------------------- MODULE ScoreEquating ---------------------------
(***************************************************************************)
(* The score equator: a worker that reads an exam's results, decides with  *)
(* pairwise Kolmogorov-Smirnov tests whether the papers were of different  *)
(* difficulty, equates the scores if so, and writes them to three places:  *)
(* back to the table it read them from, to the candidates' documents (in   *)
(* batches) and, as a summary, to the exam.                                *)
(*                                                                         *)
(*   workers/score-equator/src/{main,equator,ks_test}.py                   *)
(*                                                                         *)
(* Scores are whole numbers.  The ability estimate and the expected true   *)
(* score are the parameter TrueScore: what matters here is which item      *)
(* parameters and which reference paper they were computed from.           *)
(***************************************************************************)
EXTENDS Integers, FiniteSets, SequencesExt

CONSTANTS
    Msgs,
    Cohorts,        \* the candidates, in the groups whose results arrive together
    Raw,            \* every candidate's raw score
    Variant,        \* and paper variant
    Items,          \* the questions of every variant
    ItemFits,       \* item parameters the calibrator may append
    Default,        \* the parameters of a question that has none
    TrueScore(_, _, _), \* of a candidate, its parameters, the reference paper's
    Critical,       \* per number of comparisons: the KS bound, times 100
    BatchSize,      \* MAX_BATCH: documents per Firestore batch
    MaxFits,        \* bound: rows the calibrator appends
    MaxFaults,      \* bound: exceptions, crashes, insert errors, duplicates
    Nothing

Candidates == UNION {Range(Cohorts[k]) : k \in DOMAIN Cohorts}
Variants == {Variant[c] : c \in Candidates}
AllItems == UNION {Items[v] : v \in Variants}

Documents == [raw : Nat, equated : Int, applied : BOOLEAN]
Summaries == [applied : BOOLEAN, adjustment : Int, rows : Nat]
Parameters == ItemFits \union {Default}

ASSUME EquatingAssumption ==
    /\ BatchSize \in Nat \ {0} /\ MaxFaults \in Nat /\ MaxFits \in Nat
    /\ Cohorts \in Seq(Seq(Candidates))
    /\ \A c \in Candidates : Raw[c] \in Nat /\ Variant[c] \in DOMAIN Items
    /\ \A c \in Candidates, v \in Variants :
          \A own \in [Items[Variant[c]] -> Parameters], reference \in [Items[v] -> Parameters] :
              TrueScore(c, own, reference) \in Int
    /\ Nothing \notin Documents /\ Nothing \notin Summaries

VARIABLES
    arrived,    \* how many cohorts the results table has received
    results,    \* exam_results: the rows, in order of insertion
    irt,        \* irt_parameters: the rows of every item
    trigger,    \* state of every trigger message
    pc,         \* the worker: "idle", "load", "compute", "append", "commit", "report"
    lease,      \* the message it works on
    scores,     \* scores_df: the rows it has read
    outcome,    \* what it computed: [applied, equated, adjustment] or Nothing
    sent,       \* the candidates whose documents it has committed
    scored,     \* candidates/{c}.result, Nothing until written
    summary,    \* exams/{exam}.equatingResult
    faults
equating == <<pc, lease, scores, outcome, sent>>
equator == <<arrived, results, irt, trigger, equating, scored, summary, faults>>

Largest(S) == CHOOSE n \in S : \A m \in S : m <= n
Abs(n) == IF n < 0 THEN -n ELSE n

EquatorInit ==
    /\ arrived = 0 /\ results = <<>>
    /\ irt = [i \in AllItems |-> {}]
    /\ trigger = [m \in Msgs |-> "none"]
    /\ pc = "idle" /\ lease = Nothing /\ scores = <<>> /\ outcome = Nothing /\ sent = {}
    /\ scored = [c \in Candidates |-> Nothing]
    /\ summary = Nothing
    /\ faults = 0

----------------------------------------------------------------------------
(* Around the worker: results are loaded into the table, the calibrator     *)
(* appends item parameters (again for an item it has fitted before), and    *)
(* someone publishes the trigger.                                           *)

RowOf(c, equated, applied) ==
    [cand |-> c, raw |-> Raw[c], equated |-> equated, applied |-> applied]

Arrive ==
    /\ arrived < Len(Cohorts)
    /\ arrived' = arrived + 1
    /\ results' = results \o [k \in DOMAIN Cohorts[arrived + 1] |->
                                 RowOf(Cohorts[arrived + 1][k], Nothing, FALSE)]
    /\ UNCHANGED <<irt, trigger, equating, scored, summary, faults>>

AppendFit(i, fit) ==
    /\ fit \notin irt[i] /\ Cardinality(UNION {{j} \X irt[j] : j \in AllItems}) < MaxFits
    /\ irt' = [irt EXCEPT ![i] = @ \union {fit}]
    /\ UNCHANGED <<arrived, results, trigger, equating, scored, summary, faults>>

\* The camelCase triggers of the services lack exam_id.
Trigger(m) ==
    /\ trigger[m] = "none"
    /\ trigger' = [trigger EXCEPT ![m] = "sent"]
    /\ UNCHANGED <<arrived, results, irt, equating, scored, summary, faults>>

TriggerBadly(m) ==
    /\ trigger[m] = "none"
    /\ trigger' = [trigger EXCEPT ![m] = "unreadable"]
    /\ UNCHANGED <<arrived, results, irt, equating, scored, summary, faults>>

\* Pub/Sub delivers at least once: an acknowledged message may come again.
Duplicate(m) ==
    /\ trigger[m] = "acked" /\ faults < MaxFaults
    /\ trigger' = [trigger EXCEPT ![m] = "sent"] /\ faults' = faults + 1
    /\ UNCHANGED <<arrived, results, irt, equating, scored, summary>>

----------------------------------------------------------------------------
(* cross_paper_ks_test, over the rows of every variant.                     *)

Sample(rows, v) == SelectSeq(rows, LAMBDA r : Variant[r.cand] = v)
ScoredAtMost(sample, x) == Cardinality({k \in DOMAIN sample : sample[k].raw <= x})

\* D(a, b) times n(a) n(b), and the bound sqrt(n(a) n(b) / (n(a) + n(b))) D
\* has to exceed, squared.  Pairs with fewer than two samples are skipped.
Differ(a, b, comparisons) ==
    /\ Len(a) >= 2 /\ Len(b) >= 2
    /\ LET gap == Largest({Abs(ScoredAtMost(a, x) * Len(b) - ScoredAtMost(b, x) * Len(a)) :
                              x \in {r.raw : r \in Range(a \o b)}})
       IN  100 * gap * gap > Critical[comparisons] * Len(a) * Len(b) * (Len(a) + Len(b))

EquatingNeeded(rows) ==
    LET present == {Variant[r.cand] : r \in Range(rows)}
        n == Cardinality(present)
    IN  \E v, w \in present : v # w /\ Differ(Sample(rows, v), Sample(rows, w), (n * (n - 1)) \div 2)

\* _select_reference_paper: a variant with the most rows.
References(rows) ==
    {v \in Variants : \A w \in Variants : Len(Sample(rows, w)) <= Len(Sample(rows, v))}

\* irt_lookup: one row of every item, whichever comes last.
Lookups == {f \in [AllItems -> Parameters] :
               \A i \in AllItems : f[i] \in (IF irt[i] = {} THEN {Default} ELSE irt[i])}

\* Every candidate's score on the reference paper v, with the parameters f.
TrueScores(read, v, f) ==
    [c \in read |-> TrueScore(c, [i \in Items[Variant[c]] |-> f[i]], [i \in Items[v] |-> f[i]])]

Adjustment(equated, read) == Largest({Abs(equated[c] - Raw[c]) : c \in read})

EquatedScores(rows, read) == {TrueScores(read, v, f) : v \in References(rows), f \in Lookups}

\* The outcomes equate_scores can compute from the rows it has read.
Outcomes(rows) ==
    LET read == {rows[k].cand : k \in DOMAIN rows}
    IN  IF EquatingNeeded(rows)
        THEN {[applied |-> TRUE, equated |-> e, adjustment |-> Adjustment(e, read)] :
                 e \in EquatedScores(rows, read)}
        ELSE {[applied |-> FALSE, equated |-> [c \in read |-> Raw[c]], adjustment |-> 0]}

----------------------------------------------------------------------------
(* The worker.                                                              *)

\* Flow control hands it one message at a time; a stream that fails is opened
\* again, and a shutdown ends like a crash.
EquatorFree == pc = "idle"

Drop(m) ==
    /\ EquatorFree /\ trigger[m] = "unreadable"
    /\ trigger' = [trigger EXCEPT ![m] = "acked"]
    /\ UNCHANGED <<arrived, results, irt, equating, scored, summary, faults>>

Take(m) ==
    /\ EquatorFree /\ trigger[m] \in {"sent", "nacked"}
    /\ trigger' = [trigger EXCEPT ![m] = "leased"]
    /\ pc' = "load" /\ lease' = m
    /\ UNCHANGED <<arrived, results, irt, scores, outcome, sent, scored, summary, faults>>

\* The scores query; without rows the outcome is an error, which main
\* reports as a run that did not equate.
LoadScores ==
    /\ pc = "load"
    /\ scores' = results
    /\ outcome' = IF results = <<>>
                  THEN [applied |-> FALSE, equated |-> <<>>, adjustment |-> 0] ELSE Nothing
    /\ pc' = IF results = <<>> THEN "report" ELSE "compute"
    /\ UNCHANGED <<arrived, results, irt, trigger, lease, sent, scored, summary, faults>>

\* The later query for the item parameters, and the computation.
Compute ==
    /\ pc = "compute"
    /\ \E o \in Outcomes(scores) : outcome' = o
    /\ pc' = "append"
    /\ UNCHANGED <<arrived, results, irt, trigger, lease, scores, sent, scored, summary, faults>>

\* A row for every row that was read, with the score it came from.
Appended ==
    [k \in DOMAIN scores |-> [cand |-> scores[k].cand, raw |-> scores[k].raw,
                              equated |-> outcome.equated[scores[k].cand],
                              applied |-> outcome.applied]]

\* insert_rows_json: errors are logged, and the run goes on.
AppendRows ==
    /\ pc = "append"
    /\ \/ results' = results \o Appended /\ UNCHANGED faults
       \/ faults < MaxFaults /\ faults' = faults + 1 /\ UNCHANGED results
    /\ pc' = "commit"
    /\ UNCHANGED <<arrived, irt, trigger, lease, scores, outcome, sent, scored, summary>>

\* The candidates of the rows.
Seen == {scores[k].cand : k \in DOMAIN scores}

\* A candidate's document has the raw score of its "first" row, but the query
\* has no order: it is that of any of them.
ResultDocs(c) ==
    {[raw |-> scores[k].raw, equated |-> outcome.equated[c], applied |-> outcome.applied] :
        k \in {j \in DOMAIN scores : scores[j].cand = c}}

\* MAX_BATCH of equated_scores, or what is left of it; its order is a query's.
Batches ==
    {S \in SUBSET (Seen \ sent) :
        \/ Cardinality(S) = BatchSize
        \/ (S = Seen \ sent /\ Cardinality(S) < BatchSize)}

CommitBatch ==
    /\ pc = "commit"
    /\ \E batch \in Batches :
          /\ \E new \in [batch -> UNION {ResultDocs(c) : c \in batch}] :
                /\ \A c \in batch : new[c] \in ResultDocs(c)
                /\ scored' = [c \in Candidates |-> IF c \in batch THEN new[c] ELSE scored[c]]
          /\ sent' = sent \union batch
    /\ pc' = IF sent' = Seen THEN "report" ELSE "commit"
    /\ UNCHANGED <<arrived, results, irt, trigger, lease, scores, outcome, summary, faults>>

Report ==
    /\ pc = "report" /\ trigger[lease] = "leased"
    /\ summary' = [applied |-> outcome.applied, adjustment |-> outcome.adjustment,
                   rows |-> Len(scores)]
    /\ pc' = "acknowledge"
    /\ UNCHANGED <<arrived, results, irt, trigger, lease, scores, outcome, sent, scored, faults>>

Released == pc' = "idle" /\ lease' = Nothing /\ scores' = <<>> /\ outcome' = Nothing /\ sent' = {}

Acknowledge ==
    /\ pc = "acknowledge"
    /\ trigger' = [trigger EXCEPT ![lease] = "acked"]
    /\ Released
    /\ UNCHANGED <<arrived, results, irt, scored, summary, faults>>

\* As if an exception acknowledged the message.
AbortAcknowledged ==
    /\ pc \notin {"idle"} /\ faults < MaxFaults
    /\ trigger' = [trigger EXCEPT ![lease] = "acked"]
    /\ Released /\ faults' = faults + 1
    /\ UNCHANGED <<arrived, results, irt, scored, summary>>

\* An exception (nack) or a crash: what is written stays.
Abort ==
    /\ pc # "idle" /\ faults < MaxFaults
    /\ trigger' = [trigger EXCEPT ![lease] = "nacked"]
    /\ Released /\ faults' = faults + 1
    /\ UNCHANGED <<arrived, results, irt, scored, summary>>

EquatorNext ==
    \/ Arrive
    \/ \E i \in AllItems, fit \in ItemFits : AppendFit(i, fit)
    \/ \E m \in Msgs : Trigger(m) \/ TriggerBadly(m) \/ Duplicate(m) \/ Drop(m) \/ Take(m)
    \/ LoadScores \/ Compute \/ AppendRows \/ CommitBatch \/ Report \/ Acknowledge \/ Abort

EquatorSpec == EquatorInit /\ [][EquatorNext]_equator

----------------------------------------------------------------------------
(* Properties *)

\* The worker appends to the table it reads from, and a redelivered trigger
\* reads its own rows again: through all of it a candidate's document and
\* every row of the table keep the score the candidate really had, so a
\* second run equates from the raw scores and not from equated ones.
RawScoresSurvive ==
    /\ \A c \in Candidates : scored[c] # Nothing => scored[c].raw = Raw[c]
    /\ \A k \in DOMAIN results : results[k].raw = Raw[results[k].cand]

Published == {c \in Candidates : scored[c] # Nothing}

OneRunIsTold ==
    /\ summary # Nothing
    /\ \A c \in Published : scored[c].applied = summary.applied
    /\ summary.adjustment = Largest({Abs(scored[c].equated - scored[c].raw) : c \in Published})

\* Once no trigger is half done, the candidates' documents come from one run:
\* either all were equated or none, as the exam's summary says, and the
\* largest adjustment it reports is the largest of the documents, whatever
\* batches, redeliveries, new parameters and late results came in between; and
\* at any moment no raw score is lost.
ResultsAgree ==
    /\ RawScoresSurvive
    /\ pc = "idle" /\ (\A m \in Msgs : trigger[m] # "nacked") /\ Published # {} => OneRunIsTold

============================================================================
