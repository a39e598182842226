------------------------- MODULE PaperDeliveryProofs -------------------------
(***************************************************************************)
(* Proofs, for any seats, assignments and requests, that a paper is of one *)
(* draw of the matrix (PaperDelivery); and, for any questions, texts and   *)
(* readers, that the two writes of QuestionVault open to what was          *)
(* encrypted; and, for any questions and requests, that what QuestionDesk  *)
(* puts into the bank is of one piece.  All for any bounds.                *)
(***************************************************************************)
EXTENDS PaperDelivery, QuestionVault, QuestionDesk, FiniteSetTheorems,
        SequenceTheorems, WellFoundedInduction, TLAPS

(***************************************************************************)
(* PaperDelivery: questions by their position.                             *)
(***************************************************************************)
\* Every position up to n has at most one question.
Placed(found, n) ==
    /\ \A x \in found : x.position \in 1 .. n
    /\ \A x, y \in found : x.position = y.position => x = y

Sortable(found) ==
    /\ IsFiniteSet(found)
    /\ \E items \in [1 .. Cardinality(found) -> found] : Rises(items)

\* One more question at the end.
LEMMA SortableWithLast ==
    ASSUME NEW n \in Nat, NEW found, Placed(found, n + 1),
           \A smaller : Placed(smaller, n) => Sortable(smaller)
    PROVE  Sortable(found)
<1>1. CASE Placed(found, n)
  BY <1>1
<1>2. CASE ~Placed(found, n)
  <2>1. PICK last \in found : last.position = n + 1
    <3>1. PICK x \in found : ~(x.position \in 1 .. n)
      BY <1>2 DEF Placed
    <3>2. x.position \in 1 .. n + 1
      BY DEF Placed
    <3>3. QED
      BY <3>1, <3>2
  <2> DEFINE rest == found \ {last}
  <2>2. \A x \in rest : x.position \in 1 .. n
    <3> SUFFICES ASSUME NEW x \in rest PROVE x.position \in 1 .. n
      OBVIOUS
    <3>1. x.position \in 1 .. n + 1 /\ x.position # n + 1
      BY <2>1 DEF Placed
    <3>2. QED
      BY <3>1
  <2>3. Placed(rest, n)
    BY <2>2 DEF Placed
  <2>4. IsFiniteSet(rest) /\ Cardinality(rest) \in Nat
    BY <2>3, FS_CardinalityType DEF Sortable
  <2>5. PICK k \in Nat : k = Cardinality(rest)
    BY <2>4
  <2>6. found = rest \union {last} /\ last \notin rest
    BY <2>1
  <2> HIDE DEF rest
  <2>7. IsFiniteSet(found) /\ Cardinality(found) = k + 1
    BY <2>4, <2>5, <2>6, FS_AddElement
  <2>8. PICK items \in [1 .. k -> rest] : Rises(items)
    BY <2>3, <2>5 DEF Sortable
  <2> DEFINE longer == [i \in 1 .. k + 1 |-> IF i <= k THEN items[i] ELSE last]
  <2>9. longer \in [1 .. Cardinality(found) -> found]
    <3>1. \A i \in 1 .. k + 1 : i <= k => items[i] \in rest
      OBVIOUS
    <3>2. \A i \in 1 .. k + 1 : longer[i] \in found
      BY <3>1, <2>6
    <3>3. QED
      BY <3>2, <2>7
  <2>10. ASSUME NEW i \in 1 .. k + 1, NEW j \in 1 .. k + 1, i < j
        PROVE  longer[i].position < longer[j].position
    <3>1. i \in 1 .. k /\ items[i] \in rest /\ longer[i] = items[i]
      BY <2>10
    <3>2. CASE j <= k
      <4>1. j \in 1 .. k /\ longer[j] = items[j]
        BY <3>2
      <4>2. items[i].position < items[j].position
        BY <2>8, <2>10, <3>1, <4>1 DEF Rises
      <4>3. QED
        BY <3>1, <4>1, <4>2
    <3>3. CASE j = k + 1
      <4>1. longer[j] = last
        BY <3>3
      <4>2. items[i].position \in 1 .. n
        BY <2>2, <3>1
      <4>3. QED
        BY <2>1, <3>1, <4>1, <4>2
    <3>4. QED
      BY <3>2, <3>3
  <2>11. DOMAIN longer = 1 .. k + 1
    OBVIOUS
  <2> HIDE DEF longer
  <2>12. Rises(longer)
    BY <2>10, <2>11 DEF Rises
  <2>13. QED
    BY <2>7, <2>9, <2>12 DEF Sortable
<1>3. QED
  BY <1>1, <1>2

LEMMA PlacedIsSortable ==
    ASSUME NEW n \in Nat, NEW found, Placed(found, n)
    PROVE  Sortable(found)
<1> DEFINE bad == {m \in Nat : \E some : Placed(some, m) /\ ~Sortable(some)}
<1>1. ASSUME NEW some, Placed(some, 0)
      PROVE  Sortable(some)
  <2>1. some = {}
    BY <1>1 DEF Placed
  <2>2. IsFiniteSet(some) /\ Cardinality(some) = 0
    BY <2>1, FS_EmptySet
  <2> DEFINE none == [i \in 1 .. 0 |-> i]
  <2>3. none \in [1 .. Cardinality(some) -> some]
    BY <2>2
  <2>4. Rises(none)
    BY DEF Rises
  <2>5. QED
    BY <2>2, <2>3, <2>4 DEF Sortable
<1>2. SUFFICES ASSUME bad # {} PROVE FALSE
  OBVIOUS
<1>3. PICK m \in bad : \A x \in bad : <<x, m>> \notin OpToRel(<, Nat)
  <2>1. bad \in SUBSET Nat
    OBVIOUS
  <2> HIDE DEF bad
  <2>2. QED
    BY <1>2, <2>1, NatLessThanWellFounded, WFMin, Zenon
<1>4. m \in Nat /\ m # 0
  BY <1>1
<1>5. m - 1 \in Nat /\ m - 1 < m /\ (m - 1) + 1 = m
  BY <1>4
<1>6. <<m - 1, m>> \in OpToRel(<, Nat)
  BY <1>4, <1>5, Zenon DEF OpToRel
<1>7. m - 1 \notin bad
  BY <1>3, <1>6
<1>8. \A smaller : Placed(smaller, m - 1) => Sortable(smaller)
  BY <1>5, <1>7
<1>9. PICK some : Placed(some, m) /\ ~Sortable(some)
  OBVIOUS
<1>10. Placed(some, (m - 1) + 1)
  BY <1>5, <1>9
<1>11. Sortable(some)
  BY <1>5, <1>8, <1>10, SortableWithLast
<1>12. QED
  BY <1>9, <1>11

\* What renderPaper makes of an assignment: its questions, in its order.
LEMMA RenderedInOrder ==
    ASSUME NEW a \in Papers
    PROVE  LET found == LoadDecryptedQuestions(a)
               items == RenderPaper(found).items
           IN  Rises(items) /\ \A i \in DOMAIN items : items[i] \in found
<1> DEFINE found == LoadDecryptedQuestions(a)
<1>1. Len(a) \in Nat /\ DOMAIN a = 1 .. Len(a)
  BY PapersAssumption, LenProperties
<1>2. Placed(found, Len(a))
  BY <1>1 DEF Placed, LoadDecryptedQuestions
<1>3. \E items \in [1 .. Cardinality(found) -> found] : Rises(items)
  BY <1>1, <1>2, PlacedIsSortable DEF Sortable
<1> HIDE DEF found
<1>4. Sorted(found) \in [1 .. Cardinality(found) -> found] /\ Rises(Sorted(found))
  BY <1>3 DEF Sorted
<1>5. RenderPaper(found).items = Sorted(found)
  BY DEF RenderPaper
<1>6. QED
  BY <1>4, <1>5 DEF found

(***************************************************************************)
(* The inductive invariant of PaperDelivery.                               *)
(***************************************************************************)
Good(s, p) == OfOneDraw(s, p) /\ Rises(p.items)

DrawsOK ==
    /\ assigned \in [Seats -> Papers \union {None}]
    /\ drawn \in [Seats -> SUBSET Papers]
    /\ \A s \in Seats : assigned[s] # None => assigned[s] \in drawn[s]

CacheOK == DOMAIN paper = Seats /\ \A s \in Seats : Good(s, paper[s])

\* Papers on their way into the cache.
BatchOK(batch) ==
    /\ DOMAIN batch \subseteq Seats
    /\ \A s \in DOMAIN batch : Good(s, batch[s]) /\ batch[s] # NoPaper

BulkOK ==
    /\ bulk = [at |-> bulk.at, centers |-> bulk.centers, batch |-> bulk.batch]
    /\ BatchOK(bulk.batch)

WarmOK ==
    /\ warm = [at |-> warm.at, centers |-> warm.centers, seats |-> warm.seats,
               found |-> warm.found, batch |-> warm.batch, seen |-> warm.seen,
               cached |-> warm.cached]
    /\ BatchOK(warm.batch)
    /\ warm.seats \subseteq Seats /\ warm.seen \subseteq Seats
    /\ warm.centers \subseteq Centers
    /\ DOMAIN warm.batch \subseteq warm.seen
    /\ \A s \in warm.seats : warm.found[s] # None => warm.found[s] \in drawn[s]

\* The successes the pre-warming has counted are of different seats, which
\* have their papers; the centers it has not come to add to them.
CountOK ==
    \E counted \in SUBSET warm.seen :
        /\ warm.cached = Cardinality(counted)
        /\ \A s \in counted : paper[s] # NoPaper /\ CenterOf[s] \notin warm.centers
        /\ \A s \in warm.seats \union DOMAIN warm.batch :
               s \notin counted /\ CenterOf[s] \notin warm.centers
        /\ warm.seats \intersect DOMAIN warm.batch = {}

RequestOK(x) ==
    /\ x.at \in {"again", "assignment", "questions", "store", "paper"} => x.seat \in Seats
    /\ x.at = "questions" => x.found \in drawn[x.seat]
    /\ x.at \in {"store", "paper"} =>
          /\ x = [at |-> x.at, seat |-> x.seat, paper |-> x.paper]
          /\ Good(x.seat, x.paper) /\ x.paper # NoPaper

PaperInv ==
    /\ DrawsOK
    /\ CacheOK
    /\ BulkOK
    /\ WarmOK
    /\ CountOK
    /\ DOMAIN req = Requests /\ \A r \in Requests : RequestOK(req[r])

(***************************************************************************)
(* What a step changes.                                                    *)
(***************************************************************************)
LEMMA StepEffects ==
    ASSUME [Next]_vars
    PROVE  /\ (\E s \in Seats, a \in Papers : Assign(s, a)) \/ UNCHANGED firestore
           /\ WritePapers \/ BatchSet \/ (\E r \in Requests : StorePaper(r)) \/ UNCHANGED paper
           /\ \/ StartBulk \/ WritePapers \/ BulkFails \/ (\E c \in Centers : ReadCenter(c))
              \/ UNCHANGED bulk
           /\ \/ StartWarm \/ BatchSet \/ EndWarm \/ (\E c \in Centers : ReadSeats(c))
              \/ (\E s \in Seats : RenderSeat(s))
              \/ UNCHANGED warm
           /\ \/ \E r \in Requests : \/ \E s \in Seats : Ask(r, s)
                                     \/ AskAgain(r) \/ ReadAssignment(r) \/ ReadQuestions(r)
                                     \/ StorePaper(r) \/ RequestFails(r) \/ Answer(r)
              \/ UNCHANGED req
<1>1. CASE \E s \in Seats, a \in Papers : Assign(s, a)
  BY <1>1 DEF Assign
<1>2. CASE \E q \in Questions : Decrypt(q)
  BY <1>2 DEF Decrypt, firestore
<1>3. CASE StartBulk \/ WritePapers \/ BulkFails
  BY <1>3 DEF StartBulk, WritePapers, BulkFails, firestore
<1>4. CASE StartWarm \/ BatchSet \/ EndWarm
  BY <1>4 DEF StartWarm, BatchSet, EndWarm, firestore
<1>5. CASE \E c \in Centers : ReadCenter(c) \/ ReadSeats(c)
  BY <1>5 DEF ReadCenter, ReadSeats, firestore
<1>6. CASE \E s \in Seats : RenderSeat(s)
  BY <1>6 DEF RenderSeat, firestore
<1>7. CASE \E r \in Requests, s \in Seats : Ask(r, s)
  BY <1>7 DEF Ask, Elsewhere, firestore
<1>8. CASE \E r \in Requests :
             \/ AskAgain(r) \/ ReadAssignment(r) \/ ReadQuestions(r) \/ StorePaper(r)
             \/ RequestFails(r) \/ Answer(r)
  BY <1>8 DEF AskAgain, ReadAssignment, ReadQuestions, StorePaper, RequestFails, Answer,
              Elsewhere, firestore
<1>9. CASE UNCHANGED vars
  BY <1>9 DEF vars
<1>10. QED
  BY <1>1, <1>2, <1>3, <1>4, <1>5, <1>6, <1>7, <1>8, <1>9 DEF Next

\* No draw is forgotten.
LEMMA DrawsStep ==
    ASSUME DrawsOK, [Next]_vars
    PROVE  DrawsOK' /\ \A s \in Seats : drawn[s] \subseteq drawn'[s]
<1>1. CASE UNCHANGED firestore
  BY <1>1 DEF DrawsOK, firestore
<1>2. ASSUME NEW s \in Seats, NEW a \in Papers, Assign(s, a)
      PROVE  DrawsOK' /\ \A t \in Seats : drawn[t] \subseteq drawn'[t]
  <2>1. /\ assigned' = [assigned EXCEPT ![s] = a]
        /\ drawn' = [drawn EXCEPT ![s] = drawn[s] \union {a}]
    BY <1>2 DEF Assign
  <2>2. assigned \in [Seats -> Papers \union {None}] /\ drawn \in [Seats -> SUBSET Papers]
    BY DEF DrawsOK
  <2>3. assigned' \in [Seats -> Papers \union {None}] /\ drawn' \in [Seats -> SUBSET Papers]
    BY <2>1, <2>2
  <2>4. \A t \in Seats : drawn[t] \subseteq drawn'[t]
    BY <2>1, <2>2
  <2>5. \A t \in Seats : assigned'[t] # None => assigned'[t] \in drawn'[t]
    BY <2>1, <2>2 DEF DrawsOK
  <2>6. QED
    BY <2>3, <2>4, <2>5 DEF DrawsOK
<1>3. QED
  BY <1>1, <1>2, StepEffects

\* A paper that was good stays so.
LEMMA GoodStays ==
    ASSUME NEW s \in Seats, NEW p, Good(s, p), drawn[s] \subseteq drawn'[s]
    PROVE  Good(s, p)'
BY DEF Good, OfOneDraw

LEMMA NoPaperIsGood == \A s \in Seats : Good(s, NoPaper)
<1>1. NoPaper.items = <<>> /\ DOMAIN <<>> = {}
  BY DEF NoPaper
<1>2. QED
  BY <1>1 DEF Good, OfOneDraw, Rises

\* Rendering and assembling keep to one draw.
LEMMA RenderedIsGood ==
    ASSUME DrawsOK, NEW s \in Seats, NEW a \in drawn[s]
    PROVE  /\ Good(s, RenderPaper(LoadDecryptedQuestions(a)))
           /\ RenderPaper(LoadDecryptedQuestions(a)) # NoPaper
<1> DEFINE p == RenderPaper(LoadDecryptedQuestions(a))
<1>1. a \in Papers
  BY DEF DrawsOK
<1>2. Rises(p.items) /\ \A i \in DOMAIN p.items : p.items[i] \in LoadDecryptedQuestions(a)
  BY <1>1, RenderedInOrder
<1>3. p # NoPaper
  BY DEF RenderPaper, NoPaper
<1> HIDE DEF p
<1>4. \A x \in LoadDecryptedQuestions(a) : x.position \in DOMAIN a /\ a[x.position] = x.question
  BY DEF LoadDecryptedQuestions
<1>5. OfOneDraw(s, p)
  BY <1>2, <1>4 DEF OfOneDraw
<1>6. QED
  BY <1>2, <1>3, <1>5 DEF Good, p

LEMMA AssembledIsGood ==
    ASSUME DrawsOK, NEW s \in Seats
    PROVE  Good(s, AssemblePaper(assigned[s])) /\ AssemblePaper(assigned[s]) # NoPaper
<1> DEFINE a == assigned[s]
           items == [i \in DOMAIN a |-> [position |-> i, question |-> a[i]]]
<1>1. AssemblePaper(a) = [by |-> "release", items |-> items]
  BY DEF AssemblePaper
<1>2. AssemblePaper(a) # NoPaper
  <2>1. AssemblePaper(a).by = "release" /\ NoPaper.by = "no one"
    BY DEF AssemblePaper, NoPaper
  <2>2. QED
    BY <2>1
<1>3. a \in Seq(Questions)
  <2>1. a \in Papers \union {None}
    BY DEF DrawsOK
  <2>2. None \in Seq(Questions)
    BY EmptySeq DEF None
  <2>3. QED
    BY <2>1, <2>2, PapersAssumption
<1>4. Len(a) \in Nat /\ DOMAIN a = 1 .. Len(a)
  BY <1>3, LenProperties
<1>5. Rises(items)
  BY <1>4 DEF Rises
<1>6. OfOneDraw(s, AssemblePaper(a))
  <2>1. CASE a = None
    <3>1. items = <<>>
      BY <2>1 DEF None
    <3>2. QED
      BY <1>1, <3>1 DEF OfOneDraw
  <2>2. CASE a # None
    <3>1. a \in drawn[s]
      BY <2>2 DEF DrawsOK
    <3>2. \A i \in DOMAIN items : items[i].position \in DOMAIN a
                                  /\ a[items[i].position] = items[i].question
      OBVIOUS
    <3> HIDE DEF items
    <3>3. QED
      BY <1>1, <3>1, <3>2 DEF OfOneDraw
  <2>3. QED
    BY <2>1, <2>2
<1>7. QED
  BY <1>1, <1>2, <1>5, <1>6 DEF Good

\* A pipeline of good papers leaves a good cache, whichever commands fail, and
\* takes no paper away.
LEMMA PipelineKeepsCache ==
    ASSUME CacheOK, NEW batch, BatchOK(batch), NEW done \in SUBSET Seats, Executed(batch, done),
           paper' = Written(paper, batch, done), \A s \in Seats : drawn[s] \subseteq drawn'[s]
    PROVE  /\ CacheOK'
           /\ \A s \in Seats : (paper[s] # NoPaper \/ s \in done) => paper'[s] # NoPaper
<1>1. done \subseteq DOMAIN batch
  BY DEF Executed
<1>2. paper' = [s \in Seats |-> IF s \in done THEN batch[s] ELSE paper[s]]
  BY DEF Written
<1>3. \A s \in Seats : Good(s, paper'[s])
  BY <1>1, <1>2 DEF CacheOK, BatchOK
<1>4. CacheOK'
  <2>1. ASSUME NEW s \in Seats PROVE Good(s, paper[s])'
    BY <1>3, <2>1 DEF Good, OfOneDraw
  <2>2. QED
    BY <1>2, <2>1 DEF CacheOK
<1>5. QED
  BY <1>1, <1>2, <1>4 DEF CacheOK, BatchOK

LEMMA CacheStep ==
    ASSUME PaperInv, [Next]_vars
    PROVE  CacheOK' /\ \A s \in Seats : paper[s] # NoPaper => paper'[s] # NoPaper
<1>1. CacheOK /\ \A s \in Seats : drawn[s] \subseteq drawn'[s]
  BY DrawsStep DEF PaperInv
<1>2. CASE UNCHANGED paper
  <2>1. ASSUME NEW s \in Seats PROVE Good(s, paper[s])'
    BY <1>1, <1>2 DEF CacheOK, Good, OfOneDraw
  <2>2. QED
    BY <1>1, <1>2, <2>1 DEF CacheOK
<1>3. CASE WritePapers
  <2>1. PICK done \in SUBSET Seats :
             Executed(bulk.batch, done) /\ paper' = Written(paper, bulk.batch, done)
    BY <1>3 DEF WritePapers
  <2>2. BatchOK(bulk.batch)
    BY DEF PaperInv, BulkOK
  <2>3. QED
    BY <1>1, <2>1, <2>2, PipelineKeepsCache
<1>4. CASE BatchSet
  <2>1. PICK done \in SUBSET Seats :
             Executed(warm.batch, done) /\ paper' = Written(paper, warm.batch, done)
    BY <1>4 DEF BatchSet
  <2>2. BatchOK(warm.batch)
    BY DEF PaperInv, WarmOK
  <2>3. QED
    BY <1>1, <2>1, <2>2, PipelineKeepsCache
<1>5. ASSUME NEW r \in Requests, StorePaper(r)
      PROVE  CacheOK' /\ \A s \in Seats : paper[s] # NoPaper => paper'[s] # NoPaper
  <2> DEFINE t == req[r].seat
             p == req[r].paper
  <2>1. t \in Seats /\ Good(t, p) /\ p # NoPaper
    BY <1>5 DEF StorePaper, PaperInv, RequestOK
  <2>2. paper' = [paper EXCEPT ![t] = p]
    BY <1>5 DEF StorePaper
  <2> HIDE DEF t, p
  <2>3. ASSUME NEW s \in Seats
        PROVE  Good(s, paper'[s]) /\ (paper[s] # NoPaper => paper'[s] # NoPaper)
    <3>1. paper'[s] = IF s = t THEN p ELSE paper[s]
      BY <1>1, <2>2 DEF CacheOK
    <3>2. QED
      BY <1>1, <2>1, <3>1 DEF CacheOK
  <2>4. ASSUME NEW s \in Seats PROVE Good(s, paper[s])'
    BY <1>1, <2>3 DEF Good, OfOneDraw
  <2>5. QED
    BY <1>1, <2>2, <2>3, <2>4 DEF CacheOK
<1>6. QED
  BY <1>2, <1>3, <1>4, <1>5, StepEffects

\* Papers in a batch stay good while the matrix is drawn again.
LEMMA BatchStays ==
    ASSUME NEW batch, BatchOK(batch), \A s \in Seats : drawn[s] \subseteq drawn'[s]
    PROVE  BatchOK(batch)'
<1>1. ASSUME NEW s \in DOMAIN batch PROVE Good(s, batch[s])'
  BY DEF BatchOK, Good, OfOneDraw
<1>2. QED
  BY <1>1 DEF BatchOK

LEMMA NoBatchIsOK == BatchOK(NoBatch) /\ DOMAIN NoBatch = {}
BY DEF BatchOK, NoBatch

LEMMA BulkStep ==
    ASSUME PaperInv, [Next]_vars
    PROVE  BulkOK'
<1>1. DrawsOK /\ BulkOK /\ \A s \in Seats : drawn[s] \subseteq drawn'[s]
  BY DrawsStep DEF PaperInv
<1>2. ASSUME bulk' = [at |-> bulk'.at, centers |-> bulk'.centers, batch |-> bulk'.batch],
             NEW batch, BatchOK(batch), bulk'.batch = batch
      PROVE  BulkOK'
  <2>1. BatchOK(batch)'
    BY <1>1, <1>2, BatchStays
  <2>2. BatchOK(bulk.batch)'
    BY <2>1, <1>2 DEF BatchOK, Good, OfOneDraw
  <2>3. QED
    BY <1>2, <2>2 DEF BulkOK
<1>3. CASE UNCHANGED bulk
  BY <1>1, <1>2, <1>3 DEF BulkOK
<1>4. CASE StartBulk \/ WritePapers \/ BulkFails
  <2>1. /\ bulk' = [at |-> bulk'.at, centers |-> bulk'.centers, batch |-> bulk'.batch]
        /\ bulk'.batch = NoBatch
    <3>1. CASE StartBulk \/ BulkFails
      BY <3>1 DEF StartBulk, BulkFails
    <3>2. CASE WritePapers
      <4>1. bulk' = [bulk EXCEPT !.at = "idle", !.batch = NoBatch]
        BY <3>2 DEF WritePapers
      <4>2. QED
        BY <1>1, <4>1 DEF BulkOK
    <3>3. QED
      BY <1>4, <3>1, <3>2
  <2>2. QED
    BY <1>2, <2>1, NoBatchIsOK
<1>5. ASSUME NEW c \in Centers, ReadCenter(c)
      PROVE  BulkOK'
  <2> DEFINE old == bulk.batch
             new == [s \in DOMAIN old \union SeatsOf(c) |->
                        IF s \in DOMAIN old THEN old[s] ELSE AssemblePaper(assigned[s])]
  <2>1. bulk' = [bulk EXCEPT !.centers = bulk.centers \ {c}, !.batch = new]
    BY <1>5 DEF ReadCenter
  <2>2. BatchOK(old)
    BY <1>1 DEF BulkOK
  <2> HIDE DEF old
  <2>3. DOMAIN new = DOMAIN old \union SeatsOf(c) /\ DOMAIN new \subseteq Seats
    BY <2>2 DEF BatchOK, SeatsOf
  <2>4. ASSUME NEW s \in DOMAIN new
        PROVE  Good(s, new[s]) /\ new[s] # NoPaper
    <3>1. CASE s \in DOMAIN old
      BY <2>2, <2>3, <3>1 DEF BatchOK
    <3>2. CASE s \notin DOMAIN old
      <4>1. new[s] = AssemblePaper(assigned[s])
        BY <2>3, <3>2
      <4>2. QED
        BY <1>1, <2>3, <4>1, AssembledIsGood
    <3>3. QED
      BY <3>1, <3>2
  <2>5. BatchOK(new)
    BY <2>3, <2>4 DEF BatchOK
  <2> HIDE DEF new
  <2>6. /\ bulk' = [at |-> bulk'.at, centers |-> bulk'.centers, batch |-> bulk'.batch]
        /\ bulk'.batch = new
    BY <1>1, <2>1 DEF BulkOK
  <2>7. QED
    BY <1>2, <2>5, <2>6
<1>6. QED
  BY <1>3, <1>4, <1>5, StepEffects

LEMMA RequestStep ==
    ASSUME PaperInv, [Next]_vars
    PROVE  DOMAIN req' = Requests /\ \A x \in Requests : RequestOK(req[x])'
<1>1. /\ DrawsOK /\ CacheOK /\ DOMAIN req = Requests
      /\ \A s \in Seats : drawn[s] \subseteq drawn'[s]
      /\ \A r \in Requests : RequestOK(req[r])
  BY DrawsStep DEF PaperInv
<1>2. ASSUME NEW x, RequestOK(x)
      PROVE  RequestOK(x)'
  BY <1>1, <1>2 DEF RequestOK, Good, OfOneDraw
<1>3. ASSUME NEW y, RequestOK(y), NEW r \in Requests, Step(r, y)
      PROVE  DOMAIN req' = Requests /\ \A x \in Requests : RequestOK(req[x])'
  <2>1. RequestOK(y)' /\ \A x \in Requests : RequestOK(req'[x]) /\ DOMAIN req' = Requests
    BY <1>1, <1>2, <1>3 DEF Step
  <2>2. ASSUME NEW x \in Requests PROVE RequestOK(req[x])'
    BY <1>1, <2>1, <2>2 DEF RequestOK, Good, OfOneDraw
  <2>3. QED
    BY <2>1, <2>2
<1>4. CASE UNCHANGED req
  <2>1. ASSUME NEW x \in Requests PROVE RequestOK(req[x])'
    BY <1>1, <1>4, <2>1 DEF RequestOK, Good, OfOneDraw
  <2>2. QED
    BY <1>1, <1>4, <2>1
<1>5. ASSUME NEW r \in Requests,
             \/ \E s \in Seats : Ask(r, s)
             \/ AskAgain(r) \/ ReadAssignment(r) \/ ReadQuestions(r)
             \/ StorePaper(r) \/ RequestFails(r) \/ Answer(r)
      PROVE  \E y : RequestOK(y) /\ Step(r, y)
  <2>1. RequestOK(req[r])
    BY <1>1
  <2>2. ASSUME NEW s \in Seats, paper[s] # NoPaper
        PROVE  RequestOK([at |-> "paper", seat |-> s, paper |-> paper[s]])
    BY <1>1, <2>2 DEF RequestOK, CacheOK
  <2>3. ASSUME NEW s \in Seats, Ask(r, s)
        PROVE  \E y : RequestOK(y) /\ Step(r, y)
    <3>1. RequestOK([at |-> "again", seat |-> s])
      BY DEF RequestOK
    <3>2. QED
      BY <2>2, <2>3, <3>1 DEF Ask
  <2>4. CASE AskAgain(r)
    <3>1. req[r].seat \in Seats
      BY <2>1, <2>4 DEF AskAgain, RequestOK
    <3>2. RequestOK([at |-> "assignment", seat |-> req[r].seat])
      BY <3>1 DEF RequestOK
    <3>3. QED
      BY <2>2, <2>4, <3>1, <3>2 DEF AskAgain
  <2>5. CASE ReadAssignment(r)
    <3>1. req[r].seat \in Seats
      BY <2>1, <2>5 DEF ReadAssignment, RequestOK
    <3>2. RequestOK([at |-> "not found"])
      BY DEF RequestOK
    <3>3. ASSUME assigned[req[r].seat] # None
          PROVE  RequestOK([at |-> "questions", seat |-> req[r].seat,
                            found |-> assigned[req[r].seat]])
      BY <1>1, <3>1, <3>3 DEF RequestOK, DrawsOK
    <3>4. QED
      BY <2>5, <3>2, <3>3 DEF ReadAssignment
  <2>6. CASE ReadQuestions(r)
    <3>1. req[r].seat \in Seats /\ req[r].found \in drawn[req[r].seat]
      BY <2>1, <2>6 DEF ReadQuestions, RequestOK
    <3> DEFINE p == RenderPaper(LoadDecryptedQuestions(req[r].found))
    <3>2. Good(req[r].seat, p) /\ p # NoPaper
      BY <1>1, <3>1, RenderedIsGood
    <3>3. RequestOK([at |-> "not found"])
      BY DEF RequestOK
    <3>4. \/ Step(r, [at |-> "not found"])
          \/ Step(r, [at |-> "store", seat |-> req[r].seat, paper |-> p])
      BY <2>6 DEF ReadQuestions
    <3> HIDE DEF p
    <3>5. RequestOK([at |-> "store", seat |-> req[r].seat, paper |-> p])
      BY <3>1, <3>2 DEF RequestOK
    <3>6. QED
      BY <3>3, <3>4, <3>5
  <2>7. CASE StorePaper(r)
    <3>1. Step(r, [req[r] EXCEPT !.at = "paper"]) /\ req[r].at = "store"
      BY <2>7 DEF StorePaper
    <3>2. [req[r] EXCEPT !.at = "paper"] =
              [at |-> "paper", seat |-> req[r].seat, paper |-> req[r].paper]
      BY <2>1, <3>1 DEF RequestOK
    <3>3. RequestOK([at |-> "paper", seat |-> req[r].seat, paper |-> req[r].paper])
      BY <2>1, <3>1 DEF RequestOK
    <3>4. QED
      BY <3>1, <3>2, <3>3
  <2>8. CASE RequestFails(r) \/ Answer(r)
    <3>1. RequestOK([at |-> "not found"]) /\ RequestOK([at |-> "idle"])
      BY DEF RequestOK
    <3>2. QED
      BY <2>8, <3>1 DEF RequestFails, Answer
  <2>9. QED
    BY <1>5, <2>3, <2>4, <2>5, <2>6, <2>7, <2>8
<1>6. QED
  BY <1>3, <1>4, <1>5, StepEffects

\* The actions of the pre-warming, without their effect on the cache.
WarmTo(at, centers, seats, found, batch, seen, cached) ==
    warm' = [at |-> at, centers |-> centers, seats |-> seats, found |-> found,
             batch |-> batch, seen |-> seen, cached |-> cached]

LEMMA WarmEffects ==
    ASSUME WarmOK
    PROVE  /\ StartWarm => WarmTo("center", Centers, {}, NoBatch, NoBatch, {}, 0)
           /\ EndWarm => WarmTo("idle", {}, {}, NoBatch, NoBatch, {}, 0)
           /\ \A c \in Centers : ReadSeats(c) =>
                 /\ c \in warm.centers
                 /\ WarmTo("render", warm.centers \ {c}, SeatsOf(c),
                           [s \in SeatsOf(c) |-> assigned[s]], NoBatch, warm.seen, warm.cached)
           /\ \A s \in Seats : RenderSeat(s) =>
                 /\ s \in warm.seats
                 /\ \E batch :
                       /\ WarmTo("render", warm.centers, warm.seats \ {s}, warm.found, batch,
                                 warm.seen \union {s}, warm.cached)
                       /\ \/ batch = warm.batch
                          \/ /\ warm.found[s] # None
                             /\ batch = [t \in DOMAIN warm.batch \union {s} |->
                                   IF t = s THEN RenderPaper(LoadDecryptedQuestions(warm.found[s]))
                                   ELSE warm.batch[t]]
           /\ BatchSet =>
                 \E done \in SUBSET DOMAIN warm.batch :
                    /\ WarmTo(warm'.at, warm.centers, {}, NoBatch, NoBatch, warm.seen,
                              warm.cached + Cardinality(done))
                    /\ \A s \in done : paper'[s] = warm.batch[s]
<1>1. warm = [at |-> warm.at, centers |-> warm.centers, seats |-> warm.seats,
              found |-> warm.found, batch |-> warm.batch, seen |-> warm.seen,
              cached |-> warm.cached]
  BY DEF WarmOK
<1>2. StartWarm => WarmTo("center", Centers, {}, NoBatch, NoBatch, {}, 0)
  BY DEF StartWarm, WarmTo
<1>3. EndWarm => WarmTo("idle", {}, {}, NoBatch, NoBatch, {}, 0)
  <2>1. ASSUME EndWarm
        PROVE  warm' = [warm EXCEPT !.at = "idle", !.centers = {}, !.seats = {},
                                    !.found = NoBatch, !.batch = NoBatch, !.seen = {},
                                    !.cached = 0]
    BY <2>1 DEF EndWarm
  <2>2. QED
    BY <1>1, <2>1 DEF WarmTo
<1>4. ASSUME NEW c \in Centers, ReadSeats(c)
      PROVE  /\ c \in warm.centers
             /\ WarmTo("render", warm.centers \ {c}, SeatsOf(c),
                       [s \in SeatsOf(c) |-> assigned[s]], NoBatch, warm.seen, warm.cached)
  <2> DEFINE found == [s \in SeatsOf(c) |-> assigned[s]]
  <2>1. warm' = [warm EXCEPT !.at = "render", !.centers = warm.centers \ {c},
                             !.seats = SeatsOf(c), !.found = found, !.batch = NoBatch]
    BY <1>4 DEF ReadSeats
  <2> HIDE DEF found
  <2>2. WarmTo("render", warm.centers \ {c}, SeatsOf(c), found, NoBatch, warm.seen, warm.cached)
    BY <1>1, <2>1 DEF WarmTo
  <2>3. QED
    BY <1>4, <2>2 DEF ReadSeats, found
<1>5. ASSUME NEW s \in Seats, RenderSeat(s)
      PROVE  /\ s \in warm.seats
             /\ \E batch :
                   /\ WarmTo("render", warm.centers, warm.seats \ {s}, warm.found, batch,
                             warm.seen \union {s}, warm.cached)
                   /\ \/ batch = warm.batch
                      \/ /\ warm.found[s] # None
                         /\ batch = [t \in DOMAIN warm.batch \union {s} |->
                               IF t = s THEN RenderPaper(LoadDecryptedQuestions(warm.found[s]))
                               ELSE warm.batch[t]]
  <2> DEFINE longer == [t \in DOMAIN warm.batch \union {s} |->
                           IF t = s THEN RenderPaper(LoadDecryptedQuestions(warm.found[s]))
                           ELSE warm.batch[t]]
             batch == IF Renderable(warm.found[s]) THEN longer ELSE warm.batch
  <2>1. /\ s \in warm.seats /\ warm.at = "render"
        /\ warm' = [warm EXCEPT !.seats = warm.seats \ {s}, !.seen = warm.seen \union {s},
                                !.batch = batch]
    BY <1>5 DEF RenderSeat
  <2>2. batch = warm.batch \/ (warm.found[s] # None /\ batch = longer)
    BY DEF Renderable
  <2> HIDE DEF batch
  <2>3. WarmTo("render", warm.centers, warm.seats \ {s}, warm.found, batch,
               warm.seen \union {s}, warm.cached)
    BY <1>1, <2>1 DEF WarmTo
  <2>4. QED
    BY <2>1, <2>2, <2>3
<1>6. ASSUME BatchSet
      PROVE  \E done \in SUBSET DOMAIN warm.batch :
                /\ WarmTo(warm'.at, warm.centers, {}, NoBatch, NoBatch, warm.seen,
                          warm.cached + Cardinality(done))
                /\ \A s \in done : paper'[s] = warm.batch[s]
  <2>1. PICK done \in SUBSET Seats :
           /\ Executed(warm.batch, done) /\ paper' = Written(paper, warm.batch, done)
           /\ warm' = [warm EXCEPT !.cached = warm.cached + SuccessCount(warm.batch, done),
                                   !.found = NoBatch, !.batch = NoBatch,
                                   !.at = IF warm.centers = {} THEN "done" ELSE "center"]
    BY <1>6 DEF BatchSet
  <2> DEFINE n == warm.cached + Cardinality(done)
             at == IF warm.centers = {} THEN "done" ELSE "center"
  <2>2. warm' = [warm EXCEPT !.cached = n, !.found = NoBatch, !.batch = NoBatch, !.at = at]
    BY <2>1 DEF SuccessCount
  <2>3. warm.seats = {}
    BY <1>6 DEF BatchSet
  <2> HIDE DEF n, at
  <2>4. WarmTo(at, warm.centers, {}, NoBatch, NoBatch, warm.seen, n)
    BY <1>1, <2>2, <2>3 DEF WarmTo
  <2>5. warm'.at = at
    BY <2>4 DEF WarmTo
  <2>6. \A s \in done : paper'[s] = warm.batch[s]
    BY <2>1 DEF Written
  <2>7. done \subseteq DOMAIN warm.batch
    BY <2>1 DEF Executed
  <2>8. QED
    BY <2>4, <2>5, <2>6, <2>7 DEF n
<1>7. QED
  BY <1>2, <1>3, <1>4, <1>5, <1>6

LEMMA WarmStep ==
    ASSUME PaperInv, [Next]_vars
    PROVE  WarmOK' /\ CountOK'
<1>1. /\ DrawsOK /\ WarmOK /\ CountOK
      /\ \A s \in Seats : drawn[s] \subseteq drawn'[s]
  BY DrawsStep DEF PaperInv
<1>2. \A s \in Seats : paper[s] # NoPaper => paper'[s] # NoPaper
  BY CacheStep
<1>3. PICK counted \in SUBSET warm.seen :
         /\ warm.cached = Cardinality(counted)
         /\ \A s \in counted : paper[s] # NoPaper /\ CenterOf[s] \notin warm.centers
         /\ \A s \in warm.seats \union DOMAIN warm.batch :
                s \notin counted /\ CenterOf[s] \notin warm.centers
         /\ warm.seats \intersect DOMAIN warm.batch = {}
  BY <1>1 DEF CountOK
<1>4. /\ warm.seats \subseteq Seats /\ warm.seen \subseteq Seats /\ warm.centers \subseteq Centers
      /\ BatchOK(warm.batch) /\ DOMAIN warm.batch \subseteq warm.seen
      /\ \A s \in warm.seats : warm.found[s] # None => warm.found[s] \in drawn[s]
  BY <1>1 DEF WarmOK
<1>5. BatchOK(NoBatch) /\ DOMAIN NoBatch = {}
  BY NoBatchIsOK
\* It is enough that the fields of the new run are as they should be.
<1>6. ASSUME NEW at, NEW centers \in SUBSET Centers, NEW seats \in SUBSET Seats, NEW found,
             NEW batch, NEW seen \in SUBSET Seats, NEW cached,
             WarmTo(at, centers, seats, found, batch, seen, cached),
             BatchOK(batch), DOMAIN batch \subseteq seen,
             \A s \in seats : found[s] # None => found[s] \in drawn[s],
             NEW some \in SUBSET seen, cached = Cardinality(some),
             \A s \in some : paper'[s] # NoPaper /\ CenterOf[s] \notin centers,
             \A s \in seats \union DOMAIN batch : s \notin some /\ CenterOf[s] \notin centers,
             seats \intersect DOMAIN batch = {}
      PROVE  WarmOK' /\ CountOK'
  <2>1. /\ warm'.at = at /\ warm'.centers = centers /\ warm'.seats = seats
        /\ warm'.found = found /\ warm'.batch = batch /\ warm'.seen = seen
        /\ warm'.cached = cached
        /\ warm' = [at |-> warm'.at, centers |-> warm'.centers, seats |-> warm'.seats,
                    found |-> warm'.found, batch |-> warm'.batch, seen |-> warm'.seen,
                    cached |-> warm'.cached]
    BY <1>6 DEF WarmTo
  <2>2. BatchOK(batch)'
    BY <1>1, <1>6, BatchStays
  <2>3. BatchOK(warm.batch)'
    BY <2>1, <2>2 DEF BatchOK, Good, OfOneDraw
  <2>4. \A s \in seats : found[s] # None => found[s] \in drawn'[s]
    BY <1>1, <1>6
  <2>5. WarmOK'
    BY <1>6, <2>1, <2>3, <2>4 DEF WarmOK
  <2>6. CountOK'
    BY <1>6, <2>1 DEF CountOK
  <2>7. QED
    BY <2>5, <2>6
<1>7. CASE UNCHANGED warm
  <2>1. WarmTo(warm.at, warm.centers, warm.seats, warm.found, warm.batch, warm.seen, warm.cached)
    BY <1>1, <1>7 DEF WarmTo, WarmOK
  <2>2. \A s \in counted : paper'[s] # NoPaper /\ CenterOf[s] \notin warm.centers
    BY <1>2, <1>3, <1>4
  <2>3. QED
    BY <1>3, <1>4, <1>6, <2>1, <2>2
<1>8. CASE StartWarm
  <2>1. WarmTo("center", Centers, {}, NoBatch, NoBatch, {}, 0)
    BY <1>1, <1>8, WarmEffects
  <2>2. Cardinality({}) = 0
    BY FS_EmptySet
  <2>3. QED
    BY <1>5, <1>6, <2>1, <2>2
<1>9. CASE EndWarm
  <2>1. WarmTo("idle", {}, {}, NoBatch, NoBatch, {}, 0)
    BY <1>1, <1>9, WarmEffects
  <2>2. Cardinality({}) = 0
    BY FS_EmptySet
  <2>3. QED
    BY <1>5, <1>6, <2>1, <2>2
<1>10. ASSUME NEW c \in Centers, ReadSeats(c)
       PROVE  WarmOK' /\ CountOK'
  <2> DEFINE found == [s \in SeatsOf(c) |-> assigned[s]]
             rest == warm.centers \ {c}
             seats == SeatsOf(c)
  <2>1. /\ c \in warm.centers
        /\ WarmTo("render", rest, seats, found, NoBatch, warm.seen, warm.cached)
    BY <1>1, <1>10, WarmEffects
  <2>2. /\ seats \in SUBSET Seats /\ rest \in SUBSET Centers
        /\ \A s \in seats : CenterOf[s] = c
        /\ \A s \in seats : found[s] = assigned[s]
    BY <1>4 DEF SeatsOf
  <2>3. \A s \in seats : found[s] # None => found[s] \in drawn[s]
    BY <1>1, <2>2 DEF DrawsOK
  <2>4. \A s \in seats : s \notin counted /\ CenterOf[s] \notin rest
    BY <1>3, <2>1, <2>2
  <2>5. \A s \in counted : paper'[s] # NoPaper /\ CenterOf[s] \notin rest
    BY <1>2, <1>3, <1>4
  <2> HIDE DEF found, rest, seats
  <2>6. QED
    BY <1>3, <1>4, <1>5, <1>6, <2>1, <2>2, <2>3, <2>4, <2>5
<1>11. ASSUME NEW s \in Seats, RenderSeat(s)
       PROVE  WarmOK' /\ CountOK'
  <2>1. PICK batch :
           /\ WarmTo("render", warm.centers, warm.seats \ {s}, warm.found, batch,
                     warm.seen \union {s}, warm.cached)
           /\ \/ batch = warm.batch
              \/ /\ warm.found[s] # None
                 /\ batch = [t \in DOMAIN warm.batch \union {s} |->
                               IF t = s THEN RenderPaper(LoadDecryptedQuestions(warm.found[s]))
                               ELSE warm.batch[t]]
    BY <1>1, <1>11, WarmEffects
  <2>2. s \in warm.seats
    BY <1>1, <1>11, WarmEffects
  <2>3. BatchOK(batch) /\ DOMAIN batch \subseteq DOMAIN warm.batch \union {s}
    <3>1. CASE batch = warm.batch
      BY <1>4, <3>1
    <3>2. CASE batch # warm.batch
      <4>1. warm.found[s] \in drawn[s]
        BY <1>4, <2>1, <2>2, <3>2
      <4> DEFINE p == RenderPaper(LoadDecryptedQuestions(warm.found[s]))
      <4>2. Good(s, p) /\ p # NoPaper
        BY <1>1, <4>1, RenderedIsGood
      <4>3. batch = [t \in DOMAIN warm.batch \union {s} |-> IF t = s THEN p ELSE warm.batch[t]]
        BY <2>1, <3>2
      <4> HIDE DEF p
      <4>4. QED
        BY <1>4, <4>2, <4>3 DEF BatchOK
    <3>3. QED
      BY <3>1, <3>2
  <2>4. /\ warm.seats \ {s} \in SUBSET Seats /\ warm.seen \union {s} \in SUBSET Seats
        /\ counted \in SUBSET (warm.seen \union {s})
        /\ DOMAIN batch \subseteq warm.seen \union {s}
    BY <1>4, <2>3
  <2>5. \A t \in (warm.seats \ {s}) \union DOMAIN batch :
           t \notin counted /\ CenterOf[t] \notin warm.centers
    BY <1>3, <2>2, <2>3
  <2>6. (warm.seats \ {s}) \intersect DOMAIN batch = {}
    BY <1>3, <2>3
  <2>7. \A t \in counted : paper'[t] # NoPaper /\ CenterOf[t] \notin warm.centers
    BY <1>2, <1>3, <1>4
  <2>8. \A t \in warm.seats \ {s} : warm.found[t] # None => warm.found[t] \in drawn[t]
    BY <1>4
  <2> DEFINE seats == warm.seats \ {s}
             seen == warm.seen \union {s}
  <2> HIDE DEF seats, seen
  <2>9. QED
    BY <1>3, <1>4, <1>6, <2>1, <2>3, <2>4, <2>5, <2>6, <2>7, <2>8 DEF seats, seen
<1>12. CASE BatchSet
  <2>1. PICK done \in SUBSET DOMAIN warm.batch :
           /\ WarmTo(warm'.at, warm.centers, {}, NoBatch, NoBatch, warm.seen,
                     warm.cached + Cardinality(done))
           /\ \A s \in done : paper'[s] = warm.batch[s]
    BY <1>1, <1>12, WarmEffects
  <2> DEFINE some == counted \union done
  <2>2. IsFiniteSet(counted) /\ IsFiniteSet(done)
    BY <1>4, FS_Subset, PapersAssumption
  <2>3. counted \intersect done = {}
    BY <1>3, <2>1
  <2>4. warm.cached + Cardinality(done) = Cardinality(some)
    <3>1. Cardinality(some) = Cardinality(counted) + Cardinality(done)
                                  - Cardinality(counted \intersect done)
      BY <2>2, FS_Union
    <3>2. Cardinality(counted \intersect done) = 0
      BY <2>3, FS_EmptySet
    <3>3. Cardinality(counted) \in Nat /\ Cardinality(done) \in Nat
      BY <2>2, FS_CardinalityType
    <3> HIDE DEF some
    <3>4. QED
      BY <1>3, <3>1, <3>2, <3>3
  <2>5. \A s \in some : paper'[s] # NoPaper /\ CenterOf[s] \notin warm.centers
    <3>1. \A s \in done : warm.batch[s] # NoPaper
      BY <1>4, <2>1 DEF BatchOK
    <3>2. QED
      BY <1>2, <1>3, <1>4, <2>1, <3>1
  <2>6. some \in SUBSET warm.seen
    BY <1>4, <2>1
  <2> HIDE DEF some
  <2>7. \A s \in {} \union DOMAIN NoBatch : s \notin some /\ CenterOf[s] \notin warm.centers
    BY <1>5
  <2>8. QED
    BY <1>4, <1>5, <1>6, <2>1, <2>4, <2>5, <2>6, <2>7
<1>13. QED
  BY <1>7, <1>8, <1>9, <1>10, <1>11, <1>12, StepEffects

LEMMA PaperInvInit == Init => PaperInv
<1> SUFFICES ASSUME Init PROVE PaperInv
  OBVIOUS
<1>1. DrawsOK
  BY DEF Init, DrawsOK
<1>2. CacheOK
  <2>1. paper = [s \in Seats |-> NoPaper]
    BY DEF Init
  <2>2. QED
    BY <2>1, NoPaperIsGood DEF CacheOK
<1>3. BulkOK
  BY NoBatchIsOK DEF Init, BulkOK
<1>4. WarmOK
  <2>1. warm = [at |-> "idle", centers |-> {}, seats |-> {}, found |-> NoBatch,
                batch |-> NoBatch, seen |-> {}, cached |-> 0]
    BY DEF Init
  <2>2. QED
    BY <2>1, NoBatchIsOK DEF WarmOK
<1>5. CountOK
  <2>1. warm = [at |-> "idle", centers |-> {}, seats |-> {}, found |-> NoBatch,
                batch |-> NoBatch, seen |-> {}, cached |-> 0]
    BY DEF Init
  <2>2. QED
    BY <2>1, NoBatchIsOK, FS_EmptySet DEF CountOK
<1>6. DOMAIN req = Requests /\ \A r \in Requests : RequestOK(req[r])
  BY DEF Init, RequestOK
<1>7. QED
  BY <1>1, <1>2, <1>3, <1>4, <1>5, <1>6 DEF PaperInv

LEMMA PaperInvStep == PaperInv /\ [Next]_vars => PaperInv'
<1> SUFFICES ASSUME PaperInv, [Next]_vars PROVE PaperInv'
  OBVIOUS
<1>1. DrawsOK'
  BY DrawsStep DEF PaperInv
<1>2. QED
  BY <1>1, CacheStep, BulkStep, WarmStep, RequestStep DEF PaperInv

\* The paper of a seat, in the cache or on its way to the terminal, is of one
\* draw of the matrix and in its order, and a pre-warming that reports every
\* paper as cached leaves none missing: for any number of seats, centers, draws
\* and requests, and however many commands of a pipeline fail.
THEOREM PapersAreOfOneDraw == Spec => []OneDrawPerPaper
<1>1. PaperInv => OneDrawPerPaper
  <2> SUFFICES ASSUME PaperInv PROVE OneDrawPerPaper
    OBVIOUS
  <2>1. ASSUME NEW s \in Seats, NEW p \in Shown(s)
        PROVE  Good(s, p)
    BY <2>1 DEF PaperInv, CacheOK, RequestOK, Shown
  <2>2. FullReportMeansPapers
    <3> SUFFICES ASSUME warm.cached = Cardinality(warm.seen), NEW s \in warm.seen
                 PROVE  paper[s] # NoPaper
      BY DEF FullReportMeansPapers
    <3>1. PICK counted \in SUBSET warm.seen :
             /\ warm.cached = Cardinality(counted)
             /\ \A t \in counted : paper[t] # NoPaper
      BY DEF PaperInv, CountOK
    <3>2. IsFiniteSet(warm.seen)
      BY FS_Subset, PapersAssumption DEF PaperInv, WarmOK
    <3>3. counted = warm.seen
      BY <3>1, <3>2, FS_Subset
    <3>4. QED
      BY <3>1, <3>3
  <2>3. QED
    BY <2>1, <2>2 DEF OneDrawPerPaper, Good
<1>2. QED
  BY <1>1, PaperInvInit, PaperInvStep, PTL DEF Spec

(***************************************************************************)
(* QuestionVault.                                                          *)
(***************************************************************************)
Underway == {"save", "document", "event"}

(***************************************************************************)
(* The inductive invariant.                                                *)
(***************************************************************************)
CallType == [at : Underway \union {"returned", "failed"}, item : Items, text : Texts,
             alone : BOOLEAN]
BlobType == [dek : Calls, text : Texts]
DocType  == [dek : Calls, hash : Texts]
PartialOn(S, T) == UNION {[D -> T] : D \in SUBSET S}
ReaderType == [at : {"reading", "opened", "failed"}, docs : PartialOn(Items, DocType),
               opened : PartialOn(Items, Texts)]

VaultTypeOK ==
    /\ call \in [Calls -> {Idle} \union CallType]
    /\ blob \in [Items -> {Missing} \union BlobType]
    /\ keyDoc \in [Items -> {Missing} \union DocType]
    /\ reader \in [Readers -> {Idle} \union ReaderType]

\* A data key leads back to the call that drew it: what is stored or held under
\* that key is that call's.
Owned(doc, i) ==
    /\ call[doc.dek] # Idle
    /\ call[doc.dek].item = i /\ call[doc.dek].text = doc.hash

KeysAreOwned ==
    /\ \A i \in Items : blob[i] # Missing =>
          /\ call[blob[i].dek] # Idle
          /\ call[blob[i].dek].item = i /\ call[blob[i].dek].text = blob[i].text
    /\ \A i \in Items : keyDoc[i] # Missing => Owned(keyDoc[i], i)
    /\ \A r \in Readers : reader[r] # Idle =>
          \A i \in DOMAIN reader[r].docs : Owned(reader[r].docs[i], i)

OpenedIsSealed ==
    \A r \in Readers : reader[r] # Idle =>
        /\ DOMAIN reader[r].opened \subseteq DOMAIN reader[r].docs
        /\ \A i \in DOMAIN reader[r].opened : reader[r].opened[i] = reader[r].docs[i].hash

\* Calls begin in their order, and one that has been alone so far leaves no
\* older call for its question under way.
InOrder == \A k \in Calls : call[k] # Idle => \A x \in 1 .. k - 1 : call[x] # Idle

OlderAreDone ==
    \A k \in Calls : (call[k] # Idle /\ call[k].alone) =>
        \A x \in 1 .. k - 1 : call[x].item = call[k].item => ~InFlight(x)

\* The last call for its question, when no other was beside it, finds its own
\* writes as it left them.
Latest(k) == \A x \in k + 1 .. MaxCalls : call[x] # Idle => call[x].item # call[k].item

LastWriteStands ==
    \A k \in Calls : (call[k] # Idle /\ call[k].alone /\ Latest(k)) =>
        /\ call[k].at \in {"document", "event", "returned"} \/ k \in recorded =>
              blob[call[k].item] # Missing /\ blob[call[k].item].dek = k
        /\ call[k].at \in {"event", "returned"} \/ k \in recorded =>
              keyDoc[call[k].item] # Missing /\ keyDoc[call[k].item].dek = k

\* The event is the last await of a call.
RecordedHasEnded ==
    \A k \in Calls : k \in recorded => call[k].at \in {"returned", "failed"}

VaultInv ==
    /\ VaultTypeOK
    /\ KeysAreOwned
    /\ OpenedIsSealed
    /\ InOrder
    /\ OlderAreDone
    /\ LastWriteStands
    /\ RecordedHasEnded

(***************************************************************************)
(* What the step of one call changes, and what it leaves alone.            *)
(***************************************************************************)
LEMMA CallsAreNatural == Calls \subseteq Nat
BY VaultAssumption DEF Calls

\* Missing is neither a blob nor a document.
LEMMA MissingIsNone ==
    /\ \A b \in BlobType : b # Missing
    /\ \A d \in DocType : d # Missing
<1>1. DOMAIN Missing = {"dek"}
  BY DEF Missing
<1>2. \A b \in BlobType : DOMAIN b = {"dek", "text"}
  BY DEF BlobType
<1>3. \A d \in DocType : DOMAIN d = {"dek", "hash"}
  BY DEF DocType
<1>4. QED
  BY <1>1, <1>2, <1>3

LEMMA IdleIsNone ==
    /\ \A c \in CallType : c # Idle /\ c.at # "idle"
    /\ \A x \in ReaderType : x # Idle /\ x.at # "idle"
    /\ Idle.at = "idle"
BY DEF CallType, ReaderType, Idle, Underway

\* A call that proceeds keeps its question, its text and its mark.
LEMMA ProceedKeeps ==
    ASSUME VaultTypeOK, NEW k \in Calls, call[k] # Idle,
           NEW at \in Underway \union {"returned", "failed"}, Proceed(k, at)
    PROVE  /\ call' \in [Calls -> {Idle} \union CallType]
           /\ call'[k].at = at
           /\ \A x \in Calls : /\ call'[x] # Idle <=> call[x] # Idle
                               /\ call[x] # Idle => /\ call'[x].item = call[x].item
                                                    /\ call'[x].text = call[x].text
                                                    /\ call'[x].alone = call[x].alone
                               /\ x # k => call'[x] = call[x]
<1>1. call[k] \in CallType
  BY DEF VaultTypeOK
<1>2. [call[k] EXCEPT !.at = at] \in CallType
  BY <1>1 DEF CallType
<1>3. call' = [call EXCEPT ![k] = [call[k] EXCEPT !.at = at]]
  BY DEF Proceed
<1>4. /\ [call[k] EXCEPT !.at = at].at = at
      /\ [call[k] EXCEPT !.at = at].item = call[k].item
      /\ [call[k] EXCEPT !.at = at].text = call[k].text
      /\ [call[k] EXCEPT !.at = at].alone = call[k].alone
  BY <1>1 DEF CallType
<1>5. call'[k] = [call[k] EXCEPT !.at = at] /\ \A x \in Calls : x # k => call'[x] = call[x]
  BY <1>3 DEF VaultTypeOK
<1>6. call' \in [Calls -> {Idle} \union CallType]
  BY <1>2, <1>3 DEF VaultTypeOK
<1>7. QED
  BY <1>2, <1>4, <1>5, <1>6, IdleIsNone DEF VaultTypeOK

\* A call that begins is alone if no other for its question is under way, and
\* ends the solitude of those that are.
LEMMA EncryptBegins ==
    ASSUME VaultTypeOK, NEW k \in Calls, NEW i \in Items, NEW text \in Texts,
           Encrypt(k, i, text)
    PROVE  /\ call[k] = Idle /\ \A x \in 1 .. k - 1 : call[x] # Idle
           /\ call' \in [Calls -> {Idle} \union CallType]
           /\ call'[k] # Idle /\ call'[k].at = "save"
           /\ call'[k].item = i /\ call'[k].text = text
           /\ call'[k].alone => \A x \in Calls : InFlight(x) => call[x].item # i
           /\ \A x \in Calls \ {k} :
                 /\ call'[x] # Idle <=> call[x] # Idle
                 /\ call[x] # Idle => /\ call'[x].item = call[x].item
                                      /\ call'[x].text = call[x].text
                                      /\ call'[x].at = call[x].at
                                      /\ call'[x].alone => call[x].alone
                 /\ call'[x] # Idle /\ call'[x].alone /\ InFlight(x) => call[x].item # i
<1> DEFINE others == {x \in Calls : InFlight(x) /\ call[x].item = i}
           new == [at |-> "save", item |-> i, text |-> text, alone |-> others = {}]
<1>1. /\ call[k] = Idle /\ \A x \in 1 .. k - 1 : call[x] # Idle
      /\ call' = [x \in Calls |-> IF x = k THEN new
                                  ELSE IF x \in others THEN [call[x] EXCEPT !.alone = FALSE]
                                  ELSE call[x]]
  BY DEF Encrypt
<1>2. new \in CallType
  BY DEF CallType, Underway
<1>3. k \notin others
  BY <1>1, IdleIsNone DEF InFlight
<1>4. ASSUME NEW x \in Calls, x # k
      PROVE  /\ call'[x] \in {Idle} \union CallType
             /\ call'[x] # Idle <=> call[x] # Idle
             /\ call[x] # Idle => /\ call'[x].item = call[x].item
                                  /\ call'[x].text = call[x].text
                                  /\ call'[x].at = call[x].at
                                  /\ call'[x].alone => call[x].alone
             /\ call'[x] # Idle /\ call'[x].alone /\ InFlight(x) => call[x].item # i
  <2>1. CASE x \in others
    <3>1. call[x] \in CallType
      BY <2>1, IdleIsNone DEF InFlight, VaultTypeOK
    <3>2. call'[x] = [call[x] EXCEPT !.alone = FALSE]
      BY <1>1, <1>4, <2>1
    <3>3. /\ call'[x] \in CallType /\ call'[x].item = call[x].item
          /\ call'[x].text = call[x].text /\ call'[x].at = call[x].at
          /\ call'[x].alone = FALSE
      BY <3>1, <3>2 DEF CallType
    <3>4. QED
      BY <3>1, <3>3, IdleIsNone
  <2>2. CASE x \notin others
    <3>1. call'[x] = call[x]
      BY <1>1, <1>4, <2>2
    <3>2. InFlight(x) => call[x].item # i
      BY <2>2
    <3>3. QED
      BY <3>1, <3>2 DEF VaultTypeOK
  <2>3. QED
    BY <2>1, <2>2
<1>5. call'[k] = new /\ DOMAIN call' = Calls
  BY <1>1
<1>6. call' \in [Calls -> {Idle} \union CallType]
  BY <1>1, <1>2, <1>4, <1>5
<1>7. new.alone => \A x \in Calls : InFlight(x) => call[x].item # i
  OBVIOUS
<1>8. QED
  BY <1>1, <1>2, <1>4, <1>5, <1>6, <1>7, IdleIsNone

\* What no step takes back: a call that has begun keeps its question and text.
CallsKept ==
    \A x \in Calls : call[x] # Idle =>
        call'[x] # Idle /\ call'[x].item = call[x].item /\ call'[x].text = call[x].text

CallStep(k) ==
    SaveBlob(k) \/ SetKeyDocument(k) \/ RecordBlockchainEvent(k) \/ EncryptFails(k)
ReaderStep(r) ==
    \/ BulkDecrypt(r) \/ EndRead(r)
    \/ \E k \in Calls : DecryptReturned(r, k)
    \/ \E i \in Items : DecryptQuestion(r, i)

\* A step of a call moves that call alone, from a place where it is under way.
LEMMA CallMoves ==
    ASSUME VaultTypeOK, NEW k \in Calls, CallStep(k)
    PROVE  /\ call[k] # Idle /\ InFlight(k)
           /\ \E at \in Underway \union {"returned", "failed"} : Proceed(k, at)
<1>1. InFlight(k)
  BY DEF CallStep, SaveBlob, SetKeyDocument, RecordBlockchainEvent, EncryptFails, InFlight
<1>2. call[k] # Idle
  BY <1>1, IdleIsNone DEF InFlight
<1>3. \E at \in Underway \union {"returned", "failed"} : Proceed(k, at)
  BY DEF CallStep, SaveBlob, SetKeyDocument, RecordBlockchainEvent, EncryptFails, Underway
<1>4. QED
  BY <1>1, <1>2, <1>3

LEMMA CallMovesAlone ==
    ASSUME VaultTypeOK, NEW k \in Calls, CallStep(k)
    PROVE  /\ call' \in [Calls -> {Idle} \union CallType]
           /\ CallsKept
           /\ \A x \in Calls : /\ call'[x] # Idle <=> call[x] # Idle
                               /\ call[x] # Idle => call'[x].alone = call[x].alone
                               /\ x # k => call'[x] = call[x]
<1>1. PICK at \in Underway \union {"returned", "failed"} : Proceed(k, at)
  BY CallMoves
<1>2. call[k] # Idle
  BY CallMoves
<1>3. QED
  BY <1>1, <1>2, ProceedKeeps DEF CallsKept

\* A document that was owned still is when the calls are kept.
LEMMA OwnedStays ==
    ASSUME CallsKept, NEW doc, doc.dek \in Calls, NEW i, Owned(doc, i)
    PROVE  /\ call'[doc.dek] # Idle
           /\ call'[doc.dek].item = i /\ call'[doc.dek].text = doc.hash
BY DEF CallsKept, Owned

(***************************************************************************)
(* Types.                                                                  *)
(***************************************************************************)
LEMMA TypeInit == VaultInit => VaultTypeOK
BY DEF VaultInit, VaultTypeOK

LEMMA TypeEncrypt ==
    ASSUME VaultTypeOK, NEW k \in Calls, NEW i \in Items, NEW text \in Texts, Encrypt(k, i, text)
    PROVE  VaultTypeOK'
<1>1. UNCHANGED <<blob, keyDoc, reader>>
  BY DEF Encrypt
<1>2. QED
  BY <1>1, EncryptBegins DEF VaultTypeOK

LEMMA TypeCall == ASSUME VaultTypeOK, NEW k \in Calls, CallStep(k) PROVE VaultTypeOK'
<1>1. call' \in [Calls -> {Idle} \union CallType]
  BY CallMovesAlone
<1>2. call[k] \in CallType
  BY CallMoves DEF VaultTypeOK
<1>3. reader' = reader
  BY DEF CallStep, SaveBlob, SetKeyDocument, RecordBlockchainEvent, EncryptFails
<1>4. CASE SaveBlob(k)
  <2>1. [dek |-> k, text |-> call[k].text] \in BlobType /\ call[k].item \in Items
    BY <1>2 DEF BlobType, CallType
  <2>2. blob' = [blob EXCEPT ![call[k].item] = [dek |-> k, text |-> call[k].text]]
    BY <1>4 DEF SaveBlob, Dek
  <2>3. blob' \in [Items -> {Missing} \union BlobType] /\ keyDoc' = keyDoc
    BY <1>4, <2>1, <2>2 DEF SaveBlob, VaultTypeOK
  <2>4. QED
    BY <1>1, <1>3, <2>3 DEF VaultTypeOK
<1>5. CASE SetKeyDocument(k)
  <2>1. [dek |-> k, hash |-> call[k].text] \in DocType /\ call[k].item \in Items
    BY <1>2 DEF DocType, CallType
  <2>2. keyDoc' = [keyDoc EXCEPT ![call[k].item] = [dek |-> k, hash |-> call[k].text]]
    BY <1>5 DEF SetKeyDocument, Dek
  <2>3. keyDoc' \in [Items -> {Missing} \union DocType] /\ blob' = blob
    BY <1>5, <2>1, <2>2 DEF SetKeyDocument, VaultTypeOK
  <2>4. QED
    BY <1>1, <1>3, <2>3 DEF VaultTypeOK
<1>6. CASE RecordBlockchainEvent(k) \/ EncryptFails(k)
  <2>1. UNCHANGED <<blob, keyDoc>>
    BY <1>6 DEF RecordBlockchainEvent, EncryptFails
  <2>2. QED
    BY <1>1, <1>3, <2>1 DEF VaultTypeOK
<1>7. QED
  BY <1>4, <1>5, <1>6 DEF CallStep

\* A reader begins with documents that are what the calls made of them, and
\* has opened nothing.
LEMMA ReadBegins ==
    ASSUME VaultTypeOK, NEW r \in Readers, NEW D \in SUBSET Items, NEW docs \in [D -> DocType],
           Read(r, docs)
    PROVE  /\ reader' \in [Readers -> {Idle} \union ReaderType]
           /\ reader'[r].docs = docs /\ DOMAIN reader'[r].opened = {}
           /\ \A x \in Readers \ {r} : reader'[x] = reader[x]
           /\ UNCHANGED <<blob, keyDoc, recorded, call>>
<1> DEFINE nothing == [i \in {} |-> ""]
           new == [at |-> "reading", docs |-> docs, opened |-> nothing]
<1>1. docs \in PartialOn(Items, DocType)
  BY DEF PartialOn
<1>2. nothing \in PartialOn(Items, Texts)
  <2>1. nothing \in [{} -> Texts]
    OBVIOUS
  <2>2. QED
    BY <2>1 DEF PartialOn
<1>3. new \in ReaderType
  BY <1>1, <1>2 DEF ReaderType
<1>4. reader' = [reader EXCEPT ![r] = new] /\ UNCHANGED <<blob, keyDoc, recorded, call>>
  BY DEF Read
<1>5. reader'[r] = new /\ \A x \in Readers \ {r} : reader'[x] = reader[x]
  BY <1>4 DEF VaultTypeOK
<1>6. QED
  BY <1>3, <1>4, <1>5 DEF VaultTypeOK

\* Whatever it reads first was owned when it was read.
LEMMA DocumentsAreOwned ==
    ASSUME VaultTypeOK, KeysAreOwned, NEW r \in Readers,
           BulkDecrypt(r) \/ \E k \in Calls : DecryptReturned(r, k)
    PROVE  \E D \in SUBSET Items : \E docs \in [D -> DocType] :
              Read(r, docs) /\ \A i \in D : Owned(docs[i], i)
<1>1. CASE BulkDecrypt(r)
  <2> DEFINE known == {i \in Items : keyDoc[i] # Missing}
             docs == [i \in known |-> keyDoc[i]]
  <2>1. Read(r, docs)
    BY <1>1 DEF BulkDecrypt
  <2>2. docs \in [known -> DocType]
    BY DEF VaultTypeOK
  <2>3. \A i \in known : Owned(docs[i], i)
    BY DEF KeysAreOwned
  <2>4. QED
    BY <2>1, <2>2, <2>3
<1>2. CASE \E k \in Calls : DecryptReturned(r, k)
  <2>1. PICK k \in Calls : DecryptReturned(r, k)
    BY <1>2
  <2>2. call[k].at = "returned"
    BY <2>1 DEF DecryptReturned
  <2>3. call[k] # Idle /\ call[k] \in CallType
    BY <2>2, IdleIsNone DEF VaultTypeOK
  <2> DEFINE key == [dek |-> k, hash |-> call[k].text]
             docs == [i \in {call[k].item} |-> key]
  <2>4. Read(r, docs)
    BY <2>1 DEF DecryptReturned, Dek
  <2>5. key \in DocType /\ {call[k].item} \in SUBSET Items
    BY <2>3 DEF DocType, CallType
  <2>6. docs \in [{call[k].item} -> DocType]
    BY <2>5
  <2>7. \A i \in {call[k].item} : Owned(docs[i], i)
    BY <2>3 DEF Owned
  <2>8. QED
    BY <2>4, <2>5, <2>6, <2>7
<1>3. QED
  BY <1>1, <1>2

\* Opening a blob adds its text, if the key fits; otherwise the run is over.
LEMMA OpensOrFails ==
    ASSUME VaultTypeOK, KeysAreOwned, NEW r \in Readers, NEW i \in Items, DecryptQuestion(r, i)
    PROVE  /\ reader' \in [Readers -> {Idle} \union ReaderType]
           /\ reader[r] # Idle /\ reader'[r] # Idle
           /\ reader'[r].docs = reader[r].docs
           /\ \A x \in Readers \ {r} : reader'[x] = reader[x]
           /\ UNCHANGED <<blob, keyDoc, recorded, call>>
           /\ \/ reader'[r].opened = reader[r].opened
              \/ /\ i \in DOMAIN reader[r].docs
                 /\ DOMAIN reader'[r].opened = DOMAIN reader[r].opened \union {i}
                 /\ reader'[r].opened[i] = reader[r].docs[i].hash
                 /\ \A j \in DOMAIN reader[r].opened :
                       j # i => reader'[r].opened[j] = reader[r].opened[j]
<1>1. /\ reader[r].at = "reading" /\ i \in DOMAIN reader[r].docs
      /\ i \notin DOMAIN reader[r].opened
      /\ UNCHANGED <<blob, keyDoc, recorded, call>>
  BY DEF DecryptQuestion, Unopened
<1>2. reader[r] # Idle /\ reader[r] \in ReaderType
  BY <1>1, IdleIsNone DEF VaultTypeOK
<1>3. PICK D \in SUBSET Items : reader[r].docs \in [D -> DocType]
  BY <1>2 DEF ReaderType, PartialOn
<1>4. PICK O \in SUBSET Items : reader[r].opened \in [O -> Texts]
  BY <1>2 DEF ReaderType, PartialOn
<1>5. CASE blob[i] # Missing /\ blob[i].dek = reader[r].docs[i].dek
  <2> DEFINE opened == [j \in O \union {i} |-> IF j = i THEN blob[i].text
                                               ELSE reader[r].opened[j]]
             new == [at |-> "reading", docs |-> reader[r].docs, opened |-> opened]
  <2>1. reader' = [reader EXCEPT ![r] = new]
    BY <1>4, <1>5 DEF DecryptQuestion
  <2>2. blob[i] \in BlobType
    BY <1>5 DEF VaultTypeOK
  <2>3. opened \in [O \union {i} -> Texts]
    BY <1>4, <2>2 DEF BlobType
  <2>4. opened \in PartialOn(Items, Texts)
    BY <2>3 DEF PartialOn
  <2>5. /\ new \in ReaderType /\ new.opened = opened /\ new.docs = reader[r].docs
    BY <1>2, <2>4 DEF ReaderType
  <2>6. opened[i] = reader[r].docs[i].hash
    BY <1>1, <1>2, <1>5 DEF KeysAreOwned, Owned
  <2>7. /\ DOMAIN opened = DOMAIN reader[r].opened \union {i}
        /\ \A j \in DOMAIN reader[r].opened : j # i => opened[j] = reader[r].opened[j]
    BY <1>4
  <2>8. reader'[r] = new /\ \A x \in Readers \ {r} : reader'[x] = reader[x]
    BY <2>1 DEF VaultTypeOK
  <2>9. reader' \in [Readers -> {Idle} \union ReaderType]
    BY <2>1, <2>5 DEF VaultTypeOK
  <2>10. QED
    BY <1>1, <1>2, <2>5, <2>6, <2>7, <2>8, <2>9, IdleIsNone
<1>6. CASE ~(blob[i] # Missing /\ blob[i].dek = reader[r].docs[i].dek)
  <2> DEFINE new == [at |-> "failed", docs |-> reader[r].docs,
                     opened |-> reader[r].opened]
  <2>1. reader' = [reader EXCEPT ![r] = new]
    BY <1>6 DEF DecryptQuestion
  <2>2. new \in ReaderType /\ new.opened = reader[r].opened /\ new.docs = reader[r].docs
    BY <1>2 DEF ReaderType
  <2>3. reader'[r] = new /\ \A x \in Readers \ {r} : reader'[x] = reader[x]
    BY <2>1 DEF VaultTypeOK
  <2>4. reader' \in [Readers -> {Idle} \union ReaderType]
    BY <2>1, <2>2 DEF VaultTypeOK
  <2>5. QED
    BY <1>1, <1>2, <2>2, <2>3, <2>4, IdleIsNone
<1>7. QED
  BY <1>5, <1>6

\* The end of a run changes nothing of what it read and opened.
LEMMA EndKeeps ==
    ASSUME VaultTypeOK, NEW r \in Readers, EndRead(r)
    PROVE  /\ reader' \in [Readers -> {Idle} \union ReaderType]
           /\ reader[r] # Idle
           /\ reader'[r].docs = reader[r].docs /\ reader'[r].opened = reader[r].opened
           /\ \A x \in Readers \ {r} : reader'[x] = reader[x]
           /\ UNCHANGED <<blob, keyDoc, recorded, call>>
<1>1. reader[r].at = "reading" /\ UNCHANGED <<blob, keyDoc, recorded, call>>
  BY DEF EndRead
<1>2. reader[r] # Idle /\ reader[r] \in ReaderType
  BY <1>1, IdleIsNone DEF VaultTypeOK
<1>3. PICK at \in {"opened", "failed"} : reader' = [reader EXCEPT ![r].at = at]
  BY DEF EndRead
<1> DEFINE new == [reader[r] EXCEPT !.at = at]
<1>4. new \in ReaderType /\ new.opened = reader[r].opened /\ new.docs = reader[r].docs
  BY <1>2 DEF ReaderType
<1>5. reader'[r] = new /\ \A x \in Readers \ {r} : reader'[x] = reader[x]
  BY <1>3 DEF VaultTypeOK
<1>6. reader' \in [Readers -> {Idle} \union ReaderType]
  BY <1>3, <1>4 DEF VaultTypeOK
<1>7. QED
  BY <1>1, <1>2, <1>4, <1>5, <1>6

LEMMA TypeReader ==
    ASSUME VaultTypeOK, KeysAreOwned, NEW r \in Readers, ReaderStep(r)
    PROVE  VaultTypeOK'
<1>1. CASE BulkDecrypt(r) \/ \E k \in Calls : DecryptReturned(r, k)
  <2>1. PICK D \in SUBSET Items : \E docs \in [D -> DocType] : Read(r, docs)
    BY <1>1, DocumentsAreOwned
  <2>2. PICK docs \in [D -> DocType] : Read(r, docs)
    BY <2>1
  <2>3. QED
    BY <2>2, ReadBegins DEF VaultTypeOK
<1>2. CASE \E i \in Items : DecryptQuestion(r, i)
  BY <1>2, OpensOrFails DEF VaultTypeOK
<1>3. CASE EndRead(r)
  BY <1>3, EndKeeps DEF VaultTypeOK
<1>4. QED
  BY <1>1, <1>2, <1>3 DEF ReaderStep

(***************************************************************************)
(* Every stored or held key leads back to its call.                        *)
(***************************************************************************)
\* What is not written keeps its owner when the calls are kept.
LEMMA OwnersStay ==
    ASSUME VaultTypeOK, KeysAreOwned, CallsKept, reader' = reader,
           NEW i \in Items
    PROVE  /\ (blob'[i] = blob[i] /\ blob'[i] # Missing) =>
                 /\ call'[blob'[i].dek] # Idle
                 /\ call'[blob'[i].dek].item = i /\ call'[blob'[i].dek].text = blob'[i].text
           /\ (keyDoc'[i] = keyDoc[i] /\ keyDoc'[i] # Missing) =>
                 /\ call'[keyDoc'[i].dek] # Idle
                 /\ call'[keyDoc'[i].dek].item = i
                 /\ call'[keyDoc'[i].dek].text = keyDoc'[i].hash
           /\ \A r \in Readers : reader[r] # Idle /\ i \in DOMAIN reader[r].docs =>
                 /\ call'[reader[r].docs[i].dek] # Idle
                 /\ call'[reader[r].docs[i].dek].item = i
                 /\ call'[reader[r].docs[i].dek].text = reader[r].docs[i].hash
<1>1. blob[i] # Missing => blob[i].dek \in Calls
  BY DEF VaultTypeOK, BlobType
<1>2. keyDoc[i] # Missing => keyDoc[i].dek \in Calls
  BY DEF VaultTypeOK, DocType
<1>3. ASSUME NEW r \in Readers, reader[r] # Idle, i \in DOMAIN reader[r].docs
      PROVE  reader[r].docs[i].dek \in Calls
  <2>1. PICK D \in SUBSET Items : reader[r].docs \in [D -> DocType]
    BY <1>3 DEF VaultTypeOK, ReaderType, PartialOn
  <2>2. QED
    BY <1>3, <2>1 DEF DocType
<1>4. QED
  BY <1>1, <1>2, <1>3 DEF KeysAreOwned, CallsKept, Owned

LEMMA OwnedEncrypt ==
    ASSUME VaultTypeOK, KeysAreOwned, NEW k \in Calls, NEW i \in Items, NEW text \in Texts,
           Encrypt(k, i, text)
    PROVE  KeysAreOwned'
<1>1. CallsKept
  BY EncryptBegins DEF CallsKept
<1>2. UNCHANGED <<blob, keyDoc, reader>>
  BY DEF Encrypt
<1>3. ASSUME NEW r \in Readers, reader[r] # Idle, NEW j \in DOMAIN reader[r].docs
      PROVE  j \in Items
  BY <1>3 DEF VaultTypeOK, ReaderType, PartialOn
<1>4. QED
  BY <1>1, <1>2, <1>3, OwnersStay DEF KeysAreOwned, Owned

LEMMA OwnedCall ==
    ASSUME VaultTypeOK, KeysAreOwned, NEW k \in Calls, CallStep(k)
    PROVE  KeysAreOwned'
<1>1. CallsKept
  BY CallMovesAlone
<1>2. call[k] # Idle /\ call[k] \in CallType /\ call[k].item \in Items
  BY CallMoves DEF VaultTypeOK, CallType
<1>3. /\ call'[k] # Idle /\ call'[k].item = call[k].item /\ call'[k].text = call[k].text
  BY <1>1, <1>2 DEF CallsKept
<1>4. reader' = reader
  BY DEF CallStep, SaveBlob, SetKeyDocument, RecordBlockchainEvent, EncryptFails
<1>5. ASSUME NEW r \in Readers, reader[r] # Idle, NEW j \in DOMAIN reader[r].docs
      PROVE  j \in Items
  BY <1>5 DEF VaultTypeOK, ReaderType, PartialOn
<1>6. ASSUME NEW i \in Items
      PROVE  /\ blob'[i] # Missing =>
                   /\ call'[blob'[i].dek] # Idle
                   /\ call'[blob'[i].dek].item = i /\ call'[blob'[i].dek].text = blob'[i].text
             /\ keyDoc'[i] # Missing =>
                   /\ call'[keyDoc'[i].dek] # Idle
                   /\ call'[keyDoc'[i].dek].item = i
                   /\ call'[keyDoc'[i].dek].text = keyDoc'[i].hash
  <2>1. CASE SaveBlob(k) /\ i = call[k].item
    <3>1. blob'[i] = [dek |-> k, text |-> call[k].text] /\ keyDoc' = keyDoc
      BY <2>1 DEF SaveBlob, Dek, VaultTypeOK
    <3>2. QED
      BY <1>1, <1>3, <1>4, <1>6, <2>1, <3>1, OwnersStay
  <2>2. CASE SetKeyDocument(k) /\ i = call[k].item
    <3>1. keyDoc'[i] = [dek |-> k, hash |-> call[k].text] /\ blob' = blob
      BY <2>2 DEF SetKeyDocument, Dek, VaultTypeOK
    <3>2. QED
      BY <1>1, <1>3, <1>4, <1>6, <2>2, <3>1, OwnersStay
  <2>3. CASE ~((SaveBlob(k) \/ SetKeyDocument(k)) /\ i = call[k].item)
    <3>1. blob'[i] = blob[i] /\ keyDoc'[i] = keyDoc[i]
      BY <2>3 DEF CallStep, SaveBlob, SetKeyDocument, RecordBlockchainEvent, EncryptFails,
                  VaultTypeOK
    <3>2. QED
      BY <1>1, <1>4, <1>6, <3>1, OwnersStay
  <2>4. QED
    BY <2>1, <2>2, <2>3
<1>7. \A r \in Readers : reader'[r] # Idle =>
         \A i \in DOMAIN reader'[r].docs : Owned(reader[r].docs[i], i)'
  BY <1>1, <1>4, <1>5, OwnersStay DEF Owned
<1>8. QED
  BY <1>4, <1>6, <1>7 DEF KeysAreOwned, Owned

LEMMA OwnedReader ==
    ASSUME VaultTypeOK, KeysAreOwned, NEW r \in Readers, ReaderStep(r)
    PROVE  KeysAreOwned'
<1>1. CASE BulkDecrypt(r) \/ \E k \in Calls : DecryptReturned(r, k)
  <2>1. PICK D \in SUBSET Items : \E docs \in [D -> DocType] :
           Read(r, docs) /\ \A i \in D : Owned(docs[i], i)
    BY <1>1, DocumentsAreOwned
  <2>2. PICK docs \in [D -> DocType] : Read(r, docs) /\ \A i \in D : Owned(docs[i], i)
    BY <2>1
  <2>3. /\ reader'[r].docs = docs /\ \A x \in Readers \ {r} : reader'[x] = reader[x]
        /\ UNCHANGED <<blob, keyDoc, call>>
    BY <2>2, ReadBegins
  <2>4. \A x \in Readers : reader'[x] # Idle =>
           \A i \in DOMAIN reader'[x].docs : Owned(reader'[x].docs[i], i)
    BY <2>2, <2>3 DEF KeysAreOwned
  <2>5. QED
    BY <2>3, <2>4 DEF KeysAreOwned, Owned
<1>2. CASE \E i \in Items : DecryptQuestion(r, i)
  BY <1>2, OpensOrFails DEF KeysAreOwned, Owned
<1>3. CASE EndRead(r)
  BY <1>3, EndKeeps DEF KeysAreOwned, Owned
<1>4. QED
  BY <1>1, <1>2, <1>3 DEF ReaderStep

(***************************************************************************)
(* What is opened is what was sealed.                                      *)
(***************************************************************************)
LEMMA SealedReader ==
    ASSUME VaultTypeOK, KeysAreOwned, OpenedIsSealed, NEW r \in Readers, ReaderStep(r)
    PROVE  OpenedIsSealed'
<1>1. CASE BulkDecrypt(r) \/ \E k \in Calls : DecryptReturned(r, k)
  <2>1. PICK D \in SUBSET Items : \E docs \in [D -> DocType] : Read(r, docs)
    BY <1>1, DocumentsAreOwned
  <2>2. PICK docs \in [D -> DocType] : Read(r, docs)
    BY <2>1
  <2>3. QED
    BY <2>2, ReadBegins DEF OpenedIsSealed
<1>2. CASE \E i \in Items : DecryptQuestion(r, i)
  BY <1>2, OpensOrFails DEF OpenedIsSealed
<1>3. CASE EndRead(r)
  BY <1>3, EndKeeps DEF OpenedIsSealed
<1>4. QED
  BY <1>1, <1>2, <1>3 DEF ReaderStep

(***************************************************************************)
(* The order of the calls, and the last write.                             *)
(***************************************************************************)
\* The conjuncts that are about calls and stores alone.
Writes == InOrder /\ OlderAreDone /\ LastWriteStands /\ RecordedHasEnded

LEMMA WritesEncrypt ==
    ASSUME VaultTypeOK, Writes, NEW k \in Calls, NEW i \in Items, NEW text \in Texts,
           Encrypt(k, i, text)
    PROVE  Writes'
<1> USE CallsAreNatural, VaultAssumption
<1>1. UNCHANGED <<blob, keyDoc, recorded>>
  BY DEF Encrypt
<1>2. /\ call[k] = Idle /\ \A x \in 1 .. k - 1 : call[x] # Idle
      /\ call'[k] # Idle /\ call'[k].at = "save" /\ call'[k].item = i
      /\ call'[k].alone => \A x \in Calls : InFlight(x) => call[x].item # i
      /\ \A x \in Calls \ {k} :
            /\ call'[x] # Idle <=> call[x] # Idle
            /\ call[x] # Idle => /\ call'[x].item = call[x].item
                                 /\ call'[x].at = call[x].at
                                 /\ call'[x].alone => call[x].alone
  BY EncryptBegins
<1>3. \A x \in Calls : x > k => call[x] = Idle
  BY <1>2 DEF Writes, InOrder, Calls
<1>4. \A x \in Calls \ {k} : InFlight(x)' => InFlight(x)
  <2>1. \A x \in Calls : call[x] = Idle => call[x].at = "idle"
    BY IdleIsNone
  <2>2. ASSUME NEW x \in Calls \ {k}, InFlight(x)' PROVE InFlight(x)
    <3>1. call'[x] # Idle
      BY <2>2, IdleIsNone DEF InFlight
    <3>2. QED
      BY <1>2, <2>2, <3>1 DEF InFlight
  <2>3. QED
    BY <2>2
<1>5. InOrder'
  BY <1>2, <1>3 DEF Writes, InOrder, Calls
<1>6. OlderAreDone'
  <2>1. ASSUME NEW x \in Calls, call'[x] # Idle, call'[x].alone, NEW y \in 1 .. x - 1,
               call'[y].item = call'[x].item, InFlight(y)'
        PROVE  FALSE
    <3>1. y \in Calls /\ y < x
      BY DEF Calls
    <3>2. CASE x = k
      BY <1>2, <1>4, <2>1, <3>1, <3>2, IdleIsNone DEF InFlight
    <3>3. CASE x # k
      <4>1. call[x] # Idle /\ x < k
        BY <1>2, <1>3, <2>1, <3>3
      <4>2. y # k /\ call[y] # Idle
        BY <1>2, <3>1, <4>1
      <4>3. call[x].alone /\ call[y].item = call[x].item /\ InFlight(y)
        BY <1>2, <1>4, <2>1, <3>1, <3>3, <4>1, <4>2
      <4>4. QED
        BY <4>1, <4>3 DEF Writes, OlderAreDone
    <3>4. QED
      BY <3>2, <3>3
  <2>2. QED
    BY <2>1 DEF OlderAreDone
<1>7. LastWriteStands'
  <2>1. ASSUME NEW x \in Calls, call'[x] # Idle, call'[x].alone, Latest(x)', x # k
        PROVE  call[x] # Idle /\ call[x].alone /\ Latest(x)
    <3>1. call[x] # Idle /\ call[x].alone
      BY <1>2, <2>1
    <3>2. ASSUME NEW y \in x + 1 .. MaxCalls, call[y] # Idle
          PROVE  call[y].item # call[x].item
      <4>1. y \in Calls /\ y # k
        BY <1>2, <3>2 DEF Calls
      <4>2. call'[y] # Idle /\ call'[y].item = call[y].item
        BY <1>2, <3>2, <4>1
      <4>3. QED
        BY <1>2, <2>1, <3>1, <4>2 DEF Latest
    <3>3. QED
      BY <3>1, <3>2 DEF Latest
  <2>2. \A x \in Calls \ {k} : call'[x] # Idle =>
           call'[x].at = call[x].at /\ call'[x].item = call[x].item
    BY <1>2
  <2>3. k \notin recorded'
    BY <1>1, <1>2, IdleIsNone DEF Writes, RecordedHasEnded
  <2>4. QED
    BY <1>1, <1>2, <2>1, <2>2, <2>3 DEF Writes, LastWriteStands
<1>8. RecordedHasEnded'
  BY <1>1, <1>2, IdleIsNone DEF Writes, RecordedHasEnded
<1>9. QED
  BY <1>5, <1>6, <1>7, <1>8 DEF Writes

LEMMA WritesCall ==
    ASSUME VaultTypeOK, Writes, NEW k \in Calls, CallStep(k)
    PROVE  Writes'
<1> USE CallsAreNatural, VaultAssumption
<1>1. /\ call[k] # Idle /\ InFlight(k)
      /\ \A x \in Calls : /\ call'[x] # Idle <=> call[x] # Idle
                          /\ call[x] # Idle => /\ call'[x].item = call[x].item
                                               /\ call'[x].alone = call[x].alone
                          /\ x # k => call'[x] = call[x]
  BY CallMoves, CallMovesAlone DEF CallsKept
<1>2. call[k].item \in Items
  BY <1>1 DEF VaultTypeOK, CallType
<1>3. \A x \in Calls : InFlight(x)' => InFlight(x)
  BY <1>1 DEF InFlight
<1>4. InOrder'
  BY <1>1 DEF Writes, InOrder, Calls
<1>5. OlderAreDone'
  <2>1. ASSUME NEW x \in Calls, call'[x] # Idle, call'[x].alone, NEW y \in 1 .. x - 1,
               call'[y].item = call'[x].item
        PROVE  ~InFlight(y)'
    <3>1. y \in Calls /\ call[x] # Idle /\ call[x].alone
      BY <1>1, <2>1 DEF Calls
    <3>2. call[y] # Idle
      BY <3>1, <2>1 DEF Writes, InOrder
    <3>3. call[y].item = call[x].item
      BY <1>1, <2>1, <3>1, <3>2
    <3>4. QED
      BY <1>3, <3>1, <3>3, <2>1 DEF Writes, OlderAreDone
  <2>2. QED
    BY <2>1 DEF OlderAreDone
<1>6. LastWriteStands'
  <2> SUFFICES ASSUME NEW x \in Calls, call'[x] # Idle, call'[x].alone, Latest(x)'
               PROVE  /\ call'[x].at \in {"document", "event", "returned"} \/ x \in recorded' =>
                           blob'[call'[x].item] # Missing /\ blob'[call'[x].item].dek = x
                      /\ call'[x].at \in {"event", "returned"} \/ x \in recorded' =>
                           keyDoc'[call'[x].item] # Missing /\ keyDoc'[call'[x].item].dek = x
    BY DEF LastWriteStands
  <2>1. call[x] # Idle /\ call[x].alone /\ call'[x].item = call[x].item
    BY <1>1
  <2>2. Latest(x)
    <3>1. \A y \in x + 1 .. MaxCalls : y \in Calls
      BY DEF Calls
    <3>2. QED
      BY <1>1, <2>1, <3>1 DEF Latest
  <2>3. /\ call[x].at \in {"document", "event", "returned"} \/ x \in recorded =>
              blob[call[x].item] # Missing /\ blob[call[x].item].dek = x
        /\ call[x].at \in {"event", "returned"} \/ x \in recorded =>
              keyDoc[call[x].item] # Missing /\ keyDoc[call[x].item].dek = x
    BY <2>1, <2>2 DEF Writes, LastWriteStands
  <2>4. CASE x = k
    <3>1. CASE SaveBlob(k)
      <4>1. call'[k].at = "document" /\ k \notin recorded'
        BY <1>1, <3>1, ProceedKeeps DEF SaveBlob, Underway, Writes, RecordedHasEnded
      <4>2. blob'[call[k].item] = [dek |-> k, text |-> call[k].text]
        BY <1>2, <3>1 DEF SaveBlob, Dek, VaultTypeOK
      <4>3. [dek |-> k, text |-> call[k].text] \in BlobType
        BY <1>1 DEF BlobType, VaultTypeOK, CallType
      <4>4. QED
        BY <2>1, <2>4, <4>1, <4>2, <4>3, MissingIsNone
    <3>2. CASE SetKeyDocument(k)
      <4>1. call'[k].at = "event" /\ call[k].at = "document" /\ blob' = blob
        BY <1>1, <3>2, ProceedKeeps DEF SetKeyDocument, Underway
      <4>2. keyDoc'[call[k].item] = [dek |-> k, hash |-> call[k].text]
        BY <1>2, <3>2 DEF SetKeyDocument, Dek, VaultTypeOK
      <4>3. [dek |-> k, hash |-> call[k].text] \in DocType
        BY <1>1 DEF DocType, VaultTypeOK, CallType
      <4>4. QED
        BY <2>1, <2>3, <2>4, <4>1, <4>2, <4>3, MissingIsNone
    <3>3. CASE RecordBlockchainEvent(k)
      <4>1. call[k].at = "event" /\ UNCHANGED <<blob, keyDoc>>
        BY <3>3 DEF RecordBlockchainEvent
      <4>2. QED
        BY <2>1, <2>3, <2>4, <4>1
    <3>4. CASE EncryptFails(k)
      <4>1. call'[k].at = "failed" /\ UNCHANGED <<blob, keyDoc>>
        BY <1>1, <3>4, ProceedKeeps DEF EncryptFails
      <4>2. x \in recorded' => call[k].at = "event" \/ x \in recorded
        BY <3>4 DEF EncryptFails
      <4>3. QED
        BY <2>1, <2>3, <2>4, <4>1, <4>2
    <3>5. QED
      BY <3>1, <3>2, <3>3, <3>4 DEF CallStep
  <2>5. CASE x # k
    <3>1. call[k].item # call[x].item
      <4>1. CASE k > x
        BY <1>1, <2>2, <4>1 DEF Latest, Calls
      <4>2. CASE k < x
        BY <1>1, <2>1, <4>2 DEF Writes, OlderAreDone, Calls
      <4>3. QED
        BY <2>5, <4>1, <4>2
    <3>2. call[x].item \in Items
      BY <2>1 DEF VaultTypeOK, CallType
    <3>3. blob'[call[x].item] = blob[call[x].item]
          /\ keyDoc'[call[x].item] = keyDoc[call[x].item]
      BY <1>2, <3>1, <3>2 DEF CallStep, SaveBlob, SetKeyDocument, RecordBlockchainEvent,
                               EncryptFails, VaultTypeOK
    <3>4. call'[x] = call[x] /\ (x \in recorded' => x \in recorded)
      BY <1>1, <2>5 DEF CallStep, SaveBlob, SetKeyDocument, RecordBlockchainEvent, EncryptFails
    <3>5. QED
      BY <2>1, <2>3, <3>3, <3>4
  <2>6. QED
    BY <2>4, <2>5
<1>7. RecordedHasEnded'
  <2>1. ASSUME NEW x \in Calls, x \in recorded' PROVE call'[x].at \in {"returned", "failed"}
    <3>1. CASE x \in recorded
      <4>1. call[x].at \in {"returned", "failed"} /\ ~InFlight(x)
        BY <3>1 DEF Writes, RecordedHasEnded, InFlight
      <4>2. QED
        BY <1>1, <4>1
    <3>2. CASE x \notin recorded
      <4>1. x = k /\ (RecordBlockchainEvent(k) \/ EncryptFails(k))
        BY <2>1, <3>2 DEF CallStep, SaveBlob, SetKeyDocument, RecordBlockchainEvent, EncryptFails
      <4>2. QED
        BY <1>1, <4>1, ProceedKeeps DEF RecordBlockchainEvent, EncryptFails
    <3>3. QED
      BY <3>1, <3>2
  <2>2. QED
    BY <2>1 DEF RecordedHasEnded
<1>8. QED
  BY <1>4, <1>5, <1>6, <1>7 DEF Writes

\* A reader writes nothing but itself.
LEMMA ReaderOnly ==
    ASSUME NEW r \in Readers, ReaderStep(r)
    PROVE  UNCHANGED <<blob, keyDoc, recorded, call>>
BY DEF ReaderStep, BulkDecrypt, DecryptReturned, Read, DecryptQuestion, EndRead

LEMMA WritesKept ==
    ASSUME Writes, UNCHANGED <<blob, keyDoc, recorded, call>>
    PROVE  Writes'
BY DEF Writes, InOrder, OlderAreDone, InFlight, LastWriteStands, Latest, RecordedHasEnded

LEMMA SealedWrite == ASSUME OpenedIsSealed, UNCHANGED reader PROVE OpenedIsSealed'
BY DEF OpenedIsSealed

(***************************************************************************)
(* The invariant, and what it says of a release.                           *)
(***************************************************************************)
LEMMA InvParts == VaultInv <=> VaultTypeOK /\ KeysAreOwned /\ OpenedIsSealed /\ Writes
BY DEF VaultInv, Writes

LEMMA VaultInvInit == VaultInit => VaultInv
<1> SUFFICES ASSUME VaultInit PROVE VaultInv
  OBVIOUS
<1>1. /\ \A i \in Items : blob[i] = Missing /\ keyDoc[i] = Missing
      /\ \A k \in Calls : call[k] = Idle
      /\ \A r \in Readers : reader[r] = Idle
  BY DEF VaultInit
<1>2. VaultTypeOK
  BY TypeInit
<1>3. KeysAreOwned /\ OpenedIsSealed
  BY <1>1 DEF KeysAreOwned, OpenedIsSealed
<1>4. Writes
  BY <1>1, IdleIsNone DEF VaultInit, Writes, InOrder, OlderAreDone, LastWriteStands,
                          RecordedHasEnded
<1>5. QED
  BY <1>2, <1>3, <1>4, InvParts

LEMMA VaultInvStep == VaultInv /\ [VaultNext]_vault => VaultInv'
<1> SUFFICES ASSUME VaultInv, [VaultNext]_vault PROVE VaultInv'
  OBVIOUS
<1> USE InvParts
<1>1. CASE \E k \in Calls, i \in Items, text \in Texts : Encrypt(k, i, text)
  <2>1. PICK k \in Calls, i \in Items, text \in Texts : Encrypt(k, i, text)
    BY <1>1
  <2>2. UNCHANGED reader
    BY <2>1 DEF Encrypt
  <2>3. VaultTypeOK' /\ Writes' /\ OpenedIsSealed'
    BY <2>1, <2>2, TypeEncrypt, WritesEncrypt, SealedWrite
  <2>4. KeysAreOwned'
    BY <2>1, OwnedEncrypt
  <2>5. QED
    BY <2>3, <2>4 DEF VaultInv, Writes
<1>2. CASE \E k \in Calls : CallStep(k)
  <2>1. PICK k \in Calls : CallStep(k)
    BY <1>2
  <2>2. UNCHANGED reader
    BY <2>1 DEF CallStep, SaveBlob, SetKeyDocument, RecordBlockchainEvent, EncryptFails
  <2>3. VaultTypeOK' /\ Writes' /\ OpenedIsSealed'
    BY <2>1, <2>2, TypeCall, WritesCall, SealedWrite
  <2>4. KeysAreOwned'
    BY <2>1, OwnedCall
  <2>5. QED
    BY <2>3, <2>4 DEF VaultInv, Writes
<1>3. CASE \E r \in Readers : ReaderStep(r)
  <2>1. PICK r \in Readers : ReaderStep(r)
    BY <1>3
  <2>2. Writes'
    BY <2>1, ReaderOnly, WritesKept
  <2>3. VaultTypeOK' /\ OpenedIsSealed'
    BY <2>1, TypeReader, SealedReader
  <2>4. KeysAreOwned'
    BY <2>1, OwnedReader
  <2>5. QED
    BY <2>2, <2>3, <2>4 DEF VaultInv, Writes
<1>4. CASE UNCHANGED vault
  <2>1. UNCHANGED <<blob, keyDoc, recorded, call, reader>>
    BY <1>4 DEF vault
  <2>2. VaultTypeOK' /\ KeysAreOwned'
    BY <2>1 DEF VaultTypeOK, KeysAreOwned, Owned
  <2>3. QED
    BY <2>1, <2>2, WritesKept, SealedWrite DEF VaultInv, Writes
<1>5. QED
  BY <1>1, <1>2, <1>3, <1>4 DEF VaultNext, CallStep, ReaderStep

\* The stores of an exam's questions only ever hold what encryptQuestion wrote
\* there: a blob and a key for each question, both of the types it writes.
THEOREM VaultTypeCorrect == VaultSpec => []VaultTypeOK
<1>1. VaultInv => VaultTypeOK
  BY DEF VaultInv
<1>2. QED
  BY <1>1, VaultInvInit, VaultInvStep, PTL DEF VaultSpec

\* What a release opens is what its key was drawn for, and a question that was
\* encrypted last and alone can be opened once the call was answered or is in
\* the audit trail: encryptQuestion and decryptQuestion, for any number of
\* calls, readers and failures, and whether or not the trail took the event.
THEOREM VaultIsSafe == VaultSpec => []VaultOpens
<1>1. VaultInv => VaultOpens
  <2> SUFFICES ASSUME VaultInv PROVE VaultOpens
    OBVIOUS
  <2>1. ASSUME NEW k \in Calls, call[k].at = "returned" \/ k \in recorded, call[k].alone,
               Latest(k)
        PROVE  Opens(call[k].item)
    <3>1. call[k] # Idle
      BY <2>1, IdleIsNone DEF VaultInv, RecordedHasEnded
    <3>2. /\ blob[call[k].item] # Missing /\ blob[call[k].item].dek = k
          /\ keyDoc[call[k].item] # Missing /\ keyDoc[call[k].item].dek = k
      BY <2>1, <3>1 DEF VaultInv, LastWriteStands
    <3>3. QED
      BY <3>2 DEF Opens
  <2>2. QED
    BY <2>1 DEF VaultOpens, VaultInv, OpenedIsSealed, Latest
<1>2. QED
  BY <1>1, VaultInvInit, VaultInvStep, PTL DEF VaultSpec

(***************************************************************************)
(* QuestionDesk: what a request carries.                                   *)
(***************************************************************************)
FetchRecords ==
    [kind : {"generate", "save", "upload"}, page : 1 .. MaxPages + 1,
     text : Text, formula : Text,
     state : {"sent", "answered", "refused", "over"}, cut : BOOLEAN]

\* A request to save has a text and a formula, an upload a template, and a
\* generation that is answered both; a text that is being edited is one; and
\* only questions that exist are tested.
Carries(r) ==
    /\ r.kind = "save" => r.text \in QuestionIds /\ r.formula \in QuestionIds
    /\ r.kind = "upload" => r.text \in QuestionIds
    /\ r.kind = "generate" /\ r.state = "answered" =>
          r.text \in QuestionIds /\ r.formula \in QuestionIds
Carried ==
    /\ \A c \in Fetches : request[c] # Absent => Carries(request[c])
    /\ editing => edited \in QuestionIds
    /\ \A id \in QuestionIds : tests[id] > 0 => questions[id] # Absent

DeskTypes == DeskTypeOK /\ Carried

LEMMA FetchType ==
    ASSUME DeskTypes, NEW c \in Fetches, request[c] # Absent
    PROVE  request[c] \in FetchRecords /\ Carries(request[c])
BY DEF DeskTypes, DeskTypeOK, Carried, FetchRecords

LEMMA QuestionType ==
    ASSUME DeskTypes, NEW id \in QuestionIds, questions[id] # Absent
    PROVE  questions[id] \in QuestionRecords
BY DEF DeskTypes, DeskTypeOK, QuestionRecords

LEMMA OverType == Over \in FetchRecords /\ Carries(Over)
BY DeskAssumption DEF Over, FetchRecords, Carries, Text

LEMMA RepliedType ==
    ASSUME NEW r \in FetchRecords, NEW state \in {"answered", "refused"},
           Carries([r EXCEPT !.state = state])
    PROVE  Replied(r, state) \in FetchRecords /\ Carries(Replied(r, state))
BY OverType DEF Replied, FetchRecords

\* A request that is sent or changes.
LEMMA FetchChanges ==
    ASSUME DeskTypes, NEW c \in Fetches, NEW r \in FetchRecords, Carries(r),
           request' = [request EXCEPT ![c] = r]
    PROVE  /\ request' \in [Fetches -> {Absent} \union FetchRecords]
           /\ \A d \in Fetches : request'[d] # Absent => Carries(request'[d])
BY DEF DeskTypes, DeskTypeOK, Carried, FetchRecords

LEMMA SendType ==
    ASSUME DeskTypes, NEW c \in Fetches, NEW kind \in {"generate", "save", "upload"},
           NEW text \in Text, NEW formula \in Text, NEW state \in {"sent", "refused"},
           kind = "save" => text \in QuestionIds /\ formula \in QuestionIds,
           kind = "upload" => text \in QuestionIds,
           Send(c, kind, text, formula, state)
    PROVE  /\ request' \in [Fetches -> {Absent} \union FetchRecords]
           /\ \A d \in Fetches : request'[d] # Absent => Carries(request'[d])
<1> DEFINE r == [kind |-> kind, page |-> page, text |-> text, formula |-> formula,
                 state |-> state, cut |-> FALSE]
<1>1. r \in FetchRecords
  BY DEF FetchRecords, DeskTypes, DeskTypeOK
<1>2. Carries(r)
  BY DEF Carries
<1>3. request' = [request EXCEPT ![c] = r]
  BY DEF Send
<1> HIDE DEF r
<1> QED  BY <1>1, <1>2, <1>3, FetchChanges

\* A question that is stored or changes.
LEMMA QuestionChanges ==
    ASSUME DeskTypes, NEW id \in QuestionIds, NEW q \in QuestionRecords,
           questions' = [questions EXCEPT ![id] = q]
    PROVE  /\ questions' \in [QuestionIds -> {Absent} \union QuestionRecords]
           /\ \A d \in QuestionIds : questions[d] # Absent => questions'[d] # Absent
           /\ questions'[id] # Absent
BY DeskAssumption DEF DeskTypes, DeskTypeOK

LEMMA CalibratedType ==
    ASSUME DeskTypes, NEW id \in QuestionIds, questions[id] \in QuestionRecords,
           questions' = [questions EXCEPT ![id].calibration = "calibrated",
                                          ![id].params = TRUE]
    PROVE  /\ questions' \in [QuestionIds -> {Absent} \union QuestionRecords]
           /\ \A d \in QuestionIds : questions[d] # Absent => questions'[d] # Absent
<1> DEFINE q == [questions[id] EXCEPT !.calibration = "calibrated", !.params = TRUE]
<1>1. q \in QuestionRecords
  BY DEF QuestionRecords
<1>2. questions' = [questions EXCEPT ![id] = q]
  BY DEF DeskTypes, DeskTypeOK
<1> HIDE DEF q
<1> QED  BY <1>1, <1>2, QuestionChanges

\* The types, when neither the bank nor the requests change.
LEMMA PageType ==
    ASSUME DeskTypes, UNCHANGED <<questions, tests, request>>,
           open' \in {"generate", "calibrate"}, page' \in 1 .. MaxPages + 1,
           template' \in {Absent} \union [text : QuestionIds, formula : QuestionIds],
           editing' \in BOOLEAN, edited' \in Text, editing' => edited' \in QuestionIds,
           filled' \in BOOLEAN, listed' \subseteq QuestionIds, uploading' \in Text,
           picking' \in BOOLEAN, latest' \in Fetches \union {Absent}, overtaken' \in BOOLEAN
    PROVE  DeskTypes'
BY DEF DeskTypes, DeskTypeOK, Carried, Carries

LEMMA DeskTypeStep == DeskTypes /\ [DeskNext]_desk => DeskTypes'
<1> SUFFICES ASSUME DeskTypes, [DeskNext]_desk PROVE DeskTypes'
  OBVIOUS
<1> USE DeskAssumption
<1>1. CASE UNCHANGED desk
  BY <1>1 DEF desk, form, table, DeskTypes, DeskTypeOK, Carried, Carries
<1>2. ASSUME NEW name \in {"generate", "calibrate"}, OpenPage(name) PROVE DeskTypes'
  <2>1. page' \in 1 .. MaxPages + 1
    BY <1>2 DEF OpenPage, DeskTypes, DeskTypeOK
  <2>2. /\ open' \in {"generate", "calibrate"} /\ editing' = FALSE /\ edited' = Absent
        /\ filled' = FALSE /\ uploading' = Absent /\ picking' = FALSE /\ latest' = Absent
        /\ UNCHANGED <<questions, tests, template, listed, request, overtaken>>
    BY <1>2 DEF OpenPage
  <2>3. /\ template \in {Absent} \union [text : QuestionIds, formula : QuestionIds]
        /\ listed \subseteq QuestionIds /\ overtaken \in BOOLEAN
    BY DEF DeskTypes, DeskTypeOK
  <2> QED  BY <2>1, <2>2, <2>3, PageType DEF Text
<1>3. CASE FillForm \/ Edit \/ SaveEdit \/ CancelEdit
  <2>1. template # Absent => template \in [text : QuestionIds, formula : QuestionIds]
    BY DEF DeskTypes, DeskTypeOK
  <2>2. editing => edited \in QuestionIds
    BY DEF DeskTypes, Carried
  <2>3. CASE FillForm
    BY <2>2, <2>3, PageType DEF FillForm, table, DeskTypes, DeskTypeOK
  <2>4. CASE Edit
    BY <2>1, <2>4, PageType DEF Edit, table, DeskTypes, DeskTypeOK, Text
  <2>5. CASE SaveEdit
    BY <2>1, <2>2, <2>5, PageType DEF SaveEdit, table, DeskTypes, DeskTypeOK
  <2>6. CASE CancelEdit
    BY <2>6, PageType DEF CancelEdit, table, DeskTypes, DeskTypeOK
  <2> QED  BY <1>3, <2>3, <2>4, <2>5, <2>6
<1>4. CASE ListUncalibrated \/ CancelFile
  <2>1. listed' \subseteq QuestionIds /\ picking' \in BOOLEAN
    BY <1>4 DEF ListUncalibrated, CancelFile, DeskTypes, DeskTypeOK
  <2>2. UNCHANGED <<questions, tests, open, page, template, editing, edited, filled,
                    uploading, latest, request, overtaken>>
    BY <1>4 DEF ListUncalibrated, CancelFile, form
  <2> QED  BY <2>1, <2>2, PageType DEF DeskTypes, DeskTypeOK, Carried
<1>5. ASSUME NEW id \in QuestionIds, ChooseTemplate(id) PROVE DeskTypes'
  BY <1>5, PageType DEF ChooseTemplate, form, DeskTypes, DeskTypeOK, Carried, Text
<1>6. ASSUME NEW id \in QuestionIds, TestEnds(id) PROVE DeskTypes'
  <2>1. questions[id] \in QuestionRecords
    BY <1>6, QuestionType DEF TestEnds, DeskTypes, Carried
  <2>2. /\ questions' \in [QuestionIds -> {Absent} \union QuestionRecords]
        /\ \A d \in QuestionIds : questions[d] # Absent => questions'[d] # Absent
    BY <1>6, <2>1, CalibratedType DEF TestEnds
  <2>3. tests' \in [QuestionIds -> Nat]
    BY <1>6 DEF TestEnds, DeskTypes, DeskTypeOK
  <2>4. \A d \in QuestionIds : tests'[d] > 0 => tests[d] > 0
    BY <1>6 DEF TestEnds, DeskTypes, DeskTypeOK
  <2> QED  BY <1>6, <2>2, <2>3, <2>4 DEF TestEnds, form, table, DeskTypes, DeskTypeOK, Carried
<1>7. ASSUME NEW id \in QuestionIds, ApproveQuestion(id) \/ DeleteQuestion(id)
      PROVE  DeskTypes'
  <2>1. questions[id] \in QuestionRecords
    BY <1>7, QuestionType DEF ApproveQuestion, DeleteQuestion, Exists
  <2>2. /\ questions' \in [QuestionIds -> {Absent} \union QuestionRecords]
        /\ \A d \in QuestionIds : questions[d] # Absent => questions'[d] # Absent
    <3>1. CASE ApproveQuestion(id)
      BY <2>1, <3>1, CalibratedType DEF ApproveQuestion
    <3>2. CASE DeleteQuestion(id)
      <4> DEFINE q == [questions[id] EXCEPT !.deleted = TRUE]
      <4>1. q \in QuestionRecords
        BY <2>1 DEF QuestionRecords
      <4>2. questions' = [questions EXCEPT ![id] = q]
        BY <3>2 DEF DeleteQuestion
      <4> HIDE DEF q
      <4> QED  BY <4>1, <4>2, QuestionChanges
    <3> QED  BY <1>7, <3>1, <3>2
  <2> QED  BY <1>7, <2>2 DEF ApproveQuestion, DeleteQuestion, form, table, DeskTypes,
                             DeskTypeOK, Carried
<1>8. ASSUME NEW c \in Fetches, Generate(c) \/ ApproveAndSave(c) PROVE DeskTypes'
  <2>1. template # Absent => template \in [text : QuestionIds, formula : QuestionIds]
    BY DEF DeskTypes, DeskTypeOK
  <2>2. editing => edited \in QuestionIds
    BY DEF DeskTypes, Carried
  <2>3. /\ request' \in [Fetches -> {Absent} \union FetchRecords]
        /\ \A d \in Fetches : request'[d] # Absent => Carries(request'[d])
    <3>1. CASE Generate(c)
      BY <3>1, SendType DEF Generate, Text
    <3>2. CASE ApproveAndSave(c)
      BY <2>1, <2>2, <3>2, SendType DEF ApproveAndSave, Text
    <3> QED  BY <1>8, <3>1, <3>2
  <2> QED  BY <1>8, <2>3 DEF Generate, ApproveAndSave, form, table, DeskTypes, DeskTypeOK,
                             Carried, FetchRecords
<1>9. ASSUME NEW c \in Fetches, ChooseFile(c) PROVE DeskTypes'
  <2>1. /\ request' \in [Fetches -> {Absent} \union FetchRecords]
        /\ \A d \in Fetches : request'[d] # Absent => Carries(request'[d])
    <3>1. CASE uploading # Absent
      <4>1. uploading \in QuestionIds
        BY <3>1 DEF DeskTypes, DeskTypeOK, Text
      <4> QED  BY <1>9, <3>1, <4>1, SendType DEF ChooseFile, Text
    <3>2. CASE uploading = Absent
      BY <1>9, <3>2 DEF ChooseFile, DeskTypes, DeskTypeOK, Carried, FetchRecords
    <3> QED  BY <3>1, <3>2
  <2>2. latest' \in Fetches \union {Absent}
    BY <1>9 DEF ChooseFile, DeskTypes, DeskTypeOK
  <2> QED  BY <1>9, <2>1, <2>2 DEF ChooseFile, form, DeskTypes, DeskTypeOK, Carried, FetchRecords
<1>10. ASSUME NEW c \in Fetches, Cut(c) PROVE DeskTypes'
  <2>1. request[c] \in FetchRecords /\ Carries(request[c])
    BY <1>10, FetchType DEF Cut
  <2> DEFINE r == IF request[c].state = "sent" THEN [request[c] EXCEPT !.cut = TRUE] ELSE Over
  <2>2. r \in FetchRecords /\ Carries(r)
    BY <2>1, OverType DEF FetchRecords, Carries
  <2>3. request' = [request EXCEPT ![c] = r]
    BY <1>10 DEF Cut
  <2> HIDE DEF r
  <2>4. /\ request' \in [Fetches -> {Absent} \union FetchRecords]
        /\ \A d \in Fetches : request'[d] # Absent => Carries(request'[d])
    BY <2>2, <2>3, FetchChanges
  <2> QED  BY <1>10, <2>4 DEF Cut, form, table, DeskTypes, DeskTypeOK, Carried, FetchRecords
<1>11. ASSUME NEW c \in Fetches, Handle(c) PROVE DeskTypes'
  <2>1. request[c] \in FetchRecords /\ Carries(request[c])
    BY <1>11, FetchType DEF Handle
  <2>2. /\ request' \in [Fetches -> {Absent} \union FetchRecords]
        /\ \A d \in Fetches : request'[d] # Absent => Carries(request'[d])
        /\ questions' \in [QuestionIds -> {Absent} \union QuestionRecords]
        /\ \A d \in QuestionIds : questions[d] # Absent => questions'[d] # Absent
        /\ tests' \in [QuestionIds -> Nat]
        /\ \A d \in QuestionIds : tests'[d] > 0 => tests[d] > 0 \/ questions'[d] # Absent
    <3>1. CASE HandleGenerate(c)
      <4>1. PICK id \in QuestionIds :
              /\ questions[id] = Absent
              /\ questions' = [questions EXCEPT ![id] = Question(id, id)]
              /\ request' = [request EXCEPT ![c] = Generated(request[c], id)]
        BY <3>1 DEF HandleGenerate
      <4> DEFINE r == Generated(request[c], id)
      <4> DEFINE made == [request[c] EXCEPT !.text = id, !.formula = id]
      <4>7. made \in FetchRecords /\ Carries([made EXCEPT !.state = "answered"])
        BY <2>1 DEF FetchRecords, Carries, Text
      <4>2. r \in FetchRecords /\ Carries(r)
        BY <4>7, RepliedType DEF Generated
      <4>3. request' = [request EXCEPT ![c] = r]
        BY <4>1
      <4>4. Question(id, id) \in QuestionRecords
        BY DEF Question, QuestionRecords
      <4> HIDE DEF r
      <4>5. tests' = tests
        BY <3>1 DEF HandleGenerate
      <4>6. \A d \in QuestionIds : questions[d] # Absent => questions'[d] # Absent
        BY <4>1 DEF DeskTypes, DeskTypeOK
      <4> QED  BY <4>1, <4>2, <4>3, <4>4, <4>5, <4>6, FetchChanges, QuestionChanges
               DEF DeskTypes, DeskTypeOK
    <3>2. CASE HandleSave(c)
      <4>1. PICK id \in QuestionIds :
              /\ questions[id] = Absent
              /\ questions' = [questions EXCEPT ![id] =
                                 Question(request[c].text, request[c].formula)]
        BY <3>2 DEF HandleSave
      <4> DEFINE r == Replied(request[c], "answered")
      <4>7. Carries([request[c] EXCEPT !.state = "answered"])
        BY <2>1, <3>2 DEF FetchRecords, Carries, HandleSave
      <4>2. r \in FetchRecords /\ Carries(r)
        BY <2>1, <4>7, RepliedType
      <4>3. request' = [request EXCEPT ![c] = r]
        BY <3>2 DEF HandleSave
      <4>4. Question(request[c].text, request[c].formula) \in QuestionRecords
        BY <2>1, <3>2 DEF Question, QuestionRecords, Carries, HandleSave
      <4> HIDE DEF r
      <4>5. tests' = tests
        BY <3>2 DEF HandleSave
      <4>6. \A d \in QuestionIds : questions[d] # Absent => questions'[d] # Absent
        BY <4>1 DEF DeskTypes, DeskTypeOK
      <4> QED  BY <4>1, <4>2, <4>3, <4>4, <4>5, <4>6, FetchChanges, QuestionChanges
               DEF DeskTypes, DeskTypeOK
    <3>3. CASE HandleUpload(c)
      <4> DEFINE id == request[c].text
                 r(state) == Replied(request[c], state)
      <4>1. id \in QuestionIds
        BY <2>1, <3>3 DEF Carries, HandleUpload
      <4>2. \A state \in {"answered", "refused"} :
               r(state) \in FetchRecords /\ Carries(r(state))
        <5>1. \A state \in {"answered", "refused"} :
                Carries([request[c] EXCEPT !.state = state])
          BY <2>1, <3>3 DEF FetchRecords, Carries, HandleUpload
        <5> QED  BY <2>1, <5>1, RepliedType
      <4>3. CASE Exists(id)
        <5>1. questions[id] \in QuestionRecords
          BY <4>1, <4>3, QuestionType DEF Exists
        <5>2. /\ questions' = [questions EXCEPT ![id] =
                                 [questions[id] EXCEPT !.calibration = "field_testing"]]
              /\ tests' = [tests EXCEPT ![id] = @ + 1]
              /\ request' = [request EXCEPT ![c] = r("answered")]
          BY <3>3, <4>3 DEF HandleUpload
        <5>3. [questions[id] EXCEPT !.calibration = "field_testing"] \in QuestionRecords
          BY <5>1 DEF QuestionRecords
        <5>4. [questions[id] EXCEPT !.calibration = "field_testing"] # Absent
          BY <5>3, DeskAssumption
        <5> HIDE DEF r
        <5>5. \A d \in QuestionIds : questions[d] # Absent => questions'[d] # Absent
          BY <5>2, <5>4 DEF DeskTypes, DeskTypeOK
        <5>6. tests' \in [QuestionIds -> Nat] /\ \A d \in QuestionIds :
                tests'[d] > 0 => tests[d] > 0 \/ questions'[d] # Absent
          BY <4>1, <5>2, <5>4 DEF DeskTypes, DeskTypeOK
        <5> QED  BY <4>1, <4>2, <5>2, <5>3, <5>5, <5>6, FetchChanges, QuestionChanges
      <4>4. CASE ~Exists(id)
        <5>1. questions' = questions /\ tests' = tests
              /\ request' = [request EXCEPT ![c] = r("refused")]
          BY <3>3, <4>4 DEF HandleUpload
        <5> HIDE DEF r
        <5> QED  BY <4>2, <5>1, FetchChanges DEF DeskTypes, DeskTypeOK, QuestionRecords
      <4> QED  BY <4>3, <4>4
    <3>4. CASE GenerationFails(c)
      <4> DEFINE r == Replied(request[c], "refused")
      <4>1. Carries([request[c] EXCEPT !.state = "refused"])
        BY <2>1, <3>4 DEF FetchRecords, Carries, GenerationFails
      <4>2. r \in FetchRecords /\ Carries(r)
        BY <2>1, <4>1, RepliedType
      <4>3. questions' = questions /\ tests' = tests /\ request' = [request EXCEPT ![c] = r]
        BY <3>4 DEF GenerationFails
      <4> HIDE DEF r
      <4> QED  BY <4>2, <4>3, FetchChanges DEF DeskTypes, DeskTypeOK
    <3> QED  BY <1>11, <3>1, <3>2, <3>3, <3>4 DEF Handle
  <2> QED  BY <1>11, <2>2 DEF Handle, form, table, DeskTypes, DeskTypeOK, Carried,
                              FetchRecords, QuestionRecords
<1>12. ASSUME NEW c \in Fetches, Hear(c) PROVE DeskTypes'
  <2>1. request[c] \in FetchRecords /\ Carries(request[c])
    BY <1>12, FetchType DEF Hear
  <2>4. /\ request' \in [Fetches -> {Absent} \union FetchRecords]
        /\ \A d \in Fetches : request'[d] # Absent => Carries(request'[d])
    BY <1>12, OverType, FetchChanges DEF Hear
  <2>5. /\ template' \in {Absent} \union [text : QuestionIds, formula : QuestionIds]
        /\ editing' \in BOOLEAN /\ (editing' => editing) /\ edited' = edited
        /\ filled' \in BOOLEAN /\ uploading' \in Text /\ overtaken' \in BOOLEAN
    <3>1. CASE request[c].state = "answered" /\ ShowTemplate(c)
      BY <2>1, <3>1 DEF ShowTemplate, Carries, DeskTypes, DeskTypeOK
    <3>2. CASE ClearTemplate(c)
      BY <3>2 DEF ClearTemplate, DeskTypes, DeskTypeOK
    <3>3. CASE EndUpload(c)
      BY <3>3 DEF EndUpload, form, DeskTypes, DeskTypeOK, Text
    <3>4. CASE UNCHANGED <<template, form, uploading, overtaken>>
      BY <3>4 DEF form, DeskTypes, DeskTypeOK
    <3> QED  BY <1>12, <3>1, <3>2, <3>3, <3>4 DEF Hear
  <2> QED  BY <1>12, <2>4, <2>5 DEF Hear, DeskTypes, DeskTypeOK, Carried, FetchRecords
<1> QED  BY <1>1, <1>2, <1>3, <1>4, <1>5, <1>6, <1>7, <1>8, <1>9, <1>10, <1>11, <1>12
         DEF DeskNext

LEMMA DeskTypeInit == DeskInit => DeskTypes
<1> SUFFICES ASSUME DeskInit PROVE DeskTypes
  OBVIOUS
<1>1. page \in 1 .. MaxPages + 1
  BY DeskAssumption DEF DeskInit
<1>2. /\ questions \in [QuestionIds -> {Absent} \union QuestionRecords]
      /\ request \in [Fetches -> {Absent} \union FetchRecords]
  BY DEF DeskInit
<1>3. Carried
  BY DEF DeskInit, Carried
<1> QED  BY <1>1, <1>2, <1>3 DEF DeskInit, DeskTypes, DeskTypeOK, Text, FetchRecords

\* Type correctness of the question pages and endpoints.
THEOREM DeskTypeCorrect == DeskSpec => []DeskTypeOK
<1>1. DeskTypes => DeskTypeOK
  BY DEF DeskTypes
<1> QED  BY <1>1, DeskTypeInit, DeskTypeStep, PTL DEF DeskSpec

(***************************************************************************)
(* What is in the bank is of one piece, because all that leads there is:   *)
(* the requests under way, the template on the page, and the text that is  *)
(* being edited, which is that of the template.                            *)
(***************************************************************************)
FetchInPiece(r) == r # Absent /\ r.kind \in {"generate", "save"} => r.text = r.formula
TemplateInPiece == template # Absent => template.text = template.formula
EditInPiece == editing /\ template # Absent => edited = template.formula
BankInPiece == \A id \in QuestionIds :
    questions[id] # Absent => questions[id].text = questions[id].formula

InPiece ==
    /\ \A c \in Fetches : FetchInPiece(request[c])
    /\ TemplateInPiece
    /\ EditInPiece
    /\ BankInPiece

Tested == \A id \in QuestionIds : questions[id] # Absent =>
    /\ questions[id].calibration = "calibrated" => questions[id].params
    /\ questions[id].calibration = "field_testing" => tests[id] > 0

DeskInv == DeskTypes /\ (overtaken \/ InPiece) /\ Tested

LEMMA FetchStaysInPiece ==
    ASSUME DeskTypes, InPiece, NEW c \in Fetches, NEW r, FetchInPiece(r),
           request' = [request EXCEPT ![c] = r]
    PROVE  \A d \in Fetches : FetchInPiece(request'[d])
BY DEF DeskTypes, DeskTypeOK, InPiece

LEMMA OverInPiece == FetchInPiece(Over)
BY DEF FetchInPiece, Over

LEMMA ReplyInPiece ==
    ASSUME NEW r \in FetchRecords, NEW state, r.kind \in {"generate", "save"} => r.text = r.formula
    PROVE  FetchInPiece(Replied(r, state))
BY OverInPiece DEF FetchInPiece, Replied, FetchRecords

LEMMA SendInPiece ==
    ASSUME DeskTypes, InPiece, NEW c \in Fetches, NEW kind, NEW text, NEW formula, NEW state,
           kind \in {"generate", "save"} => text = formula,
           Send(c, kind, text, formula, state)
    PROVE  \A d \in Fetches : FetchInPiece(request'[d])
<1> DEFINE r == [kind |-> kind, page |-> page, text |-> text, formula |-> formula,
                 state |-> state, cut |-> FALSE]
<1>1. FetchInPiece(r)
  BY DEF FetchInPiece
<1>2. request' = [request EXCEPT ![c] = r]
  BY DEF Send
<1> HIDE DEF r
<1> QED  BY <1>1, <1>2, FetchStaysInPiece

LEMMA InPieceStep ==
    ASSUME DeskTypes, InPiece, [DeskNext]_desk, ~overtaken'
    PROVE  InPiece'
<1>1. CASE UNCHANGED <<questions, template, editing, edited, request>>
  BY <1>1 DEF InPiece, TemplateInPiece, EditInPiece, BankInPiece, FetchInPiece
<1>2. ASSUME NEW name \in {"generate", "calibrate"}, OpenPage(name) PROVE InPiece'
  BY <1>2 DEF OpenPage, InPiece, TemplateInPiece, EditInPiece, BankInPiece, FetchInPiece
<1>3. CASE Edit \/ SaveEdit \/ CancelEdit
  <2>1. template # Absent => template \in [text : QuestionIds, formula : QuestionIds]
    BY DEF DeskTypes, DeskTypeOK
  <2>2. UNCHANGED <<questions, request>>
    BY <1>3 DEF Edit, SaveEdit, CancelEdit
  <2>3. TemplateInPiece' /\ EditInPiece'
    BY <1>3, <2>1 DEF Edit, SaveEdit, CancelEdit, InPiece, TemplateInPiece, EditInPiece
  <2> QED  BY <2>2, <2>3 DEF InPiece, BankInPiece, FetchInPiece
<1>4. ASSUME NEW id \in QuestionIds,
             TestEnds(id) \/ ApproveQuestion(id) \/ DeleteQuestion(id)
      PROVE  InPiece'
  <2>1. questions[id] \in QuestionRecords
    BY <1>4, QuestionType DEF TestEnds, ApproveQuestion, DeleteQuestion, Exists, DeskTypes, Carried
  <2>2. /\ questions'[id].text = questions[id].text
        /\ questions'[id].formula = questions[id].formula
        /\ \A d \in QuestionIds \ {id} : questions'[d] = questions[d]
    <3>1. CASE TestEnds(id) \/ ApproveQuestion(id)
      BY <2>1, <3>1 DEF TestEnds, ApproveQuestion, DeskTypes, DeskTypeOK, QuestionRecords
    <3>2. CASE DeleteQuestion(id)
      BY <2>1, <3>2 DEF DeleteQuestion, DeskTypes, DeskTypeOK, QuestionRecords
    <3> QED  BY <1>4, <3>1, <3>2
  <2>3. questions[id] # Absent
    BY <2>1, DeskAssumption
  <2>4. BankInPiece'
    BY <2>2, <2>3 DEF InPiece, BankInPiece
  <2>5. UNCHANGED <<template, editing, edited, request>>
    BY <1>4 DEF TestEnds, ApproveQuestion, DeleteQuestion, form
  <2> QED  BY <2>4, <2>5 DEF InPiece, TemplateInPiece, EditInPiece, FetchInPiece
<1>5. ASSUME NEW c \in Fetches, Generate(c) \/ ApproveAndSave(c) \/ ChooseFile(c)
      PROVE  InPiece'
  <2>1. \A d \in Fetches : FetchInPiece(request'[d])
    <3>1. CASE Generate(c)
      BY <3>1, SendInPiece DEF Generate
    <3>2. CASE ApproveAndSave(c)
      BY <3>2, SendInPiece DEF ApproveAndSave, InPiece, TemplateInPiece, EditInPiece
    <3>3. CASE ChooseFile(c)
      BY <3>3, SendInPiece DEF ChooseFile, InPiece
    <3> QED  BY <1>5, <3>1, <3>2, <3>3
  <2>2. UNCHANGED <<questions, template, editing, edited>>
    BY <1>5 DEF Generate, ApproveAndSave, ChooseFile, form
  <2> QED  BY <2>1, <2>2 DEF InPiece, TemplateInPiece, EditInPiece, BankInPiece
<1>6. ASSUME NEW c \in Fetches, Cut(c) PROVE InPiece'
  <2>1. request[c] \in FetchRecords
    BY <1>6, FetchType DEF Cut
  <2> DEFINE r == IF request[c].state = "sent" THEN [request[c] EXCEPT !.cut = TRUE] ELSE Over
  <2>2. FetchInPiece(r)
    BY <1>6, <2>1, OverInPiece DEF Cut, InPiece, FetchInPiece, FetchRecords
  <2>3. request' = [request EXCEPT ![c] = r]
    BY <1>6 DEF Cut
  <2> HIDE DEF r
  <2>4. \A d \in Fetches : FetchInPiece(request'[d])
    BY <2>2, <2>3, FetchStaysInPiece
  <2> QED  BY <1>6, <2>4 DEF Cut, form, InPiece, TemplateInPiece, EditInPiece, BankInPiece
<1>7. ASSUME NEW c \in Fetches, Handle(c) PROVE InPiece'
  <2>1. request[c] \in FetchRecords /\ Carries(request[c]) /\ request[c] # Absent
    BY <1>7, FetchType DEF Handle
  <2>2. (\A d \in Fetches : FetchInPiece(request'[d])) /\ BankInPiece'
    <3>1. CASE HandleGenerate(c)
      <4>1. PICK id \in QuestionIds :
              /\ questions' = [questions EXCEPT ![id] = Question(id, id)]
              /\ request' = [request EXCEPT ![c] = Generated(request[c], id)]
        BY <3>1 DEF HandleGenerate
      <4> DEFINE r == Generated(request[c], id)
      <4>2. FetchInPiece(r)
        <5> DEFINE made == [request[c] EXCEPT !.text = id, !.formula = id]
        <5>1. made \in FetchRecords /\ made.text = made.formula
          BY <2>1 DEF FetchRecords, Text
        <5> HIDE DEF made
        <5> QED  BY <5>1, ReplyInPiece DEF Generated, made
      <4>3. BankInPiece'
        BY <4>1 DEF InPiece, BankInPiece, Question, DeskTypes, DeskTypeOK
      <4> HIDE DEF r
      <4> QED  BY <4>1, <4>2, <4>3, FetchStaysInPiece DEF r
    <3>2. CASE HandleSave(c)
      <4>1. PICK id \in QuestionIds :
              questions' = [questions EXCEPT ![id] =
                              Question(request[c].text, request[c].formula)]
        BY <3>2 DEF HandleSave
      <4> DEFINE r == Replied(request[c], "answered")
      <4>2. FetchInPiece(r)
        BY <2>1, ReplyInPiece DEF FetchInPiece, InPiece
      <4>3. BankInPiece'
        BY <2>1, <3>2, <4>1 DEF HandleSave, InPiece, BankInPiece, FetchInPiece, Question,
                               DeskTypes, DeskTypeOK
      <4>4. request' = [request EXCEPT ![c] = r]
        BY <3>2 DEF HandleSave
      <4> HIDE DEF r
      <4> QED  BY <4>2, <4>3, <4>4, FetchStaysInPiece
    <3>3. CASE HandleUpload(c)
      <4> DEFINE r(state) == Replied(request[c], state)
      <4>1. request[c].text \in QuestionIds
        BY <2>1, <3>3 DEF Carries, HandleUpload
      <4>2. \A state : FetchInPiece(r(state))
        BY <2>1, ReplyInPiece DEF FetchInPiece, InPiece
      <4>3. request' = [request EXCEPT ![c] = r("answered")]
              \/ request' = [request EXCEPT ![c] = r("refused")]
        BY <3>3 DEF HandleUpload
      <4>4. BankInPiece'
        <5>1. CASE Exists(request[c].text)
          <6>1. questions[request[c].text] \in QuestionRecords
            BY <4>1, <5>1, QuestionType DEF Exists
          <6> QED  BY <3>3, <4>1, <5>1, <6>1 DEF HandleUpload, Exists, InPiece, BankInPiece,
                                       QuestionRecords, DeskTypes, DeskTypeOK
        <5>2. CASE ~Exists(request[c].text)
          BY <3>3, <5>2 DEF HandleUpload, InPiece, BankInPiece
        <5> QED  BY <5>1, <5>2
      <4> HIDE DEF r
      <4> QED  BY <4>2, <4>3, <4>4, FetchStaysInPiece
    <3>4. CASE GenerationFails(c)
      <4> DEFINE r == Replied(request[c], "refused")
      <4>1. FetchInPiece(r)
        BY <2>1, ReplyInPiece DEF FetchInPiece, InPiece
      <4>2. questions' = questions /\ request' = [request EXCEPT ![c] = r]
        BY <3>4 DEF GenerationFails
      <4> HIDE DEF r
      <4> QED  BY <4>1, <4>2, FetchStaysInPiece DEF InPiece, BankInPiece
    <3> QED  BY <1>7, <3>1, <3>2, <3>3, <3>4 DEF Handle
  <2> QED  BY <1>7, <2>2 DEF Handle, form, InPiece, TemplateInPiece, EditInPiece
<1>8. ASSUME NEW c \in Fetches, Hear(c) PROVE InPiece'
  <2>1. request[c] \in FetchRecords /\ Carries(request[c])
    BY <1>8, FetchType DEF Hear
  <2>4. \A d \in Fetches : FetchInPiece(request'[d])
    BY <1>8, OverInPiece, FetchStaysInPiece DEF Hear
  <2>5. TemplateInPiece' /\ EditInPiece'
    <3>1. CASE ShowTemplate(c)
      <4>1. request[c].text = request[c].formula
        BY <1>8, <3>1 DEF ShowTemplate, Hear, InPiece, FetchInPiece
      <4>2. ~(request[c].page # page /\ editing)
        BY <3>1 DEF ShowTemplate
      <4> QED  BY <3>1, <4>1, <4>2 DEF ShowTemplate, TemplateInPiece, EditInPiece,
                                    DeskTypes, DeskTypeOK
    <3>2. CASE ClearTemplate(c)
      BY <3>2 DEF ClearTemplate, TemplateInPiece, EditInPiece
    <3>3. CASE EndUpload(c) \/ UNCHANGED <<template, form, uploading, overtaken>>
      BY <3>3 DEF EndUpload, form, InPiece, TemplateInPiece, EditInPiece
    <3> QED  BY <1>8, <3>1, <3>2, <3>3 DEF Hear
  <2> QED  BY <1>8, <2>4, <2>5 DEF Hear, InPiece, BankInPiece
<1>9. CASE FillForm \/ ListUncalibrated \/ CancelFile \/ UNCHANGED desk
           \/ \E id \in QuestionIds : ChooseTemplate(id)
  <2>1. UNCHANGED <<questions, template, editing, edited, request>>
    BY <1>9 DEF FillForm, ListUncalibrated, CancelFile, ChooseTemplate, form, desk
  <2> QED  BY <1>1, <2>1
<1> QED  BY <1>2, <1>3, <1>4, <1>5, <1>6, <1>7, <1>8, <1>9 DEF DeskNext

LEMMA TestedStep ==
    ASSUME DeskTypes, Tested, [DeskNext]_desk
    PROVE  Tested'
<1>1. CASE UNCHANGED <<questions, tests>>
  BY <1>1 DEF Tested
<1>2. ASSUME NEW id \in QuestionIds, TestEnds(id) \/ ApproveQuestion(id) PROVE Tested'
  <2>1. questions[id] \in QuestionRecords
    BY <1>2, QuestionType DEF TestEnds, ApproveQuestion, Exists, DeskTypes, Carried
  <2>2. /\ questions'[id].calibration = "calibrated" /\ questions'[id].params
        /\ \A d \in QuestionIds \ {id} : questions'[d] = questions[d] /\ tests'[d] = tests[d]
    BY <1>2, <2>1 DEF TestEnds, ApproveQuestion, DeskTypes, DeskTypeOK, QuestionRecords
  <2> QED  BY <2>2 DEF Tested
<1>3. ASSUME NEW id \in QuestionIds, DeleteQuestion(id) PROVE Tested'
  <2>1. questions[id] \in QuestionRecords
    BY <1>3, QuestionType DEF DeleteQuestion
  <2>2. /\ questions'[id].calibration = questions[id].calibration
        /\ questions'[id].params = questions[id].params
        /\ \A d \in QuestionIds \ {id} : questions'[d] = questions[d]
    BY <1>3, <2>1 DEF DeleteQuestion, DeskTypes, DeskTypeOK, QuestionRecords
  <2> QED  BY <1>3, <2>2 DEF DeleteQuestion, Tested
<1>4. ASSUME NEW c \in Fetches, Handle(c) PROVE Tested'
  <2>1. request[c] \in FetchRecords /\ Carries(request[c])
    BY <1>4, FetchType DEF Handle
  <2>2. CASE HandleGenerate(c) \/ HandleSave(c)
    <3>1. \E id \in QuestionIds : \E text, formula :
            questions' = [questions EXCEPT ![id] = Question(text, formula)]
      BY <2>2 DEF HandleGenerate, HandleSave
    <3>3. PICK id \in QuestionIds : \E text, formula :
            questions' = [questions EXCEPT ![id] = Question(text, formula)]
      BY <3>1
    <3>4. PICK text, formula :
            questions' = [questions EXCEPT ![id] = Question(text, formula)]
      BY <3>3
    <3>2. tests' = tests
      BY <2>2 DEF HandleGenerate, HandleSave
    <3> QED  BY <3>2, <3>4 DEF Tested, Question, DeskTypes, DeskTypeOK
  <2>3. CASE HandleUpload(c)
    <3> DEFINE id == request[c].text
    <3>1. CASE Exists(id)
      <4>1. id \in QuestionIds /\ questions[id] \in QuestionRecords
        BY <2>1, <2>3, <3>1, QuestionType DEF Carries, HandleUpload, Exists
      <4>2. /\ questions'[id].calibration = "field_testing" /\ tests'[id] = tests[id] + 1
            /\ \A d \in QuestionIds \ {id} : questions'[d] = questions[d] /\ tests'[d] = tests[d]
        BY <2>3, <3>1, <4>1 DEF HandleUpload, DeskTypes, DeskTypeOK, QuestionRecords
      <4>3. tests[id] \in Nat
        BY <4>1 DEF DeskTypes, DeskTypeOK
      <4> HIDE DEF id
      <4> QED  BY <4>1, <4>2, <4>3 DEF Tested
    <3>2. CASE ~Exists(id)
      BY <1>1, <2>3, <3>2 DEF HandleUpload
    <3> QED  BY <3>1, <3>2
  <2>4. CASE GenerationFails(c)
    BY <1>1, <2>4 DEF GenerationFails
  <2> QED  BY <1>4, <2>2, <2>3, <2>4 DEF Handle
<1>5. CASE \/ UNCHANGED desk \/ FillForm \/ Edit \/ SaveEdit \/ CancelEdit
           \/ ListUncalibrated \/ CancelFile
           \/ \E name \in {"generate", "calibrate"} : OpenPage(name)
           \/ \E id \in QuestionIds : ChooseTemplate(id)
           \/ \E c \in Fetches : \/ Generate(c) \/ ApproveAndSave(c) \/ ChooseFile(c)
                                 \/ Hear(c) \/ Cut(c)
  <2>1. UNCHANGED <<questions, tests>>
    BY <1>5 DEF desk, FillForm, Edit, SaveEdit, CancelEdit, ListUncalibrated, CancelFile,
                OpenPage, ChooseTemplate, Generate, ApproveAndSave, ChooseFile, Hear, Cut
  <2> QED  BY <1>1, <2>1
<1> QED  BY <1>2, <1>3, <1>4, <1>5 DEF DeskNext

LEMMA OvertakenStays ==
    ASSUME overtaken, [DeskNext]_desk
    PROVE  overtaken'
<1>1. CASE UNCHANGED overtaken
  BY <1>1
<1>2. ASSUME NEW c \in Fetches, Hear(c) PROVE overtaken'
  BY <1>2 DEF Hear, ShowTemplate, ClearTemplate, EndUpload
<1>3. CASE \/ UNCHANGED desk \/ FillForm \/ Edit \/ SaveEdit \/ CancelEdit
           \/ ListUncalibrated \/ CancelFile
           \/ \E name \in {"generate", "calibrate"} : OpenPage(name)
           \/ \E id \in QuestionIds : \/ ChooseTemplate(id) \/ TestEnds(id)
                                      \/ ApproveQuestion(id) \/ DeleteQuestion(id)
           \/ \E c \in Fetches : \/ Generate(c) \/ ApproveAndSave(c) \/ ChooseFile(c)
                                 \/ Handle(c) \/ Cut(c)
  <2>1. UNCHANGED overtaken
    BY <1>3 DEF desk, FillForm, Edit, SaveEdit, CancelEdit, ListUncalibrated, CancelFile,
                OpenPage, ChooseTemplate, TestEnds, ApproveQuestion, DeleteQuestion,
                Generate, ApproveAndSave, ChooseFile, Handle, Cut
  <2> QED  BY <1>1, <2>1
<1> QED  BY <1>2, <1>3 DEF DeskNext

\* What is in the bank was made in one piece, for any number of questions,
\* pages and requests, in whatever order they are answered.
THEOREM BankStaysWhole == DeskSpec => []BankIsWhole
<1>1. DeskInit => DeskInv
  BY DeskTypeInit DEF DeskInit, DeskInv, InPiece, TemplateInPiece, EditInPiece, BankInPiece,
                      FetchInPiece, Tested
<1>2. DeskInv /\ [DeskNext]_desk => DeskInv'
  <2> SUFFICES ASSUME DeskInv, [DeskNext]_desk PROVE DeskInv'
    OBVIOUS
  <2>1. DeskTypes' /\ Tested'
    BY DeskTypeStep, TestedStep DEF DeskInv
  <2>2. CASE overtaken'
    BY <2>1, <2>2 DEF DeskInv
  <2>3. CASE ~overtaken'
    <3>1. ~overtaken
      BY <2>3, OvertakenStays DEF DeskInv
    <3>2. InPiece'
      BY <2>3, <3>1, InPieceStep DEF DeskInv
    <3> QED  BY <2>1, <3>2 DEF DeskInv
  <2> QED  BY <2>2, <2>3
<1>3. DeskInv => BankIsWhole
  BY DEF DeskInv, InPiece, BankInPiece, Tested, BankIsWhole
<1> QED  BY <1>1, <1>2, <1>3, PTL DEF DeskSpec
=============================================================================
