--------------------------- MODULE PaperDelivery ---------------------------
(***************************************************************************)
(* The paper of a seat, from the assignment in Firestore to the terminal:  *)
(*                                                                         *)
(*   packages/paper-generator/src/cache/cache.service.ts                   *)
(*   packages/paper-generator/src/matrix/matrix.service.ts                 *)
(*   packages/paper-generator/src/rendering/rendering.service.ts           *)
(*   packages/crypto-lifecycle/src/kms/kms.service.ts   bulkDecryptAndCache *)
(*                                                                         *)
(* Three writers share the key of a paper in Redis: the key release, the   *)
(* pre-warming and a request that found nothing.  The matrix solver may    *)
(* write new assignments meanwhile.                                        *)
(*                                                                         *)
(* Abstractions: a question's text is only there or not; papers outlive    *)
(* the run of a writer (their time to live is the exam and an hour).       *)
(***************************************************************************)
EXTENDS Naturals, Sequences, FiniteSets, SequencesExt

CONSTANTS
    CenterOf,       \* center of every seat (a function on the seats)
    Questions,      \* instantiations of the exam's questions
    Papers,         \* assignments the solver may write: sequences of those
    Requests,       \* requests for papers that overlap
    MaxDraws,       \* bound on assignments written
    MaxFaults       \* bound on awaits that reject and commands that fail

Seats == DOMAIN CenterOf
Centers == {CenterOf[s] : s \in Seats}
None == <<>>        \* no assignment
NoPaper == [by |-> "no one", items |-> <<>>]
NoBatch == [s \in {} |-> NoPaper]

ASSUME PapersAssumption == Papers \subseteq Seq(Questions) \ {None} /\ IsFiniteSet(Seats)

VARIABLES
    assigned,       \* exams/{exam}/centers/{center}/seats/{seat}.assignment
    drawn,          \* what each seat was ever assigned
    decrypted,      \* Redis: exam:*:question:*:decrypted
    paper,          \* Redis: exam:*:paper:*
    bulk,           \* bulkDecryptAndCache
    warm,           \* preWarmCache
    req,            \* getAssignment, per request
    faults
firestore == <<assigned, drawn>>
vars == <<firestore, decrypted, paper, bulk, warm, req, faults>>

Init ==
    /\ assigned = [s \in Seats |-> None] /\ drawn = [s \in Seats |-> {}]
    /\ decrypted = {}
    /\ paper = [s \in Seats |-> NoPaper]
    /\ bulk = [at |-> "idle", centers |-> {}, batch |-> NoBatch]
    /\ warm = [at |-> "idle", centers |-> {}, seats |-> {}, found |-> NoBatch, batch |-> NoBatch,
               seen |-> {}, cached |-> 0]
    /\ req = [r \in Requests |-> [at |-> "idle"]]
    /\ faults = 0

SeatsOf(c) == {s \in Seats : CenterOf[s] = c}
Fault == faults < MaxFaults /\ faults' = faults + 1

\* Redis executes a pipeline of SETs, of which any may fail; `done` are those
\* that do not.
Written(cache, batch, done) ==
    [s \in Seats |-> IF s \in done THEN batch[s] ELSE cache[s]]
Executed(batch, done) ==
    /\ done \subseteq DOMAIN batch
    /\ IF done = DOMAIN batch THEN UNCHANGED faults ELSE Fault

----------------------------------------------------------------------------
(* Surroundings.                                                            *)

\* The solver's write for one seat, the first time or again.
Assign(s, a) ==
    /\ assigned[s] # a
    /\ FoldSet(LAMBDA t, n : n + Cardinality(drawn[t]), 0, Seats) < MaxDraws
    /\ assigned' = [assigned EXCEPT ![s] = a]
    /\ drawn' = [drawn EXCEPT ![s] = @ \union {a}]
    /\ UNCHANGED <<decrypted, paper, bulk, warm, req, faults>>

\* Someone puts decrypted questions into Redis; nothing in the repository does.
Decrypt(q) ==
    /\ q \notin decrypted /\ decrypted' = decrypted \union {q}
    /\ UNCHANGED <<firestore, paper, bulk, warm, req, faults>>

----------------------------------------------------------------------------
(* Rendering.                                                               *)

\* As if the questions that are there were numbered anew.
Renumbered(a) ==
    {[position |-> Cardinality({i \in 1..p : a[i] \in decrypted}), question |-> a[p]] :
        p \in {i \in DOMAIN a : a[i] \in decrypted}}

\* loadDecryptedQuestions: what is missing is left out.
LoadDecryptedQuestions(a) ==
    {[position |-> p, question |-> a[p]] : p \in {i \in DOMAIN a : a[i] \in decrypted}}

\* The questions by their position.
Rises(items) == \A i, j \in DOMAIN items : i < j => items[i].position < items[j].position
Sorted(found) == CHOOSE items \in [1 .. Cardinality(found) -> found] : Rises(items)

\* renderPaper: the questions by position, each under its identity.
RenderPaper(found) == [by |-> "rendering", items |-> Sorted(found)]

\* bulkDecryptAndCache: every question of the assignment; the text is that of
\* its template, or null, for which the request path does not look.
AssemblePaper(a) ==
    [by |-> "release", items |-> [p \in DOMAIN a |-> [position |-> p, question |-> a[p]]]]

----------------------------------------------------------------------------
(* bulkDecryptAndCache: one pipeline for all centers, read one by one.      *)

StartBulk ==
    /\ bulk.at = "idle"
    /\ bulk' = [at |-> "read", centers |-> Centers, batch |-> NoBatch]
    /\ UNCHANGED <<firestore, decrypted, paper, warm, req, faults>>

\* A seat without an assignment gets a paper without questions.
ReadCenter(c) ==
    /\ bulk.at = "read" /\ c \in bulk.centers
    /\ bulk' = [bulk EXCEPT !.centers = @ \ {c},
                            !.batch = [s \in DOMAIN @ \union SeatsOf(c) |->
                                          IF s \in DOMAIN @ THEN @[s] ELSE AssemblePaper(assigned[s])]]
    /\ UNCHANGED <<firestore, decrypted, paper, warm, req, faults>>

\* Commands that fail are not noticed.
WritePapers ==
    /\ bulk.at = "read" /\ bulk.centers = {}
    /\ \E done \in SUBSET Seats :
           Executed(bulk.batch, done) /\ paper' = Written(paper, bulk.batch, done)
    /\ bulk' = [bulk EXCEPT !.at = "idle", !.batch = NoBatch]
    /\ UNCHANGED <<firestore, decrypted, warm, req>>

BulkFails ==
    /\ bulk.at # "idle" /\ Fault
    /\ bulk' = [at |-> "idle", centers |-> {}, batch |-> NoBatch]
    /\ UNCHANGED <<firestore, decrypted, paper, warm, req>>

----------------------------------------------------------------------------
(* preWarmCache: center by center; a center's seats are read at once, their *)
(* questions one after the other, and its papers written in a pipeline.     *)

StartWarm ==
    /\ warm.at = "idle"
    /\ warm' = [at |-> "center", centers |-> Centers, seats |-> {}, found |-> NoBatch,
                batch |-> NoBatch, seen |-> {}, cached |-> 0]
    /\ UNCHANGED <<firestore, decrypted, paper, bulk, req, faults>>

ReadSeats(c) ==
    /\ warm.at = "center" /\ c \in warm.centers
    /\ warm' = [warm EXCEPT !.at = "render", !.centers = @ \ {c}, !.seats = SeatsOf(c),
                            !.found = [s \in SeatsOf(c) |-> assigned[s]], !.batch = NoBatch]
    /\ UNCHANGED <<firestore, decrypted, paper, bulk, req, faults>>

\* Neither a seat without an assignment nor one without questions gets a paper.
Renderable(a) == a # None /\ LoadDecryptedQuestions(a) # {}

RenderSeat(s) ==
    /\ warm.at = "render" /\ s \in warm.seats
    /\ LET a == warm.found[s] IN
       warm' = [warm EXCEPT !.seats = @ \ {s}, !.seen = @ \union {s},
                            !.batch = IF Renderable(a)
                                      THEN [t \in DOMAIN @ \union {s} |->
                                               IF t = s THEN RenderPaper(LoadDecryptedQuestions(a))
                                               ELSE @[t]]
                                      ELSE @]
    /\ UNCHANGED <<firestore, decrypted, paper, bulk, req, faults>>

SuccessCount(batch, done) == Cardinality(done)

BatchSet ==
    /\ warm.at = "render" /\ warm.seats = {}
    /\ \E done \in SUBSET Seats :
           /\ Executed(warm.batch, done) /\ paper' = Written(paper, warm.batch, done)
           /\ warm' = [warm EXCEPT !.cached = @ + SuccessCount(warm.batch, done),
                                   !.found = NoBatch, !.batch = NoBatch,
                                   !.at = IF warm.centers = {} THEN "done" ELSE "center"]
    /\ UNCHANGED <<firestore, decrypted, bulk, req>>

\* The report is given, or the run rejects.
EndWarm ==
    /\ \/ warm.at = "done" /\ UNCHANGED faults
       \/ warm.at \in {"center", "render"} /\ Fault
    /\ warm' = [warm EXCEPT !.at = "idle", !.centers = {}, !.seats = {}, !.found = NoBatch,
                            !.batch = NoBatch, !.seen = {}, !.cached = 0]
    /\ UNCHANGED <<firestore, decrypted, paper, bulk, req>>

----------------------------------------------------------------------------
(* getAssignment.                                                           *)

Step(r, to) == req' = [req EXCEPT ![r] = to]
Elsewhere == UNCHANGED <<firestore, decrypted, bulk, warm>>

\* The paper in the cache, whoever wrote it.
Ask(r, s) ==
    /\ req[r].at = "idle"
    /\ Step(r, IF paper[s] # NoPaper THEN [at |-> "paper", seat |-> s, paper |-> paper[s]]
               ELSE [at |-> "again", seat |-> s])
    /\ Elsewhere /\ UNCHANGED <<paper, faults>>

\* getOrReconstructPaper looks into the cache once more.
AskAgain(r) ==
    /\ req[r].at = "again"
    /\ LET s == req[r].seat IN
       Step(r, IF paper[s] # NoPaper THEN [at |-> "paper", seat |-> s, paper |-> paper[s]]
               ELSE [at |-> "assignment", seat |-> s])
    /\ Elsewhere /\ UNCHANGED <<paper, faults>>

ReadAssignment(r) ==
    /\ req[r].at = "assignment"
    /\ LET s == req[r].seat IN
       Step(r, IF assigned[s] = None THEN [at |-> "not found"]
               ELSE [at |-> "questions", seat |-> s, found |-> assigned[s]])
    /\ Elsewhere /\ UNCHANGED <<paper, faults>>

ReadQuestions(r) ==
    /\ req[r].at = "questions"
    /\ LET found == LoadDecryptedQuestions(req[r].found) IN
       Step(r, IF found = {} THEN [at |-> "not found"]
               ELSE [at |-> "store", seat |-> req[r].seat, paper |-> RenderPaper(found)])
    /\ Elsewhere /\ UNCHANGED <<paper, faults>>

StorePaper(r) ==
    /\ req[r].at = "store"
    /\ paper' = [paper EXCEPT ![req[r].seat] = req[r].paper]
    /\ Step(r, [req[r] EXCEPT !.at = "paper"])
    /\ Elsewhere /\ UNCHANGED faults

\* An await rejects: logged, and the paper is not found.
RequestFails(r) ==
    /\ req[r].at \in {"again", "assignment", "questions", "store"}
    /\ Fault
    /\ Step(r, [at |-> "not found"])
    /\ Elsewhere /\ UNCHANGED paper

Answer(r) ==
    /\ req[r].at \in {"paper", "not found"}
    /\ Step(r, [at |-> "idle"])
    /\ Elsewhere /\ UNCHANGED <<paper, faults>>

Next ==
    \/ \E s \in Seats, a \in Papers : Assign(s, a)
    \/ \E q \in Questions : Decrypt(q)
    \/ StartBulk \/ WritePapers \/ BulkFails
    \/ StartWarm \/ BatchSet \/ EndWarm
    \/ \E c \in Centers : ReadCenter(c) \/ ReadSeats(c)
    \/ \E s \in Seats : RenderSeat(s)
    \/ \E r \in Requests, s \in Seats : Ask(r, s)
    \/ \E r \in Requests :
          \/ AskAgain(r) \/ ReadAssignment(r) \/ ReadQuestions(r) \/ StorePaper(r)
          \/ RequestFails(r) \/ Answer(r)

Spec == Init /\ [][Next]_vars

----------------------------------------------------------------------------
(* Properties                                                               *)

OfOneDraw(s, p) ==
    p.items # <<>> => \E a \in drawn[s] : \A i \in DOMAIN p.items :
                         p.items[i].position \in DOMAIN a /\ a[p.items[i].position] = p.items[i].question

\* The papers there are: in the cache, and on their way to a terminal.
Shown(s) == {paper[s]} \union {req[r].paper : r \in {x \in Requests : req[x].at = "paper" /\ req[x].seat = s}}

\* A pre-warming that reports every paper as cached leaves none missing,
\* although single commands of a pipeline fail: batchSetWithPipeline.
FullReportMeansPapers ==
    warm.at = "done" /\ warm.cached = Cardinality(warm.seen) =>
        \A s \in warm.seen : paper[s] # NoPaper

\* The paper of a seat, in the cache or on its way to the terminal, has its
\* questions where one and the same draw of the matrix put them, and in that
\* order, although the matrix is drawn again while three writers read it; and
\* the paper is there when the pre-warming says so.
OneDrawPerPaper ==
    /\ \A s \in Seats : \A p \in Shown(s) :
           OfOneDraw(s, p) /\ Rises(p.items)
    /\ FullReportMeansPapers

============================================================================
