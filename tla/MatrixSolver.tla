---------------------------- MODULE MatrixSolver ----------------------------
(***************************************************************************)
(* The matrix solver's worker: what becomes of a job, and of the papers it *)
(* stores.  Who asks for a job is ExamSetup's subject, and how the papers  *)
(* are drawn and annealed is Annealing's; here a solve is a number.        *)
(*                                                                         *)
(*   workers/matrix-solver/src/{main,solver,progress}.py                   *)
(*                                                                         *)
(* Several callbacks may be under way: a subscription delivers one message *)
(* at a time, but it is opened again after a stream error while the old    *)
(* callback goes on, several instances may run, and a message whose lease  *)
(* has lapsed is delivered again while its first callback still solves.    *)
(***************************************************************************)
EXTENDS ExamSetup, Sequences, Functions

CONSTANTS
    Callbacks,      \* calls of _handle_message that may be under way together
    SeatOrder,      \* the papers <<centre, seat>> in the order they are stored
    Underscored,    \* the centres whose id contains an underscore
    BatchSize       \* MAX_BATCH_SIZE: papers per Firestore batch

ASSUME MatrixAssumption ==
    /\ SeatOrder \in Seq(Range(SeatOrder)) /\ SeatOrder # <<>>
    /\ BatchSize \in Nat \ {0}

VARIABLES
    sender,     \* jobs are published by "services" or by "hand" (chosen once)
    document,   \* topicCoverage is a "map" or a "list", or there is no document
    data,       \* calibrated questions and centres are in the stores
    worker,     \* every callback: [at, msg, holds, draw, sent]
    lapsed,     \* history: the messages whose lease ran out under a callback
    solve,      \* number of the last draw, counted over all deliveries
    docs,       \* the draw that wrote each seat document last, 0 for none
    last,       \* history: the callback that committed a batch last
    shown       \* matrixSolver.status in the exam's document
asked  == <<sender, document, setup>>
solver == <<asked, form, data, topic, worker, lapsed, solve, docs, last, shown, faults>>

Final == {"dropped", "nodata", "stored"}
Fields == {"exam_id", "examId"}
Seats == Range(SeatOrder)
Resting == [at |-> "idle", msg |-> Nothing, holds |-> FALSE, draw |-> 0, sent |-> 0]

SolverInit ==
    /\ SetupInit
    \* the services store a list, and no job of theirs gets as far as that
    /\ sender \in {"services", "hand"} /\ document \in {"map", "list", "missing"}
    /\ data \in BOOLEAN
    /\ sender = "services" => data /\ document = "list"
    /\ worker = [w \in Callbacks |-> Resting]
    /\ lapsed = {} /\ solve = 0
    /\ docs = [d \in Seats \union ({"stray"} \X Seats) |-> 0]
    /\ last = [draw |-> 0, msg |-> Nothing, sent |-> 0, alone |-> TRUE]
    /\ shown = "none"

-----------------------------------------------------------------------------
(* Jobs and data arrive.                                                   *)

\* Neither service sends the form the worker's docstring asks for: a job of
\* that form is published by hand, perhaps beside one of another.
PublishByHand(m, field) ==
    /\ Send(m, field)
    /\ UNCHANGED <<asked, data, worker, lapsed, solve, docs, last, shown, faults>>

\* Calibration results and centre layouts arrive; nothing removes them.
DataArrives ==
    /\ ~data /\ data' = TRUE
    /\ UNCHANGED <<asked, form, topic, worker, lapsed, solve, docs, last, shown, faults>>

-----------------------------------------------------------------------------
(* Messages and their leases.                                              *)

Doing(w, place) == worker[w].at = place
JobOf(w) == worker[w].msg

\* An acknowledgement settles the message, and nobody holds it any more; one
\* that comes after the lease may also be ignored.
Settle(w, outcome) ==
    \/ /\ topic' = [topic EXCEPT ![JobOf(w)] = outcome]
       /\ worker' = [x \in Callbacks |->
                       IF x = w THEN Resting
                       ELSE IF JobOf(x) = JobOf(w) THEN [worker[x] EXCEPT !.holds = FALSE]
                       ELSE worker[x]]
    \/ /\ ~worker[w].holds
       /\ worker' = [worker EXCEPT ![w] = Resting] /\ UNCHANGED topic

\* The message is delivered again, unless the callback held it no longer.
Requeue(w) ==
    /\ topic' = IF worker[w].holds THEN [topic EXCEPT ![JobOf(w)] = "queued"] ELSE topic
    /\ worker' = [worker EXCEPT ![w] = Resting]

\* A message without exam_id is acknowledged and nothing else happens.
Drop(w, m) ==
    /\ Doing(w, "idle") /\ topic[m] = "queued" /\ form[m] # "exam_id"
    /\ topic' = [topic EXCEPT ![m] = "dropped"]
    /\ UNCHANGED <<asked, form, data, worker, lapsed, solve, docs, last, shown, faults>>

Receive(w, m) ==
    /\ Doing(w, "idle") /\ topic[m] = "queued" /\ form[m] = "exam_id"
    /\ topic' = [topic EXCEPT ![m] = "leased"]
    /\ worker' = [worker EXCEPT ![w] = [Resting EXCEPT !.at = "loading", !.msg = m, !.holds = TRUE]]
    /\ UNCHANGED <<asked, form, data, lapsed, solve, docs, last, shown, faults>>

\* The client extends a lease for so long and no longer, and not at all when it
\* has lost its connection; the callback goes on.
LeaseExpires(w) ==
    /\ worker[w].holds /\ faults < MaxFaults
    /\ faults' = faults + 1
    /\ topic' = [topic EXCEPT ![JobOf(w)] = "queued"]
    /\ worker' = [worker EXCEPT ![w].holds = FALSE]
    /\ lapsed' = lapsed \union {JobOf(w)}
    /\ UNCHANGED <<asked, form, data, solve, docs, last, shown>>

-----------------------------------------------------------------------------
(* _handle_message.                                                        *)

\* No exam document, or, once there are questions and centres, a topicCoverage
\* that is a list and has no items(): the exception is nacked.
Raise(w) ==
    /\ Doing(w, "loading")
    /\ document = "missing" \/ (data /\ document = "list")
    /\ Requeue(w)
    /\ UNCHANGED <<asked, form, data, lapsed, solve, docs, last, shown, faults>>

\* No calibrated question or no centre: acknowledged, not retried.
NoData(w) ==
    /\ Doing(w, "loading") /\ document # "missing" /\ ~data
    /\ Settle(w, "nodata")
    /\ UNCHANGED <<asked, form, data, lapsed, solve, docs, last, shown, faults>>

\* The initial assignments are drawn.
Solve(w) ==
    /\ Doing(w, "loading") /\ document = "map" /\ data
    /\ solve' = solve + 1
    /\ worker' = [worker EXCEPT ![w].at = "solving", ![w].draw = solve']
    /\ UNCHANGED <<asked, form, data, topic, lapsed, docs, last, shown, faults>>

\* ProgressReporter writes a status and swallows the error of a refused write;
\* its report of a failure is never called.
Report(status) ==
    \/ shown' = status /\ UNCHANGED faults
    \/ faults < MaxFaults /\ faults' = faults + 1 /\ UNCHANGED shown

\* A report every 10,000 iterations, as many as the annealing has of them.
Progress(w) ==
    /\ Doing(w, "solving") /\ shown # "running"
    /\ Report("running")
    /\ UNCHANGED <<asked, form, data, topic, worker, lapsed, solve, docs, last>>

\* The result is reported as completed before any of it is stored.
Complete(w) ==
    /\ Doing(w, "solving")
    /\ worker' = [worker EXCEPT ![w].at = "writing"]
    /\ Report("completed")
    /\ UNCHANGED <<asked, form, data, topic, lapsed, solve, docs, last>>

\* paper_key.split("_", 1): a centre id with an underscore is cut in two.
SeatDoc(p) == IF p[1] \in Underscored THEN <<"stray", p>> ELSE p

\* write_assignment_to_firestore commits one batch.  It is "alone" when no
\* other draw's batch came between the batches of this one.
WriteBatch(w) ==
    LET sent  == worker[w].sent
        draw  == worker[w].draw
        after == IF sent + BatchSize < Len(SeatOrder) THEN sent + BatchSize ELSE Len(SeatOrder)
    IN  /\ Doing(w, "writing") /\ sent < Len(SeatOrder)
        /\ docs' = [d \in DOMAIN docs |->
                      IF \E k \in sent + 1 .. after : SeatDoc(SeatOrder[k]) = d
                      THEN draw ELSE docs[d]]
        /\ worker' = [worker EXCEPT ![w].sent = after]
        /\ last' = [draw |-> draw, msg |-> JobOf(w), sent |-> after,
                    alone |-> sent = 0 \/ (last.draw = draw /\ last.alone)]
        /\ UNCHANGED <<asked, form, data, topic, lapsed, solve, shown, faults>>

\* After the last batch the message is acknowledged.
Acknowledge(w) ==
    /\ Doing(w, "writing") /\ worker[w].sent = Len(SeatOrder)
    /\ Settle(w, "stored")
    /\ UNCHANGED <<asked, form, data, lapsed, solve, docs, last, shown, faults>>

\* Mutant of Abort: an exception is acknowledged like a success.
AbortAcknowledged(w) ==
    /\ ~Doing(w, "idle") /\ faults < MaxFaults
    /\ faults' = faults + 1
    /\ Settle(w, "stored")
    /\ UNCHANGED <<asked, form, data, lapsed, solve, docs, last, shown>>

\* Mutant of Abort: a crashed worker's message is never delivered again.
AbortLost(w) ==
    /\ ~Doing(w, "idle") /\ faults < MaxFaults
    /\ faults' = faults + 1
    /\ worker' = [worker EXCEPT ![w] = Resting]
    /\ UNCHANGED <<asked, form, data, topic, lapsed, solve, docs, last, shown>>

\* An exception is nacked; a crashed worker loses its lease: either way the
\* message is delivered again, and a new draw replaces the old one.
Abort(w) ==
    /\ ~Doing(w, "idle") /\ faults < MaxFaults
    /\ faults' = faults + 1
    /\ Requeue(w)
    /\ UNCHANGED <<asked, form, data, lapsed, solve, docs, last, shown>>

WorkerStep(w) ==
    \/ \E m \in Msgs : Drop(w, m) \/ Receive(w, m)
    \/ Raise(w) \/ NoData(w) \/ Solve(w) \/ Progress(w) \/ Complete(w)
    \/ WriteBatch(w) \/ Acknowledge(w)

SolverNext ==
    \/ /\ sender = "services" /\ SetupNext
       /\ UNCHANGED <<sender, document, data, worker, lapsed, solve, docs, last, shown>>
    \/ sender = "hand" /\ \E m \in Msgs : \E field \in Fields : PublishByHand(m, field)
    \/ DataArrives
    \/ \E w \in Callbacks : WorkerStep(w) \/ LeaseExpires(w) \/ Abort(w)

\* A callback goes on, and one that is free takes the next message.
SolverFairness == \A w \in Callbacks : WF_solver(WorkerStep(w))

SolverSpec == SolverInit /\ [][SolverNext]_solver /\ SolverFairness

-----------------------------------------------------------------------------
\* No message is outstanding, and no callback is under way.
Quiet ==
    /\ \A m \in Msgs : topic[m] \in Final \union {Nothing}
    /\ \A w \in Callbacks : Doing(w, "idle")

\* The seats hold draw n (centres whose id has an underscore excepted: they are
\* stored elsewhere).  The exam's document says "completed", which was written
\* before the papers, only when there are papers (unless a message was with two
\* callbacks); and if nothing failed, it does say so.
OneDraw(n) ==
    /\ \A p \in Seats : p[1] \notin Underscored => docs[p] = n
    /\ (\E m \in Msgs : topic[m] = "stored") => n > 0
    /\ (shown = "completed" /\ lapsed = {}) => n > 0
    /\ (n > 0 /\ faults = 0) => shown = "completed"

\* When all is quiet, the seats hold one draw: a worker that died between two
\* batches has not left a mixture of two draws behind, however many callbacks,
\* redeliveries and lapsed leases there were.  Excepted, because nothing keeps
\* two callbacks of an exam apart (main.py:255), are a last draw between whose
\* batches another draw's was committed, and one that was broken off when
\* somebody else had its message.  What the services wrote to that document
\* agrees with the jobs (SetupAgrees).
OneDrawStored ==
    /\ sender = "services" => SetupAgrees
    /\ Quiet => \/ \E n \in 0 .. solve : OneDraw(n)
                \/ ~last.alone
                \/ last.sent < Len(SeatOrder) /\ last.msg \in lapsed

\* Once jobs are waiting, a time comes when every published job is settled,
\* however often they are redelivered: an abandoned job is taken up again.
\* Excepted are jobs of an exam without a document, or whose topicCoverage is a
\* list, as question-service stores it (exam.service.ts:109): the worker calls
\* items() on it (solver.py:222), and nacks the job for ever.
JobsSettle ==
    ((sender = "services" \/ document = "map") /\ \E m \in Msgs : topic[m] = "queued")
        ~> (\A m \in Msgs : topic[m] \in Final \union {Nothing})
=============================================================================
