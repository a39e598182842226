----------------------------- MODULE ExamSetup -----------------------------
(***************************************************************************)
(* How an exam gets its blueprint and a job for the matrix solver: two     *)
(* services that write to one document and publish to one topic.           *)
(*                                                                         *)
(*   packages/question-service/src/exam/exam.service.ts                    *)
(*   packages/question-service/src/{firestore,pubsub}/*.service.ts         *)
(*   packages/paper-generator/src/matrix/matrix.service.ts                 *)
(*                                                                         *)
(* A request reads the document, checks it, and writes or publishes after  *)
(* further awaits.  A caller may have another under way: the gateway gives *)
(* a request up after 30 seconds, and the service goes on with it.         *)
(***************************************************************************)
EXTENDS Naturals, FiniteSets

CONSTANTS
    Msgs,           \* identities of Pub/Sub messages
    Callers,        \* requests that may be under way together
    Blueprints,     \* the blueprints that are sent
    Balanced,       \* those whose shares and counts add up
    MaxFaults       \* bound: awaits that reject, and exceptions of the worker

Nothing == "none"

ASSUME SetupAssumption ==
    Balanced \subseteq Blueprints /\ Nothing \notin Blueprints \union Msgs /\ MaxFaults \in Nat

VARIABLES
    topic,          \* state of every message, Nothing before it is published
    form,           \* where its exam id is: "exam_id", "examId", or in the "payload"
    exam,           \* exams/{id}: [status, blueprint, job]; job: matrixJobId, pending
    ask,            \* what every caller's request awaits
    found,          \* history: the blueprint the last matrix trigger saw
    overlapped,     \* history: two requests that look at the status were under way
    faults
setup == <<exam, ask, found, overlapped>>

Idle == [at |-> "idle"]

SetupInit ==
    /\ topic = [m \in Msgs |-> Nothing] /\ form = [m \in Msgs |-> "exam_id"]
    /\ exam = [status |-> Nothing, blueprint |-> Nothing, job |-> Nothing]
    /\ ask = [c \in Callers |-> Idle]
    /\ found = Nothing /\ overlapped = FALSE /\ faults = 0

Goto(c, to) == ask' = [ask EXCEPT ![c] = to]

Send(m, field) ==
    /\ topic[m] = Nothing
    /\ topic' = [topic EXCEPT ![m] = "queued"]
    /\ form' = [form EXCEPT ![m] = field]

----------------------------------------------------------------------------
(* ExamService.                                                             *)

Create ==
    /\ exam.status = Nothing
    /\ exam' = [exam EXCEPT !.status = "created"]
    /\ UNCHANGED <<topic, form, ask, found, overlapped, faults>>

\* A request that has checked the status and has not written it yet.
Checked(c) == ask[c].at \in {"define", "mark"}
Overlaps == overlapped' = (overlapped \/ \E c \in Callers : Checked(c))

\* defineBlueprint: the exam as it is read, and the sums of the blueprint.
Definable == {"created", "blueprint_defined"}
CheckBlueprint(c, b) ==
    /\ ask[c] = Idle /\ exam.status \in Definable /\ b \in Balanced
    /\ Goto(c, [at |-> "define", blueprint |-> b])
    /\ Overlaps
    /\ UNCHANGED <<topic, form, exam, found, faults>>

DefineBlueprint(c) ==
    /\ ask[c].at = "define"
    /\ exam' = [exam EXCEPT !.blueprint = ask[c].blueprint, !.status = "blueprint_defined"]
    /\ Goto(c, Idle)
    /\ UNCHANGED <<topic, form, found, overlapped, faults>>

\* Mutant of CheckSolver: a job can be asked for again while one is under way.
CheckSolverAgain(c) ==
    /\ ask[c] = Idle /\ exam.status \in {"blueprint_defined", "matrix_generating"}
    /\ Goto(c, [at |-> "mark"]) /\ found' = exam.blueprint
    /\ Overlaps
    /\ UNCHANGED <<topic, form, exam, faults>>

\* triggerMatrixSolver: the exam as it is read, its status, then the message.
CheckSolver(c) ==
    /\ ask[c] = Idle /\ exam.status = "blueprint_defined" /\ exam.blueprint # Nothing
    /\ Goto(c, [at |-> "mark"]) /\ found' = exam.blueprint
    /\ Overlaps
    /\ UNCHANGED <<topic, form, exam, faults>>

MarkGenerating(c) ==
    /\ ask[c].at = "mark"
    /\ exam' = [exam EXCEPT !.status = "matrix_generating"]
    /\ Goto(c, [at |-> "publish"])
    /\ UNCHANGED <<topic, form, found, overlapped, faults>>

PublishToMatrixSolver(c, m) ==
    /\ ask[c].at = "publish" /\ Send(m, "payload") /\ Goto(c, Idle)
    /\ UNCHANGED <<exam, found, overlapped, faults>>

----------------------------------------------------------------------------
(* MatrixService.triggerMatrixGeneration: any exam, whatever its status.    *)

LoadExam(c) ==
    /\ ask[c] = Idle /\ exam.status # Nothing
    /\ Goto(c, [at |-> "job"])
    /\ UNCHANGED <<topic, form, exam, found, overlapped, faults>>

PublishJob(c, m) ==
    /\ ask[c].at = "job" /\ Send(m, "examId")
    /\ Goto(c, [at |-> "pending", job |-> m])
    /\ UNCHANGED <<exam, found, overlapped, faults>>

RecordPending(c) ==
    /\ ask[c].at = "pending"
    /\ exam' = [exam EXCEPT !.job = ask[c].job]
    /\ Goto(c, Idle)
    /\ UNCHANGED <<topic, form, found, overlapped, faults>>

----------------------------------------------------------------------------
\* An await rejects and the request ends where it is.
RequestFails(c) ==
    /\ ask[c] # Idle /\ faults < MaxFaults
    /\ faults' = faults + 1
    /\ Goto(c, Idle)
    /\ UNCHANGED <<topic, form, exam, found, overlapped>>

SetupNext ==
    \/ Create
    \/ \E c \in Callers, b \in Blueprints : CheckBlueprint(c, b)
    \/ \E c \in Callers : \/ DefineBlueprint(c) \/ CheckSolver(c) \/ MarkGenerating(c)
                          \/ LoadExam(c) \/ RecordPending(c) \/ RequestFails(c)
    \/ \E c \in Callers, m \in Msgs : PublishToMatrixSolver(c, m) \/ PublishJob(c, m)

----------------------------------------------------------------------------
Published(field) == {m \in Msgs : topic[m] # Nothing /\ form[m] = field}

\* The exam's document and the topic agree, although no transaction joins
\* them.  The job it names as pending was published.  If no two requests
\* looked at the status together, an exam that generates its matrix has the
\* blueprint its trigger saw, at most one job comes from that status, and there
\* is one unless an await rejected.
SetupAgrees ==
    LET jobs == Published("payload")
        resting == \A c \in Callers : ask[c] = Idle
    IN  /\ exam.job # Nothing => exam.job \in Published("examId")
        /\ (resting /\ faults = 0 /\ Published("examId") # {}) => exam.job # Nothing
        /\ ~overlapped =>
              /\ Cardinality(jobs) <= 1
              /\ jobs # {} => exam.status = "matrix_generating"
              /\ exam.status = "matrix_generating" =>
                    /\ exam.blueprint = found /\ found \in Balanced
                    /\ resting /\ faults = 0 => jobs # {}
=============================================================================
