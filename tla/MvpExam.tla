------------------------------ MODULE MvpExam ------------------------------
(***************************************************************************)
(* The life of one exam in mvp-server.js: the staff's endpoints (matrix,   *)
(* encrypt, activate, collusion, equate, publish), the question bank, and  *)
(* the candidates' sessions and submissions.  The server is one Node       *)
(* process with its database in memory: a handler is one step; what runs   *)
(* between handlers are the setInterval and setTimeout callbacks, each a   *)
(* closure with its own counter over shared job records.  No endpoint      *)
(* looks at the exam's status except session start, so every one of them   *)
(* may come at any time and again while its jobs run.                      *)
(*                                                                         *)
(* Data: progress counts Full units instead of 100 percent; a paper is the *)
(* sequence of its question ids, a sheet the sequence of chosen labels.    *)
(***************************************************************************)
EXTENDS Integers, Sequences, SequencesExt, FiniteSets

CONSTANTS
    Candidates, Sessions, Questions,
    InitialBank,        \* the questions seeded, in order of insertion
    Seed,               \* per candidate: the bytes of SHA-256(exam, candidate)
    Key,                \* per question: the label of its right option
    Sheets,             \* the answer sheets candidates hand in
    PaperLength,        \* exam.questionsPerPaper
    Full,               \* bound: progress units of a matrix job (100 percent)
    Spread,             \* the largest change of a score by equating
    Plans,              \* the sets of endpoints used in a behaviour
    MaxJobs,            \* bound: triggers of each kind of job
    MaxSubmissions,     \* bound: submissions
    None

ASSUME MvpAssumption ==
    /\ Full \in Nat \ {0} /\ PaperLength \in Nat \ {0} /\ Spread \in Nat
    /\ InitialBank \in Seq(Questions)

EncryptSteps == <<"encrypting", "tlp_generating", "shamir_splitting", "distributing", "completed">>

VARIABLES
    plan,           \* the endpoints the staff use (chosen once)
    status,         \* exam.status
    matrix,         \* db.matrixJobs[exam]: [state, progress] or None
    matrixTimers,   \* the intervals alive: the `prog` of each closure
    encryption,     \* db.encryptionJobs[exam]: [step, distributed] or None
    encryptTimers,  \* the intervals alive: the `stepIdx` of each closure
    collusion,      \* db.collusionResults[exam].status or None
    equating,       \* db.equatingJobs[exam].status or None
    timeouts,       \* the setTimeouts pending: [collusion, equate] counts
    triggers,       \* history: how often each job was triggered
    bank,           \* db.questions in order, [id, deleted]
    sessions,       \* db.sessions: [candidate, paper] or None
    submissions     \* db.submissions in order of insertion

staff == <<status, matrix, matrixTimers, encryption, encryptTimers, collusion, equating,
           timeouts, triggers>>
vars == <<plan, staff, bank, sessions, submissions>>

Jobs == {"matrix", "encrypt", "collusion", "equate"}

Init ==
    /\ plan \in Plans
    /\ status = "draft"
    /\ matrix = None /\ matrixTimers = <<>>
    /\ encryption = None /\ encryptTimers = <<>>
    /\ collusion = None /\ equating = None
    /\ timeouts = [collusion |-> 0, equate |-> 0]
    /\ triggers = [j \in Jobs |-> 0]
    /\ bank = [i \in DOMAIN InitialBank |-> [id |-> InitialBank[i], deleted |-> FALSE]]
    /\ sessions = [s \in Sessions |-> None]
    /\ submissions = <<>>

Trigger(job) ==
    /\ job \in plan /\ triggers[job] < MaxJobs
    /\ triggers' = [triggers EXCEPT ![job] = @ + 1]

----------------------------------------------------------------------------
(* The matrix job: a fresh record replaces the one an older interval still  *)
(* writes to.                                                               *)

TriggerMatrix ==
    /\ Trigger("matrix")
    /\ matrix' = [state |-> "running", progress |-> 0]
    /\ status' = "MATRIX_GENERATING"
    /\ matrixTimers' = Append(matrixTimers, 0)
    /\ UNCHANGED <<plan, encryption, encryptTimers, collusion, equating, timeouts,
                   bank, sessions, submissions>>

(* One callback of the i-th interval: its own prog, the shared job record.  *)
(* Progress moves by ten to nineteen percent: one or two units of Full.     *)
MatrixTick(i) ==
    \E step \in 1..2 :
        LET prog == IF matrixTimers[i] + step >= Full THEN Full ELSE matrixTimers[i] + step
            done == prog >= Full
        IN /\ matrix' = [state |-> IF done THEN "completed" ELSE matrix.state, progress |-> prog]
           /\ status' = IF done THEN "MATRIX_COMPLETE" ELSE status
           /\ matrixTimers' = IF done THEN RemoveAt(matrixTimers, i)
                              ELSE [matrixTimers EXCEPT ![i] = prog]
           /\ UNCHANGED <<plan, encryption, encryptTimers, collusion, equating, timeouts,
                          triggers, bank, sessions, submissions>>

----------------------------------------------------------------------------
(* The encryption job *)

TriggerEncrypt ==
    /\ Trigger("encrypt")
    /\ encryption' = [step |-> "encrypting", distributed |-> FALSE]
    /\ status' = "ENCRYPTING"
    /\ encryptTimers' = Append(encryptTimers, 0)
    /\ UNCHANGED <<plan, matrix, matrixTimers, collusion, equating, timeouts,
                   bank, sessions, submissions>>

(* As if the last callback relied on the earlier ones for the distribution. *)
EncryptTickForgets(i) ==
    LET stepIdx == encryptTimers[i] + 1
        last == stepIdx >= Len(EncryptSteps)
    IN /\ encryption' = IF last THEN [encryption EXCEPT !.step = "completed"]
                        ELSE [step |-> EncryptSteps[stepIdx + 1],
                              distributed |-> encryption.distributed \/ stepIdx >= 3]
       /\ status' = IF last THEN "ENCRYPTED" ELSE status
       /\ encryptTimers' = IF last THEN RemoveAt(encryptTimers, i)
                           ELSE [encryptTimers EXCEPT ![i] = stepIdx]
       /\ UNCHANGED <<plan, matrix, matrixTimers, collusion, equating, timeouts, triggers,
                      bank, sessions, submissions>>

(* As if the interval ended with the step named "completed". *)
EncryptTickStops(i) ==
    LET stepIdx == encryptTimers[i] + 1
        last == stepIdx >= Len(EncryptSteps) - 1
    IN /\ encryption' = [step |-> EncryptSteps[stepIdx + 1],
                         distributed |-> encryption.distributed \/ stepIdx >= 3]
       /\ encryptTimers' = IF last THEN RemoveAt(encryptTimers, i)
                           ELSE [encryptTimers EXCEPT ![i] = stepIdx]
       /\ UNCHANGED <<plan, status, matrix, matrixTimers, collusion, equating, timeouts, triggers,
                      bank, sessions, submissions>>

(* One callback of the i-th interval: the fragments and the centres are     *)
(* served from step 3 on and, once more, by the callback after the last     *)
(* step, which also moves the exam.                                         *)
EncryptTick(i) ==
    LET stepIdx == encryptTimers[i] + 1
        last == stepIdx >= Len(EncryptSteps)
    IN /\ encryption' = IF last THEN [step |-> "completed", distributed |-> TRUE]
                        ELSE [step |-> EncryptSteps[stepIdx + 1],
                              distributed |-> encryption.distributed \/ stepIdx >= 3]
       /\ status' = IF last THEN "ENCRYPTED" ELSE status
       /\ encryptTimers' = IF last THEN RemoveAt(encryptTimers, i)
                           ELSE [encryptTimers EXCEPT ![i] = stepIdx]
       /\ UNCHANGED <<plan, matrix, matrixTimers, collusion, equating, timeouts, triggers,
                      bank, sessions, submissions>>

----------------------------------------------------------------------------
(* Endpoints that only move the exam, whatever its status *)

SetStatus(endpoint, new) ==
    /\ endpoint \in plan /\ status # new
    /\ status' = new
    /\ UNCHANGED <<plan, matrix, matrixTimers, encryption, encryptTimers, collusion, equating,
                   timeouts, triggers, bank, sessions, submissions>>

SetBlueprint == SetStatus("blueprint", "blueprint_set")
Activate == SetStatus("activate", "ACTIVE")
Publish == SetStatus("publish", "RESULTS_PUBLISHED")

----------------------------------------------------------------------------
(* Collusion detection and equating: a setTimeout each *)

TriggerCollusion ==
    /\ Trigger("collusion")
    /\ collusion' = "running" /\ status' = "COLLUSION_CHECK"
    /\ timeouts' = [timeouts EXCEPT !.collusion = @ + 1]
    /\ UNCHANGED <<plan, matrix, matrixTimers, encryption, encryptTimers, equating,
                   bank, sessions, submissions>>

CollusionDone ==
    /\ timeouts.collusion > 0
    /\ collusion' = "completed"
    /\ timeouts' = [timeouts EXCEPT !.collusion = @ - 1]
    /\ UNCHANGED <<plan, status, matrix, matrixTimers, encryption, encryptTimers, equating,
                   triggers, bank, sessions, submissions>>

TriggerEquate ==
    /\ Trigger("equate")
    /\ equating' = "running" /\ status' = "EQUATING"
    /\ timeouts' = [timeouts EXCEPT !.equate = @ + 1]
    /\ UNCHANGED <<plan, matrix, matrixTimers, encryption, encryptTimers, collusion,
                   bank, sessions, submissions>>

Clamp(score) == IF score < 0 THEN 0 ELSE IF score > PaperLength THEN PaperLength ELSE score

(* A submission equated: from its raw score, by a random shift, clamped.    *)
Equated(sub, shift) == [sub EXCEPT !.equatedScore = Clamp(sub.score + shift), !.applied = TRUE]

(* The timer: every submission there is when it fires. *)
EquateDone ==
    /\ timeouts.equate > 0
    /\ equating' = "completed"
    /\ \E shift \in [DOMAIN submissions -> (-Spread)..Spread] :
           submissions' = [i \in DOMAIN submissions |-> Equated(submissions[i], shift[i])]
    /\ timeouts' = [timeouts EXCEPT !.equate = @ - 1]
    /\ UNCHANGED <<plan, status, matrix, matrixTimers, encryption, encryptTimers, collusion,
                   triggers, bank, sessions>>

----------------------------------------------------------------------------
(* The question bank: added by hand or generated, deleted softly *)

CreateQuestion ==
    /\ "bank" \in plan
    /\ \E q \in Questions :
           /\ \A i \in DOMAIN bank : bank[i].id # q
           /\ bank' = Append(bank, [id |-> q, deleted |-> FALSE])
    /\ UNCHANGED <<plan, staff, sessions, submissions>>

DeleteQuestion ==
    /\ "bank" \in plan
    /\ \E i \in DOMAIN bank :
           ~ bank[i].deleted /\ bank' = [bank EXCEPT ![i].deleted = TRUE]
    /\ UNCHANGED <<plan, staff, sessions, submissions>>

Live == SelectSeq(bank, LAMBDA q : ~ q.deleted)

(* generatePaper: the byte for a position picks the question it starts from *)
(* and the position is added to it, so a question may come twice.           *)
GeneratePaper(c) ==
    LET n == Len(Live)
    IN [i \in 1..PaperLength |->
           LET byte == Seed[c][(((i - 1) * 3) % Len(Seed[c])) + 1]
           IN Live[(((byte % n) + i - 1) % n) + 1].id]

----------------------------------------------------------------------------
(* The candidates *)

(* A candidate may start again: another session, the same paper unless the  *)
(* bank has changed.                                                        *)
StartSession(c, s) ==
    /\ "session" \in plan
    /\ sessions[s] = None /\ status = "ACTIVE" /\ Len(Live) > 0
    /\ sessions' = [sessions EXCEPT ![s] = [candidate |-> c, paper |-> GeneratePaper(c)]]
    /\ UNCHANGED <<plan, staff, bank, submissions>>

Score(paper, sheet) == Cardinality({i \in DOMAIN paper : sheet[i] = Key[paper[i]]})

(* As if submit generated the paper again instead of using the session's. *)
GradedOnBank(s, sheet) ==
    IF Live = <<>> THEN 0 ELSE Score(GeneratePaper(sessions[s].candidate), sheet)

Graded(s, sheet) == Score(sessions[s].paper, sheet)

(* submit: no look at the session's state or the exam's, so a session may   *)
(* submit again and a late one may follow the results.                      *)
Submit(s, sheet) ==
    /\ sessions[s] # None /\ Len(submissions) < MaxSubmissions
    /\ submissions' = Append(submissions,
           [session |-> s, sheet |-> sheet, score |-> Graded(s, sheet),
            equatedScore |-> Graded(s, sheet), applied |-> FALSE])
    /\ UNCHANGED <<plan, staff, bank, sessions>>

(* An equated score of zero falls back to the raw one. *)
SubmissionsOf(c) == {i \in DOMAIN submissions : sessions[submissions[i].session].candidate = c}
ShownScore(sub) == IF sub.equatedScore = 0 THEN sub.score ELSE sub.equatedScore

(* As if the latest submission counted. *)
MyResultLast(c) ==
    IF SubmissionsOf(c) = {} THEN None ELSE submissions[Max(SubmissionsOf(c))]

(* results/me: the first submission of the candidate that find() meets. *)
MyResult(c) == IF SubmissionsOf(c) = {} THEN None ELSE submissions[Min(SubmissionsOf(c))]

Next ==
    \/ TriggerMatrix \/ TriggerEncrypt \/ TriggerCollusion \/ TriggerEquate
    \/ \E i \in DOMAIN matrixTimers : MatrixTick(i)
    \/ \E i \in DOMAIN encryptTimers : EncryptTick(i)
    \/ CollusionDone \/ EquateDone
    \/ SetBlueprint \/ Activate \/ Publish
    \/ CreateQuestion \/ DeleteQuestion
    \/ \E c \in Candidates, s \in Sessions : StartSession(c, s)
    \/ \E s \in Sessions, sheet \in Sheets : Submit(s, sheet)

(* Timers fire: the event loop is fair to every interval and timeout. *)
Fairness ==
    /\ WF_vars(\E i \in DOMAIN matrixTimers : i = 1 /\ MatrixTick(i))
    /\ WF_vars(\E i \in DOMAIN encryptTimers : i = 1 /\ EncryptTick(i))
    /\ WF_vars(CollusionDone) /\ WF_vars(EquateDone)

Spec == Init /\ [][Next]_vars /\ Fairness

----------------------------------------------------------------------------
(* Properties *)

(* "Completed" is said of work that is done, however the intervals of       *)
(* repeated triggers interleave on one job record: an encrypted exam has    *)
(* its fragments and papers distributed, and a completed matrix is at full  *)
(* progress, unless two triggers have had their intervals write to it.      *)
CompletedMeansDone ==
    /\ status = "ENCRYPTED" /\ encryption # None => encryption.distributed
    /\ matrix # None /\ triggers["matrix"] = 1 =>
          (matrix.state = "completed" <=> matrix.progress = Full)

(* A candidate is graded on the paper of the session, whatever happens to   *)
(* the bank in between, and equating, however often it runs, never moves a  *)
(* score further than one shift from its raw value or out of the range.     *)
GradedOnOwnPaper ==
    \A i \in DOMAIN submissions :
        LET sub == submissions[i] IN
        /\ sub.score = Score(sessions[sub.session].paper, sub.sheet)
        /\ sub.equatedScore \in Clamp(sub.score - Spread)..Clamp(sub.score + Spread)

(* The result a candidate is shown stays the same submission whatever is    *)
(* handed in later, and its score changes only as an equating timer fires.  *)
ResultStands ==
    [][\A c \in Candidates : MyResult(c) # None =>
          /\ MyResult(c)'.session = MyResult(c).session
          /\ MyResult(c)'.sheet = MyResult(c).sheet
          /\ ShownScore(MyResult(c)') # ShownScore(MyResult(c)) =>
                timeouts'.equate < timeouts.equate]_vars

(* Every job that was triggered ends: no restart of a job leaves the exam   *)
(* in a generating or encrypting status or a job running for ever.          *)
JobsComplete ==
    (\/ status \in {"MATRIX_GENERATING", "ENCRYPTING"}
     \/ collusion = "running" \/ equating = "running")
    ~> (/\ status \notin {"MATRIX_GENERATING", "ENCRYPTING"}
        /\ collusion # "running" /\ equating # "running")

============================================================================
