------------------------ MODULE ExamLifeCycleProofs -------------------------
(***************************************************************************)
(* Proofs about the life of an exam, for any candidates, banks, messages,  *)
(* requests, seats and submissions.                                        *)
(*                                                                         *)
(* In mvp-server.js (MvpExam) every candidate is graded on the paper of    *)
(* the session, only finished work is called completed, and a shown result *)
(* stays.  Between question-service, paper-generator and matrix-solver     *)
(* (ExamSetup, MatrixSolver) document, topic and seats agree: when all is  *)
(* quiet the seats hold one draw, whatever callbacks overlapped, with two  *)
(* exceptions that nothing in the code rules out.  The papers of a solve   *)
(* are the best assignment its annealing has seen (Annealing).             *)
(***************************************************************************)
EXTENDS MvpExam, MatrixSolver, Annealing, SequenceTheorems, FiniteSetTheorems, WellFoundedInduction, TLAPS

(***************************************************************************)
(* The inductive invariant.                                                *)
(***************************************************************************)
Steps == {"encrypting", "tlp_generating", "shamir_splitting", "distributing", "completed"}
MatrixJob == [state : {"running", "completed"}, progress : 0..Full]
EncryptionJob == [step : Steps, distributed : BOOLEAN]
Question == [id : Questions, deleted : BOOLEAN]
Submission == [session : Sessions, sheet : Sheets, score : 0..PaperLength,
               equatedScore : 0..PaperLength, applied : BOOLEAN]

JobType ==
    /\ matrixTimers \in Seq(0..Full - 1) /\ encryptTimers \in Seq(0..4)
    /\ triggers \in [Jobs -> Nat]
    /\ timeouts \in [collusion : Nat, equate : Nat]
    /\ matrix \in {None} \union MatrixJob
    /\ encryption \in {None} \union EncryptionJob

DataType ==
    /\ bank \in Seq(Question)
    /\ submissions \in Seq(Submission)
    /\ DOMAIN sessions = Sessions
    /\ \A s \in Sessions : sessions[s] # None => DOMAIN sessions[s].paper = 1..PaperLength

TypeOK == JobType /\ DataType

\* An interval has a job record to write to, and the record of a matrix that
\* was triggered once is the one its interval goes by.
JobsHaveRecords ==
    /\ encryptTimers # <<>> \/ status = "ENCRYPTED" => encryption \in EncryptionJob
    /\ matrixTimers # <<>> => matrix \in MatrixJob
    /\ triggers["matrix"] = 0 => matrix = None /\ matrixTimers = <<>>
    /\ triggers["matrix"] = 1 =>
          /\ matrix \in MatrixJob
          /\ \/ /\ Len(matrixTimers) = 1 /\ matrixTimers[1] = matrix.progress
                /\ matrix.state = "running"
             \/ /\ matrixTimers = <<>> /\ matrix.progress = Full
                /\ matrix.state = "completed"

\* Every submission has its session.
SubmissionsHaveSessions ==
    \A i \in DOMAIN submissions : sessions[submissions[i].session] # None

JobInv == JobsHaveRecords /\ (status = "ENCRYPTED" => encryption.distributed)
DataInv == SubmissionsHaveSessions /\ GradedOnOwnPaper

IInv == TypeOK /\ JobInv /\ DataInv

(***************************************************************************)
(* Sequences, minima and scores.                                           *)
(***************************************************************************)
LEMMA SeqMember ==
    ASSUME NEW S, NEW q \in Seq(S), NEW i \in DOMAIN q
    PROVE  i \in 1..Len(q) /\ Len(q) \in Nat /\ q # <<>> /\ q[i] \in S
<1>1. i \in 1..Len(q) /\ Len(q) \in Nat /\ q[i] \in S
  BY LenProperties
<1>2. q # <<>>
  BY <1>1
<1>3. QED
  BY <1>1, <1>2

LEMMA RemoveAtType ==
    ASSUME NEW S, NEW q \in Seq(S), NEW i \in DOMAIN q
    PROVE  RemoveAt(q, i) \in Seq(S) /\ Len(RemoveAt(q, i)) = Len(q) - 1
<1> DEFINE before == SubSeq(q, 1, i - 1)
           after == SubSeq(q, i + 1, Len(q))
<1>1. i \in 1..Len(q) /\ Len(q) \in Nat
  BY LenProperties
<1>2. before \in Seq(S) /\ Len(before) = i - 1
  BY <1>1, SubSeqProperties
<1>3. after \in Seq(S) /\ Len(after) = Len(q) - i
  BY <1>1, SubSeqProperties
<1>4. RemoveAt(q, i) = before \o after
  BY DEF RemoveAt
<1> HIDE DEF before, after
<1>5. before \o after \in Seq(S) /\ Len(before \o after) = Len(before) + Len(after)
  BY <1>2, <1>3, ConcatProperties
<1>6. QED
  BY <1>1, <1>2, <1>3, <1>4, <1>5

\* The least number of a set is one of its members.
LEMMA LeastIsMember ==
    ASSUME NEW S \in SUBSET Nat, S # {}
    PROVE  Min(S) \in S /\ \A x \in S : Min(S) <= x
<1>1. PICK m \in S : \A x \in S : <<x, m>> \notin OpToRel(<, Nat)
  BY NatLessThanWellFounded, WFMin, Zenon
<1>2. \A x \in S : m <= x
  <2> SUFFICES ASSUME NEW x \in S, ~(m <= x) PROVE FALSE
    OBVIOUS
  <2>1. x \in Nat /\ m \in Nat /\ x < m
    OBVIOUS
  <2>2. <<x, m>> \in OpToRel(<, Nat)
    BY <2>1, Zenon DEF OpToRel
  <2>3. QED
    BY <1>1, <2>2
<1>3. QED
  BY <1>2 DEF Min

LEMMA ScoreType ==
    ASSUME NEW paper, DOMAIN paper = 1..PaperLength, NEW sheet
    PROVE  Score(paper, sheet) \in 0..PaperLength
<1> DEFINE right == {i \in DOMAIN paper : sheet[i] = Key[paper[i]]}
<1>1. /\ IsFiniteSet(1..PaperLength) /\ Cardinality(1..PaperLength) = PaperLength
      /\ PaperLength \in Nat
  BY FS_Interval, MvpAssumption
<1>2. /\ Cardinality(right) \in Nat /\ Cardinality(right) <= PaperLength
  BY <1>1, FS_Subset, FS_CardinalityType
<1>3. QED
  BY <1>1, <1>2 DEF Score

LEMMA ClampType ==
    ASSUME NEW x \in Int
    PROVE  /\ Clamp(x) \in 0..PaperLength
           /\ x \in 0..PaperLength => Clamp(x) = x
           /\ \A y \in Int : x <= y => Clamp(x) <= Clamp(y)
BY MvpAssumption DEF Clamp

\* The interval of a score that was equated with any shift.
LEMMA EquatedStaysClose ==
    ASSUME NEW x \in Int, NEW shift \in (-Spread)..Spread
    PROVE  Clamp(x + shift) \in Clamp(x - Spread)..Clamp(x + Spread)
<1>1. /\ Spread \in Nat /\ shift \in Int
      /\ x - Spread <= x + shift /\ x + shift <= x + Spread
  BY MvpAssumption
<1>2. /\ Clamp(x - Spread) <= Clamp(x + shift) /\ Clamp(x + shift) <= Clamp(x + Spread)
  BY <1>1, ClampType
<1>3. {Clamp(x - Spread), Clamp(x + shift), Clamp(x + Spread)} \subseteq Int
  BY <1>1, ClampType, MvpAssumption
<1>4. QED
  BY <1>2, <1>3

(***************************************************************************)
(* The staff's jobs.                                                       *)
(***************************************************************************)
LEMMA TriggerCounts ==
    ASSUME JobType, NEW job \in Jobs, Trigger(job)
    PROVE  /\ triggers' \in [Jobs -> Nat] /\ triggers'[job] = triggers[job] + 1
           /\ \A j \in Jobs : j # job => triggers'[j] = triggers[j]
BY DEF JobType, Trigger

LEMMA JobsAre == Jobs = {"matrix", "encrypt", "collusion", "equate"}
BY DEF Jobs

\* A matrix triggered once has one interval; a second trigger gives up on it.
LEMMA TriggerMatrixKeeps ==
    ASSUME JobType, JobInv, TriggerMatrix
    PROVE  JobType' /\ JobInv'
<1>1. /\ Trigger("matrix") /\ matrix' = [state |-> "running", progress |-> 0]
      /\ status' = "MATRIX_GENERATING" /\ matrixTimers' = Append(matrixTimers, 0)
      /\ UNCHANGED <<encryption, encryptTimers, timeouts>>
  BY DEF TriggerMatrix
<1>2. matrix' \in MatrixJob /\ 0 \in 0..Full - 1
  BY <1>1, MvpAssumption DEF MatrixJob
<1>3. /\ triggers' \in [Jobs -> Nat] /\ triggers'["matrix"] = triggers["matrix"] + 1
      /\ triggers["matrix"] \in Nat
  BY <1>1, TriggerCounts, JobsAre DEF JobType
<1>4. matrixTimers' \in Seq(0..Full - 1)
  BY <1>1, <1>2 DEF JobType
<1>5. JobType'
  BY <1>1, <1>2, <1>3, <1>4 DEF JobType
<1>6. triggers'["matrix"] = 1 => Len(matrixTimers') = 1 /\ matrixTimers'[1] = 0
  BY <1>1, <1>3 DEF JobInv, JobsHaveRecords
<1>7. JobsHaveRecords'
  BY <1>1, <1>2, <1>3, <1>6 DEF JobInv, JobsHaveRecords
<1>8. QED
  BY <1>1, <1>5, <1>7 DEF JobInv

LEMMA MatrixTickKeeps ==
    ASSUME JobType, JobInv, NEW i \in DOMAIN matrixTimers, MatrixTick(i)
    PROVE  JobType' /\ JobInv'
<1>1. PICK step \in 1..2 :
        LET prog == IF matrixTimers[i] + step >= Full THEN Full ELSE matrixTimers[i] + step
            done == prog >= Full
        IN /\ matrix' = [state |-> IF done THEN "completed" ELSE matrix.state, progress |-> prog]
           /\ status' = IF done THEN "MATRIX_COMPLETE" ELSE status
           /\ matrixTimers' = IF done THEN RemoveAt(matrixTimers, i)
                              ELSE [matrixTimers EXCEPT ![i] = prog]
           /\ UNCHANGED <<encryption, encryptTimers, timeouts, triggers>>
  BY DEF MatrixTick
<1> DEFINE prog == IF matrixTimers[i] + step >= Full THEN Full ELSE matrixTimers[i] + step
<1>2. /\ i \in 1..Len(matrixTimers) /\ Len(matrixTimers) \in Nat /\ matrixTimers # <<>>
      /\ matrixTimers[i] \in 0..Full - 1 /\ matrixTimers \in Seq(0..Full - 1)
  <2>1. matrixTimers \in Seq(0..Full - 1)
    BY DEF JobType
  <2> HIDE DEF prog
  <2>2. QED
    BY <2>1, SeqMember
<1>3. prog \in 1..Full
  BY <1>2, MvpAssumption
<1>4. /\ matrix' = [state |-> IF prog >= Full THEN "completed" ELSE matrix.state, progress |-> prog]
      /\ status' = IF prog >= Full THEN "MATRIX_COMPLETE" ELSE status
      /\ matrixTimers' = IF prog >= Full THEN RemoveAt(matrixTimers, i)
                         ELSE [matrixTimers EXCEPT ![i] = prog]
      /\ UNCHANGED <<encryption, encryptTimers, timeouts, triggers>>
  BY <1>1
<1> HIDE DEF prog
<1>5. matrix \in MatrixJob
  BY <1>2 DEF JobInv, JobsHaveRecords
<1>6. matrix' \in MatrixJob /\ matrix'.progress = prog
  BY <1>3, <1>4, <1>5, MvpAssumption DEF MatrixJob
<1>7. /\ matrixTimers' \in Seq(0..Full - 1)
      /\ prog >= Full => Len(matrixTimers') = Len(matrixTimers) - 1
      /\ ~(prog >= Full) => Len(matrixTimers') = Len(matrixTimers) /\ matrixTimers'[i] = prog
  <2>1. CASE prog >= Full
    BY <1>2, <1>4, <2>1, RemoveAtType
  <2>2. CASE ~(prog >= Full)
    <3>1. prog \in 0..Full - 1 /\ matrixTimers' = [matrixTimers EXCEPT ![i] = prog]
      BY <1>3, <1>4, <2>2, MvpAssumption
    <3>2. QED
      BY <1>2, <2>2, <3>1, ExceptSeq
  <2>3. QED
    BY <2>1, <2>2
<1>8. JobType'
  BY <1>4, <1>6, <1>7 DEF JobType
<1>9. triggers["matrix"] \in Nat /\ triggers["matrix"] # 0
  BY <1>2, JobsAre DEF JobType, JobInv, JobsHaveRecords
<1>10. triggers["matrix"] = 1 =>
         /\ Len(matrixTimers) = 1 /\ i = 1 /\ matrix.state = "running"
  BY <1>2 DEF JobInv, JobsHaveRecords
<1>11. JobsHaveRecords'
  <2>1. triggers'["matrix"] = 1 =>
          \/ Len(matrixTimers') = 1 /\ matrixTimers'[1] = matrix'.progress /\ matrix'.state = "running"
          \/ matrixTimers' = <<>> /\ matrix'.progress = Full /\ matrix'.state = "completed"
    <3>1. CASE prog >= Full
      <4>1. prog = Full /\ matrix'.state = "completed"
        BY <1>3, <1>4, <3>1, MvpAssumption
      <4>2. triggers["matrix"] = 1 => matrixTimers' = <<>>
        <5>1. triggers["matrix"] = 1 => Len(matrixTimers') = 0
          <6>1. Len(matrixTimers') = Len(matrixTimers) - 1
            BY <1>7, <3>1, Zenon
          <6>2. QED
            BY <1>10, <6>1
        <5>2. Len(matrixTimers') = 0 => matrixTimers' = <<>>
          <6>1. matrixTimers' \in Seq(0..Full - 1)
            BY <1>7
          <6>2. QED
            BY <6>1, EmptySeq
        <5>3. QED
          BY <5>1, <5>2
      <4>3. QED
        BY <1>4, <1>6, <4>1, <4>2
    <3>2. CASE ~(prog >= Full)
      BY <1>4, <1>6, <1>7, <1>10, <3>2
    <3>3. QED
      BY <3>1, <3>2
  <2>2. encryptTimers' # <<>> \/ status' = "ENCRYPTED" => encryption' \in EncryptionJob
    BY <1>4 DEF JobInv, JobsHaveRecords
  <2>3. QED
    BY <1>4, <1>6, <1>9, <2>1, <2>2 DEF JobsHaveRecords
<1>12. QED
  BY <1>4, <1>8, <1>11 DEF JobInv

LEMMA EncryptKeeps ==
    ASSUME JobType, JobInv,
           TriggerEncrypt \/ \E i \in DOMAIN encryptTimers : EncryptTick(i)
    PROVE  JobType' /\ JobInv'
<1>1. CASE TriggerEncrypt
  <2>1. /\ encryption' = [step |-> "encrypting", distributed |-> FALSE]
        /\ status' = "ENCRYPTING" /\ encryptTimers' = Append(encryptTimers, 0)
        /\ UNCHANGED <<matrix, matrixTimers, timeouts>>
    BY <1>1 DEF TriggerEncrypt
  <2>2. triggers' \in [Jobs -> Nat] /\ triggers'["matrix"] = triggers["matrix"]
    BY <1>1, TriggerCounts, JobsAre DEF TriggerEncrypt
  <2>3. encryption' \in EncryptionJob
    BY <2>1 DEF EncryptionJob, Steps
  <2>4. encryptTimers' \in Seq(0..4)
    BY <2>1 DEF JobType
  <2>5. JobType'
    BY <2>1, <2>2, <2>3, <2>4 DEF JobType
  <2>6. QED
    BY <2>1, <2>2, <2>3, <2>5 DEF JobInv, JobsHaveRecords
<1>2. ASSUME NEW i \in DOMAIN encryptTimers, EncryptTick(i) PROVE JobType' /\ JobInv'
  <2> DEFINE stepIdx == encryptTimers[i] + 1
  <2>1. /\ encryptTimers \in Seq(0..4) /\ i \in 1..Len(encryptTimers)
        /\ encryptTimers # <<>> /\ encryptTimers[i] \in 0..4 /\ stepIdx \in 1..5
    BY DEF JobType
  <2>2. /\ encryption' = IF stepIdx >= 5 THEN [step |-> "completed", distributed |-> TRUE]
                         ELSE [step |-> EncryptSteps[stepIdx + 1],
                               distributed |-> encryption.distributed \/ stepIdx >= 3]
        /\ status' = IF stepIdx >= 5 THEN "ENCRYPTED" ELSE status
        /\ encryptTimers' = IF stepIdx >= 5 THEN RemoveAt(encryptTimers, i)
                            ELSE [encryptTimers EXCEPT ![i] = stepIdx]
        /\ UNCHANGED <<matrix, matrixTimers, timeouts, triggers>>
    BY <1>2 DEF EncryptTick, EncryptSteps
  <2> HIDE DEF stepIdx
  <2>3. encryption \in EncryptionJob /\ encryption.distributed \in BOOLEAN
    BY <2>1 DEF JobInv, JobsHaveRecords, EncryptionJob
  <2>4. ~(stepIdx >= 5) => EncryptSteps[stepIdx + 1] \in Steps /\ stepIdx \in 0..4
    BY <2>1 DEF EncryptSteps, Steps
  <2>5. encryption' \in EncryptionJob
    BY <2>2, <2>3, <2>4 DEF EncryptionJob, Steps
  <2>6. encryptTimers' \in Seq(0..4)
    BY <2>1, <2>2, <2>4, RemoveAtType, ExceptSeq
  <2>7. JobType'
    BY <2>2, <2>5, <2>6 DEF JobType
  <2>8. JobsHaveRecords'
    BY <2>2, <2>5 DEF JobInv, JobsHaveRecords
  <2>9. status' = "ENCRYPTED" => encryption'.distributed
    <3>1. CASE stepIdx >= 5
      BY <2>2, <3>1
    <3>2. CASE ~(stepIdx >= 5)
      BY <2>2, <3>2 DEF JobInv
    <3>3. QED
      BY <3>1, <3>2
  <2>10. QED
    BY <2>7, <2>8, <2>9 DEF JobInv
<1>3. QED
  BY <1>1, <1>2

LEMMA OtherJobsKeep ==
    ASSUME JobType, JobInv,
           \/ SetBlueprint \/ Activate \/ Publish
           \/ TriggerCollusion \/ CollusionDone \/ TriggerEquate \/ EquateDone
    PROVE  JobType' /\ JobInv'
<1>1. UNCHANGED <<matrix, matrixTimers, encryption, encryptTimers>>
  BY DEF SetBlueprint, Activate, Publish, SetStatus, TriggerCollusion, CollusionDone, TriggerEquate,
         EquateDone
<1>2. status' = status \/ status' # "ENCRYPTED"
  BY DEF SetBlueprint, Activate, Publish, SetStatus, TriggerCollusion, CollusionDone, TriggerEquate,
         EquateDone
<1>3. triggers' \in [Jobs -> Nat] /\ triggers'["matrix"] = triggers["matrix"]
  BY TriggerCounts, JobsAre DEF JobType, SetBlueprint, Activate, Publish, SetStatus, TriggerCollusion,
         CollusionDone, TriggerEquate, EquateDone
<1>4. timeouts' \in [collusion : Nat, equate : Nat]
  BY DEF JobType, SetBlueprint, Activate, Publish, SetStatus, TriggerCollusion, CollusionDone,
         TriggerEquate, EquateDone
<1>5. JobType'
  BY <1>1, <1>3, <1>4 DEF JobType
<1>6. QED
  BY <1>1, <1>2, <1>3, <1>5 DEF JobInv, JobsHaveRecords
(***************************************************************************)
(* The bank, the sessions and the submissions.                             *)
(***************************************************************************)
\* GradedOnOwnPaper of one submission.
WellGraded(sub) ==
    /\ sub.score = Score(sessions[sub.session].paper, sub.sheet)
    /\ sub.equatedScore \in Clamp(sub.score - Spread)..Clamp(sub.score + Spread)

LEMMA SubmissionIs ==
    ASSUME DataType, NEW i \in DOMAIN submissions
    PROVE  /\ submissions[i] \in Submission
           /\ submissions[i].session \in Sessions /\ submissions[i].sheet \in Sheets
           /\ submissions[i].score \in 0..PaperLength /\ submissions[i].score \in Int
<1>1. submissions[i] \in Submission
  BY SeqMember DEF DataType
<1>2. QED
  BY <1>1, MvpAssumption DEF Submission

LEMMA DataKept ==
    ASSUME DataType, DataInv, UNCHANGED <<bank, sessions, submissions>>
    PROVE  DataType' /\ DataInv'
BY DEF DataType, DataInv, SubmissionsHaveSessions, GradedOnOwnPaper

LEMMA BankKeeps ==
    ASSUME DataType, DataInv, CreateQuestion \/ DeleteQuestion
    PROVE  DataType' /\ DataInv'
<1>1. UNCHANGED <<sessions, submissions>>
  BY DEF CreateQuestion, DeleteQuestion
<1>2. bank \in Seq(Question)
  BY DEF DataType
<1>3. CASE CreateQuestion
  <2>1. PICK q \in Questions : bank' = Append(bank, [id |-> q, deleted |-> FALSE])
    BY <1>3 DEF CreateQuestion
  <2>2. [id |-> q, deleted |-> FALSE] \in Question
    BY DEF Question
  <2>3. bank' \in Seq(Question)
    BY <1>2, <2>1, <2>2, AppendProperties
  <2>4. QED
    BY <1>1, <2>3 DEF DataType, DataInv, SubmissionsHaveSessions, GradedOnOwnPaper
<1>4. CASE DeleteQuestion
  <2>1. PICK i \in DOMAIN bank : bank' = [bank EXCEPT ![i].deleted = TRUE]
    BY <1>4 DEF DeleteQuestion
  <2>2. i \in 1..Len(bank) /\ bank[i] \in Question
    BY <1>2, SeqMember
  <2>3. [bank[i] EXCEPT !.deleted = TRUE] \in Question
    BY <2>2 DEF Question
  <2>4. bank' \in Seq(Question)
    BY <1>2, <2>1, <2>2, <2>3, ExceptSeq
  <2>5. QED
    BY <1>1, <2>4 DEF DataType, DataInv, SubmissionsHaveSessions, GradedOnOwnPaper
<1>5. QED
  BY <1>3, <1>4

LEMMA StartSessionKeeps ==
    ASSUME DataType, DataInv, NEW c \in Candidates, NEW s \in Sessions, StartSession(c, s)
    PROVE  /\ DataType' /\ DataInv'
           /\ \A i \in DOMAIN submissions :
                 sessions'[submissions[i].session] = sessions[submissions[i].session]
<1>1. /\ sessions[s] = None
      /\ sessions' = [sessions EXCEPT ![s] = [candidate |-> c, paper |-> GeneratePaper(c)]]
      /\ UNCHANGED <<bank, submissions>>
  BY DEF StartSession
<1>2. DOMAIN GeneratePaper(c) = 1..PaperLength
  BY DEF GeneratePaper
<1>3. /\ DOMAIN sessions' = Sessions /\ sessions'[s].paper = GeneratePaper(c)
      /\ \A x \in Sessions : x # s => sessions'[x] = sessions[x]
  BY <1>1 DEF DataType
<1>4. DataType'
  BY <1>1, <1>2, <1>3 DEF DataType
<1>5. \A i \in DOMAIN submissions :
         sessions'[submissions[i].session] = sessions[submissions[i].session]
  BY <1>1, <1>3, SubmissionIs DEF DataInv, SubmissionsHaveSessions
<1>6. DataInv'
  BY <1>1, <1>5 DEF DataInv, SubmissionsHaveSessions, GradedOnOwnPaper
<1>7. QED
  BY <1>4, <1>5, <1>6

LEMMA SubmitKeeps ==
    ASSUME DataType, DataInv, NEW s \in Sessions, NEW sheet \in Sheets, Submit(s, sheet)
    PROVE  /\ DataType' /\ DataInv'
           /\ DOMAIN submissions \subseteq DOMAIN submissions'
           /\ \A i \in DOMAIN submissions : submissions'[i] = submissions[i]
           /\ \A i \in DOMAIN submissions' : \A j \in DOMAIN submissions :
                 i \notin DOMAIN submissions => j < i
<1> DEFINE new == [session |-> s, sheet |-> sheet, score |-> Graded(s, sheet),
                   equatedScore |-> Graded(s, sheet), applied |-> FALSE]
<1>1. /\ sessions[s] # None /\ submissions' = Append(submissions, new)
      /\ UNCHANGED <<bank, sessions>>
  BY DEF Submit
<1>2. Graded(s, sheet) \in 0..PaperLength
  <2>1. DOMAIN sessions[s].paper = 1..PaperLength
    BY <1>1 DEF DataType
  <2>2. QED
    BY <2>1, ScoreType DEF Graded
<1>3. new \in Submission
  BY <1>2 DEF Submission
<1>4. WellGraded(new)
  <2>1. Graded(s, sheet) \in Int /\ 0 \in (-Spread)..Spread
    BY <1>2, MvpAssumption
  <2>2. Clamp(Graded(s, sheet) + 0) \in
           Clamp(Graded(s, sheet) - Spread)..Clamp(Graded(s, sheet) + Spread)
    BY <2>1, EquatedStaysClose
  <2>3. Clamp(Graded(s, sheet) + 0) = Graded(s, sheet)
    BY <1>2, <2>1, ClampType
  <2>4. QED
    BY <2>2, <2>3 DEF WellGraded, Graded
<1>5. new.session = s
  OBVIOUS
<1> HIDE DEF new
<1>6. /\ submissions \in Seq(Submission) /\ submissions' \in Seq(Submission)
      /\ Len(submissions) \in Nat /\ DOMAIN submissions = 1..Len(submissions)
      /\ DOMAIN submissions' = 1..Len(submissions) + 1
      /\ \A i \in 1..Len(submissions) : submissions'[i] = submissions[i]
      /\ submissions'[Len(submissions) + 1] = new
  <2>1. submissions \in Seq(Submission)
    BY DEF DataType
  <2>2. QED
    BY <1>1, <1>3, <2>1, AppendProperties, LenProperties
<1>7. DataType'
  BY <1>1, <1>6 DEF DataType
<1>8. DOMAIN submissions' = DOMAIN submissions \union {Len(submissions) + 1}
  BY <1>6
<1>9. SubmissionsHaveSessions'
  BY <1>1, <1>5, <1>6, <1>8 DEF DataInv, SubmissionsHaveSessions
<1>10. \A i \in DOMAIN submissions : WellGraded(submissions[i])
  BY DEF DataInv, GradedOnOwnPaper, WellGraded
<1>11. \A i \in DOMAIN submissions' : WellGraded(submissions'[i])
  BY <1>4, <1>6, <1>8, <1>10
<1>12. GradedOnOwnPaper'
  BY <1>1, <1>11 DEF GradedOnOwnPaper, WellGraded
<1>13. QED
  BY <1>6, <1>7, <1>8, <1>9, <1>12 DEF DataInv

LEMMA EquateDoneKeeps ==
    ASSUME DataType, DataInv, EquateDone
    PROVE  /\ DataType' /\ DataInv'
           /\ DOMAIN submissions' = DOMAIN submissions /\ sessions' = sessions
           /\ \A i \in DOMAIN submissions :
                 /\ submissions'[i].session = submissions[i].session
                 /\ submissions'[i].sheet = submissions[i].sheet
<1>1. PICK shift \in [DOMAIN submissions -> (-Spread)..Spread] :
         submissions' = [i \in DOMAIN submissions |-> Equated(submissions[i], shift[i])]
  BY DEF EquateDone
<1>2. UNCHANGED <<bank, sessions>>
  BY DEF EquateDone
<1>3. ASSUME NEW i \in DOMAIN submissions
      PROVE  /\ submissions'[i] \in Submission /\ WellGraded(submissions'[i])
             /\ submissions'[i].session = submissions[i].session
             /\ submissions'[i].sheet = submissions[i].sheet
  <2> DEFINE sub == submissions[i]
  <2>1. /\ sub \in Submission /\ sub.score \in Int /\ shift[i] \in (-Spread)..Spread
        /\ sub.score + shift[i] \in Int
    BY SubmissionIs, MvpAssumption
  <2>2. /\ Clamp(sub.score + shift[i]) \in Clamp(sub.score - Spread)..Clamp(sub.score + Spread)
        /\ Clamp(sub.score + shift[i]) \in 0..PaperLength
    BY <2>1, EquatedStaysClose, ClampType
  <2>3. sub.score = Score(sessions[sub.session].paper, sub.sheet)
    BY DEF DataInv, GradedOnOwnPaper
  <2>4. submissions'[i] =
           [session |-> sub.session, sheet |-> sub.sheet, score |-> sub.score,
            equatedScore |-> Clamp(sub.score + shift[i]), applied |-> TRUE]
    BY <1>1, <2>1 DEF Equated, Submission
  <2> HIDE DEF sub
  <2>5. submissions'[i] \in Submission
    BY <2>1, <2>2, <2>4 DEF Submission
  <2>6. WellGraded(submissions'[i])
    BY <2>2, <2>3, <2>4 DEF WellGraded
  <2>7. submissions'[i].session = sub.session /\ submissions'[i].sheet = sub.sheet
    BY <2>4
  <2>8. QED
    BY <2>5, <2>6, <2>7 DEF sub
<1>4. /\ DOMAIN submissions' = DOMAIN submissions /\ DOMAIN submissions = 1..Len(submissions)
      /\ Len(submissions) \in Nat
  <2>1. submissions \in Seq(Submission)
    BY DEF DataType
  <2>2. QED
    BY <1>1, <2>1, LenProperties
<1>5. submissions' \in Seq(Submission)
  <2>1. submissions' \in [1..Len(submissions) -> Submission]
    BY <1>1, <1>3, <1>4
  <2>2. QED
    BY <1>4, <2>1, SeqDef
<1>6. DataType'
  BY <1>2, <1>5 DEF DataType
<1>7. DataInv'
  BY <1>2, <1>3, <1>4 DEF DataInv, SubmissionsHaveSessions, GradedOnOwnPaper, WellGraded
<1>8. QED
  BY <1>2, <1>3, <1>4, <1>6, <1>7
(***************************************************************************)
(* The steps and the invariant.                                            *)
(***************************************************************************)
JobStep ==
    \/ TriggerMatrix \/ (\E i \in DOMAIN matrixTimers : MatrixTick(i))
    \/ TriggerEncrypt \/ (\E i \in DOMAIN encryptTimers : EncryptTick(i))
    \/ SetBlueprint \/ Activate \/ Publish
    \/ TriggerCollusion \/ CollusionDone \/ TriggerEquate

LEMMA NextIs ==
    Next => \/ JobStep \/ EquateDone \/ CreateQuestion \/ DeleteQuestion
            \/ \E c \in Candidates, s \in Sessions : StartSession(c, s)
            \/ \E s \in Sessions, sheet \in Sheets : Submit(s, sheet)
BY DEF Next, JobStep

LEMMA JobStepKeeps ==
    ASSUME JobType, JobInv, JobStep
    PROVE  JobType' /\ JobInv' /\ UNCHANGED <<bank, sessions, submissions>>
<1>1. JobType' /\ JobInv'
  BY TriggerMatrixKeeps, MatrixTickKeeps, EncryptKeeps, OtherJobsKeep DEF JobStep
<1>2. UNCHANGED <<bank, sessions, submissions>>
  BY DEF JobStep, TriggerMatrix, MatrixTick, TriggerEncrypt, EncryptTick, SetBlueprint, Activate,
         Publish, SetStatus, TriggerCollusion, CollusionDone, TriggerEquate
<1>3. QED
  BY <1>1, <1>2

LEMMA StaffKept ==
    ASSUME JobType, JobInv, UNCHANGED staff
    PROVE  JobType' /\ JobInv'
BY DEF staff, JobType, JobInv, JobsHaveRecords

LEMMA IInvInit == Init => IInv
<1> SUFFICES ASSUME Init PROVE IInv
  OBVIOUS
<1>1. JobType /\ JobInv
  <2>1. /\ matrixTimers = <<>> /\ encryptTimers = <<>> /\ matrix = None /\ encryption = None
        /\ status = "draft" /\ triggers = [j \in Jobs |-> 0]
        /\ timeouts = [collusion |-> 0, equate |-> 0]
    BY DEF Init
  <2>2. triggers \in [Jobs -> Nat] /\ triggers["matrix"] = 0
    BY <2>1, JobsAre
  <2>3. matrixTimers \in Seq(0..Full - 1) /\ encryptTimers \in Seq(0..4)
    BY <2>1
  <2>4. timeouts \in [collusion : Nat, equate : Nat]
    BY <2>1
  <2>5. QED
    BY <2>1, <2>2, <2>3, <2>4 DEF JobType, JobInv, JobsHaveRecords
<1>2. DataType /\ DataInv
  <2>1. submissions = <<>> /\ sessions = [s \in Sessions |-> None]
    BY DEF Init
  <2>2. bank \in Seq(Question)
    <3>1. /\ bank = [i \in DOMAIN InitialBank |-> [id |-> InitialBank[i], deleted |-> FALSE]]
          /\ DOMAIN InitialBank = 1..Len(InitialBank) /\ Len(InitialBank) \in Nat
      BY MvpAssumption, LenProperties DEF Init
    <3>2. \A i \in DOMAIN InitialBank : InitialBank[i] \in Questions
      BY MvpAssumption, SeqMember
    <3>3. bank \in [1..Len(InitialBank) -> Question]
      BY <3>1, <3>2 DEF Question
    <3>4. QED
      BY <3>1, <3>3, SeqDef
  <2>3. QED
    BY <2>1, <2>2 DEF DataType, DataInv, SubmissionsHaveSessions, GradedOnOwnPaper
<1>3. QED
  BY <1>1, <1>2 DEF IInv, TypeOK

LEMMA IInvStep == IInv /\ [Next]_vars => IInv'
<1> SUFFICES ASSUME IInv, [Next]_vars PROVE IInv'
  OBVIOUS
<1>1. JobType /\ JobInv /\ DataType /\ DataInv
  BY DEF IInv, TypeOK
<1>2. CASE UNCHANGED vars
  BY <1>1, <1>2, StaffKept, DataKept DEF vars, IInv, TypeOK
<1>3. CASE JobStep
  BY <1>1, <1>3, JobStepKeeps, DataKept DEF IInv, TypeOK
<1>4. CASE EquateDone
  BY <1>1, <1>4, OtherJobsKeep, EquateDoneKeeps DEF IInv, TypeOK
<1>5. CASE CreateQuestion \/ DeleteQuestion
  <2>1. UNCHANGED staff
    BY <1>5 DEF CreateQuestion, DeleteQuestion
  <2>2. QED
    BY <1>1, <1>5, <2>1, BankKeeps, StaffKept DEF IInv, TypeOK
<1>6. ASSUME NEW c \in Candidates, NEW s \in Sessions, StartSession(c, s) PROVE IInv'
  <2>1. UNCHANGED staff
    BY <1>6 DEF StartSession
  <2>2. QED
    BY <1>1, <1>6, <2>1, StartSessionKeeps, StaffKept DEF IInv, TypeOK
<1>7. ASSUME NEW s \in Sessions, NEW sheet \in Sheets, Submit(s, sheet) PROVE IInv'
  <2>1. UNCHANGED staff
    BY <1>7 DEF Submit
  <2>2. QED
    BY <1>1, <1>7, <2>1, SubmitKeeps, StaffKept DEF IInv, TypeOK
<1>8. QED
  BY <1>2, <1>3, <1>4, <1>5, <1>6, <1>7, NextIs

LEMMA InvariantHolds == Spec => []IInv
BY IInvInit, IInvStep, PTL DEF Spec

(***************************************************************************)
(* The result shown.                                                       *)
(***************************************************************************)
\* While submissions are only added at the end, keep their sessions, and the
\* sessions their candidates, find() meets the same one.
LEMMA SameResult ==
    ASSUME DataType, DataType', NEW c \in Candidates, MyResult(c) # None,
           DOMAIN submissions \subseteq DOMAIN submissions',
           \A i \in DOMAIN submissions' : \A j \in DOMAIN submissions :
              i \notin DOMAIN submissions => j < i,
           \A i \in DOMAIN submissions :
              sessions'[submissions'[i].session] = sessions[submissions[i].session]
    PROVE  \E i \in DOMAIN submissions :
              MyResult(c) = submissions[i] /\ MyResult(c)' = submissions'[i]
<1> DEFINE S == SubmissionsOf(c)
           T == SubmissionsOf(c)'
<1>1. /\ S \subseteq DOMAIN submissions /\ S # {} /\ S \subseteq T
      /\ \A i \in T : i \in DOMAIN submissions' /\ (i \in DOMAIN submissions => i \in S)
  BY DEF MyResult, SubmissionsOf
<1>2. DOMAIN submissions \subseteq Nat /\ DOMAIN submissions' \subseteq Nat
  <2>1. submissions \in Seq(Submission) /\ submissions' \in Seq(Submission)
    BY DEF DataType
  <2>2. QED
    BY <2>1, LenProperties
<1>3. MyResult(c) = submissions[Min(S)] /\ MyResult(c)' = submissions'[Min(T)]
  BY <1>1 DEF MyResult
<1> HIDE DEF S, T
<1>4. Min(S) \in S /\ \A i \in S : Min(S) <= i
  BY <1>1, <1>2, LeastIsMember
<1>5. Min(T) \in T /\ \A i \in T : Min(T) <= i
  <2>1. T \in SUBSET Nat /\ T # {}
    BY <1>1, <1>2
  <2>2. QED
    BY <2>1, LeastIsMember
<1>6. Min(T) \in DOMAIN submissions
  <2> SUFFICES ASSUME Min(T) \notin DOMAIN submissions PROVE FALSE
    OBVIOUS
  <2>1. Min(S) < Min(T) /\ Min(T) <= Min(S) /\ Min(S) \in Nat /\ Min(T) \in Nat
    BY <1>1, <1>2, <1>4, <1>5
  <2>2. QED
    BY <2>1
<1>7. Min(T) = Min(S)
  <2>1. Min(T) \in S /\ Min(S) <= Min(T) /\ Min(T) <= Min(S) /\ Min(S) \in Nat /\ Min(T) \in Nat
    BY <1>1, <1>2, <1>4, <1>5, <1>6
  <2>2. QED
    BY <2>1
<1>8. QED
  BY <1>1, <1>3, <1>4, <1>7

LEMMA ResultStep ==
    ASSUME IInv, IInv', [Next]_vars, NEW c \in Candidates, MyResult(c) # None
    PROVE  /\ MyResult(c)'.session = MyResult(c).session
           /\ MyResult(c)'.sheet = MyResult(c).sheet
           /\ ShownScore(MyResult(c)') # ShownScore(MyResult(c)) =>
                 timeouts'.equate < timeouts.equate
<1>1. DataType /\ DataInv /\ DataType' /\ JobType
  BY DEF IInv, TypeOK
<1>2. CASE EquateDone
  <2>1. /\ DOMAIN submissions' = DOMAIN submissions /\ sessions' = sessions
        /\ \A i \in DOMAIN submissions : /\ submissions'[i].session = submissions[i].session
                                         /\ submissions'[i].sheet = submissions[i].sheet
    BY <1>1, <1>2, EquateDoneKeeps
  <2>2. PICK i \in DOMAIN submissions :
           MyResult(c) = submissions[i] /\ MyResult(c)' = submissions'[i]
    BY <1>1, <2>1, SameResult
  <2>3. timeouts'.equate < timeouts.equate
    BY <1>1, <1>2 DEF EquateDone, JobType
  <2>4. QED
    BY <2>1, <2>2, <2>3
<1>3. CASE (UNCHANGED vars) \/ ~EquateDone
  <2>1. /\ DOMAIN submissions \subseteq DOMAIN submissions'
        /\ \A i \in DOMAIN submissions' : \A j \in DOMAIN submissions :
              i \notin DOMAIN submissions => j < i
        /\ \A i \in DOMAIN submissions :
              /\ submissions'[i] = submissions[i]
              /\ sessions'[submissions[i].session] = sessions[submissions[i].session]
    <3>1. CASE UNCHANGED <<sessions, submissions>>
      BY <3>1
    <3>2. CASE \E x \in Candidates, s \in Sessions : StartSession(x, s)
      <4>1. submissions' = submissions
        BY <3>2 DEF StartSession
      <4>2. QED
        BY <1>1, <3>2, <4>1, StartSessionKeeps
    <3>3. CASE \E s \in Sessions, sheet \in Sheets : Submit(s, sheet)
      <4>1. sessions' = sessions
        BY <3>3 DEF Submit
      <4>2. QED
        BY <1>1, <3>3, <4>1, SubmitKeeps
    <3>4. CASE (UNCHANGED vars) \/ JobStep \/ CreateQuestion \/ DeleteQuestion
      <4>1. UNCHANGED <<sessions, submissions>>
        BY <3>4, JobStepKeeps DEF IInv, TypeOK, vars, CreateQuestion, DeleteQuestion
      <4>2. QED
        BY <3>1, <4>1
    <3>5. QED
      BY <1>3, <3>2, <3>3, <3>4, NextIs
  <2>2. PICK i \in DOMAIN submissions :
           MyResult(c) = submissions[i] /\ MyResult(c)' = submissions'[i]
    BY <1>1, <2>1, SameResult
  <2>3. QED
    BY <2>1, <2>2
<1>4. QED
  BY <1>2, <1>3

(***************************************************************************)
(* The theorems.                                                           *)
(***************************************************************************)
\* The job records, the closures' counters, the bank, the sessions' papers
\* and the submissions keep their types.
THEOREM MvpTypeCorrect == Spec => []TypeOK
<1>1. IInv => TypeOK
  BY DEF IInv
<1>2. QED
  BY <1>1, InvariantHolds, PTL

\* However many intervals of repeated triggers write to one record, an
\* encrypted exam is distributed, and a matrix triggered once is completed
\* exactly when its progress is full.
THEOREM CompletedIsDone == Spec => []CompletedMeansDone
<1>1. IInv => CompletedMeansDone
  <2> SUFFICES ASSUME IInv PROVE CompletedMeansDone
    OBVIOUS
  <2>1. JobType /\ JobInv
    BY DEF IInv, TypeOK
  <2>2. ASSUME triggers["matrix"] = 1 PROVE matrix.state = "completed" <=> matrix.progress = Full
    <3>1. CASE Len(matrixTimers) = 1 /\ matrixTimers[1] = matrix.progress /\ matrix.state = "running"
      <4>1. matrixTimers \in Seq(0..Full - 1)
        BY <2>1 DEF JobType
      <4>2. 1 \in DOMAIN matrixTimers
        BY <3>1, <4>1, LenProperties
      <4>3. matrixTimers[1] \in 0..Full - 1
        BY <4>1, <4>2, SeqMember
      <4>4. QED
        BY <3>1, <4>3, MvpAssumption
    <3>2. CASE matrix.progress = Full /\ matrix.state = "completed"
      BY <3>2
    <3>3. QED
      BY <2>1, <2>2, <3>1, <3>2 DEF JobInv, JobsHaveRecords
  <2>3. QED
    BY <2>1, <2>2 DEF CompletedMeansDone, JobInv
<1>2. QED
  BY <1>1, InvariantHolds, PTL

\* For any paper, bank and number of equatings, a submission's score is that
\* of the session's own paper, and its equated score stays within one shift.
THEOREM GradesAreOwn == Spec => []GradedOnOwnPaper
<1>1. IInv => GradedOnOwnPaper
  BY DEF IInv, DataInv
<1>2. QED
  BY <1>1, InvariantHolds, PTL

\* What results/me shows a candidate stays the same submission whatever is
\* handed in later, and changes its score only with an equating.
THEOREM ResultsStand == Spec => ResultStands
<1>1. IInv /\ IInv' /\ [Next]_vars =>
         [\A c \in Candidates : MyResult(c) # None =>
             /\ MyResult(c)'.session = MyResult(c).session
             /\ MyResult(c)'.sheet = MyResult(c).sheet
             /\ ShownScore(MyResult(c)') # ShownScore(MyResult(c)) =>
                   timeouts'.equate < timeouts.equate]_vars
  BY ResultStep
<1>2. QED
  BY <1>1, InvariantHolds, PTL DEF Spec, ResultStands

(***************************************************************************)
(* ExamSetup: what the services' requests have seen and still rely on.     *)
(***************************************************************************)
MsgStates == {Nothing, "queued", "leased"} \union Final
Forms == {"exam_id", "examId", "payload"}
Statuses == {Nothing, "created", "blueprint_defined", "matrix_generating"}
Asked == {Idle} \union [at : {"define"}, blueprint : Balanced]
                \union [at : {"mark", "publish", "job"}]
                \union [at : {"pending"}, job : Msgs]

TopicType == topic \in [Msgs -> MsgStates] /\ form \in [Msgs -> Forms] /\ faults \in Nat

ExamType ==
    /\ exam \in [status : Statuses, blueprint : Balanced \union {Nothing},
                 job : Msgs \union {Nothing}]
    /\ ask \in [Callers -> Asked]
    /\ found \in Balanced \union {Nothing} /\ overlapped \in BOOLEAN

At(c, place) == ask[c].at = place

\* A job is named in the document, or by the request that will name it.
JobIsNamed ==
    /\ exam.job # Nothing => exam.job \in Published("examId")
    /\ \A c \in Callers : At(c, "pending") => ask[c].job \in Published("examId")
    /\ (faults = 0 /\ Published("examId") # {} /\ exam.job = Nothing) =>
          \E c \in Callers : At(c, "pending")

\* What a request has checked of the status holds until it writes.
CheckHolds ==
    /\ \A c, d \in Callers : Checked(c) /\ Checked(d) => c = d
    /\ \A c \in Callers : At(c, "define") => exam.status \in Definable
    /\ \A c \in Callers : At(c, "mark") =>
          /\ exam.status = "blueprint_defined"
          /\ exam.blueprint = found /\ found \in Balanced

\* One request at most has set the status and publishes, and before it nobody.
JobIsOnly ==
    /\ \A c, d \in Callers : At(c, "publish") /\ At(d, "publish") => c = d
    /\ \A c \in Callers : At(c, "publish") =>
          exam.status = "matrix_generating" /\ Published("payload") = {}
    /\ \A m, n \in Published("payload") : m = n
    /\ Published("payload") # {} => exam.status = "matrix_generating"
    /\ exam.status = "matrix_generating" =>
          /\ exam.blueprint = found /\ found \in Balanced
          /\ faults = 0 => Published("payload") # {} \/ \E c \in Callers : At(c, "publish")

SetupInv == JobIsNamed /\ (~overlapped => CheckHolds /\ JobIsOnly)

(***************************************************************************)
(* MatrixSolver: who holds a message, and which draw the seats have.       *)
(***************************************************************************)
WorkerState == [at : {"idle", "loading", "solving", "writing"}, msg : Msgs \union {Nothing},
                holds : BOOLEAN, draw : Nat, sent : Nat]

SolverType ==
    /\ sender \in {"services", "hand"} /\ document \in {"map", "list", "missing"}
    /\ data \in BOOLEAN
    /\ worker \in [Callbacks -> WorkerState] /\ lapsed \subseteq Msgs
    /\ solve \in Nat
    /\ docs \in [Seats \union ({"stray"} \X Seats) -> Nat]
    /\ last \in [draw : Nat, msg : Msgs \union {Nothing}, sent : Nat, alone : BOOLEAN]
    /\ shown \in {"none", "running", "completed"}

Working(w) == worker[w].at \in {"solving", "writing"}
Taken(m) == m \in Msgs /\ form[m] = "exam_id" /\ topic[m] # Nothing
Pending(m) == form[m] = "exam_id" /\ topic[m] \in {"queued", "leased"}

\* A message is leased to one callback; a callback without it lost the lease.
LeaseHolds ==
    /\ \A w \in Callbacks : Doing(w, "idle") => ~worker[w].holds
    /\ \A w \in Callbacks : ~Doing(w, "idle") =>
          /\ Taken(JobOf(w))
          /\ IF worker[w].holds THEN topic[JobOf(w)] = "leased" ELSE JobOf(w) \in lapsed
    /\ \A w, v \in Callbacks :
          worker[w].holds /\ worker[v].holds /\ JobOf(w) = JobOf(v) => w = v

\* Every draw is of one callback, and what it has stored is what `last` says,
\* if its batch was the last.
DrawHolds ==
    /\ \A w \in Callbacks : worker[w].sent <= Len(SeatOrder)
    /\ \A w \in Callbacks : worker[w].sent > 0 => Doing(w, "writing") /\ last.draw > 0
    /\ \A w \in Callbacks : Working(w) => data /\ worker[w].draw \in 1 .. solve
    /\ \A w, v \in Callbacks :
          Working(w) /\ Working(v) /\ worker[w].draw = worker[v].draw => w = v
    /\ \A w \in Callbacks : Working(w) /\ worker[w].draw = last.draw =>
          worker[w].sent = last.sent /\ JobOf(w) = last.msg

\* The seats hold the last draw as far as it was stored, unless another's
\* batches came in between.
SeatsHold ==
    /\ last.draw <= solve /\ last.sent <= Len(SeatOrder)
    /\ last.draw > 0 => data /\ Taken(last.msg)
    /\ last.draw = 0 => \A p \in Seats : docs[p] = 0
    /\ last.alone => \A k \in 1 .. last.sent :
          SeatOrder[k][1] \notin Underscored => docs[SeatOrder[k]] = last.draw

\* A draw that is broken off is replaced, unless the message was with two
\* callbacks: the message waits.
ReplacementWaits ==
    /\ (last.draw > 0 /\ last.sent < Len(SeatOrder) /\ last.msg \notin lapsed) => Pending(last.msg)
    /\ \A w \in Callbacks :
          (worker[w].sent > 0 /\ last.msg = JobOf(w) /\ JobOf(w) \notin lapsed) =>
              last.draw = worker[w].draw

\* What the document says, papers or not.
ShownHolds ==
    /\ shown # "none" => data
    /\ (\E m \in Msgs : topic[m] = "stored") => last.draw > 0
    /\ (shown = "completed" /\ last.draw = 0 /\ lapsed = {}) => \E m \in Msgs : Pending(m)
    /\ (faults = 0 /\ shown # "completed" /\ (last.draw > 0 \/ \E w \in Callbacks : Doing(w, "writing")))
          => \E w \in Callbacks : Doing(w, "solving")

MatrixTypeOK == TopicType /\ ExamType /\ SolverType
SolverInv == LeaseHolds /\ DrawHolds /\ SeatsHold /\ ReplacementWaits /\ ShownHolds
MatrixInv == MatrixTypeOK /\ (sender = "services" => SetupInv) /\ SolverInv

(***************************************************************************)
(* The requests.                                                           *)
(***************************************************************************)
LEMMA Apart ==
    /\ Nothing \notin Msgs /\ Nothing \notin Balanced
    /\ Nothing \notin Final /\ "queued" # Nothing /\ "leased" # Nothing
BY SetupAssumption DEF Nothing, Final

\* A message that is sent was not published, and is from then on.
LEMMA SendPublishes ==
    ASSUME TopicType, NEW m \in Msgs, NEW field \in Forms, Send(m, field)
    PROVE  /\ topic' \in [Msgs -> MsgStates] /\ form' \in [Msgs -> Forms]
           /\ topic[m] = Nothing /\ topic'[m] = "queued" /\ form'[m] = field
           /\ \A n \in Msgs \ {m} : topic'[n] = topic[n] /\ form'[n] = form[n]
           /\ Published(field)' = Published(field) \union {m}
           /\ \A other : other # field => Published(other)' = Published(other)
<1>1. /\ topic' \in [Msgs -> MsgStates] /\ form' \in [Msgs -> Forms]
      /\ topic[m] = Nothing /\ topic'[m] = "queued" /\ form'[m] = field
      /\ \A n \in Msgs \ {m} : topic'[n] = topic[n] /\ form'[n] = form[n]
  BY DEF TopicType, Send, MsgStates
<1>2. QED
  BY <1>1, Apart DEF Published

LEMMA GotoMoves ==
    ASSUME ExamType, NEW c \in Callers, NEW to \in Asked, Goto(c, to)
    PROVE  /\ ask' \in [Callers -> Asked] /\ ask'[c] = to
           /\ \A d \in Callers \ {c} : ask'[d] = ask[d]
BY DEF ExamType, Goto

LEMMA RequestIs ==
    ASSUME NEW place \in {"mark", "publish", "job"}
    PROVE  [at |-> place] \in Asked /\ Idle \in Asked
BY DEF Asked

LEMMA SetupTypeStep ==
    ASSUME TopicType, ExamType, SetupNext
    PROVE  TopicType' /\ ExamType'
<1> USE Apart
<1>1. CASE Create
  BY <1>1 DEF Create, TopicType, ExamType, Statuses
<1>2. ASSUME NEW c \in Callers, NEW b \in Blueprints, CheckBlueprint(c, b)
      PROVE  TopicType' /\ ExamType'
  <2>1. [at |-> "define", blueprint |-> b] \in Asked
    BY <1>2 DEF CheckBlueprint, Asked
  <2>2. ask' \in [Callers -> Asked]
    BY <1>2, <2>1, GotoMoves DEF CheckBlueprint
  <2>3. QED
    BY <1>2, <2>2 DEF CheckBlueprint, Overlaps, TopicType, ExamType
<1>3. ASSUME NEW c \in Callers, DefineBlueprint(c)
      PROVE  TopicType' /\ ExamType'
  <2>1. ask[c].blueprint \in Balanced
    BY <1>3 DEF DefineBlueprint, ExamType, Asked, Idle
  <2>2. ask' \in [Callers -> Asked]
    BY <1>3, RequestIs, GotoMoves DEF DefineBlueprint
  <2>3. QED
    BY <1>3, <2>1, <2>2 DEF DefineBlueprint, TopicType, ExamType, Statuses
<1>4. ASSUME NEW c \in Callers, CheckSolver(c)
      PROVE  TopicType' /\ ExamType'
  <2>1. ask' \in [Callers -> Asked]
    BY <1>4, RequestIs, GotoMoves DEF CheckSolver
  <2>2. QED
    BY <1>4, <2>1 DEF CheckSolver, Overlaps, TopicType, ExamType
<1>5. ASSUME NEW c \in Callers, MarkGenerating(c)
      PROVE  TopicType' /\ ExamType'
  <2>1. ask' \in [Callers -> Asked]
    BY <1>5, RequestIs, GotoMoves DEF MarkGenerating
  <2>2. QED
    BY <1>5, <2>1 DEF MarkGenerating, TopicType, ExamType, Statuses
<1>6. ASSUME NEW c \in Callers, NEW m \in Msgs, PublishToMatrixSolver(c, m)
      PROVE  TopicType' /\ ExamType'
  <2>1. ask' \in [Callers -> Asked]
    BY <1>6, RequestIs, GotoMoves DEF PublishToMatrixSolver
  <2>2. topic' \in [Msgs -> MsgStates] /\ form' \in [Msgs -> Forms]
    BY <1>6, SendPublishes DEF PublishToMatrixSolver, Forms
  <2>3. QED
    BY <1>6, <2>1, <2>2 DEF PublishToMatrixSolver, TopicType, ExamType
<1>7. ASSUME NEW c \in Callers, LoadExam(c)
      PROVE  TopicType' /\ ExamType'
  <2>1. ask' \in [Callers -> Asked]
    BY <1>7, RequestIs, GotoMoves DEF LoadExam
  <2>2. QED
    BY <1>7, <2>1 DEF LoadExam, TopicType, ExamType
<1>8. ASSUME NEW c \in Callers, NEW m \in Msgs, PublishJob(c, m)
      PROVE  TopicType' /\ ExamType'
  <2>1. [at |-> "pending", job |-> m] \in Asked
    BY DEF Asked
  <2>2. ask' \in [Callers -> Asked]
    BY <1>8, <2>1, GotoMoves DEF PublishJob
  <2>3. topic' \in [Msgs -> MsgStates] /\ form' \in [Msgs -> Forms]
    BY <1>8, SendPublishes DEF PublishJob, Forms
  <2>4. QED
    BY <1>8, <2>2, <2>3 DEF PublishJob, TopicType, ExamType
<1>9. ASSUME NEW c \in Callers, RecordPending(c)
      PROVE  TopicType' /\ ExamType'
  <2>1. ask[c].job \in Msgs
    BY <1>9 DEF RecordPending, ExamType, Asked, Idle
  <2>2. ask' \in [Callers -> Asked]
    BY <1>9, RequestIs, GotoMoves DEF RecordPending
  <2>3. QED
    BY <1>9, <2>1, <2>2 DEF RecordPending, TopicType, ExamType
<1>10. ASSUME NEW c \in Callers, RequestFails(c)
       PROVE  TopicType' /\ ExamType'
  <2>1. ask' \in [Callers -> Asked]
    BY <1>10, RequestIs, GotoMoves DEF RequestFails
  <2>2. QED
    BY <1>10, <2>1 DEF RequestFails, TopicType, ExamType
<1>11. QED
  BY <1>1, <1>2, <1>3, <1>4, <1>5, <1>6, <1>7, <1>8, <1>9, <1>10 DEF SetupNext

LEMMA SamePublished ==
    ASSUME UNCHANGED <<topic, form>>
    PROVE  \A field : Published(field)' = Published(field)
BY DEF Published

\* Every request of SetupNext, by what it does to the document and the topic.
LEMMA SetupStepIs ==
    ASSUME SetupNext
    PROVE  \/ Create
           \/ \E c \in Callers, b \in Blueprints : CheckBlueprint(c, b)
           \/ \E c \in Callers : DefineBlueprint(c)
           \/ \E c \in Callers : CheckSolver(c)
           \/ \E c \in Callers : MarkGenerating(c)
           \/ \E c \in Callers, m \in Msgs : PublishToMatrixSolver(c, m)
           \/ \E c \in Callers : LoadExam(c)
           \/ \E c \in Callers, m \in Msgs : PublishJob(c, m)
           \/ \E c \in Callers : RecordPending(c)
           \/ \E c \in Callers : RequestFails(c)
BY DEF SetupNext

LEMMA JobIsNamedStep ==
    ASSUME TopicType, ExamType, JobIsNamed, SetupNext
    PROVE  JobIsNamed'
<1> DEFINE Elsewhere(c) == /\ \A field : Published(field)' = Published(field)
                           /\ exam'.job = exam.job /\ faults' = faults
                           /\ \A d \in Callers \ {c} : ask'[d] = ask[d]
                           /\ ask[c].at # "pending" /\ ask'[c].at # "pending"
<1>1. ASSUME NEW c \in Callers, Elsewhere(c) PROVE JobIsNamed'
  BY <1>1 DEF JobIsNamed, At
<1>2. CASE Create
  BY <1>2, SamePublished DEF Create, ExamType, JobIsNamed, At
<1>3. ASSUME NEW c \in Callers, NEW b \in Blueprints, CheckBlueprint(c, b)
      PROVE  JobIsNamed'
  <2>1. [at |-> "define", blueprint |-> b] \in Asked
    BY <1>3 DEF CheckBlueprint, Asked
  <2>2. Elsewhere(c)
    BY <1>3, <2>1, GotoMoves, SamePublished DEF CheckBlueprint, Idle
  <2>3. QED
    BY <1>1, <2>2
<1>4. ASSUME NEW c \in Callers, DefineBlueprint(c) PROVE JobIsNamed'
  <2>1. Elsewhere(c)
    BY <1>4, RequestIs, GotoMoves, SamePublished DEF DefineBlueprint, Idle, ExamType
  <2>2. QED
    BY <1>1, <2>1
<1>5. ASSUME NEW c \in Callers, CheckSolver(c) PROVE JobIsNamed'
  <2>1. Elsewhere(c)
    BY <1>5, RequestIs, GotoMoves, SamePublished DEF CheckSolver, Idle
  <2>2. QED
    BY <1>1, <2>1
<1>6. ASSUME NEW c \in Callers, MarkGenerating(c) PROVE JobIsNamed'
  <2>1. Elsewhere(c)
    BY <1>6, RequestIs, GotoMoves, SamePublished DEF MarkGenerating, ExamType
  <2>2. QED
    BY <1>1, <2>1
<1>7. ASSUME NEW c \in Callers, NEW m \in Msgs, PublishToMatrixSolver(c, m)
      PROVE  JobIsNamed'
  <2>1. Published("examId")' = Published("examId")
    BY <1>7, SendPublishes DEF PublishToMatrixSolver, Forms
  <2>2. /\ ask'[c] = Idle /\ \A d \in Callers \ {c} : ask'[d] = ask[d]
        /\ exam' = exam /\ faults' = faults /\ ask[c].at = "publish"
    BY <1>7, RequestIs, GotoMoves DEF PublishToMatrixSolver
  <2>3. QED
    BY <2>1, <2>2 DEF JobIsNamed, At, Idle
<1>8. ASSUME NEW c \in Callers, LoadExam(c) PROVE JobIsNamed'
  <2>1. Elsewhere(c)
    BY <1>8, RequestIs, GotoMoves, SamePublished DEF LoadExam, Idle
  <2>2. QED
    BY <1>1, <2>1
<1>9. ASSUME NEW c \in Callers, NEW m \in Msgs, PublishJob(c, m)
      PROVE  JobIsNamed'
  <2>1. Published("examId")' = Published("examId") \union {m}
    BY <1>9, SendPublishes DEF PublishJob, Forms
  <2>2. [at |-> "pending", job |-> m] \in Asked
    BY DEF Asked
  <2>3. /\ ask'[c] = [at |-> "pending", job |-> m]
        /\ \A d \in Callers \ {c} : ask'[d] = ask[d]
        /\ exam' = exam /\ faults' = faults
    BY <1>9, <2>2, GotoMoves DEF PublishJob
  <2>4. QED
    BY <2>1, <2>3 DEF JobIsNamed, At
<1>10. ASSUME NEW c \in Callers, RecordPending(c) PROVE JobIsNamed'
  <2>1. /\ ask'[c] = Idle /\ \A d \in Callers \ {c} : ask'[d] = ask[d]
        /\ Published("examId")' = Published("examId")
        /\ exam'.job = ask[c].job /\ ask[c].at = "pending"
    BY <1>10, RequestIs, GotoMoves, SamePublished DEF RecordPending, ExamType
  <2>2. exam'.job # Nothing
    BY <2>1, Apart DEF JobIsNamed, At, Published
  <2>3. QED
    BY <2>1, <2>2 DEF JobIsNamed, At, Idle
<1>11. ASSUME NEW c \in Callers, RequestFails(c) PROVE JobIsNamed'
  <2>1. /\ ask'[c] = Idle /\ \A d \in Callers \ {c} : ask'[d] = ask[d]
        /\ Published("examId")' = Published("examId")
        /\ exam' = exam /\ faults' # 0
    BY <1>11, RequestIs, GotoMoves, SamePublished DEF RequestFails, TopicType
  <2>2. QED
    BY <2>1 DEF JobIsNamed, At, Idle
<1>12. QED
  BY SetupStepIs, <1>2, <1>3, <1>4, <1>5, <1>6, <1>7, <1>8, <1>9, <1>10, <1>11

\* As long as no two requests looked at the status together.
LEMMA StatusStep ==
    ASSUME TopicType, ExamType, CheckHolds, JobIsOnly, ~overlapped', SetupNext
    PROVE  CheckHolds' /\ JobIsOnly'
<1>0. Overlaps => \A d \in Callers : ~Checked(d)
  BY DEF Overlaps
<1> USE DEF Checked, Definable
<1>1. CASE Create
  <2>1. /\ exam.status = "none" /\ exam'.status = "created"
        /\ exam'.blueprint = exam.blueprint /\ ask' = ask
        /\ found' = found /\ faults' = faults
        /\ \A field : Published(field)' = Published(field)
    BY <1>1, SamePublished DEF Create, ExamType, Nothing
  <2>2. \A d \in Callers : ~Checked(d) /\ ask[d].at # "publish"
    BY <2>1 DEF CheckHolds, JobIsOnly, At
  <2>3. CheckHolds'
    BY <2>1, <2>2 DEF CheckHolds, At
  <2>4. JobIsOnly'
    BY <2>1, <2>2 DEF JobIsOnly, At
  <2>5. QED
    BY <2>3, <2>4
<1>2. ASSUME NEW c \in Callers, NEW b \in Blueprints, CheckBlueprint(c, b)
      PROVE  CheckHolds' /\ JobIsOnly'
  <2>1. [at |-> "define", blueprint |-> b] \in Asked
    BY <1>2 DEF CheckBlueprint, Asked
  <2>2. /\ ask'[c].at = "define" /\ \A d \in Callers \ {c} : ask'[d] = ask[d]
        /\ exam' = exam /\ found' = found /\ faults' = faults
        /\ \A field : Published(field)' = Published(field)
        /\ exam.status \in Definable /\ ask[c].at = "idle"
    BY <1>2, <2>1, GotoMoves, SamePublished DEF CheckBlueprint, Idle
  <2>3. \A d \in Callers : ~Checked(d)
    BY <1>0, <1>2 DEF CheckBlueprint
  <2>4. CheckHolds'
    BY <2>2, <2>3 DEF CheckHolds, At
  <2>5. JobIsOnly'
    BY <2>2 DEF JobIsOnly, At
  <2>6. QED
    BY <2>4, <2>5
<1>3. ASSUME NEW c \in Callers, DefineBlueprint(c)
      PROVE  CheckHolds' /\ JobIsOnly'
  <2>1. /\ ask'[c].at = "idle" /\ \A d \in Callers \ {c} : ask'[d] = ask[d]
        /\ exam'.status = "blueprint_defined"
        /\ found' = found /\ faults' = faults /\ ask[c].at = "define"
        /\ \A field : Published(field)' = Published(field)
    BY <1>3, RequestIs, GotoMoves, SamePublished DEF DefineBlueprint, Idle, ExamType
  <2>2. exam.status # "matrix_generating" /\ \A d \in Callers \ {c} : ~Checked(d)
    BY <2>1 DEF CheckHolds, At
  <2>3. CheckHolds'
    BY <2>1, <2>2 DEF CheckHolds, At
  <2>4. JobIsOnly'
    BY <2>1, <2>2 DEF JobIsOnly, At
  <2>5. QED
    BY <2>3, <2>4
<1>4. ASSUME NEW c \in Callers, CheckSolver(c)
      PROVE  CheckHolds' /\ JobIsOnly'
  <2>1. /\ ask'[c].at = "mark" /\ \A d \in Callers \ {c} : ask'[d] = ask[d]
        /\ exam' = exam /\ found' = exam.blueprint /\ faults' = faults
        /\ exam.status = "blueprint_defined" /\ exam.blueprint # Nothing
        /\ \A field : Published(field)' = Published(field)
        /\ ask[c].at = "idle"
    BY <1>4, RequestIs, GotoMoves, SamePublished DEF CheckSolver, Idle
  <2>2. exam.blueprint \in Balanced
    BY <2>1 DEF ExamType
  <2>3. \A d \in Callers : ~Checked(d)
    BY <1>0, <1>4 DEF CheckSolver
  <2>4. CheckHolds'
    BY <2>1, <2>2, <2>3 DEF CheckHolds, At
  <2>5. JobIsOnly'
    BY <2>1 DEF JobIsOnly, At
  <2>6. QED
    BY <2>4, <2>5
<1>5. ASSUME NEW c \in Callers, MarkGenerating(c)
      PROVE  CheckHolds' /\ JobIsOnly'
  <2>1. /\ ask'[c].at = "publish" /\ \A d \in Callers \ {c} : ask'[d] = ask[d]
        /\ exam'.status = "matrix_generating" /\ exam'.blueprint = exam.blueprint
        /\ found' = found /\ faults' = faults /\ ask[c].at = "mark"
        /\ \A field : Published(field)' = Published(field)
    BY <1>5, RequestIs, GotoMoves, SamePublished DEF MarkGenerating, ExamType
  <2>2. /\ exam.status = "blueprint_defined" /\ exam.blueprint = found /\ found \in Balanced
        /\ \A d \in Callers \ {c} : ~Checked(d)
    BY <2>1 DEF CheckHolds, At
  <2>3. Published("payload") = {} /\ \A d \in Callers : ask[d].at # "publish"
    BY <2>2 DEF JobIsOnly, At
  <2>4. CheckHolds'
    BY <2>1, <2>2 DEF CheckHolds, At
  <2>5. JobIsOnly'
    BY <2>1, <2>2, <2>3 DEF JobIsOnly, At
  <2>6. QED
    BY <2>4, <2>5
<1>6. ASSUME NEW c \in Callers, NEW m \in Msgs, PublishToMatrixSolver(c, m)
      PROVE  CheckHolds' /\ JobIsOnly'
  <2>1. /\ ask'[c].at = "idle" /\ \A d \in Callers \ {c} : ask'[d] = ask[d]
        /\ exam' = exam /\ found' = found /\ faults' = faults /\ ask[c].at = "publish"
    BY <1>6, RequestIs, GotoMoves DEF PublishToMatrixSolver, Idle
  <2>2. Published("payload")' = Published("payload") \union {m}
    BY <1>6, SendPublishes DEF PublishToMatrixSolver, Forms
  <2>3. /\ exam.status = "matrix_generating" /\ Published("payload") = {}
        /\ \A d \in Callers \ {c} : ask[d].at # "publish"
    BY <2>1 DEF JobIsOnly, At
  <2>4. CheckHolds'
    BY <2>1 DEF CheckHolds, At
  <2>5. JobIsOnly'
    BY <2>1, <2>2, <2>3 DEF JobIsOnly, At
  <2>6. QED
    BY <2>4, <2>5
<1>7. ASSUME NEW c \in Callers, LoadExam(c)
      PROVE  CheckHolds' /\ JobIsOnly'
  <2>1. /\ ask'[c].at = "job" /\ \A d \in Callers \ {c} : ask'[d] = ask[d]
        /\ exam' = exam /\ found' = found /\ faults' = faults /\ ask[c].at = "idle"
        /\ \A field : Published(field)' = Published(field)
    BY <1>7, RequestIs, GotoMoves, SamePublished DEF LoadExam, Idle
  <2>2. QED
    BY <2>1 DEF CheckHolds, JobIsOnly, At
<1>8. ASSUME NEW c \in Callers, NEW m \in Msgs, PublishJob(c, m)
      PROVE  CheckHolds' /\ JobIsOnly'
  <2>1. [at |-> "pending", job |-> m] \in Asked
    BY DEF Asked
  <2>2. /\ ask'[c].at = "pending" /\ \A d \in Callers \ {c} : ask'[d] = ask[d]
        /\ exam' = exam /\ found' = found /\ faults' = faults /\ ask[c].at = "job"
    BY <1>8, <2>1, GotoMoves DEF PublishJob
  <2>3. Published("payload")' = Published("payload")
    BY <1>8, SendPublishes DEF PublishJob, Forms
  <2>4. QED
    BY <2>2, <2>3 DEF CheckHolds, JobIsOnly, At
<1>9. ASSUME NEW c \in Callers, RecordPending(c)
      PROVE  CheckHolds' /\ JobIsOnly'
  <2>1. /\ ask'[c].at = "idle" /\ \A d \in Callers \ {c} : ask'[d] = ask[d]
        /\ exam'.status = exam.status /\ exam'.blueprint = exam.blueprint
        /\ found' = found /\ faults' = faults /\ ask[c].at = "pending"
        /\ \A field : Published(field)' = Published(field)
    BY <1>9, RequestIs, GotoMoves, SamePublished DEF RecordPending, Idle, ExamType
  <2>2. QED
    BY <2>1 DEF CheckHolds, JobIsOnly, At
<1>10. ASSUME NEW c \in Callers, RequestFails(c)
       PROVE  CheckHolds' /\ JobIsOnly'
  <2>1. /\ ask'[c].at = "idle" /\ \A d \in Callers \ {c} : ask'[d] = ask[d]
        /\ exam' = exam /\ found' = found /\ faults' # 0
        /\ \A field : Published(field)' = Published(field)
    BY <1>10, RequestIs, GotoMoves, SamePublished DEF RequestFails, Idle, TopicType
  <2>2. QED
    BY <2>1 DEF CheckHolds, JobIsOnly, At
<1>11. QED
  BY SetupStepIs, <1>1, <1>2, <1>3, <1>4, <1>5, <1>6, <1>7, <1>8, <1>9, <1>10

LEMMA SetupInvStep ==
    ASSUME TopicType, ExamType, SetupInv, SetupNext
    PROVE  SetupInv'
<1>1. ~overlapped' => ~overlapped
  BY DEF SetupNext, Create, CheckBlueprint, DefineBlueprint, CheckSolver, MarkGenerating,
         PublishToMatrixSolver, LoadExam, PublishJob, RecordPending, RequestFails, Overlaps
<1>2. QED
  BY <1>1, JobIsNamedStep, StatusStep DEF SetupInv

\* SetupAgrees is what is left of the invariant when a request is not looked at.
LEMMA SetupInvSays == ExamType /\ SetupInv => SetupAgrees
<1> SUFFICES ASSUME ExamType, SetupInv PROVE SetupAgrees
  OBVIOUS
<1> DEFINE jobs == Published("payload")
           resting == \A c \in Callers : ask[c] = Idle
<1>1. resting => \A c \in Callers : ~At(c, "pending") /\ ~At(c, "publish")
  BY DEF At, Idle
<1>2. /\ exam.job # Nothing => exam.job \in Published("examId")
      /\ (resting /\ faults = 0 /\ Published("examId") # {}) => exam.job # Nothing
  BY <1>1 DEF SetupInv, JobIsNamed
<1>3. ~overlapped => Cardinality(jobs) <= 1
  <2>1. SUFFICES ASSUME ~overlapped, jobs # {} PROVE Cardinality(jobs) <= 1
    BY FS_EmptySet
  <2>2. PICK m : jobs = {m}
    BY <2>1 DEF SetupInv, JobIsOnly
  <2>3. QED
    BY <2>2, FS_Singleton
<1>4. ~overlapped => /\ jobs # {} => exam.status = "matrix_generating"
                     /\ exam.status = "matrix_generating" =>
                           /\ exam.blueprint = found /\ found \in Balanced
                           /\ resting /\ faults = 0 => jobs # {}
  BY <1>1 DEF SetupInv, JobIsOnly
<1>5. QED
  BY <1>2, <1>3, <1>4 DEF SetupAgrees

(***************************************************************************)
(* Recursion over the numbers up to n, and sums.                           *)
(***************************************************************************)
\* A set that has 0, and with every number the next, has them all: there would
\* be a least one that it lacks.
LEMMA EveryNumber ==
    ASSUME NEW P, 0 \in P, \A k \in Nat : k \in P => k + 1 \in P
    PROVE  \A k \in Nat : k \in P
<1> DEFINE R == {k \in Nat : k \notin P}
<1>1. SUFFICES ASSUME R # {} PROVE FALSE
  OBVIOUS
<1>2. PICK y \in R : \A z \in R : ~(<<z, y>> \in OpToRel(<, Nat))
  <2>1. R \subseteq Nat /\ R # {}
    BY <1>1
  <2> HIDE DEF R
  <2>2. QED
    BY <2>1, NatLessThanWellFounded, WFMin, Zenon
<1>3. y \in Nat /\ y # 0 /\ y \notin P
  OBVIOUS
<1>4. y - 1 \in Nat /\ y - 1 < y /\ (y - 1) + 1 = y
  BY <1>3
<1>5. y - 1 \notin R
  BY <1>2, <1>3, <1>4 DEF OpToRel
<1>6. y - 1 \in P
  BY <1>4, <1>5
<1>7. QED
  BY <1>3, <1>4, <1>6

\* A function can be defined by its value at 0 and the step from each number
\* to the next.
StepsBy(f, n, x, step) == f[0] = x /\ \A k \in 1 .. n : f[k] = step[<<k, f[k - 1]>>]

LEMMA StepByStep ==
    ASSUME NEW n \in Nat, NEW V, NEW x \in V, NEW step,
           \A k \in 1 .. n : \A v \in V : step[<<k, v>>] \in V
    PROVE  \E f \in [0 .. n -> V] : StepsBy(f, n, x, step)
<1> DEFINE P == {m \in Nat : m <= n => \E f \in [0 .. m -> V] : StepsBy(f, m, x, step)}
<1>1. 0 \in P
  <2> DEFINE f == [k \in 0 .. 0 |-> x]
  <2>1. f \in [0 .. 0 -> V] /\ StepsBy(f, 0, x, step)
    BY DEF StepsBy
  <2>2. QED
    BY <2>1
<1>2. ASSUME NEW m \in Nat, m \in P PROVE m + 1 \in P
  <2>1. SUFFICES ASSUME m + 1 <= n
                 PROVE  \E f \in [0 .. m + 1 -> V] : StepsBy(f, m + 1, x, step)
    OBVIOUS
  <2>2. PICK f \in [0 .. m -> V] : StepsBy(f, m, x, step)
    BY <1>2, <2>1
  <2> DEFINE g == [k \in 0 .. m + 1 |-> IF k = m + 1 THEN step[<<m + 1, f[m]>>] ELSE f[k]]
  <2>3. f[m] \in V /\ m + 1 \in 1 .. n
    BY <2>1, <2>2
  <2>4. step[<<m + 1, f[m]>>] \in V
    BY <2>3
  <2>5. g \in [0 .. m + 1 -> V]
    BY <2>2, <2>4
  <2>6. g[0] = x
    BY <2>2 DEF StepsBy
  <2>7. ASSUME NEW k \in 1 .. m + 1 PROVE g[k] = step[<<k, g[k - 1]>>]
    <3>1. k \in 0 .. m + 1 /\ k - 1 \in 0 .. m + 1 /\ k - 1 # m + 1
      OBVIOUS
    <3>2. g[k - 1] = f[k - 1]
      BY <3>1
    <3>3. CASE k = m + 1
      <4>1. k - 1 = m
        BY <3>3
      <4>2. QED
        BY <3>1, <3>2, <3>3, <4>1
    <3>4. CASE k # m + 1
      <4>1. k \in 1 .. m /\ g[k] = f[k]
        BY <3>1, <3>4
      <4>2. QED
        BY <2>2, <3>2, <4>1 DEF StepsBy
    <3>5. QED
      BY <3>3, <3>4
  <2>8. StepsBy(g, m + 1, x, step)
    BY <2>6, <2>7 DEF StepsBy
  <2>9. QED
    BY <2>5, <2>8
<1>3. n \in P
  <2> HIDE DEF P
  <2>1. QED
    BY <1>1, <1>2, EveryNumber
<1>4. QED
  BY <1>3

\* The sums of a sequence of numbers.
SumsOf(f, s) == f[0] = 0 /\ \A k \in 1 .. Len(s) : f[k] = f[k - 1] + s[k]

LEMMA SumsAre ==
    ASSUME NEW s \in Seq(Int)
    PROVE  Sums(s) \in [0 .. Len(s) -> Int] /\ SumsOf(Sums(s), s)
<1> DEFINE n == Len(s)
           Said(f) == [k \in 0 .. n |-> IF k = 0 THEN 0 ELSE f[k - 1] + s[k]]
           step == [x \in (1 .. n) \X Int |-> x[2] + s[x[1]]]
           g == Sums(s)
<1>1. n \in Nat /\ \A k \in 1 .. n : s[k] \in Int
  OBVIOUS
<1>2. \A k \in 1 .. n : \A v \in Int : step[<<k, v>>] = v + s[k]
  OBVIOUS
<1> HIDE DEF n, step
<1>3. \A k \in 1 .. n : \A v \in Int : step[<<k, v>>] \in Int
  <2> SUFFICES ASSUME NEW k \in 1 .. n, NEW v \in Int PROVE step[<<k, v>>] \in Int
    OBVIOUS
  <2>1. step[<<k, v>>] = v + s[k] /\ s[k] \in Int
    BY <1>1, <1>2
  <2>2. QED
    BY <2>1
<1>4. PICK f \in [0 .. n -> Int] : StepsBy(f, n, 0, step)
  <2>1. \E f \in [0 .. n -> Int] : StepsBy(f, n, 0, step)
    <3>1. 0 \in Int
      OBVIOUS
    <3>2. QED
      BY <1>1, <1>3, <3>1, StepByStep, Zenon
  <2>2. QED
    BY <2>1
<1>5. f = Said(f)
  <2>1. ASSUME NEW k \in 0 .. n PROVE f[k] = IF k = 0 THEN 0 ELSE f[k - 1] + s[k]
    <3>1. CASE k = 0
      BY <1>4, <3>1 DEF StepsBy
    <3>2. CASE k # 0
      <4>1. k \in 1 .. n /\ k - 1 \in 0 .. n
        BY <1>1, <3>2
      <4>2. f[k] = step[<<k, f[k - 1]>>]
        BY <1>4, <4>1 DEF StepsBy
      <4>3. QED
        BY <1>2, <1>4, <3>2, <4>1, <4>2
    <3>3. QED
      BY <3>1, <3>2
  <2>2. QED
    BY <2>1
<1>6. g = Said(g)
  BY <1>5 DEF Sums, n
<1> HIDE DEF g
<1>7. g[0] = 0 /\ \A k \in 1 .. n : g[k] = g[k - 1] + s[k]
  <2>1. \A k \in 0 .. n : g[k] = IF k = 0 THEN 0 ELSE g[k - 1] + s[k]
    BY <1>6, Zenon
  <2>2. QED
    BY <1>1, <2>1
<1> DEFINE P == {k \in Nat : k <= n => g[k] \in Int}
<1>8. 0 \in P
  BY <1>7
<1>9. ASSUME NEW k \in Nat, k \in P PROVE k + 1 \in P
  <2>1. SUFFICES ASSUME k + 1 <= n PROVE g[k + 1] \in Int
    OBVIOUS
  <2>2. k + 1 \in 1 .. n /\ (k + 1) - 1 = k /\ g[k] \in Int
    BY <1>1, <1>9, <2>1
  <2>3. g[k + 1] = g[(k + 1) - 1] + s[k + 1] /\ s[k + 1] \in Int
    BY <1>1, <1>7, <2>2
  <2>4. QED
    BY <2>2, <2>3
<1>10. \A k \in Nat : k \in P
  <2> HIDE DEF P
  <2>1. QED
    BY <1>8, <1>9, EveryNumber
<1>11. g \in [0 .. n -> Int]
  <2>1. \A k \in 0 .. n : g[k] \in Int
    BY <1>1, <1>10
  <2>2. QED
    BY <1>6, <2>1
<1>12. QED
  BY <1>7, <1>11 DEF SumsOf, g, n

\* The last of the sums; of natural numbers, none is above it.
LEMMA TotalIs ==
    ASSUME NEW s \in Seq(Int)
    PROVE  Total(s) \in Int
BY SumsAre DEF Total

LEMMA TotalBounds ==
    ASSUME NEW s \in Seq(Nat)
    PROVE  Total(s) \in Nat /\ \A k \in 1 .. Len(s) : s[k] <= Total(s)
<1> DEFINE n == Len(s)
           g == Sums(s)
<1>1. n \in Nat /\ \A k \in 1 .. n : s[k] \in Nat
  OBVIOUS
<1>2. g \in [0 .. n -> Int] /\ g[0] = 0 /\ \A k \in 1 .. n : g[k] = g[k - 1] + s[k]
  <2>1. s \in Seq(Int)
    OBVIOUS
  <2>2. QED
    BY <2>1, SumsAre DEF SumsOf
<1> DEFINE P == {k \in Nat : k <= n => g[k] \in Nat /\ \A j \in 1 .. k : s[j] <= g[k]}
<1>3. Total(s) = g[n]
  BY DEF Total
<1> HIDE DEF n, g
<1>4. 0 \in P
  BY <1>2
<1>5. ASSUME NEW k \in Nat, k \in P PROVE k + 1 \in P
  <2>1. SUFFICES ASSUME k + 1 <= n
                 PROVE  g[k + 1] \in Nat /\ \A j \in 1 .. k + 1 : s[j] <= g[k + 1]
    OBVIOUS
  <2>2. k <= n /\ k + 1 \in 1 .. n /\ (k + 1) - 1 = k
    BY <1>1, <2>1
  <2>3. g[k] \in Nat /\ \A j \in 1 .. k : s[j] <= g[k]
    BY <1>5, <2>2
  <2>4. s[k + 1] \in Nat /\ g[k + 1] = g[(k + 1) - 1] + s[k + 1]
    BY <1>1, <1>2, <2>2
  <2>5. g[k + 1] = g[k] + s[k + 1]
    BY <2>2, <2>4
  <2>6. ASSUME NEW j \in 1 .. k + 1 PROVE s[j] <= g[k + 1]
    <3>1. CASE j = k + 1
      BY <2>3, <2>4, <2>5, <3>1
    <3>2. CASE j # k + 1
      <4>1. j \in 1 .. k /\ j \in 1 .. n
        BY <1>1, <2>2, <3>2
      <4>2. s[j] \in Nat /\ s[j] <= g[k]
        BY <1>1, <2>3, <4>1
      <4>3. QED
        BY <2>3, <2>4, <2>5, <4>2
    <3>3. QED
      BY <3>1, <3>2
  <2>7. QED
    BY <2>3, <2>4, <2>5, <2>6
<1>6. n \in P
  <2> HIDE DEF P
  <2>1. QED
    BY <1>1, <1>4, <1>5, EveryNumber
<1>7. QED
  BY <1>1, <1>3, <1>6 DEF n

\* The square of a deviation from the mean is at most the sum of them all.
LEMMA NextSquare ==
    ASSUME NEW n \in Int, NEW x \in Int, NEW t \in Int, NEW q \in Int, NEW r \in Int, NEW k \in Int
    PROVE  n * n * q - 2 * n * t * r + k * t * t + (n * x - t) * (n * x - t)
               = n * n * (q + x * x) - 2 * n * t * (r + x) + (k + 1) * t * t
BY Z3

LEMMA SquareIsNat ==
    ASSUME NEW x \in Int
    PROVE  x * x \in Nat
<1>1. CASE x >= 0
  BY <1>1
<1>2. CASE x < 0
  BY <1>2
<1>3. QED
  BY <1>1, <1>2

LEMMA Deviations ==
    ASSUME NEW s \in Seq(Int)
    PROVE  \A j \in 1 .. Len(s) :
              (Len(s) * s[j] - Total(s)) * (Len(s) * s[j] - Total(s))
                 <= Len(s) * (Len(s) * Total([k \in 1 .. Len(s) |-> s[k] * s[k]]) - Total(s) * Total(s))
<1> DEFINE n == Len(s)
           t == Total(s)
           squares == [k \in 1 .. n |-> s[k] * s[k]]
           away == [k \in 1 .. n |-> (n * s[k] - t) * (n * s[k] - t)]
           g == Sums(s)
           q == Sums(squares)
           d == Sums(away)
<1>1. n \in Nat /\ t \in Int /\ \A k \in 1 .. n : s[k] \in Int
  BY TotalIs
<1>2. g \in [0 .. n -> Int] /\ g[0] = 0 /\ \A k \in 1 .. n : g[k] = g[k - 1] + s[k]
  BY SumsAre DEF SumsOf
<1>3. g[n] = t /\ q = Sums(squares) /\ d = Sums(away)
  BY DEF Total
<1> HIDE DEF n, t, g, q, d
<1>4. /\ squares \in Seq(Int) /\ Len(squares) = n
      /\ \A k \in 1 .. n : squares[k] = s[k] * s[k]
  <2>1. \A k \in 1 .. n : s[k] * s[k] \in Int
    BY <1>1
  <2>2. squares \in [1 .. n -> Int]
    BY <2>1
  <2>3. QED
    BY <1>1, <2>2
<1>5. /\ away \in Seq(Nat) /\ Len(away) = n
      /\ \A k \in 1 .. n : away[k] = (n * s[k] - t) * (n * s[k] - t)
  <2>1. ASSUME NEW k \in 1 .. n PROVE (n * s[k] - t) * (n * s[k] - t) \in Nat
    <3>1. n * s[k] - t \in Int
      BY <1>1
    <3>2. QED
      BY <3>1, SquareIsNat
  <2>2. away \in [1 .. n -> Nat]
    BY <2>1
  <2>3. QED
    BY <1>1, <2>2
<1> HIDE DEF squares, away
<1>6. q \in [0 .. n -> Int] /\ q[0] = 0 /\ \A k \in 1 .. n : q[k] = q[k - 1] + s[k] * s[k]
  <2>1. Sums(squares) \in [0 .. Len(squares) -> Int] /\ SumsOf(Sums(squares), squares)
    BY <1>4, SumsAre
  <2>2. QED
    BY <1>3, <1>4, <2>1 DEF SumsOf
<1>7. /\ d \in [0 .. n -> Int] /\ d[0] = 0
      /\ \A k \in 1 .. n : d[k] = d[k - 1] + (n * s[k] - t) * (n * s[k] - t)
  <2>1. away \in Seq(Int)
    BY <1>5
  <2>2. Sums(away) \in [0 .. Len(away) -> Int] /\ SumsOf(Sums(away), away)
    BY <2>1, SumsAre
  <2>3. QED
    BY <1>3, <1>5, <2>2 DEF SumsOf
<1> DEFINE P == {k \in Nat : k <= n => d[k] = n * n * q[k] - 2 * n * t * g[k] + k * t * t}
<1>8. 0 \in P
  BY <1>1, <1>2, <1>6, <1>7
<1>9. ASSUME NEW k \in Nat, k \in P PROVE k + 1 \in P
  <2>1. SUFFICES ASSUME k + 1 <= n
        PROVE  d[k + 1] = n * n * q[k + 1] - 2 * n * t * g[k + 1] + (k + 1) * t * t
    OBVIOUS
  <2>2. k <= n /\ k + 1 \in 1 .. n /\ (k + 1) - 1 = k /\ k \in 0 .. n
    BY <1>1, <2>1
  <2>3. d[k] = n * n * q[k] - 2 * n * t * g[k] + k * t * t
    BY <1>9, <2>2
  <2>4. /\ g[k + 1] = g[(k + 1) - 1] + s[k + 1]
        /\ q[k + 1] = q[(k + 1) - 1] + s[k + 1] * s[k + 1]
        /\ d[k + 1] = d[(k + 1) - 1] + (n * s[k + 1] - t) * (n * s[k + 1] - t)
    BY <1>2, <1>6, <1>7, <2>2
  <2> DEFINE x == s[k + 1]  gk == g[k]  qk == q[k]
  <2>5. x \in Int /\ gk \in Int /\ qk \in Int
    BY <1>1, <1>2, <1>6, <2>2
  <2>6. /\ g[k + 1] = gk + x /\ q[k + 1] = qk + x * x
        /\ d[k + 1] = n * n * qk - 2 * n * t * gk + k * t * t + (n * x - t) * (n * x - t)
    BY <2>2, <2>3, <2>4
  <2> HIDE DEF x, gk, qk
  <2>7. n * n * qk - 2 * n * t * gk + k * t * t + (n * x - t) * (n * x - t)
            = n * n * (qk + x * x) - 2 * n * t * (gk + x) + (k + 1) * t * t
    BY <1>1, <2>5, NextSquare
  <2>8. QED
    BY <2>6, <2>7
<1>10. d[n] = n * n * q[n] - 2 * n * t * t + n * t * t
  <2>1. n \in P
    <3> HIDE DEF P
    <3>1. QED
      BY <1>1, <1>8, <1>9, EveryNumber
  <2>2. QED
    BY <1>1, <1>3, <2>1
<1>11. d[n] = n * (n * q[n] - t * t)
  <2> DEFINE a == q[n]
  <2>1. a \in Int
    BY <1>1, <1>6
  <2>2. d[n] = n * n * a - 2 * n * t * t + n * t * t
    BY <1>10
  <2> HIDE DEF a
  <2>3. n * n * a - 2 * n * t * t + n * t * t = n * (n * a - t * t)
    BY <1>1, <2>1, Z3
  <2>4. QED
    BY <2>2, <2>3 DEF a
<1>12. ASSUME NEW j \in 1 .. n PROVE (n * s[j] - t) * (n * s[j] - t) <= d[n]
  <2>1. away[j] <= Total(away)
    BY <1>5, TotalBounds
  <2>2. Total(away) = d[n]
    BY <1>3, <1>5 DEF Total
  <2>3. QED
    BY <1>5, <2>1, <2>2
<1>13. Total(squares) = q[n]
  BY <1>3, <1>4 DEF Total
<1>14. QED
  BY <1>11, <1>12, <1>13 DEF n, t, squares

(***************************************************************************)
(* The units: Parts is a multiple of every number up to PaperSize.         *)
(***************************************************************************)
LEMMA ProductsAre ==
    ASSUME NEW n \in Nat
    PROVE  /\ Products(n) \in [0 .. n -> Nat \ {0}] /\ Products(n)[0] = 1
           /\ \A k \in 1 .. n : Products(n)[k] = Products(n)[k - 1] * k
<1> DEFINE V == Nat \ {0}
           Said(f) == [k \in 0 .. n |-> IF k = 0 THEN 1 ELSE f[k - 1] * k]
           step == [x \in (1 .. n) \X V |-> x[2] * x[1]]
           g == Products(n)
<1>1. \A k \in 1 .. n : \A v \in V : step[<<k, v>>] = v * k /\ v * k \in V
  <2> SUFFICES ASSUME NEW k \in 1 .. n, NEW v \in V PROVE step[<<k, v>>] = v * k /\ v * k \in V
    OBVIOUS
  <2>1. v * k \in Int /\ v * k > 0
    OBVIOUS
  <2>2. QED
    BY <2>1
<1> HIDE DEF step
<1>2. PICK f \in [0 .. n -> V] : StepsBy(f, n, 1, step)
  <2>1. \E f \in [0 .. n -> V] : StepsBy(f, n, 1, step)
    <3>1. 1 \in V /\ \A k \in 1 .. n : \A v \in V : step[<<k, v>>] \in V
      BY <1>1
    <3> HIDE DEF V
    <3>2. QED
      BY <3>1, StepByStep, Zenon
  <2>2. QED
    BY <2>1
<1>3. f = Said(f)
  <2>1. ASSUME NEW k \in 0 .. n PROVE f[k] = IF k = 0 THEN 1 ELSE f[k - 1] * k
    <3>1. CASE k = 0
      BY <1>2, <3>1 DEF StepsBy
    <3>2. CASE k # 0
      <4>1. k \in 1 .. n /\ k - 1 \in 0 .. n
        BY <3>2
      <4>2. f[k] = step[<<k, f[k - 1]>>]
        BY <1>2, <4>1 DEF StepsBy
      <4>3. QED
        BY <1>1, <1>2, <3>2, <4>1, <4>2
    <3>3. QED
      BY <3>1, <3>2
  <2>2. QED
    BY <2>1
<1>4. g = Said(g)
  BY <1>3 DEF Products
<1> HIDE DEF g
<1>5. g[0] = 1 /\ \A k \in 1 .. n : g[k] = g[k - 1] * k
  <2>1. \A k \in 0 .. n : g[k] = IF k = 0 THEN 1 ELSE g[k - 1] * k
    BY <1>4, Zenon
  <2>2. QED
    BY <2>1
<1> DEFINE P == {k \in Nat : k <= n => g[k] \in Nat \ {0}}
<1>6. 0 \in P
  BY <1>5
<1>7. ASSUME NEW k \in Nat, k \in P PROVE k + 1 \in P
  <2>1. SUFFICES ASSUME k + 1 <= n PROVE g[k + 1] \in Nat \ {0}
    OBVIOUS
  <2>2. k + 1 \in 1 .. n /\ (k + 1) - 1 = k /\ g[k] \in Nat \ {0}
    BY <1>7, <2>1
  <2>3. g[k + 1] = g[(k + 1) - 1] * (k + 1)
    BY <1>5, <2>2
  <2>4. g[k + 1] = g[k] * (k + 1)
    BY <2>2, <2>3
  <2> DEFINE x == g[k]
  <2>5. x \in Nat \ {0}
    BY <2>2
  <2> HIDE DEF x
  <2>6. x * (k + 1) \in Int /\ x * (k + 1) > 0
    BY <2>5
  <2>7. QED
    BY <2>4, <2>6 DEF x
<1>8. \A k \in Nat : k \in P
  <2> HIDE DEF P
  <2>1. QED
    BY <1>6, <1>7, EveryNumber
<1>9. g \in [0 .. n -> Nat \ {0}]
  <2>1. \A k \in 0 .. n : g[k] \in Nat \ {0}
    BY <1>8
  <2>2. QED
    BY <1>4, <2>1
<1>10. QED
  BY <1>5, <1>9 DEF g

LEMMA MultipleOfAll ==
    ASSUME NEW n \in Nat, NEW m \in 1 .. n
    PROVE  \E c \in Nat \ {0} : Products(n)[n] = c * m
<1> DEFINE g == Products(n)
           P == {k \in Nat : (m <= k /\ k <= n) => \E c \in Nat \ {0} : g[k] = c * m}
<1>1. /\ g \in [0 .. n -> Nat \ {0}]
      /\ \A k \in 1 .. n : g[k] = g[k - 1] * k
  BY ProductsAre
<1> HIDE DEF g
<1>2. 0 \in P
  OBVIOUS
<1>3. ASSUME NEW k \in Nat, k \in P PROVE k + 1 \in P
  <2>1. SUFFICES ASSUME m <= k + 1, k + 1 <= n
                 PROVE  \E c \in Nat \ {0} : g[k + 1] = c * m
    OBVIOUS
  <2>2. k + 1 \in 1 .. n /\ (k + 1) - 1 = k /\ g[k] \in Nat \ {0}
    BY <1>1, <2>1
  <2>3. g[k + 1] = g[(k + 1) - 1] * (k + 1)
    BY <1>1, <2>2
  <2>4. g[k + 1] = g[k] * (k + 1)
    BY <2>2, <2>3
  <2>5. CASE m = k + 1
    BY <2>2, <2>4, <2>5
  <2>6. CASE m # k + 1
    <3>1. m <= k /\ k <= n
      BY <2>1, <2>6
    <3>2. PICK c \in Nat \ {0} : g[k] = c * m
      BY <1>3, <3>1
    <3>3. c * (k + 1) \in Nat \ {0}
      <4>1. c * (k + 1) \in Int /\ c * (k + 1) > 0
        OBVIOUS
      <4>2. QED
        BY <4>1
    <3>4. (c * m) * (k + 1) = (c * (k + 1)) * m
      BY Z3
    <3>5. QED
      BY <2>4, <3>2, <3>3, <3>4
  <2>7. QED
    BY <2>5, <2>6
<1>4. n \in P
  <2> HIDE DEF P
  <2>1. QED
    BY <1>2, <1>3, EveryNumber
<1>5. QED
  BY <1>4 DEF g

LEMMA SizeIs ==
    /\ PaperSize \in Nat \ {0}
    /\ \A i \in DOMAIN Blueprint : Blueprint[i][2] \in Nat
<1> DEFINE counts == [i \in DOMAIN Blueprint |->
                        IF Available(Blueprint[i][1]) = {} THEN 0 ELSE Blueprint[i][2]]
<1>1. /\ DOMAIN Blueprint = 1 .. Len(Blueprint) /\ Len(Blueprint) \in Nat
      /\ \A i \in DOMAIN Blueprint : Blueprint[i][2] \in Nat
  BY AnnealingAssumption
<1>2. PICK i \in DOMAIN Blueprint : Available(Blueprint[i][1]) # {} /\ Blueprint[i][2] > 0
  BY AnnealingAssumption
<1>3. counts \in [1 .. Len(Blueprint) -> Nat] /\ counts[i] = Blueprint[i][2]
  BY <1>1, <1>2
<1>4. PaperSize = Total(counts)
  BY DEF PaperSize
<1> HIDE DEF counts
<1>5. counts \in Seq(Nat) /\ Len(counts) = Len(Blueprint) /\ i \in 1 .. Len(counts)
  BY <1>1, <1>3
<1>6. PaperSize \in Nat /\ counts[i] <= PaperSize
  BY <1>4, <1>5, TotalBounds
<1>7. QED
  BY <1>1, <1>2, <1>3, <1>6

LEMMA PartsIs ==
    /\ Parts \in Nat \ {0}
    /\ \A m \in 1 .. PaperSize : \E c \in Nat \ {0} : Parts = c * m
<1>1. PaperSize \in Nat
  BY SizeIs
<1>2. Products(PaperSize) \in [0 .. PaperSize -> Nat \ {0}]
  BY <1>1, ProductsAre
<1>3. Parts \in Nat \ {0}
  BY <1>1, <1>2 DEF Parts
<1>4. \A m \in 1 .. PaperSize : \E c \in Nat \ {0} : Parts = c * m
  BY <1>1, MultipleOfAll DEF Parts
<1>5. QED
  BY <1>3, <1>4

(***************************************************************************)
(* Sums over the papers, and what the energy adds up.                      *)
(***************************************************************************)
AllSheets == [Papers -> [1 .. PaperSize -> Bank]]

LEMMA OrderType ==
    PaperOrder \in [1 .. Cardinality(Papers) -> Papers] /\ IsInjective(PaperOrder)
<1> DEFINE n == Cardinality(Papers)
<1>1. IsFiniteSet(Papers) /\ n \in Nat /\ ExistsBijection(1 .. n, Papers) /\ n >= 2
  BY AnnealingAssumption, FS_CardinalityType
<1>2. \E f \in [1 .. n -> Papers] : IsInjective(f)
  <2>1. PICK f \in Bijection(1 .. n, Papers) : TRUE
    BY <1>1 DEF ExistsBijection
  <2>2. f \in [1 .. n -> Papers] /\ \A a, b \in 1 .. n : f[a] = f[b] => a = b
    BY <2>1 DEF Bijection, Injection, IsInjective
  <2>3. QED
    BY <2>2 DEF IsInjective
<1>3. QED
  BY <1>2 DEF PaperOrder, SetToSeq

LEMMA OrderIs ==
    /\ Cardinality(Papers) \in Nat /\ Cardinality(Papers) >= 2
    /\ Len(PaperOrder) = Cardinality(Papers)
    /\ DOMAIN PaperOrder = 1 .. Cardinality(Papers)
    /\ \A k \in DOMAIN PaperOrder : PaperOrder[k] \in Papers
    /\ \A k, l \in DOMAIN PaperOrder : PaperOrder[k] = PaperOrder[l] => k = l
    /\ \A p \in Papers : \E k \in DOMAIN PaperOrder : PaperOrder[k] = p
<1> DEFINE n == Cardinality(Papers)
<1>1. IsFiniteSet(Papers) /\ n \in Nat /\ n >= 2
  BY AnnealingAssumption, FS_CardinalityType
<1>2. PaperOrder \in [1 .. n -> Papers] /\ IsInjective(PaperOrder)
  BY OrderType
<1>3. PaperOrder \in Injection(1 .. n, Papers)
  BY <1>2 DEF Injection
<1>4. Cardinality(1 .. n) = n
  <2>1. Cardinality(1 .. n) = IF 1 > n THEN 0 ELSE n - 1 + 1
    BY <1>1, FS_Interval
  <2>2. QED
    BY <1>1, <2>1
<1>5. PaperOrder \in Surjection(1 .. n, Papers)
  BY <1>1, <1>3, <1>4, FS_Injection
<1>6. \A p \in Papers : \E k \in 1 .. n : PaperOrder[k] = p
  BY <1>5 DEF Surjection
<1>7. DOMAIN PaperOrder = 1 .. n /\ Len(PaperOrder) = n
  BY <1>1, <1>2
<1>8. QED
  BY <1>1, <1>2, <1>6, <1>7 DEF IsInjective

LEMMA OverPapersInt ==
    ASSUME NEW f \in [Papers -> Int]
    PROVE  OverPapers(f) \in Int
<1> DEFINE s == [k \in DOMAIN PaperOrder |-> f[PaperOrder[k]]]
<1>1. s \in [1 .. Cardinality(Papers) -> Int]
  BY OrderIs
<1>2. s \in Seq(Int)
  BY <1>1, OrderIs
<1>3. Total(s) \in Int
  BY <1>2, TotalIs
<1>4. QED
  BY <1>3 DEF OverPapers

LEMMA OverPapersNat ==
    ASSUME NEW f \in [Papers -> Nat]
    PROVE  OverPapers(f) \in Nat /\ \A p \in Papers : f[p] <= OverPapers(f)
<1> DEFINE s == [k \in DOMAIN PaperOrder |-> f[PaperOrder[k]]]
<1>1. s \in [1 .. Cardinality(Papers) -> Nat]
  BY OrderIs
<1>2. s \in Seq(Nat) /\ Len(s) = Cardinality(Papers)
  BY <1>1, OrderIs
<1>3. Total(s) \in Nat /\ \A k \in 1 .. Cardinality(Papers) : s[k] <= Total(s)
  BY <1>2, TotalBounds
<1>4. OverPapers(f) = Total(s)
  BY DEF OverPapers
<1>5. ASSUME NEW p \in Papers PROVE f[p] <= Total(s)
  <2>1. PICK k \in DOMAIN PaperOrder : PaperOrder[k] = p
    BY OrderIs
  <2>2. k \in 1 .. Cardinality(Papers) /\ s[k] = f[p]
    BY <2>1, OrderIs
  <2>3. QED
    BY <1>3, <2>2
<1>6. QED
  BY <1>3, <1>4, <1>5

LEMMA HardnessIs ==
    ASSUME NEW paper \in [1 .. PaperSize -> Bank]
    PROVE  Hardness(paper) \in Int
<1> DEFINE s == [i \in DOMAIN paper |-> Difficulty[paper[i]]]
<1>1. s \in [1 .. PaperSize -> Int]
  BY AnnealingAssumption
<1>2. s \in Seq(Int)
  BY <1>1, SizeIs
<1>3. QED
  BY <1>2, TotalIs DEF Hardness

LEMMA TopicCountIs ==
    ASSUME NEW paper \in [1 .. PaperSize -> Bank], NEW t
    PROVE  TopicCount(t, paper) \in Nat
<1> DEFINE S == {i \in DOMAIN paper : Topic[paper[i]] = t}
<1>1. S \subseteq 1 .. PaperSize /\ IsFiniteSet(1 .. PaperSize)
  BY SizeIs, FS_Interval
<1>2. IsFiniteSet(S)
  BY <1>1, FS_Subset
<1>3. QED
  BY <1>2, FS_CardinalityType DEF TopicCount

LEMMA PaperDeviationIs ==
    ASSUME NEW paper \in [1 .. PaperSize -> Bank]
    PROVE  PaperDeviation(paper) \in Nat /\ (PaperDeviation(paper) = 0 => TopicsCovered(paper))
<1> DEFINE gap(i) == TopicCount(Blueprint[i][1], paper) - Blueprint[i][2]
           s == [i \in DOMAIN Blueprint |-> Abs(gap(i))]
<1>1. DOMAIN Blueprint = 1 .. Len(Blueprint) /\ Len(Blueprint) \in Nat
  BY AnnealingAssumption
<1>2. ASSUME NEW i \in DOMAIN Blueprint
      PROVE  Abs(gap(i)) \in Nat /\ (Abs(gap(i)) <= 0 => TopicCount(Blueprint[i][1], paper) = Blueprint[i][2])
  <2>1. TopicCount(Blueprint[i][1], paper) \in Nat /\ Blueprint[i][2] \in Nat
    BY TopicCountIs, SizeIs
  <2>2. QED
    BY <2>1 DEF Abs
<1>3. s \in [1 .. Len(Blueprint) -> Nat]
  BY <1>1, <1>2
<1>4. s \in Seq(Nat) /\ Len(s) = Len(Blueprint)
  BY <1>1, <1>3
<1>5. PaperDeviation(paper) = Total(s)
  BY DEF PaperDeviation
<1>6. Total(s) \in Nat /\ \A i \in 1 .. Len(Blueprint) : s[i] <= Total(s)
  BY <1>4, TotalBounds
<1>7. ASSUME Total(s) = 0, NEW i \in DOMAIN Blueprint
      PROVE  TopicCount(Blueprint[i][1], paper) = Blueprint[i][2]
  <2>1. s[i] <= 0
    BY <1>1, <1>6, <1>7
  <2>2. Abs(gap(i)) <= 0
    BY <2>1
  <2>3. QED
    BY <1>2, <2>2
<1>8. QED
  BY <1>5, <1>6, <1>7 DEF TopicsCovered

LEMMA TopicDeviationIs ==
    ASSUME NEW a \in AllSheets
    PROVE  /\ TopicDeviation(a) \in Nat
           /\ TopicDeviation(a) = 0 => \A p \in Papers : TopicsCovered(a[p])
<1> DEFINE f == [p \in Papers |-> PaperDeviation(a[p])]
<1>1. \A p \in Papers : a[p] \in [1 .. PaperSize -> Bank]
  BY DEF AllSheets
<1>2. f \in [Papers -> Nat]
  BY <1>1, PaperDeviationIs
<1>3. OverPapers(f) \in Nat /\ \A p \in Papers : f[p] <= OverPapers(f)
  BY <1>2, OverPapersNat
<1>4. TopicDeviation(a) = OverPapers(f)
  BY DEF TopicDeviation
<1>5. ASSUME OverPapers(f) = 0, NEW p \in Papers PROVE TopicsCovered(a[p])
  <2>1. f[p] = PaperDeviation(a[p]) /\ f[p] <= 0 /\ f[p] \in Nat
    BY <1>2, <1>3, <1>5
  <2>2. PaperDeviation(a[p]) = 0
    BY <2>1
  <2>3. QED
    BY <1>1, <2>2, PaperDeviationIs
<1>6. QED
  BY <1>3, <1>4, <1>5

\* The variance bounds how far any paper is from the mean of all.
LEMMA VarianceIs ==
    ASSUME NEW a \in AllSheets
    PROVE  /\ HardnessVariance(a) \in Int /\ TotalHardness(a) \in Int
           /\ \A p \in Papers :
                 Square(Cardinality(Papers) * Hardness(a[p]) - TotalHardness(a))
                    <= Cardinality(Papers) * HardnessVariance(a)
<1> DEFINE n == Cardinality(Papers)
           h == [p \in Papers |-> Hardness(a[p])]
           hh == [p \in Papers |-> Square(Hardness(a[p]))]
           s == [k \in DOMAIN PaperOrder |-> h[PaperOrder[k]]]
           ss == [k \in DOMAIN PaperOrder |-> hh[PaperOrder[k]]]
<1>1. \A p \in Papers : Hardness(a[p]) \in Int
  BY HardnessIs DEF AllSheets
<1>2. s \in [1 .. n -> Int] /\ n \in Nat
  BY <1>1, OrderIs
<1>3. s \in Seq(Int) /\ Len(s) = n
  <2> HIDE DEF s, n
  <2>1. QED
    BY <1>2
<1>4. ss = [k \in 1 .. n |-> s[k] * s[k]]
  BY OrderIs DEF Square
<1>5. TotalHardness(a) = Total(s)
  BY DEF TotalHardness, OverPapers
<1>6. OverPapers(hh) = Total(ss)
  BY DEF OverPapers
<1>7. HardnessVariance(a) = n * Total(ss) - Total(s) * Total(s)
  BY <1>5, <1>6 DEF HardnessVariance, Square
<1>8. \A j \in 1 .. n : (n * s[j] - Total(s)) * (n * s[j] - Total(s))
                          <= n * (n * Total(ss) - Total(s) * Total(s))
  <2> HIDE DEF s, n
  <2>1. QED
    BY <1>3, <1>4, Deviations
<1>9. Total(s) \in Int
  <2> HIDE DEF s
  <2>1. QED
    BY <1>3, TotalIs
<1>10. Total(ss) \in Int
  <2> HIDE DEF s, ss, n
  <2>1. \A k \in 1 .. n : s[k] * s[k] \in Int
    BY <1>2
  <2>2. ss \in [1 .. n -> Int]
    BY <1>4, <2>1
  <2>3. ss \in Seq(Int)
    BY <1>2, <2>2
  <2>4. QED
    BY <2>3, TotalIs
<1>11. ASSUME NEW p \in Papers
       PROVE  Square(n * Hardness(a[p]) - Total(s)) <= n * (n * Total(ss) - Total(s) * Total(s))
  <2>1. PICK k \in DOMAIN PaperOrder : PaperOrder[k] = p
    BY OrderIs
  <2>2. k \in 1 .. n /\ s[k] = Hardness(a[p])
    BY <2>1, OrderIs
  <2> HIDE DEF s, ss, n
  <2>3. QED
    BY <1>8, <2>2 DEF Square
<1>12. n * Total(ss) - Total(s) * Total(s) \in Int
  <2> HIDE DEF s, ss, n
  <2>1. QED
    BY <1>2, <1>9, <1>10
<1>13. QED
  <2> HIDE DEF s, ss
  <2>1. QED
    BY <1>5, <1>7, <1>9, <1>11, <1>12

(***************************************************************************)
(* Common questions.                                                       *)
(***************************************************************************)
LEMMA LargestIs ==
    ASSUME NEW n \in Nat, NEW S \in SUBSET (0 .. n), S # {}
    PROVE  Largest(S) \in S /\ \A m \in S : m <= Largest(S)
<1> DEFINE P == {k \in Nat : (\E m \in S : m >= k)}
<1>1. \E x \in S : \A m \in S : m <= x
  <2>1. SUFFICES ASSUME \A x \in S : \E m \in S : ~(m <= x) PROVE FALSE
    OBVIOUS
  <2>2. 0 \in P
    <3>1. PICK x \in S : TRUE
      OBVIOUS
    <3>2. x \in 0 .. n
      OBVIOUS
    <3>3. QED
      BY <3>2
  <2>3. ASSUME NEW k \in Nat, k \in P PROVE k + 1 \in P
    <3>1. PICK x \in S : x >= k
      BY <2>3
    <3>2. PICK m \in S : ~(m <= x)
      BY <2>1
    <3>3. m >= k + 1
      BY <3>1, <3>2
    <3>4. QED
      BY <3>3
  <2>4. n + 1 \in P
    <3> HIDE DEF P
    <3>1. QED
      BY <2>2, <2>3, EveryNumber
  <2>5. QED
    BY <2>4
<1>2. QED
  BY <1>1 DEF Largest

LEMMA LargestOfTwo ==
    ASSUME NEW x \in Int
    PROVE  Largest({0, x}) \in Nat /\ x <= Largest({0, x})
<1>1. CASE x >= 0
  <2>1. x \in Nat /\ {0, x} \in SUBSET (0 .. x) /\ {0, x} # {}
    BY <1>1
  <2>2. Largest({0, x}) \in {0, x} /\ \A m \in {0, x} : m <= Largest({0, x})
    BY <2>1, LargestIs
  <2>3. QED
    BY <2>1, <2>2
<1>2. CASE x < 0
  <2>1. \E y \in {0, x} : \A m \in {0, x} : m <= y
    BY <1>2
  <2>2. Largest({0, x}) \in {0, x} /\ \A m \in {0, x} : m <= Largest({0, x})
    BY <2>1 DEF Largest
  <2>3. QED
    BY <1>2, <2>2
<1>3. QED
  BY <1>1, <1>2

LEMMA PaperRange ==
    ASSUME NEW a \in [1 .. PaperSize -> Bank]
    PROVE  IsFiniteSet(Range(a)) /\ Cardinality(Range(a)) \in 1 .. PaperSize
<1>1. IsFiniteSet(1 .. PaperSize) /\ Cardinality(1 .. PaperSize) = PaperSize
  <2>1. PaperSize \in Nat /\ PaperSize > 0
    BY SizeIs
  <2>2. Cardinality(1 .. PaperSize) = IF 1 > PaperSize THEN 0 ELSE PaperSize - 1 + 1
    BY <2>1, FS_Interval
  <2>3. QED
    BY <2>1, <2>2, FS_Interval
<1>2. a \in Surjection(1 .. PaperSize, Range(a))
  BY DEF Surjection, Range
<1>3. IsFiniteSet(Range(a)) /\ Cardinality(Range(a)) <= Cardinality(1 .. PaperSize)
  BY <1>1, <1>2, FS_Surjection
<1>4. Range(a) # {}
  BY SizeIs DEF Range
<1>5. Cardinality(Range(a)) \in Nat /\ Cardinality(Range(a)) # 0
  BY <1>3, <1>4, FS_CardinalityType, FS_EmptySet
<1>6. QED
  BY <1>1, <1>3, <1>5, SizeIs

LEMMA DivisionIsExact ==
    ASSUME NEW x \in Nat, NEW m \in Nat \ {0}
    PROVE  (x * m) \div m = x
<1> DEFINE y == x * m
           q == y \div m
<1>1. y \in Nat /\ y = x * m
  <2>1. x * m \in Int /\ x * m >= 0
    OBVIOUS
  <2>2. QED
    BY <2>1
<1> HIDE DEF y
<1>2. q \in Int /\ m * q <= y /\ y < m * q + m
  BY <1>1
<1> HIDE DEF q
<1>3. q = x
  <2>1. ~(q < x)
    <3>1. SUFFICES ASSUME q + 1 <= x PROVE FALSE
      BY <1>2
    <3>2. m * (q + 1) <= m * x
      BY <1>2, <3>1
    <3>3. m * (q + 1) = m * q + m /\ m * x = x * m
      BY <1>2
    <3>4. QED
      BY <1>1, <1>2, <3>2, <3>3
  <2>2. ~(q > x)
    <3>1. SUFFICES ASSUME x + 1 <= q PROVE FALSE
      BY <1>2
    <3>2. m * (x + 1) <= m * q
      BY <1>2, <3>1
    <3>3. m * (x + 1) = x * m + m
      OBVIOUS
    <3>4. QED
      BY <1>1, <1>2, <3>2, <3>3
  <2>3. QED
    BY <1>2, <2>1, <2>2
<1>4. QED
  BY <1>3 DEF q, y

\* The share of common questions is exact: c of the m questions of the longer
\* of the two sets.
ExactShare(a, b, c, m, e) ==
    /\ m \in 1 .. PaperSize /\ c \in 0 .. m /\ e \in Nat \ {0}
    /\ Parts = e * m /\ Overlap(a, b) = e * c
    /\ c = Cardinality(Range(a) \intersect Range(b))
    /\ \E S \in {Range(a), Range(b)} : Cardinality(S) = m

LEMMA OverlapIs ==
    ASSUME NEW a \in [1 .. PaperSize -> Bank], NEW b \in [1 .. PaperSize -> Bank]
    PROVE  \E c, m, e \in Nat : ExactShare(a, b, c, m, e)
<1> DEFINE A == Range(a)  B == Range(b)
           c == Cardinality(A \intersect B)
           m == IF Cardinality(A) > Cardinality(B) THEN Cardinality(A) ELSE Cardinality(B)
<1>1. /\ IsFiniteSet(A) /\ Cardinality(A) \in 1 .. PaperSize
      /\ IsFiniteSet(B) /\ Cardinality(B) \in 1 .. PaperSize
  BY PaperRange
<1>2. /\ A \intersect B \in SUBSET A /\ A \intersect B \in SUBSET B
  OBVIOUS
<1>3. /\ c \in Nat /\ c <= Cardinality(A) /\ c <= Cardinality(B)
  <2>1. c <= Cardinality(A) /\ c <= Cardinality(B) /\ IsFiniteSet(A \intersect B)
    BY <1>1, <1>2, FS_Subset
  <2>2. QED
    BY <2>1, FS_CardinalityType
<1>4. m \in 1 .. PaperSize /\ c \in 0 .. m /\ \E S \in {A, B} : Cardinality(S) = m
  <2> HIDE DEF A, B, c
  <2>1. QED
    BY <1>1, <1>3, SizeIs
<1>5. Overlap(a, b) = (Parts * c) \div m
  BY DEF Overlap
<1> HIDE DEF m, c, A, B
<1>6. PICK e \in Nat \ {0} : Parts = e * m
  BY <1>4, PartsIs
<1>7. Parts * c = (e * c) * m /\ e * c \in Nat /\ m \in Nat \ {0}
  <2>1. c \in Nat /\ m \in Nat \ {0} /\ e \in Nat
    BY <1>3, <1>4, SizeIs
  <2>2. (e * m) * c = (e * c) * m
    BY <2>1, Z3
  <2>3. e * c \in Nat
    BY <2>1
  <2>4. QED
    BY <1>6, <2>1, <2>2, <2>3
<1>8. Overlap(a, b) = e * c
  BY <1>5, <1>7, DivisionIsExact
<1>9. ExactShare(a, b, c, m, e)
  BY <1>4, <1>6, <1>8 DEF ExactShare, c, A, B
<1>10. QED
  BY <1>3, <1>7, <1>9

LEMMA PairsIn ==
    /\ Adjacent \subseteq Papers \X Papers
    /\ Across \subseteq Papers \X Papers
<1>1. ASSUME NEW c \in Centers, NEW i \in 1 .. Len(SeatsOf[c])
      PROVE  <<c, SeatsOf[c][i]>> \in Papers
  <2>1. SeatsOf[c] \in Seq(Range(SeatsOf[c]))
    BY AnnealingAssumption
  <2>2. SeatsOf[c][i] \in Range(SeatsOf[c])
    BY <2>1 DEF Range
  <2>3. QED
    BY <2>2 DEF Papers
<1>2. ASSUME NEW c \in Centers, NEW d \in Nat, NEW i \in 1 .. Len(SeatsOf[c]) - d
      PROVE  <<<<c, SeatsOf[c][i]>>, <<c, SeatsOf[c][i + d]>>>> \in Papers \X Papers
  <2>1. Len(SeatsOf[c]) \in Nat
    BY AnnealingAssumption
  <2>2. i \in 1 .. Len(SeatsOf[c]) /\ i + d \in 1 .. Len(SeatsOf[c])
    BY <2>1
  <2>3. QED
    BY <1>1, <2>2
<1>3. ASSUME NEW pr \in Adjacent PROVE pr \in Papers \X Papers
  <2>1. ASSUME NEW c \in Centers, NEW d \in Nat, pr \in Beside(c, d) PROVE pr \in Papers \X Papers
    BY <1>2, <2>1 DEF Beside
  <2>2. CASE \E c \in Centers : pr \in Beside(c, 1)
    BY <2>1, <2>2
  <2>3. CASE \E c \in Centers : pr \in Beside(c, SeatsPerRow[c])
    BY <2>1, <2>3, AnnealingAssumption
  <2>4. QED
    BY <2>2, <2>3 DEF Adjacent
<1>4. ASSUME NEW pr \in Across PROVE pr \in Papers \X Papers
  <2>1. PICK c \in Centers, d \in Centers :
                \E i \in DOMAIN SeatsOf[c], j \in DOMAIN SeatsOf[d] :
                    pr = <<<<c, SeatsOf[c][i]>>, <<d, SeatsOf[d][j]>>>>
    BY DEF Across
  <2>2. DOMAIN SeatsOf[c] = 1 .. Len(SeatsOf[c]) /\ DOMAIN SeatsOf[d] = 1 .. Len(SeatsOf[d])
    BY AnnealingAssumption
  <2>3. QED
    BY <1>1, <2>1, <2>2
<1>5. QED
  BY <1>3, <1>4

LEMMA WorstIs ==
    ASSUME NEW a \in AllSheets, NEW pairs \in SUBSET (Papers \X Papers)
    PROVE  /\ WorstOverlap(a, pairs) \in 0 .. Parts
           /\ \A pr \in pairs : Overlap(a[pr[1]], a[pr[2]]) <= WorstOverlap(a, pairs)
           /\ \/ WorstOverlap(a, pairs) = 0
              \/ \E pr \in pairs : WorstOverlap(a, pairs) = Overlap(a[pr[1]], a[pr[2]])
<1> DEFINE S == {0} \union {Overlap(a[pr[1]], a[pr[2]]) : pr \in pairs}
<1>1. Parts \in Nat
  BY PartsIs
<1>2. ASSUME NEW pr \in pairs PROVE Overlap(a[pr[1]], a[pr[2]]) \in 0 .. Parts
  <2>1. a[pr[1]] \in [1 .. PaperSize -> Bank] /\ a[pr[2]] \in [1 .. PaperSize -> Bank]
    BY DEF AllSheets
  <2>2. PICK c, m, e \in Nat : ExactShare(a[pr[1]], a[pr[2]], c, m, e)
    BY <2>1, OverlapIs
  <2>3. c <= m /\ Parts = e * m /\ Overlap(a[pr[1]], a[pr[2]]) = e * c
    BY <2>2 DEF ExactShare
  <2>4. e * c \in Nat /\ e * c <= e * m
    BY <2>3
  <2>5. QED
    BY <1>1, <2>3, <2>4
<1>3. S \in SUBSET (0 .. Parts) /\ S # {}
  BY <1>1, <1>2
<1>4. WorstOverlap(a, pairs) = Largest(S)
  BY DEF WorstOverlap
<1>5. Largest(S) \in S /\ \A m \in S : m <= Largest(S)
  <2> HIDE DEF S
  <2>1. QED
    BY <1>1, <1>3, LargestIs
<1>6. QED
  BY <1>3, <1>4, <1>5

(***************************************************************************)
(* What a small energy says.                                               *)
(***************************************************************************)
Near(a) == 10 * WorstOverlap(a, Adjacent) - Parts
Far(a)  == 20 * WorstOverlap(a, Across) - 3 * Parts

LEMMA UnitsAre ==
    /\ Scale \in Nat \ {0} /\ Whole \in Nat \ {0} /\ Whole = Parts * Scale
    /\ \E u \in Nat \ {0} : u = Cardinality(Papers) * PaperSize * Unit /\ Scale = u * u
<1> DEFINE n == Cardinality(Papers)
           u == n * PaperSize * Unit
<1>1. n \in Nat \ {0} /\ PaperSize \in Nat \ {0} /\ Unit \in Nat \ {0}
  BY OrderIs, SizeIs, AnnealingAssumption
<1>2. n * PaperSize \in Nat \ {0}
  <2>1. n * PaperSize \in Int /\ n * PaperSize > 0
    BY <1>1
  <2>2. QED
    BY <2>1
<1>3. u \in Nat \ {0}
  <2>1. u \in Int /\ u > 0
    BY <1>1, <1>2
  <2>2. QED
    BY <2>1
<1>4. Scale = u * u
  BY DEF Scale
<1> HIDE DEF u
<1>5. Scale \in Nat \ {0}
  <2>1. u * u \in Int /\ u * u > 0
    BY <1>3
  <2>2. QED
    BY <1>4, <2>1
<1>6. Whole \in Nat \ {0}
  <2>1. Parts * Scale \in Int /\ Parts * Scale > 0
    BY <1>5, PartsIs
  <2>2. QED
    BY <2>1 DEF Whole
<1>7. QED
  BY <1>3, <1>4, <1>5, <1>6 DEF Whole, u

LEMMA VarianceIsNat ==
    ASSUME NEW a \in AllSheets
    PROVE  HardnessVariance(a) \in Nat
<1> DEFINE v == HardnessVariance(a)
           n == Cardinality(Papers)
<1>1. n \in Nat \ {0} /\ v \in Int /\ TotalHardness(a) \in Int
  BY OrderIs, VarianceIs
<1>2. PICK p \in Papers : TRUE
  BY OrderIs
<1>3. n * Hardness(a[p]) - TotalHardness(a) \in Int
  BY <1>1, HardnessIs DEF AllSheets
<1>4. Square(n * Hardness(a[p]) - TotalHardness(a)) \in Nat
  BY <1>3, SquareIsNat DEF Square
<1>5. Square(n * Hardness(a[p]) - TotalHardness(a)) <= n * v
  BY VarianceIs
<1> HIDE DEF v, n
<1>6. n * v \in Int /\ n * v >= 0
  BY <1>1, <1>4, <1>5
<1>7. v >= 0
  <2>1. SUFFICES ASSUME v <= -1 PROVE FALSE
    BY <1>1
  <2>2. n * v <= n * (-1)
    BY <1>1, <2>1
  <2>3. QED
    BY <1>1, <1>6, <2>2
<1>8. QED
  BY <1>1, <1>7 DEF v

LEMMA EnergyIs ==
    ASSUME NEW a \in AllSheets
    PROVE  /\ Energy[a] = 10 * Parts * HardnessVariance(a)
                          + Scale * (5 * Parts * TopicDeviation(a)
                                     + 30 * Largest({0, Near(a)}) + 10 * Largest({0, Far(a)}))
           /\ Energy[a] \in Nat
           /\ Largest({0, Near(a)}) \in Nat /\ Near(a) <= Largest({0, Near(a)})
           /\ Largest({0, Far(a)}) \in Nat /\ Far(a) <= Largest({0, Far(a)})
<1>1. Energy[a] = 10 * Parts * HardnessVariance(a)
                  + Scale * (5 * Parts * TopicDeviation(a)
                             + 30 * Largest({0, Near(a)}) + 10 * Largest({0, Far(a)}))
  BY DEF Energy, AllSheets, Near, Far
<1>2. Near(a) \in Int /\ Far(a) \in Int
  BY PartsIs, PairsIn, WorstIs DEF Near, Far
<1> DEFINE v == HardnessVariance(a)
           t == TopicDeviation(a)
           near == Largest({0, Near(a)})
           far == Largest({0, Far(a)})
<1>3. v \in Nat /\ t \in Nat
  BY VarianceIsNat, TopicDeviationIs
<1>4. near \in Nat /\ Near(a) <= near /\ far \in Nat /\ Far(a) <= far
  BY <1>2, LargestOfTwo
<1>5. Energy[a] \in Nat
  <2>1. Energy[a] = 10 * Parts * v + Scale * (5 * Parts * t + 30 * near + 10 * far)
    BY <1>1
  <2> HIDE DEF v, t, near, far
  <2>2. Parts \in Nat /\ Scale \in Nat
    BY PartsIs, UnitsAre
  <2>3. Parts * v \in Nat /\ Parts * t \in Nat
    BY <1>3, <2>2
  <2>4. 5 * Parts * t + 30 * near + 10 * far \in Nat
    BY <1>3, <1>4, <2>2, <2>3
  <2>5. Scale * (5 * Parts * t + 30 * near + 10 * far) \in Nat
    BY <2>2, <2>4
  <2>6. 10 * Parts * v \in Nat
    BY <1>3, <2>2, <2>3
  <2>7. QED
    BY <2>1, <2>5, <2>6
<1>6. QED
  BY <1>1, <1>4, <1>5

\* Of four natural numbers whose weighted sum is small, each is small.
LEMMA SmallSum ==
    ASSUME NEW x \in Nat, NEW y \in Nat, NEW near \in Nat, NEW far \in Nat,
           NEW p \in Nat \ {0}, NEW s \in Nat \ {0},
           100 * (10 * p * x + s * (5 * p * y + 30 * near + 10 * far)) < p * s
    PROVE  /\ 1000 * x < s /\ y = 0 /\ 3000 * near < p /\ 1000 * far < p
<1> DEFINE z == 5 * p * y + 30 * near + 10 * far
<1>1. p * x \in Nat /\ p * y \in Nat
  OBVIOUS
<1>2. z \in Nat /\ z = 5 * (p * y) + 30 * near + 10 * far
  BY <1>1
<1>3. 100 * (10 * (p * x) + s * z) < p * s
  BY <1>2
<1> HIDE DEF z
<1>4. s * z \in Nat /\ p * s \in Nat
  BY <1>2
<1>5. 1000 * (p * x) < p * s /\ 100 * (s * z) < p * s
  BY <1>1, <1>3, <1>4
<1>6. 1000 * x < s
  <2>1. SUFFICES ASSUME s <= 1000 * x PROVE FALSE
    OBVIOUS
  <2>2. p * s <= p * (1000 * x)
    BY <2>1
  <2>3. p * (1000 * x) = 1000 * (p * x)
    BY Z3
  <2>4. QED
    BY <1>1, <1>4, <1>5, <2>2, <2>3
<1>7. 100 * z < p
  <2>1. SUFFICES ASSUME p <= 100 * z PROVE FALSE
    BY <1>2
  <2>2. s * p <= s * (100 * z)
    BY <1>2, <2>1
  <2>3. s * (100 * z) = 100 * (s * z) /\ s * p = p * s
    BY <1>2, Z3
  <2>4. QED
    BY <1>4, <1>5, <2>2, <2>3
<1>8. y = 0
  <2>1. SUFFICES ASSUME y >= 1 PROVE FALSE
    OBVIOUS
  <2>2. p * 1 <= p * y
    BY <2>1
  <2>3. QED
    BY <1>1, <1>2, <1>7, <2>2
<1>9. QED
  BY <1>1, <1>2, <1>6, <1>7, <1>8

\* One common question too many in a paper of at most 1000 costs more.
LEMMA ShareIsSmall ==
    ASSUME NEW c \in Nat, NEW m \in Nat \ {0}, NEW e \in Nat \ {0}, NEW w \in Nat, NEW x \in Nat,
           1000 * (w * (e * c) - x * (e * m)) < e * m, m <= 1000
    PROVE  w * (e * c) <= x * (e * m)
<1> DEFINE g == w * c - x * m
<1>1. w * c \in Int /\ x * m \in Int /\ g \in Int /\ e * c \in Int /\ e * m \in Int
  OBVIOUS
<1>2. w * (e * c) - x * (e * m) = e * g
  BY Z3
<1>3. 1000 * (e * g) < e * m
  BY <1>2
<1> HIDE DEF g
<1>4. g <= 0
  <2>1. SUFFICES ASSUME g >= 1 PROVE FALSE
    BY <1>1
  <2>2. e * m <= e * (1000 * g)
    <3>1. m <= 1000 * g
      BY <1>1, <2>1
    <3>2. QED
      BY <1>1, <3>1
  <2>3. e * (1000 * g) = 1000 * (e * g)
    BY <1>1, Z3
  <2>4. QED
    BY <1>1, <1>3, <2>2, <2>3
<1>5. e * g <= 0
  BY <1>1, <1>4
<1>6. w * (e * c) \in Int /\ x * (e * m) \in Int
  BY <1>1
<1>7. QED
  BY <1>2, <1>5, <1>6

LEMMA SmallDeviation ==
    ASSUME NEW d \in Int, NEW u \in Nat \ {0}, 1000 * (d * d) < 22 * (u * u)
    PROVE  100 * Abs(d) <= 15 * u
<1> DEFINE b == Abs(d)
<1>1. b \in Nat /\ b * b = d * d
  <2>1. CASE d < 0
    <3>1. b = -d /\ -d \in Nat
      BY <2>1 DEF Abs
    <3>2. (-d) * (-d) = d * d
      BY Z3
    <3>3. QED
      BY <3>1, <3>2
  <2>2. CASE ~(d < 0)
    BY <2>2 DEF Abs
  <2>3. QED
    BY <2>1, <2>2
<1> HIDE DEF b
<1>2. SUFFICES ASSUME 15 * u <= 100 * b PROVE FALSE
  BY <1>1 DEF b
<1>3. (15 * u) * (15 * u) <= (100 * b) * (100 * b)
  <2>1. 15 * u \in Nat /\ 100 * b \in Nat
    BY <1>1
  <2>2. (15 * u) * (15 * u) <= (15 * u) * (100 * b)
    BY <1>2, <2>1
  <2>3. (15 * u) * (100 * b) <= (100 * b) * (100 * b)
    BY <1>2, <2>1
  <2>4. QED
    BY <2>1, <2>2, <2>3
<1>4. (15 * u) * (15 * u) = 225 * (u * u) /\ (100 * b) * (100 * b) = 10000 * (b * b)
  BY <1>1, Z3
<1>5. u * u \in Nat \ {0} /\ d * d \in Int
  <2>1. u * u \in Int /\ u * u > 0
    OBVIOUS
  <2>2. QED
    BY <2>1
<1>6. QED
  BY <1>1, <1>3, <1>4, <1>5

LEMMA SmallEnergy ==
    ASSUME NEW a \in AllSheets, 100 * Energy[a] < Whole
    PROVE  /\ 1000 * HardnessVariance(a) < Scale /\ TopicDeviation(a) = 0
           /\ 1000 * Near(a) < Parts /\ 1000 * Far(a) < Parts
<1> DEFINE v == HardnessVariance(a)
           t == TopicDeviation(a)
           near == Largest({0, Near(a)})
           far == Largest({0, Far(a)})
<1>1. /\ Energy[a] = 10 * Parts * v + Scale * (5 * Parts * t + 30 * near + 10 * far)
      /\ near \in Nat /\ Near(a) <= near /\ far \in Nat /\ Far(a) <= far
  BY EnergyIs
<1>2. v \in Nat /\ t \in Nat /\ Parts \in Nat \ {0} /\ Scale \in Nat \ {0}
  BY VarianceIsNat, TopicDeviationIs, PartsIs, UnitsAre
<1>3. Near(a) \in Int /\ Far(a) \in Int
  BY PartsIs, PairsIn, WorstIs DEF Near, Far
<1> HIDE DEF v, t, near, far
<1>4. 100 * (10 * Parts * v + Scale * (5 * Parts * t + 30 * near + 10 * far)) < Parts * Scale
  BY <1>1 DEF Whole
<1>5. 1000 * v < Scale /\ t = 0 /\ 3000 * near < Parts /\ 1000 * far < Parts
  BY <1>1, <1>2, <1>4, SmallSum
<1>6. 1000 * Near(a) < Parts /\ 1000 * Far(a) < Parts
  BY <1>1, <1>2, <1>3, <1>5
<1>7. QED
  BY <1>5, <1>6 DEF v, t

\* Of the pairs of papers compared, none has too many questions in common.
LEMMA FewInCommon ==
    ASSUME NEW a \in AllSheets, NEW pairs \in SUBSET (Papers \X Papers), PaperSize <= 1000,
           NEW w \in Nat, NEW x \in Nat, 1000 * (w * WorstOverlap(a, pairs) - x * Parts) < Parts
    PROVE  w * WorstOverlap(a, pairs) <= x * Parts
<1> DEFINE o == WorstOverlap(a, pairs)
<1>1. CASE o = 0
  BY <1>1, PartsIs
<1>2. CASE \E pr \in pairs : o = Overlap(a[pr[1]], a[pr[2]])
  <2>1. PICK pr \in pairs : o = Overlap(a[pr[1]], a[pr[2]])
    BY <1>2
  <2>2. a[pr[1]] \in [1 .. PaperSize -> Bank] /\ a[pr[2]] \in [1 .. PaperSize -> Bank]
    BY DEF AllSheets
  <2>3. PICK c, m, e \in Nat : ExactShare(a[pr[1]], a[pr[2]], c, m, e)
    BY <2>2, OverlapIs
  <2>4. /\ m \in Nat \ {0} /\ m <= 1000 /\ e \in Nat \ {0}
        /\ Parts = e * m /\ o = e * c
    BY <2>1, <2>3, SizeIs DEF ExactShare
  <2> HIDE DEF o
  <2>5. 1000 * (w * (e * c) - x * (e * m)) < e * m
    BY <2>4 DEF o
  <2>6. w * (e * c) <= x * (e * m)
    BY <2>4, <2>5, ShareIsSmall
  <2>7. QED
    BY <2>4, <2>6 DEF o
<1>3. QED
  BY <1>1, <1>2, WorstIs

\* An assignment whose energy is below the solver's limit satisfies the four
\* constraints, if there are fewer than 23 papers of at most 1000 questions.
LEMMA SmallIsSatisfied ==
    ASSUME NEW a \in AllSheets, 100 * Energy[a] < Whole,
           Cardinality(Papers) < 23, PaperSize <= 1000
    PROVE  Satisfied(a)
<1>1. /\ 1000 * HardnessVariance(a) < Scale /\ TopicDeviation(a) = 0
      /\ 1000 * Near(a) < Parts /\ 1000 * Far(a) < Parts
  BY SmallEnergy
<1>2. Parts \in Nat /\ Adjacent \in SUBSET (Papers \X Papers) /\ Across \in SUBSET (Papers \X Papers)
  BY PartsIs, PairsIn
<1>3. WorstOverlap(a, Adjacent) \in Int /\ WorstOverlap(a, Across) \in Int
  BY <1>2, WorstIs
<1>4. 10 * WorstOverlap(a, Adjacent) <= Parts
  <2>1. 1000 * (10 * WorstOverlap(a, Adjacent) - 1 * Parts) < Parts
    BY <1>1, <1>2, <1>3 DEF Near
  <2>2. 10 * WorstOverlap(a, Adjacent) <= 1 * Parts
    BY <1>2, <2>1, FewInCommon
  <2>3. QED
    BY <1>2, <2>2
<1>5. 20 * WorstOverlap(a, Across) <= 3 * Parts
  <2>1. 1000 * (20 * WorstOverlap(a, Across) - 3 * Parts) < Parts
    BY <1>1 DEF Far
  <2>2. QED
    BY <1>2, <2>1, FewInCommon
<1>6. ASSUME NEW p \in Papers
      PROVE  100 * Abs(Cardinality(Papers) * Hardness(a[p]) - TotalHardness(a))
                <= 15 * (Cardinality(Papers) * PaperSize * Unit)
  <2> DEFINE n == Cardinality(Papers)
             v == HardnessVariance(a)
             d == n * Hardness(a[p]) - TotalHardness(a)
  <2>1. PICK u \in Nat \ {0} : u = n * PaperSize * Unit /\ Scale = u * u
    BY UnitsAre
  <2>2. n \in Nat /\ n <= 22 /\ v \in Nat /\ d \in Int
    <3>1. n \in Nat /\ n <= 22
      BY OrderIs
    <3>2. Hardness(a[p]) \in Int /\ TotalHardness(a) \in Int
      BY HardnessIs, VarianceIs DEF AllSheets
    <3>3. QED
      BY <3>1, <3>2, VarianceIsNat
  <2>3. d * d <= n * v
    BY VarianceIs DEF Square
  <2>4. 1000 * v < u * u
    BY <1>1, <2>1
  <2> HIDE DEF n, v, d
  <2>5. n * v <= 22 * v /\ n * v \in Nat /\ d * d \in Int /\ u * u \in Int
    BY <2>2
  <2>6. 1000 * (d * d) < 22 * (u * u)
    BY <2>2, <2>3, <2>4, <2>5
  <2>7. 100 * Abs(d) <= 15 * u
    BY <2>2, <2>6, SmallDeviation
  <2>8. QED
    BY <2>1, <2>7 DEF d, n
<1>7. QED
  BY <1>1, <1>4, <1>5, <1>6 DEF Satisfied, DifficultyBalanced

LEMMA CancelShare ==
    ASSUME NEW c \in Nat, NEW m \in Nat, NEW e \in Nat \ {0}, NEW w \in Nat, NEW x \in Nat,
           w * (e * c) <= x * (e * m)
    PROVE  w * c <= x * m
<1> DEFINE g == w * c - x * m
<1>1. g \in Int /\ w * (e * c) \in Int /\ x * (e * m) \in Int
  OBVIOUS
<1>2. w * (e * c) - x * (e * m) = e * g
  BY Z3
<1>3. e * g <= 0
  BY <1>1, <1>2
<1>4. SUFFICES ASSUME g >= 1 PROVE FALSE
  OBVIOUS
<1> HIDE DEF g
<1>5. e * g >= e * 1
  BY <1>1, <1>4
<1>6. e * g \in Int
  BY <1>1
<1>7. QED
  BY <1>3, <1>5, <1>6

LEMMA CommonIsNat ==
    ASSUME NEW a \in AllSheets, NEW p \in Papers, NEW r \in Papers
    PROVE  /\ Cardinality(Range(a[p])) \in Nat /\ Cardinality(Range(a[r])) \in Nat
           /\ Cardinality(Range(a[p]) \intersect Range(a[r])) \in Nat
<1>1. a[p] \in [1 .. PaperSize -> Bank] /\ a[r] \in [1 .. PaperSize -> Bank]
  BY DEF AllSheets
<1>2. IsFiniteSet(Range(a[p])) /\ IsFiniteSet(Range(a[r]))
  BY <1>1, PaperRange
<1>3. IsFiniteSet(Range(a[p]) \intersect Range(a[r]))
  BY <1>2, FS_Subset
<1>4. QED
  BY <1>2, <1>3, FS_CardinalityType

\* A pair that is compared and has few enough questions in common passes.
LEMMA PairPasses ==
    ASSUME NEW a \in AllSheets, NEW pairs \in SUBSET (Papers \X Papers), NEW pr \in pairs,
           NEW w \in Nat, NEW x \in Nat, w * WorstOverlap(a, pairs) <= x * Parts
    PROVE  \E S \in {Range(a[pr[1]]), Range(a[pr[2]])} :
               w * Cardinality(Range(a[pr[1]]) \intersect Range(a[pr[2]])) <= x * Cardinality(S)
<1> DEFINE b == a[pr[1]]  d == a[pr[2]]
<1>1. b \in [1 .. PaperSize -> Bank] /\ d \in [1 .. PaperSize -> Bank]
  BY DEF AllSheets
<1>2. PICK c, m, e \in Nat : ExactShare(b, d, c, m, e)
  BY <1>1, OverlapIs
<1>3. /\ e \in Nat \ {0} /\ Parts = e * m /\ Overlap(b, d) = e * c
      /\ c = Cardinality(Range(b) \intersect Range(d))
      /\ \E S \in {Range(b), Range(d)} : Cardinality(S) = m
  BY <1>2 DEF ExactShare
<1>4. Overlap(b, d) <= WorstOverlap(a, pairs) /\ WorstOverlap(a, pairs) \in Int
  BY WorstIs
<1> HIDE DEF b, d
<1>5. w * (e * c) <= w * WorstOverlap(a, pairs) /\ w * WorstOverlap(a, pairs) \in Int
  BY <1>3, <1>4
<1>6. w * (e * c) <= x * (e * m)
  <2>1. w * WorstOverlap(a, pairs) <= x * (e * m)
    BY <1>3
  <2>2. w * (e * c) \in Int /\ x * (e * m) \in Int
    OBVIOUS
  <2>3. QED
    BY <1>5, <2>1, <2>2
<1>7. w * c <= x * m
  BY <1>3, <1>6, CancelShare
<1>8. \E S \in {Range(b), Range(d)} :
          w * Cardinality(Range(b) \intersect Range(d)) <= x * Cardinality(S)
  BY <1>3, <1>7
<1>9. QED
  BY <1>8 DEF b, d

\* What the solver counts as satisfied passes the checkers of constraints.py,
\* if no centre has more papers than are compared across centres.
LEMMA SatisfiedPasses ==
    ASSUME NEW a \in AllSheets, Satisfied(a), \A c \in Centers : Len(SeatsOf[c]) <= 5
    PROVE  CheckersPass(a)
<1>1. /\ DifficultyBalanced(a) /\ TopicDeviation(a) = 0
      /\ 10 * WorstOverlap(a, Adjacent) <= Parts
      /\ 20 * WorstOverlap(a, Across) <= 3 * Parts
  BY DEF Satisfied
<1>2. \A p \in Papers : TopicsCovered(a[p])
  BY <1>1, TopicDeviationIs
<1>3. ASSUME NEW pr \in Adjacent PROVE Dissimilar(a[pr[1]], a[pr[2]], 10)
  <2> DEFINE A == Range(a[pr[1]])  B == Range(a[pr[2]])
  <2>1. 10 * WorstOverlap(a, Adjacent) <= 1 * Parts /\ Adjacent \in SUBSET (Papers \X Papers)
    BY <1>1, PartsIs, PairsIn
  <2>2. \E S \in {A, B} : 10 * Cardinality(A \intersect B) <= 1 * Cardinality(S)
    BY <2>1, PairPasses
  <2>3. Cardinality(A) \in Nat /\ Cardinality(B) \in Nat /\ Cardinality(A \intersect B) \in Nat
    BY PairsIn, CommonIsNat
  <2> HIDE DEF A, B
  <2>4. \E S \in {A, B} : 100 * Cardinality(A \intersect B) <= 10 * Cardinality(S)
    BY <2>2, <2>3
  <2>5. QED
    BY <2>4 DEF Dissimilar, A, B
<1>4. ASSUME NEW p \in Papers, NEW r \in Papers, p[1] # r[1]
      PROVE  Dissimilar(a[p], a[r], 15)
  <2>1. ASSUME NEW s \in Papers
        PROVE  \E c \in Centers : \E i \in DOMAIN SeatsOf[c] \intersect 1 .. 5 : s = <<c, SeatsOf[c][i]>>
    <3>1. PICK c \in Centers : \E y \in Range(SeatsOf[c]) : s = <<c, y>>
      BY DEF Papers
    <3>2. PICK i \in DOMAIN SeatsOf[c] : s = <<c, SeatsOf[c][i]>>
      BY <3>1 DEF Range
    <3>3. SeatsOf[c] \in Seq(Range(SeatsOf[c])) /\ Len(SeatsOf[c]) <= 5
      BY AnnealingAssumption
    <3>4. i \in 1 .. Len(SeatsOf[c]) /\ Len(SeatsOf[c]) \in Nat
      BY <3>3
    <3>5. i \in 1 .. 5
      BY <3>3, <3>4
    <3>6. QED
      BY <3>2, <3>5
  <2> DEFINE sample == UNION {{<<c, SeatsOf[c][i]>> : i \in DOMAIN SeatsOf[c] \intersect 1 .. 5} :
                                 c \in Centers}
  <2>2. p \in sample /\ r \in sample
    BY <2>1
  <2>3. Across = {pair \in sample \X sample : pair[1][1] # pair[2][1]}
    BY DEF Across
  <2> HIDE DEF sample
  <2>4. <<p, r>> \in Across
    BY <1>4, <2>2, <2>3
  <2>5. Across \in SUBSET (Papers \X Papers) /\ 20 * WorstOverlap(a, Across) <= 3 * Parts
    BY <1>1, PairsIn
  <2> DEFINE A == Range(a[p])  B == Range(a[r])
             pr == <<p, r>>
  <2>6. \E S \in {Range(a[pr[1]]), Range(a[pr[2]])} :
            20 * Cardinality(Range(a[pr[1]]) \intersect Range(a[pr[2]])) <= 3 * Cardinality(S)
    <3> HIDE DEF pr
    <3>1. pr \in Across
      BY <2>4 DEF pr
    <3>2. QED
      BY <2>5, <3>1, PairPasses
  <2>7. Cardinality(A) \in Nat /\ Cardinality(B) \in Nat /\ Cardinality(A \intersect B) \in Nat
    BY CommonIsNat
  <2>8. \E S \in {A, B} : 20 * Cardinality(A \intersect B) <= 3 * Cardinality(S)
    BY <2>6
  <2> HIDE DEF A, B
  <2>9. \E S \in {A, B} : 100 * Cardinality(A \intersect B) <= 15 * Cardinality(S)
    BY <2>7, <2>8
  <2>10. QED
    BY <2>9 DEF Dissimilar, A, B
<1>5. QED
  BY <1>1, <1>2, <1>3, <1>4 DEF CheckersPass

(***************************************************************************)
(* Drawing and swapping.                                                   *)
(***************************************************************************)
DraftsFrom(f, k) == Joined(f[k - 1], Sample(Blueprint[k][1], Blueprint[k][2]))

LEMMA JoinedIs ==
    ASSUME NEW S, NEW T, NEW s \in Joined(S, T)
    PROVE  \E a \in S : \E b \in T : s = a \o b
BY DEF Joined

LEMMA SampleIs ==
    ASSUME NEW k \in 1 .. Len(Blueprint), NEW b \in Sample(Blueprint[k][1], Blueprint[k][2])
    PROVE  b \in Seq(Bank)
           /\ Len(b) = IF Available(Blueprint[k][1]) = {} THEN 0 ELSE Blueprint[k][2]
<1> DEFINE t == Blueprint[k][1]
           c == Blueprint[k][2]
<1>1. c \in Nat
  BY SizeIs, AnnealingAssumption
<1>2. CASE Available(t) = {}
  <2>1. b = <<>>
    BY <1>2 DEF Sample
  <2>2. QED
    BY <1>2, <2>1
<1>3. CASE Available(t) # {}
  <2>1. b \in [1 .. c -> Available(t)]
    BY <1>3 DEF Sample
  <2>2. b \in [1 .. c -> Bank]
    BY <2>1 DEF Available
  <2> HIDE DEF c
  <2>3. b \in Seq(Bank) /\ Len(b) = c
    BY <1>1, <2>2
  <2>4. QED
    BY <1>3, <2>3 DEF c
<1>4. QED
  BY <1>2, <1>3

LEMMA DraftsAre ==
    Drafts[0] = {<<>>} /\ \A k \in 1 .. Len(Blueprint) : Drafts[k] = DraftsFrom(Drafts, k)
<1> DEFINE n == Len(Blueprint)
           V == SUBSET Seq(Bank)
           Said(f) == [k \in 0 .. n |->
                         IF k = 0 THEN {<<>>}
                         ELSE Joined(f[k - 1], Sample(Blueprint[k][1], Blueprint[k][2]))]
           step == [x \in (1 .. n) \X V |->
                      Joined(x[2], Sample(Blueprint[x[1]][1], Blueprint[x[1]][2]))]
<1>1. n \in Nat
  BY AnnealingAssumption
<1>2. \A k \in 1 .. n : \A v \in V :
          step[<<k, v>>] = Joined(v, Sample(Blueprint[k][1], Blueprint[k][2]))
  OBVIOUS
<1> HIDE DEF step
<1>3. ASSUME NEW k \in 1 .. n, NEW v \in V PROVE step[<<k, v>>] \in V
  <2>1. ASSUME NEW s \in Joined(v, Sample(Blueprint[k][1], Blueprint[k][2]))
        PROVE  s \in Seq(Bank)
    <3>1. PICK a \in v : \E b \in Sample(Blueprint[k][1], Blueprint[k][2]) : s = a \o b
      BY JoinedIs
    <3>2. PICK b \in Sample(Blueprint[k][1], Blueprint[k][2]) : s = a \o b
      BY <3>1
    <3>3. a \in Seq(Bank) /\ b \in Seq(Bank)
      BY SampleIs
    <3>4. QED
      BY <3>2, <3>3
  <2>2. step[<<k, v>>] = Joined(v, Sample(Blueprint[k][1], Blueprint[k][2]))
    BY <1>2
  <2>3. QED
    BY <2>1, <2>2
<1>4. PICK f \in [0 .. n -> V] : StepsBy(f, n, {<<>>}, step)
  <2>1. \E f \in [0 .. n -> V] : StepsBy(f, n, {<<>>}, step)
    <3>1. {<<>>} \in V
      OBVIOUS
    <3> HIDE DEF n, V
    <3>2. QED
      BY <1>1, <1>3, <3>1, StepByStep, Zenon
  <2>2. QED
    BY <2>1
<1>5. f = Said(f)
  <2>1. ASSUME NEW k \in 0 .. n
        PROVE  f[k] = IF k = 0 THEN {<<>>}
                      ELSE Joined(f[k - 1], Sample(Blueprint[k][1], Blueprint[k][2]))
    <3>1. CASE k = 0
      BY <1>4, <3>1 DEF StepsBy
    <3>2. CASE k # 0
      <4>1. k \in 1 .. n /\ f[k - 1] \in V
        BY <1>1, <1>4, <3>2
      <4>2. f[k] = step[<<k, f[k - 1]>>]
        BY <1>4, <4>1 DEF StepsBy
      <4>3. step[<<k, f[k - 1]>>]
              = Joined(f[k - 1], Sample(Blueprint[k][1], Blueprint[k][2]))
        BY <1>2, <4>1
      <4>4. QED
        BY <3>2, <4>2, <4>3
    <3>3. QED
      BY <3>1, <3>2
  <2>2. QED
    BY <2>1
<1> DEFINE g == Drafts
<1>6. g = Said(g)
  BY <1>5 DEF Drafts
<1> HIDE DEF g
<1>7. \A k \in 0 .. n : g[k] = IF k = 0 THEN {<<>>}
                       ELSE Joined(g[k - 1], Sample(Blueprint[k][1], Blueprint[k][2]))
  BY <1>6, Zenon
<1>8. g[0] = {<<>>} /\ \A k \in 1 .. n : g[k] = DraftsFrom(g, k)
  BY <1>1, <1>7 DEF DraftsFrom
<1>9. QED
  BY <1>8 DEF g

\* A drawn paper has as many questions as the blueprint asks for of its topics
\* that have any.
LEMMA DrawnIs == Drawn \subseteq [1 .. PaperSize -> Bank]
<1> DEFINE n == Len(Blueprint)
           counts == [i \in DOMAIN Blueprint |->
                        IF Available(Blueprint[i][1]) = {} THEN 0 ELSE Blueprint[i][2]]
           g == Sums(counts)
           P == {k \in Nat : k <= n => \A s \in Drafts[k] : s \in Seq(Bank) /\ Len(s) = g[k]}
<1>1. n \in Nat /\ DOMAIN Blueprint = 1 .. n
  BY AnnealingAssumption
<1>2. /\ counts \in Seq(Int) /\ Len(counts) = n
      /\ \A k \in 1 .. n :
            counts[k] = IF Available(Blueprint[k][1]) = {} THEN 0 ELSE Blueprint[k][2]
  <2>1. counts \in [1 .. n -> Int]
    BY <1>1, SizeIs
  <2>2. QED
    BY <1>1, <2>1
<1>3. PaperSize = g[n]
  BY <1>2 DEF PaperSize, Total
<1> HIDE DEF counts
<1>4. g[0] = 0 /\ \A k \in 1 .. n : g[k] = g[k - 1] + counts[k]
  BY <1>2, SumsAre DEF SumsOf
<1> HIDE DEF g, n
<1>5. 0 \in P
  <2>1. \A s \in Drafts[0] : s = <<>>
    BY DraftsAre
  <2>2. <<>> \in Seq(Bank) /\ Len(<<>>) = 0
    OBVIOUS
  <2>3. QED
    BY <1>4, <2>1, <2>2
<1>6. ASSUME NEW k \in Nat, k \in P PROVE k + 1 \in P
  <2>1. SUFFICES ASSUME k + 1 <= n, NEW s \in Drafts[k + 1]
                 PROVE  s \in Seq(Bank) /\ Len(s) = g[k + 1]
    OBVIOUS
  <2>2. k + 1 \in 1 .. n /\ (k + 1) - 1 = k /\ k <= n
    BY <1>1, <2>1
  <2>3. s \in DraftsFrom(Drafts, k + 1)
    BY <2>2, DraftsAre DEF n
  <2>4. PICK a \in Drafts[(k + 1) - 1] :
                \E b \in Sample(Blueprint[k + 1][1], Blueprint[k + 1][2]) : s = a \o b
    BY <2>3, JoinedIs DEF DraftsFrom
  <2> PICK b \in Sample(Blueprint[k + 1][1], Blueprint[k + 1][2]) : s = a \o b
    BY <2>4
  <2>5. a \in Seq(Bank) /\ Len(a) = g[k]
    BY <1>6, <2>2, <2>4
  <2>6. b \in Seq(Bank) /\ Len(b) = counts[k + 1]
    BY <1>2, <2>2, <2>4, SampleIs DEF n
  <2>7. g[k + 1] = g[k] + counts[k + 1]
    <3>1. g[k + 1] = g[(k + 1) - 1] + counts[k + 1]
      BY <1>4, <2>2
    <3>2. QED
      BY <2>2, <3>1
  <2>8. s \in Seq(Bank) /\ Len(s) = Len(a) + Len(b)
    <3>1. a \o b \in Seq(Bank) /\ Len(a \o b) = Len(a) + Len(b)
      BY <2>5, <2>6, ConcatProperties
    <3>2. QED
      BY <3>1
  <2>9. QED
    BY <2>5, <2>6, <2>7, <2>8
<1>7. n \in P
  <2> HIDE DEF P
  <2>1. QED
    BY <1>1, <1>5, <1>6, EveryNumber
<1>8. ASSUME NEW s \in Drawn PROVE s \in [1 .. PaperSize -> Bank]
  <2>1. s \in Seq(Bank) /\ Len(s) = PaperSize
    BY <1>1, <1>3, <1>7 DEF Drawn, n
  <2>2. QED
    BY <2>1
<1>9. QED
  BY <1>8

LEMMA SwapIs ==
    ASSUME NEW a \in AllSheets, NEW p \in Papers, NEW r \in Papers, p # r,
           NEW i \in 1 .. PaperSize, NEW j \in 1 .. PaperSize
    PROVE  /\ Swapped(a, p, i, r, j) \in AllSheets
           /\ Undone(Swapped(a, p, i, r, j), p, i, a[p][i], r, j, a[r][j]) = a
<1> DEFINE b == Swapped(a, p, i, r, j)
           u == Undone(b, p, i, a[p][i], r, j, a[r][j])
<1>1. /\ a \in [Papers -> [1 .. PaperSize -> Bank]]
      /\ a[p] \in [1 .. PaperSize -> Bank] /\ a[r] \in [1 .. PaperSize -> Bank]
      /\ a[p][i] \in Bank /\ a[r][j] \in Bank
  BY DEF AllSheets
<1>2. b = [x \in Papers |-> IF x = p THEN [a[p] EXCEPT ![i] = a[r][j]]
                            ELSE IF x = r THEN [a[r] EXCEPT ![j] = a[p][i]] ELSE a[x]]
  BY <1>1 DEF Swapped, ReplaceAt
<1>3. [a[p] EXCEPT ![i] = a[r][j]] \in [1 .. PaperSize -> Bank]
      /\ [a[r] EXCEPT ![j] = a[p][i]] \in [1 .. PaperSize -> Bank]
  BY <1>1
<1>4. b \in AllSheets
  BY <1>1, <1>2, <1>3 DEF AllSheets
<1> HIDE DEF b
<1>5. u = [x \in Papers |-> IF x = p THEN [b[p] EXCEPT ![i] = a[p][i]]
                            ELSE IF x = r THEN [b[r] EXCEPT ![j] = a[r][j]] ELSE b[x]]
  BY <1>4 DEF Undone, ReplaceAt, AllSheets
<1>6. [b[p] EXCEPT ![i] = a[p][i]] = a[p]
  <2>1. b[p] = [a[p] EXCEPT ![i] = a[r][j]]
    BY <1>2
  <2>2. QED
    BY <1>1, <2>1
<1>7. [b[r] EXCEPT ![j] = a[r][j]] = a[r]
  <2>1. b[r] = [a[r] EXCEPT ![j] = a[p][i]]
    BY <1>2
  <2>2. QED
    BY <1>1, <2>1
<1>8. u = a
  <2>1. ASSUME NEW x \in Papers
        PROVE  (IF x = p THEN [b[p] EXCEPT ![i] = a[p][i]]
                ELSE IF x = r THEN [b[r] EXCEPT ![j] = a[r][j]] ELSE b[x]) = a[x]
    <3>1. CASE x = p
      BY <1>6, <3>1
    <3>2. CASE x # p /\ x = r
      BY <1>7, <3>2
    <3>3. CASE x # p /\ x # r
      BY <1>2, <3>3
    <3>4. QED
      BY <3>1, <3>2, <3>3
  <2> HIDE DEF u
  <2>2. u = [x \in Papers |-> a[x]]
    BY <1>5, <2>1
  <2>3. QED
    BY <1>1, <2>2
<1>9. QED
  BY <1>4, <1>8 DEF b

LEMMA SwapAt ==
    ASSUME NEW a \in AllSheets, NEW p \in Papers, NEW r \in Papers, p # r,
           NEW i \in 1 .. PaperSize, NEW j \in 1 .. PaperSize,
           NEW x \in Papers, NEW k \in 1 .. PaperSize
    PROVE  Swapped(a, p, i, r, j)[x][k] = IF x = p /\ k = i THEN a[r][j]
                                          ELSE IF x = r /\ k = j THEN a[p][i]
                                          ELSE a[x][k]
<1> DEFINE b == Swapped(a, p, i, r, j)
<1>1. /\ a \in [Papers -> [1 .. PaperSize -> Bank]]
      /\ a[p] \in [1 .. PaperSize -> Bank] /\ a[r] \in [1 .. PaperSize -> Bank]
  BY DEF AllSheets
<1>2. b = [y \in Papers |-> IF y = p THEN [a[p] EXCEPT ![i] = a[r][j]]
                            ELSE IF y = r THEN [a[r] EXCEPT ![j] = a[p][i]] ELSE a[y]]
  BY <1>1 DEF Swapped, ReplaceAt
<1>3. CASE x = p
  BY <1>1, <1>2, <1>3
<1>4. CASE x # p /\ x = r
  BY <1>1, <1>2, <1>4
<1>5. CASE x # p /\ x # r
  BY <1>1, <1>2, <1>5
<1>6. QED
  BY <1>3, <1>4, <1>5

\* Swapping two questions moves no copy out of the papers.
LEMMA SwapKeepsCopies ==
    ASSUME NEW a \in AllSheets, NEW p \in Papers, NEW r \in Papers, p # r,
           NEW i \in 1 .. PaperSize, NEW j \in 1 .. PaperSize, NEW q \in Bank
    PROVE  Copies(q, Swapped(a, p, i, r, j)) = Copies(q, a)
<1> DEFINE b == Swapped(a, p, i, r, j)
           Places == Papers \X (1 .. PaperSize)
           S == {x \in Places : b[x[1]][x[2]] = q}
           T == {x \in Places : a[x[1]][x[2]] = q}
           other(x) == IF x = <<p, i>> THEN <<r, j>> ELSE IF x = <<r, j>> THEN <<p, i>> ELSE x
           f == [x \in S |-> other(x)]
<1>1. \A x \in Places : other(x) \in Places /\ other(other(x)) = x
  OBVIOUS
<1>2. ASSUME NEW x \in Places PROVE b[x[1]][x[2]] = a[other(x)[1]][other(x)[2]]
  <2>1. x[1] \in Papers /\ x[2] \in 1 .. PaperSize /\ x = <<x[1], x[2]>>
    OBVIOUS
  <2>2. b[x[1]][x[2]] = IF x[1] = p /\ x[2] = i THEN a[r][j]
                        ELSE IF x[1] = r /\ x[2] = j THEN a[p][i]
                        ELSE a[x[1]][x[2]]
    BY <2>1, SwapAt
  <2> HIDE DEF b
  <2>3. CASE x = <<p, i>>
    BY <2>2, <2>3
  <2>4. CASE x # <<p, i>> /\ x = <<r, j>>
    BY <2>1, <2>2, <2>4
  <2>5. CASE x # <<p, i>> /\ x # <<r, j>>
    BY <2>1, <2>2, <2>5
  <2>6. QED
    BY <2>3, <2>4, <2>5
<1> HIDE DEF b, Places, other
<1>3. \A x \in S : other(x) \in T
  BY <1>1, <1>2
<1>4. \A y \in T : other(y) \in S /\ f[other(y)] = y
  BY <1>1, <1>2
<1>5. f \in [S -> T] /\ \A x, y \in S : f[x] = f[y] => x = y
  BY <1>1, <1>3
<1>6. f \in Bijection(S, T)
  BY <1>4, <1>5 DEF Bijection, Injection, Surjection, IsInjective
<1>7. IsFiniteSet(S)
  <2>1. IsFiniteSet(Papers) /\ IsFiniteSet(1 .. PaperSize)
    BY AnnealingAssumption, SizeIs, FS_Interval
  <2>2. IsFiniteSet(Places)
    BY <2>1, FS_Product DEF Places
  <2>3. S \in SUBSET Places
    OBVIOUS
  <2>4. QED
    BY <2>2, <2>3, FS_Subset
<1>8. Cardinality(T) = Cardinality(S)
  <2>1. ExistsBijection(S, T)
    BY <1>6 DEF ExistsBijection
  <2> HIDE DEF S, T
  <2>2. QED
    BY <1>7, <2>1, FS_Bijection
<1>9. QED
  BY <1>8 DEF Copies, S, T, b, Places

(***************************************************************************)
(* The solver's steps leave the requests alone, and the other way round.   *)
(***************************************************************************)
LEMMA SeatOrderIs ==
    /\ Len(SeatOrder) \in Nat \ {0} /\ DOMAIN SeatOrder = 1 .. Len(SeatOrder)
    /\ \A k \in 1 .. Len(SeatOrder) : SeatOrder[k] \in Seats
    /\ \A p \in Seats : \E k \in 1 .. Len(SeatOrder) : SeatOrder[k] = p
<1>1. SeatOrder \in Seq(Range(SeatOrder)) /\ SeatOrder # <<>>
  BY MatrixAssumption
<1>2. Len(SeatOrder) \in Nat \ {0} /\ DOMAIN SeatOrder = 1 .. Len(SeatOrder)
  BY <1>1
<1>3. QED
  BY <1>2 DEF Seats, Range

\* What the worker does of a message that concerns the requests: nothing.
TopicServed ==
    /\ form' = form /\ UNCHANGED setup
    /\ \A m \in Msgs : topic'[m] # Nothing <=> topic[m] # Nothing
    /\ faults' \in Nat /\ faults' >= faults

LEMMA SetupKept ==
    ASSUME TopicType, ExamType, SetupInv, TopicServed
    PROVE  ExamType' /\ SetupInv'
<1>1. ExamType'
  BY DEF TopicServed, setup, ExamType
<1>2. \A field : Published(field)' = Published(field)
  BY DEF TopicServed, Published
<1>3. faults' = 0 => faults = 0
  BY DEF TopicServed, TopicType
<1>4. /\ exam' = exam /\ ask' = ask /\ found' = found /\ overlapped' = overlapped
  BY DEF TopicServed, setup
<1>5. JobIsNamed'
  BY <1>2, <1>3, <1>4 DEF SetupInv, JobIsNamed, At
<1>6. CheckHolds => CheckHolds'
  BY <1>4 DEF CheckHolds, At, Checked
<1>7. JobIsOnly => JobIsOnly'
  BY <1>2, <1>3, <1>4 DEF JobIsOnly, At
<1>8. QED
  BY <1>1, <1>4, <1>5, <1>6, <1>7 DEF SetupInv

\* A message is settled, taken or given back by the worker.
LEMMA MessageMoves ==
    ASSUME TopicType, NEW m \in Msgs, topic[m] # Nothing,
           NEW outcome \in MsgStates \ {Nothing},
           topic' = [topic EXCEPT ![m] = outcome], form' = form, UNCHANGED setup,
           faults' \in Nat, faults' >= faults
    PROVE  /\ TopicType' /\ TopicServed
           /\ topic'[m] = outcome /\ \A n \in Msgs \ {m} : topic'[n] = topic[n]
<1>1. TopicType' /\ topic'[m] = outcome /\ \A n \in Msgs \ {m} : topic'[n] = topic[n]
  BY DEF TopicType
<1>2. QED
  BY <1>1 DEF TopicServed

LEMMA TopicRests ==
    ASSUME TopicType, UNCHANGED <<topic, form>>, UNCHANGED setup,
           faults' \in Nat, faults' >= faults
    PROVE  TopicType' /\ TopicServed
BY DEF TopicType, TopicServed

\* What the worker and the stores are: the part of the invariant that is not
\* the requests'.
SolverOK == TopicType /\ SolverType /\ SolverInv

OnlySent ==
    /\ \A m \in Msgs : \/ topic'[m] = topic[m] /\ form'[m] = form[m]
                       \/ topic[m] = Nothing /\ topic'[m] = "queued"
    /\ faults' \in Nat /\ faults' >= faults

LEMMA SendOnlySends ==
    ASSUME TopicType, NEW m \in Msgs, NEW field \in Forms, Send(m, field), faults' = faults
    PROVE  OnlySent
BY SendPublishes DEF OnlySent, TopicType

LEMMA RequestsOnlySend ==
    ASSUME TopicType, ExamType, SetupNext
    PROVE  OnlySent
<1>1. ASSUME UNCHANGED <<topic, form>>, faults' = faults \/ faults' = faults + 1
      PROVE  OnlySent
  BY <1>1 DEF OnlySent, TopicType
<1>2. ASSUME NEW c \in Callers, NEW m \in Msgs, PublishToMatrixSolver(c, m) PROVE OnlySent
  BY <1>2, SendOnlySends DEF PublishToMatrixSolver, Forms
<1>3. ASSUME NEW c \in Callers, NEW m \in Msgs, PublishJob(c, m) PROVE OnlySent
  BY <1>3, SendOnlySends DEF PublishJob, Forms
<1>4. CASE \/ Create
           \/ \E c \in Callers, b \in Blueprints : CheckBlueprint(c, b)
           \/ \E c \in Callers : DefineBlueprint(c)
           \/ \E c \in Callers : CheckSolver(c)
           \/ \E c \in Callers : MarkGenerating(c)
           \/ \E c \in Callers : LoadExam(c)
           \/ \E c \in Callers : RecordPending(c)
           \/ \E c \in Callers : RequestFails(c)
  BY <1>1, <1>4 DEF Create, CheckBlueprint, DefineBlueprint, CheckSolver, MarkGenerating,
                    LoadExam, RecordPending, RequestFails
<1>5. QED
  BY SetupStepIs, <1>2, <1>3, <1>4

\* The messages of callbacks are left alone; others may come or be dropped.
JobsStay ==
    \A m \in Msgs : /\ Taken(m) => Taken(m)'
                    /\ (Taken(m) /\ topic[m] = "leased") => topic'[m] = "leased"
                    /\ Pending(m) => Pending(m)'
                    /\ topic'[m] = "stored" => topic[m] = "stored"

LEMMA JobsStayKeeps ==
    ASSUME SolverOK, TopicType', JobsStay, faults' >= faults, data => data', data' \in BOOLEAN,
           UNCHANGED <<sender, document, worker, lapsed, solve, docs, last, shown>>
    PROVE  SolverOK'
<1>1. SolverType'
  BY DEF SolverOK, SolverType
<1>2. LeaseHolds'
  BY DEF SolverOK, SolverInv, LeaseHolds, JobsStay, Doing, JobOf, Taken
<1>3. DrawHolds'
  BY DEF SolverOK, SolverInv, DrawHolds, Doing, Working, JobOf
<1>4. SeatsHold'
  BY DEF SolverOK, SolverInv, SeatsHold, JobsStay, Taken
<1>5. ReplacementWaits'
  <2>1. last.draw > 0 => last.msg \in Msgs
    BY DEF SolverOK, SolverInv, SeatsHold, Taken
  <2>2. QED
    BY <2>1 DEF SolverOK, SolverInv, ReplacementWaits, JobsStay, JobOf
<1>6. ShownHolds'
  <2>1. faults' = 0 => faults = 0
    BY DEF SolverOK, TopicType
  <2>2. QED
    BY <2>1 DEF SolverOK, SolverInv, ShownHolds, JobsStay, Doing
<1>7. QED
  BY <1>1, <1>2, <1>3, <1>4, <1>5, <1>6 DEF SolverOK, SolverInv

LEMMA SentKeeps ==
    ASSUME SolverOK, TopicType', OnlySent,
           UNCHANGED <<sender, document, data, worker, lapsed, solve, docs, last, shown>>
    PROVE  SolverOK'
<1>1. JobsStay
  BY Apart DEF OnlySent, JobsStay, Taken, Pending
<1>2. data' \in BOOLEAN
  BY DEF SolverOK, SolverType
<1>3. QED
  BY <1>1, <1>2, JobsStayKeeps DEF OnlySent

LEMMA DataArrivesKeeps ==
    ASSUME SolverOK, DataArrives
    PROVE  SolverOK' /\ TopicServed
<1>1. /\ UNCHANGED <<sender, document, worker, lapsed, solve, docs, last, shown>>
      /\ UNCHANGED <<topic, form, faults>> /\ UNCHANGED setup /\ data' = TRUE
  BY DEF DataArrives, asked
<1>2. TopicType' /\ TopicServed /\ faults' >= faults
  BY <1>1, TopicRests DEF SolverOK, TopicType
<1>3. JobsStay
  BY <1>1 DEF JobsStay, Taken, Pending
<1>4. QED
  BY <1>1, <1>2, <1>3, JobsStayKeeps

LEMMA DropKeeps ==
    ASSUME SolverOK, NEW w \in Callbacks, NEW m \in Msgs, Drop(w, m)
    PROVE  SolverOK' /\ TopicServed
<1>1. /\ topic[m] = "queued" /\ form[m] # "exam_id" /\ topic' = [topic EXCEPT ![m] = "dropped"]
      /\ UNCHANGED <<sender, document, data, worker, lapsed, solve, docs, last, shown>>
      /\ form' = form /\ faults' = faults /\ UNCHANGED setup
  BY DEF Drop, asked
<1>2. faults' \in Nat /\ faults' >= faults /\ data' \in BOOLEAN
  BY <1>1 DEF SolverOK, TopicType, SolverType
<1>3. "dropped" \in MsgStates \ {Nothing} /\ topic[m] # Nothing
  BY <1>1, Apart DEF MsgStates, Final
<1>4. /\ TopicType' /\ TopicServed
      /\ topic'[m] = "dropped" /\ \A n \in Msgs \ {m} : topic'[n] = topic[n]
  BY <1>1, <1>2, <1>3, MessageMoves DEF SolverOK
<1>5. JobsStay
  BY <1>1, <1>4 DEF JobsStay, Taken, Pending
<1>6. QED
  BY <1>1, <1>2, <1>4, <1>5, JobsStayKeeps

(***************************************************************************)
(* A callback gets its message, loses the lease, or gives the message up.  *)
(***************************************************************************)
LEMMA RestingIs ==
    /\ Resting \in WorkerState /\ Resting.at = "idle" /\ ~Resting.holds
    /\ Resting.draw = 0 /\ Resting.sent = 0
BY DEF Resting, WorkerState

LEMMA WorkerMoves ==
    ASSUME SolverType, NEW w \in Callbacks, NEW to \in WorkerState,
           worker' = [worker EXCEPT ![w] = to]
    PROVE  /\ worker' \in [Callbacks -> WorkerState] /\ worker'[w] = to
           /\ \A v \in Callbacks \ {w} : worker'[v] = worker[v]
BY DEF SolverType

LEMMA ReceiveKeeps ==
    ASSUME SolverOK, NEW w \in Callbacks, NEW m \in Msgs, Receive(w, m)
    PROVE  SolverOK' /\ TopicServed
<1> DEFINE to == [Resting EXCEPT !.at = "loading", !.msg = m, !.holds = TRUE]
<1>1. /\ Doing(w, "idle") /\ topic[m] = "queued" /\ form[m] = "exam_id"
      /\ topic' = [topic EXCEPT ![m] = "leased"] /\ worker' = [worker EXCEPT ![w] = to]
      /\ UNCHANGED <<sender, document, data, lapsed, solve, docs, last, shown>>
      /\ form' = form /\ faults' = faults /\ UNCHANGED setup
  BY DEF Receive, asked
<1>2. faults' \in Nat /\ faults' >= faults
  BY <1>1 DEF SolverOK, TopicType
<1>3. "leased" \in MsgStates \ {Nothing} /\ topic[m] # Nothing
  BY <1>1, Apart DEF MsgStates
<1>4. /\ TopicType' /\ TopicServed
      /\ topic'[m] = "leased" /\ \A n \in Msgs \ {m} : topic'[n] = topic[n]
  BY <1>1, <1>2, <1>3, MessageMoves DEF SolverOK
<1>5. /\ to \in WorkerState /\ to.at = "loading" /\ to.msg = m /\ to.holds = TRUE
      /\ to.draw = 0 /\ to.sent = 0
  BY DEF Resting, WorkerState
<1> HIDE DEF to
<1>6. /\ worker' \in [Callbacks -> WorkerState] /\ worker'[w] = to
      /\ \A v \in Callbacks \ {w} : worker'[v] = worker[v]
  BY <1>1, <1>5, WorkerMoves DEF SolverOK
<1>7. SolverType'
  BY <1>1, <1>6 DEF SolverOK, SolverType
<1>8. LeaseHolds'
  <2>1. \A v \in Callbacks : worker[v].holds => JobOf(v) # m
    BY <1>1 DEF SolverOK, SolverInv, LeaseHolds
  <2>2. QED
    BY <1>1, <1>3, <1>4, <1>5, <1>6, <2>1
       DEF SolverOK, SolverInv, LeaseHolds, Doing, JobOf, Taken
<1>9. DrawHolds'
  BY <1>1, <1>5, <1>6, SeatOrderIs
     DEF SolverOK, SolverInv, DrawHolds, Doing, Working, JobOf
<1>10. SeatsHold'
  BY <1>1, <1>3, <1>4 DEF SolverOK, SolverInv, SeatsHold, Taken
<1>11. ReplacementWaits'
  <2>1. last.draw > 0 => last.msg \in Msgs
    BY DEF SolverOK, SolverInv, SeatsHold, Taken
  <2>2. QED
    BY <1>1, <1>4, <1>5, <1>6, <2>1
       DEF SolverOK, SolverInv, ReplacementWaits, JobOf, Pending
<1>12. ShownHolds'
  BY <1>1, <1>4, <1>5, <1>6 DEF SolverOK, SolverInv, ShownHolds, Doing, Pending
<1>13. QED
  BY <1>4, <1>7, <1>8, <1>9, <1>10, <1>11, <1>12 DEF SolverOK, SolverInv

LEMMA LeaseExpiresKeeps ==
    ASSUME SolverOK, NEW w \in Callbacks, LeaseExpires(w)
    PROVE  SolverOK' /\ TopicServed
<1> DEFINE m == JobOf(w)
           to == [worker[w] EXCEPT !.holds = FALSE]
<1>1. /\ worker[w].holds /\ worker' = [worker EXCEPT ![w] = to]
      /\ topic' = [topic EXCEPT ![m] = "queued"] /\ lapsed' = lapsed \union {m}
      /\ UNCHANGED <<sender, document, data, solve, docs, last, shown>>
      /\ form' = form /\ faults' = faults + 1 /\ UNCHANGED setup
  BY DEF LeaseExpires, asked
<1>2. faults' \in Nat /\ faults' >= faults /\ faults' # 0
  BY <1>1 DEF SolverOK, TopicType
<1>3. /\ "queued" \in MsgStates \ {Nothing} /\ ~Doing(w, "idle")
      /\ Taken(m) /\ topic[m] = "leased"
  BY <1>1, Apart DEF MsgStates, SolverOK, SolverInv, LeaseHolds
<1>4. /\ TopicType' /\ TopicServed
      /\ topic'[m] = "queued" /\ \A n \in Msgs \ {m} : topic'[n] = topic[n]
  BY <1>1, <1>2, <1>3, MessageMoves DEF SolverOK, Taken
<1>5. /\ to \in WorkerState /\ to.holds = FALSE
      /\ to.at = worker[w].at /\ to.msg = m /\ to.draw = worker[w].draw /\ to.sent = worker[w].sent
  BY DEF SolverOK, SolverType, WorkerState, JobOf
<1> HIDE DEF to
<1>6. /\ worker' \in [Callbacks -> WorkerState] /\ worker'[w] = to
      /\ \A v \in Callbacks \ {w} : worker'[v] = worker[v]
  BY <1>1, <1>5, WorkerMoves DEF SolverOK
<1>7. SolverType'
  BY <1>1, <1>3, <1>6 DEF SolverOK, SolverType, Taken
<1>8. LeaseHolds'
  <2>1. \A v \in Callbacks \ {w} : worker[v].holds => JobOf(v) # m
    BY <1>1 DEF SolverOK, SolverInv, LeaseHolds
  <2>2. QED
    BY <1>1, <1>3, <1>4, <1>5, <1>6, <2>1, Apart
       DEF SolverOK, SolverInv, LeaseHolds, Doing, JobOf, Taken
<1>9. DrawHolds'
  BY <1>1, <1>5, <1>6 DEF SolverOK, SolverInv, DrawHolds, Doing, Working, JobOf
<1>10. SeatsHold'
  BY <1>1, <1>3, <1>4, Apart DEF SolverOK, SolverInv, SeatsHold, Taken
<1>11. ReplacementWaits'
  <2>1. last.draw > 0 => last.msg \in Msgs
    BY DEF SolverOK, SolverInv, SeatsHold, Taken
  <2>2. QED
    BY <1>1, <1>4, <1>5, <1>6, <2>1
       DEF SolverOK, SolverInv, ReplacementWaits, JobOf, Pending
<1>12. ShownHolds'
  BY <1>1, <1>2, <1>4 DEF SolverOK, SolverInv, ShownHolds
<1>13. QED
  BY <1>4, <1>7, <1>8, <1>9, <1>10, <1>11, <1>12 DEF SolverOK, SolverInv

\* A callback that gives up leaves its draw behind; if the lease was still its
\* own, the message waits to be drawn anew.
LEMMA RequeueKeeps ==
    ASSUME SolverOK, NEW w \in Callbacks, ~Doing(w, "idle"), Requeue(w),
           UNCHANGED <<sender, document, data, lapsed, solve, docs, last, shown>>,
           form' = form, UNCHANGED setup, faults' \in Nat, faults' >= faults,
           Doing(w, "solving") => faults' # 0
    PROVE  SolverOK' /\ TopicServed
<1> DEFINE m == JobOf(w)
<1>1. /\ topic' = IF worker[w].holds THEN [topic EXCEPT ![m] = "queued"] ELSE topic
      /\ worker' = [worker EXCEPT ![w] = Resting]
  BY DEF Requeue
<1>2. /\ "queued" \in MsgStates \ {Nothing} /\ Taken(m)
      /\ worker[w].holds => topic[m] = "leased"
  BY Apart DEF MsgStates, SolverOK, SolverInv, LeaseHolds
<1>3. /\ TopicType' /\ TopicServed
      /\ \A n \in Msgs : topic'[n] = IF worker[w].holds /\ n = m THEN "queued" ELSE topic[n]
  <2>1. CASE worker[w].holds
    BY <1>1, <1>2, <2>1, MessageMoves DEF SolverOK, Taken
  <2>2. CASE ~worker[w].holds
    BY <1>1, <2>2, TopicRests DEF SolverOK
  <2>3. QED
    BY <2>1, <2>2
<1>4. /\ worker' \in [Callbacks -> WorkerState] /\ worker'[w] = Resting
      /\ \A v \in Callbacks \ {w} : worker'[v] = worker[v]
  BY <1>1, RestingIs, WorkerMoves DEF SolverOK
<1>5. SolverType'
  BY <1>4 DEF SolverOK, SolverType
<1>6. LeaseHolds'
  <2>1. \A v \in Callbacks \ {w} : worker[v].holds => ~(worker[w].holds /\ JobOf(v) = m)
    BY DEF SolverOK, SolverInv, LeaseHolds
  <2>2. QED
    BY <1>2, <1>3, <1>4, <2>1, RestingIs
       DEF SolverOK, SolverInv, LeaseHolds, Doing, JobOf, Taken
<1>7. DrawHolds'
  BY <1>4, RestingIs, SeatOrderIs DEF SolverOK, SolverInv, DrawHolds, Doing, Working, JobOf
<1>8. SeatsHold'
  BY <1>2, <1>3 DEF SolverOK, SolverInv, SeatsHold, Taken
<1>9. ReplacementWaits'
  <2>1. last.draw > 0 => last.msg \in Msgs
    BY DEF SolverOK, SolverInv, SeatsHold, Taken
  <2>2. QED
    BY <1>3, <1>4, <2>1, RestingIs DEF SolverOK, SolverInv, ReplacementWaits, JobOf, Pending
<1>10. ShownHolds'
  <2>1. faults' = 0 => faults = 0 /\ ~Doing(w, "solving")
    BY DEF SolverOK, TopicType
  <2>2. (\E n \in Msgs : topic'[n] = "stored") => \E n \in Msgs : topic[n] = "stored"
    BY <1>3
  <2>3. (\E n \in Msgs : Pending(n)) => (\E n \in Msgs : Pending(n)')
    BY <1>3 DEF Pending
  <2>4. (\E v \in Callbacks : worker'[v].at = "writing") => \E v \in Callbacks : Doing(v, "writing")
    BY <1>4, RestingIs DEF Doing
  <2>5. ~Doing(w, "solving") /\ (\E v \in Callbacks : Doing(v, "solving")) =>
            \E v \in Callbacks : worker'[v].at = "solving"
    BY <1>4 DEF Doing
  <2>6. QED
    BY <2>1, <2>2, <2>3, <2>4, <2>5 DEF SolverOK, SolverInv, ShownHolds, Doing
<1>11. QED
  BY <1>3, <1>5, <1>6, <1>7, <1>8, <1>9, <1>10 DEF SolverOK, SolverInv

LEMMA RaiseKeeps ==
    ASSUME SolverOK, NEW w \in Callbacks, Raise(w)
    PROVE  SolverOK' /\ TopicServed
<1>1. /\ Doing(w, "loading") /\ Requeue(w) /\ form' = form /\ faults' = faults /\ UNCHANGED setup
      /\ UNCHANGED <<sender, document, data, lapsed, solve, docs, last, shown>>
  BY DEF Raise, asked
<1>2. ~Doing(w, "idle") /\ ~Doing(w, "solving") /\ faults' \in Nat /\ faults' >= faults
  BY <1>1 DEF Doing, SolverOK, TopicType
<1>3. QED
  BY <1>1, <1>2, RequeueKeeps

LEMMA AbortKeeps ==
    ASSUME SolverOK, NEW w \in Callbacks, Abort(w)
    PROVE  SolverOK' /\ TopicServed
<1>1. /\ ~Doing(w, "idle") /\ Requeue(w) /\ form' = form /\ faults' = faults + 1
      /\ UNCHANGED <<sender, document, data, lapsed, solve, docs, last, shown>>
      /\ UNCHANGED setup
  BY DEF Abort, asked
<1>2. faults' \in Nat /\ faults' >= faults /\ faults' # 0
  BY <1>1 DEF SolverOK, TopicType
<1>3. QED
  BY <1>1, <1>2, RequeueKeeps

\* An acknowledgement settles a message whose draw was not broken off.
LEMMA SettleKeeps ==
    ASSUME SolverOK, NEW w \in Callbacks, ~Doing(w, "idle"), ~Doing(w, "solving"),
           NEW outcome \in Final, Settle(w, outcome),
           UNCHANGED <<sender, document, data, lapsed, solve, docs, last, shown, faults>>,
           form' = form, UNCHANGED setup,
           outcome = "stored" => last.draw > 0,
           (last.draw > 0 /\ last.sent < Len(SeatOrder) /\ last.msg \notin lapsed) =>
               last.msg # JobOf(w),
           ~(shown = "completed" /\ last.draw = 0)
    PROVE  SolverOK' /\ TopicServed
<1> DEFINE m == JobOf(w)
           acks == topic' = [topic EXCEPT ![m] = outcome]
<1>1. /\ outcome \in MsgStates \ {Nothing} /\ Taken(m) /\ outcome \notin {"queued", "leased"}
      /\ faults' \in Nat /\ faults' >= faults
  BY Apart DEF MsgStates, Final, SolverOK, SolverInv, LeaseHolds, TopicType
<1>2. /\ worker' \in [Callbacks -> WorkerState] /\ worker'[w] = Resting
      /\ \A v \in Callbacks \ {w} :
            /\ worker'[v].at = worker[v].at /\ worker'[v].msg = worker[v].msg
            /\ worker'[v].draw = worker[v].draw /\ worker'[v].sent = worker[v].sent
            /\ worker'[v].holds => worker[v].holds
            /\ (worker[v].holds /\ ~worker'[v].holds) => JobOf(v) = m
  <2>1. CASE worker' = [x \in Callbacks |->
                          IF x = w THEN Resting
                          ELSE IF JobOf(x) = m THEN [worker[x] EXCEPT !.holds = FALSE]
                          ELSE worker[x]]
    <3>1. worker'[w] = Resting
      BY <2>1
    <3>2. ASSUME NEW v \in Callbacks \ {w}, JobOf(v) = m
          PROVE  /\ worker'[v] \in WorkerState /\ ~worker'[v].holds
                 /\ worker'[v].at = worker[v].at /\ worker'[v].msg = worker[v].msg
                 /\ worker'[v].draw = worker[v].draw /\ worker'[v].sent = worker[v].sent
      <4>1. worker'[v] = [worker[v] EXCEPT !.holds = FALSE]
        BY <2>1, <3>2
      <4>2. worker[v] \in WorkerState
        BY DEF SolverOK, SolverType
      <4>3. QED
        BY <4>1, <4>2 DEF WorkerState
    <3>3. \A v \in Callbacks \ {w} : JobOf(v) # m => worker'[v] = worker[v]
      BY <2>1
    <3>4. \A v \in Callbacks : worker'[v] \in WorkerState
      BY <3>1, <3>2, <3>3, RestingIs DEF SolverOK, SolverType
    <3>5. worker' \in [Callbacks -> WorkerState]
      BY <2>1, <3>4
    <3>6. QED
      BY <3>1, <3>2, <3>3, <3>5
  <2>2. CASE worker' = [worker EXCEPT ![w] = Resting]
    BY <2>2, RestingIs, WorkerMoves DEF SolverOK
  <2>3. QED
    BY <2>1, <2>2 DEF Settle
<1>3. \/ /\ topic' = [topic EXCEPT ![m] = outcome]
         /\ \A v \in Callbacks \ {w} : worker'[v].holds => JobOf(v) # m
      \/ topic' = topic /\ ~worker[w].holds /\ \A v \in Callbacks \ {w} : worker'[v] = worker[v]
  BY WorkerMoves, RestingIs DEF Settle, SolverOK, SolverType, WorkerState
<1>4. /\ TopicType' /\ TopicServed
      /\ \A n \in Msgs \ {m} : topic'[n] = topic[n]
      /\ topic'[m] \in {outcome, topic[m]}
      /\ topic'[m] # topic[m] => \A v \in Callbacks \ {w} : worker'[v].holds => JobOf(v) # m
  <2>1. CASE topic' = [topic EXCEPT ![m] = outcome]
    <3>1. /\ TopicType' /\ TopicServed
          /\ topic'[m] = outcome /\ \A n \in Msgs \ {m} : topic'[n] = topic[n]
      BY <1>1, <2>1, MessageMoves DEF SolverOK, Taken
    <3>2. topic' = topic => topic'[m] = topic[m]
      OBVIOUS
    <3>3. QED
      BY <1>3, <3>1, <3>2
  <2>2. CASE topic' = topic
    BY <1>1, <2>2, TopicRests DEF SolverOK
  <2>3. QED
    BY <1>3, <2>1, <2>2
<1>5. SolverType'
  BY <1>2 DEF SolverOK, SolverType
<1>6. LeaseHolds'
  <2>1. \A v \in Callbacks \ {w} : worker[v].holds /\ ~worker'[v].holds => JobOf(v) \in lapsed
    <3>1. SUFFICES ASSUME NEW v \in Callbacks \ {w}, worker[v].holds, ~worker'[v].holds
                   PROVE  JobOf(v) \in lapsed
      OBVIOUS
    <3>2. JobOf(v) = m
      BY <1>2, <3>1
    <3>3. ~worker[w].holds
      BY <3>1, <3>2 DEF SolverOK, SolverInv, LeaseHolds
    <3>4. QED
      BY <3>2, <3>3 DEF SolverOK, SolverInv, LeaseHolds
  <2>2. \A v \in Callbacks : worker'[v].holds => v # w /\ worker[v].holds
    BY <1>2, RestingIs
  <2>3. ASSUME NEW v \in Callbacks, worker'[v].at # "idle"
        PROVE  /\ Taken(JobOf(v))'
               /\ IF worker'[v].holds THEN topic'[JobOf(v)'] = "leased" ELSE JobOf(v)' \in lapsed'
    <3>1. v # w /\ JobOf(v)' = JobOf(v) /\ ~Doing(v, "idle")
      BY <1>2, <2>3, RestingIs DEF JobOf, Doing
    <3>2. Taken(JobOf(v)) /\ IF worker[v].holds THEN topic[JobOf(v)] = "leased" ELSE JobOf(v) \in lapsed
      BY <3>1 DEF SolverOK, SolverInv, LeaseHolds
    <3>3. Taken(JobOf(v))'
      BY <1>1, <1>4, <3>1, <3>2 DEF Taken
    <3>4. worker'[v].holds => topic'[JobOf(v)] = "leased"
      BY <1>4, <2>2, <3>1, <3>2 DEF Taken
    <3>5. QED
      BY <2>1, <3>1, <3>2, <3>3, <3>4
  <2>4. \A v, x \in Callbacks :
            worker'[v].holds /\ worker'[x].holds /\ JobOf(v)' = JobOf(x)' => v = x
    BY <1>2, <2>2 DEF SolverOK, SolverInv, LeaseHolds, JobOf
  <2>5. \A v \in Callbacks : worker'[v].at = "idle" => ~worker'[v].holds
    BY <1>2, <2>2 DEF SolverOK, SolverInv, LeaseHolds, Doing
  <2>6. QED
    BY <2>3, <2>4, <2>5 DEF LeaseHolds, Doing
<1>7. DrawHolds'
  <2>1. \A v \in Callbacks : Working(v)' => v # w /\ Working(v)
    BY <1>2, RestingIs DEF Working
  <2>2. \A v \in Callbacks : /\ worker'[v].sent <= Len(SeatOrder)
                             /\ worker'[v].sent > 0 => worker'[v].at = "writing" /\ last.draw > 0
    BY <1>2, RestingIs, SeatOrderIs DEF SolverOK, SolverInv, DrawHolds, Doing
  <2>3. \A v \in Callbacks : Working(v)' =>
            /\ data /\ worker'[v].draw \in 1 .. solve
            /\ worker'[v].draw = last.draw => worker'[v].sent = last.sent /\ JobOf(v)' = last.msg
    BY <1>2, <2>1 DEF SolverOK, SolverInv, DrawHolds, JobOf
  <2>4. \A v, x \in Callbacks :
            Working(v)' /\ Working(x)' /\ worker'[v].draw = worker'[x].draw => v = x
    BY <1>2, <2>1 DEF SolverOK, SolverInv, DrawHolds
  <2>5. QED
    BY <2>2, <2>3, <2>4 DEF DrawHolds, Doing
<1>8. SeatsHold'
  BY <1>1, <1>4 DEF SolverOK, SolverInv, SeatsHold, Taken
<1>9. ReplacementWaits'
  <2>1. last.draw > 0 => last.msg \in Msgs
    BY DEF SolverOK, SolverInv, SeatsHold, Taken
  <2>2. (last.draw > 0 /\ last.sent < Len(SeatOrder) /\ last.msg \notin lapsed) =>
            Pending(last.msg)'
    BY <1>4, <2>1 DEF SolverOK, SolverInv, ReplacementWaits, Pending
  <2>3. \A v \in Callbacks :
            (worker'[v].sent > 0 /\ last.msg = JobOf(v)' /\ JobOf(v)' \notin lapsed) =>
                last.draw = worker'[v].draw
    <3>1. \A v \in Callbacks : worker'[v].sent > 0 => v # w
      BY <1>2, RestingIs
    <3>2. QED
      BY <1>2, <3>1 DEF SolverOK, SolverInv, ReplacementWaits, JobOf
  <2>4. QED
    BY <2>2, <2>3 DEF ReplacementWaits
<1>10. ShownHolds'
  <2>1. (\E n \in Msgs : topic'[n] = "stored") => \/ \E n \in Msgs : topic[n] = "stored"
                                                  \/ outcome = "stored"
    BY <1>4 DEF Taken
  <2>2. \A v \in Callbacks : worker'[v].at = "writing" => Doing(v, "writing")
    BY <1>2, RestingIs DEF Doing
  <2>3. \A v \in Callbacks : Doing(v, "solving") => worker'[v].at = "solving"
    BY <1>2 DEF Doing
  <2>4. QED
    BY <2>1, <2>2, <2>3 DEF SolverOK, SolverInv, ShownHolds, Doing
<1>11. QED
  BY <1>4, <1>5, <1>6, <1>7, <1>8, <1>9, <1>10 DEF SolverOK, SolverInv

LEMMA NoDataKeeps ==
    ASSUME SolverOK, NEW w \in Callbacks, NoData(w)
    PROVE  SolverOK' /\ TopicServed
<1>1. /\ Doing(w, "loading") /\ ~data /\ Settle(w, "nodata") /\ form' = form /\ UNCHANGED setup
      /\ UNCHANGED <<sender, document, data, lapsed, solve, docs, last, shown, faults>>
  BY DEF NoData, asked
<1>2. ~(last.draw > 0) /\ shown = "none"
  BY <1>1 DEF SolverOK, SolverInv, SeatsHold, ShownHolds
<1>3. "nodata" \in Final /\ ~Doing(w, "idle") /\ ~Doing(w, "solving")
  BY <1>1 DEF Final, Doing
<1>4. QED
  BY <1>1, <1>2, <1>3, SettleKeeps

\* After its last batch a draw was not broken off.
LEMMA AcknowledgeKeeps ==
    ASSUME SolverOK, NEW w \in Callbacks, Acknowledge(w)
    PROVE  SolverOK' /\ TopicServed
<1>1. /\ Doing(w, "writing") /\ worker[w].sent = Len(SeatOrder) /\ Settle(w, "stored")
      /\ form' = form /\ UNCHANGED setup
      /\ UNCHANGED <<sender, document, data, lapsed, solve, docs, last, shown, faults>>
  BY DEF Acknowledge, asked
<1>2. worker[w].sent > 0 /\ last.draw > 0
  BY <1>1, SeatOrderIs DEF SolverOK, SolverInv, DrawHolds
<1>3. (last.sent < Len(SeatOrder) /\ last.msg \notin lapsed) => last.msg # JobOf(w)
  <2>1. SUFFICES ASSUME last.msg = JobOf(w), last.msg \notin lapsed
                 PROVE  ~(last.sent < Len(SeatOrder))
    OBVIOUS
  <2>2. last.draw = worker[w].draw
    BY <1>2, <2>1 DEF SolverOK, SolverInv, ReplacementWaits
  <2>3. worker[w].sent = last.sent
    BY <1>1, <2>2 DEF SolverOK, SolverInv, DrawHolds, Working, Doing
  <2>4. QED
    BY <1>1, <2>3, SeatOrderIs
<1>4. "stored" \in Final /\ ~Doing(w, "idle") /\ ~Doing(w, "solving") /\ last.draw # 0
  BY <1>1, <1>2 DEF Final, Doing
<1>5. QED
  BY <1>1, <1>2, <1>3, <1>4, SettleKeeps

(***************************************************************************)
(* A callback draws, reports and writes.                                   *)
(***************************************************************************)
\* Steps of a callback with its message, which leave the topic alone.
Local(w, to) ==
    /\ to \in WorkerState /\ to.msg = worker[w].msg /\ to.holds = worker[w].holds
    /\ worker[w].at # "idle" /\ to.at # "idle"
    /\ worker' = [worker EXCEPT ![w] = to]
    /\ UNCHANGED <<topic, form, sender, document, data, lapsed>> /\ UNCHANGED setup
    /\ faults' \in Nat /\ faults' >= faults

LEMMA LocalKeeps ==
    ASSUME SolverOK, NEW w \in Callbacks, NEW to, Local(w, to)
    PROVE  /\ TopicType' /\ TopicServed /\ LeaseHolds'
           /\ worker' \in [Callbacks -> WorkerState] /\ worker'[w] = to
           /\ \A v \in Callbacks \ {w} : worker'[v] = worker[v]
<1>1. TopicType' /\ TopicServed
  BY TopicRests DEF Local, SolverOK
<1>2. /\ worker' \in [Callbacks -> WorkerState] /\ worker'[w] = to
      /\ \A v \in Callbacks \ {w} : worker'[v] = worker[v]
  BY WorkerMoves DEF Local, SolverOK
<1>3. LeaseHolds'
  BY <1>2 DEF Local, SolverOK, SolverInv, LeaseHolds, Doing, JobOf, Taken
<1>4. QED
  BY <1>1, <1>2, <1>3

LEMMA SolveKeeps ==
    ASSUME SolverOK, NEW w \in Callbacks, Solve(w)
    PROVE  SolverOK' /\ TopicServed
<1> DEFINE to == [worker[w] EXCEPT !.at = "solving", !.draw = solve + 1]
<1>1. /\ Doing(w, "loading") /\ data /\ solve' = solve + 1
      /\ worker' = [worker EXCEPT ![w] = to]
      /\ UNCHANGED <<sender, document, data, topic, form, lapsed, docs, last, shown, faults>>
      /\ UNCHANGED setup
  BY DEF Solve, asked
<1>2. /\ worker[w] \in WorkerState /\ solve \in Nat /\ worker[w].at = "loading"
      /\ worker[w].sent = 0
  BY <1>1 DEF SolverOK, SolverType, WorkerState, SolverInv, DrawHolds, Doing
<1>3. /\ to \in WorkerState /\ to.at = "solving" /\ to.draw = solve + 1 /\ to.sent = 0
      /\ to.msg = worker[w].msg /\ to.holds = worker[w].holds
  <2> DEFINE number == solve + 1
  <2>1. number \in Nat
    BY <1>2
  <2> HIDE DEF number
  <2>2. to = [worker[w] EXCEPT !.at = "solving", !.draw = number]
    BY DEF number
  <2> HIDE DEF to
  <2>3. to \in WorkerState /\ to.at = "solving" /\ to.draw = number /\ to.sent = worker[w].sent
        /\ to.msg = worker[w].msg /\ to.holds = worker[w].holds
    BY <1>2, <2>1, <2>2 DEF WorkerState
  <2>4. QED
    BY <1>2, <2>3 DEF number
<1> HIDE DEF to
<1>4. Local(w, to)
  BY <1>1, <1>2, <1>3 DEF Local, SolverOK, TopicType
<1>5. /\ TopicType' /\ TopicServed /\ LeaseHolds'
      /\ worker' \in [Callbacks -> WorkerState] /\ worker'[w] = to
      /\ \A v \in Callbacks \ {w} : worker'[v] = worker[v]
  BY <1>4, LocalKeeps
<1>6. SolverType'
  BY <1>1, <1>2, <1>5 DEF SolverOK, SolverType
<1>7. last.draw \in Nat /\ last.draw <= solve
  BY DEF SolverOK, SolverType, SolverInv, SeatsHold
<1>8. DrawHolds'
  BY <1>1, <1>2, <1>3, <1>5, <1>7, SeatOrderIs
     DEF SolverOK, SolverInv, DrawHolds, Doing, Working, JobOf
<1>9. SeatsHold'
  BY <1>1, <1>2, <1>7 DEF SolverOK, SolverInv, SeatsHold, Taken
<1>10. ReplacementWaits'
  BY <1>1, <1>3, <1>5 DEF SolverOK, SolverInv, ReplacementWaits, JobOf, Pending
<1>11. ShownHolds'
  BY <1>1, <1>3, <1>5 DEF SolverOK, SolverInv, ShownHolds, Doing, Pending
<1>12. QED
  BY <1>5, <1>6, <1>8, <1>9, <1>10, <1>11 DEF SolverOK, SolverInv

LEMMA ReportIs ==
    ASSUME TopicType, NEW text, Report(text)
    PROVE  /\ faults' \in Nat /\ faults' >= faults
           /\ shown' \in {shown, text} /\ (faults' = 0 => faults = 0 /\ shown' = text)
BY DEF TopicType, Report

LEMMA ProgressKeeps ==
    ASSUME SolverOK, NEW w \in Callbacks, Progress(w)
    PROVE  SolverOK' /\ TopicServed
<1>1. /\ Doing(w, "solving") /\ Report("running") /\ UNCHANGED setup
      /\ UNCHANGED <<sender, document, data, topic, form, worker, lapsed, solve, docs, last>>
  BY DEF Progress, asked
<1>2. /\ faults' \in Nat /\ faults' >= faults
      /\ shown' \in {shown, "running"} /\ (faults' = 0 => faults = 0 /\ shown' = "running")
  BY <1>1, ReportIs DEF SolverOK
<1>3. TopicType' /\ TopicServed
  BY <1>1, <1>2, TopicRests DEF SolverOK
<1>4. SolverType'
  BY <1>1, <1>2 DEF SolverOK, SolverType
<1>5. LeaseHolds' /\ SeatsHold'
  BY <1>1 DEF SolverOK, SolverInv, LeaseHolds, SeatsHold, Doing, JobOf, Taken
<1>6. DrawHolds' /\ ReplacementWaits'
  BY <1>1 DEF SolverOK, SolverInv, DrawHolds, ReplacementWaits, Doing, JobOf, Working, Pending
<1>7. ShownHolds'
  <2>1. data
    BY <1>1 DEF SolverOK, SolverInv, DrawHolds, Working, Doing
  <2>2. QED
    BY <1>1, <1>2, <2>1 DEF SolverOK, SolverInv, ShownHolds, Doing, Pending
<1>8. QED
  BY <1>3, <1>4, <1>5, <1>6, <1>7 DEF SolverOK, SolverInv

LEMMA CompleteKeeps ==
    ASSUME SolverOK, NEW w \in Callbacks, Complete(w)
    PROVE  SolverOK' /\ TopicServed
<1> DEFINE to == [worker[w] EXCEPT !.at = "writing"]
<1>1. /\ Doing(w, "solving") /\ Report("completed") /\ worker' = [worker EXCEPT ![w] = to]
      /\ UNCHANGED <<sender, document, data, topic, form, lapsed, solve, docs, last>>
      /\ UNCHANGED setup
  BY DEF Complete, asked
<1>2. /\ faults' \in Nat /\ faults' >= faults
      /\ shown' \in {shown, "completed"} /\ (faults' = 0 => faults = 0 /\ shown' = "completed")
  BY <1>1, ReportIs DEF SolverOK
<1>3. /\ worker[w] \in WorkerState /\ worker[w].at = "solving" /\ data
  BY <1>1 DEF SolverOK, SolverType, SolverInv, DrawHolds, Working, Doing
<1>4. /\ to \in WorkerState /\ to.at = "writing" /\ to.draw = worker[w].draw
      /\ to.sent = worker[w].sent /\ to.msg = worker[w].msg /\ to.holds = worker[w].holds
  BY <1>3 DEF WorkerState
<1> HIDE DEF to
<1>5. Local(w, to)
  BY <1>1, <1>2, <1>3, <1>4 DEF Local
<1>6. /\ TopicType' /\ TopicServed /\ LeaseHolds'
      /\ worker' \in [Callbacks -> WorkerState] /\ worker'[w] = to
      /\ \A v \in Callbacks \ {w} : worker'[v] = worker[v]
  BY <1>5, LocalKeeps
<1>7. SolverType'
  BY <1>1, <1>2, <1>6 DEF SolverOK, SolverType
<1>8. DrawHolds'
  BY <1>1, <1>3, <1>4, <1>6 DEF SolverOK, SolverInv, DrawHolds, Doing, Working, JobOf
<1>9. SeatsHold'
  BY <1>1 DEF SolverOK, SolverInv, SeatsHold, Taken
<1>10. ReplacementWaits'
  BY <1>1, <1>4, <1>6 DEF SolverOK, SolverInv, ReplacementWaits, JobOf, Pending
<1>11. ShownHolds'
  <2>1. lapsed = {} => Pending(JobOf(w)) /\ JobOf(w) \in Msgs
    BY <1>1 DEF SolverOK, SolverInv, LeaseHolds, Doing, Taken, Pending
  <2>2. QED
    BY <1>1, <1>2, <1>3, <2>1 DEF SolverOK, SolverInv, ShownHolds, Doing, Pending
<1>12. QED
  BY <1>6, <1>7, <1>8, <1>9, <1>10, <1>11 DEF SolverOK, SolverInv

\* A batch puts its draw at its seats and leaves the seats before it alone.
LEMMA WriteBatchKeeps ==
    ASSUME SolverOK, NEW w \in Callbacks, WriteBatch(w)
    PROVE  SolverOK' /\ TopicServed
<1> DEFINE n     == Len(SeatOrder)
           sent  == worker[w].sent
           draw  == worker[w].draw
           after == IF sent + BatchSize < n THEN sent + BatchSize ELSE n
           to    == [worker[w] EXCEPT !.sent = after]
           final == [draw |-> draw, msg |-> JobOf(w), sent |-> after,
                     alone |-> sent = 0 \/ (last.draw = draw /\ last.alone)]
<1>1. /\ Doing(w, "writing") /\ sent < n
      /\ docs' = [d \in DOMAIN docs |->
                    IF \E k \in sent + 1 .. after : SeatDoc(SeatOrder[k]) = d THEN draw ELSE docs[d]]
      /\ worker' = [worker EXCEPT ![w] = to] /\ last' = final
      /\ UNCHANGED <<sender, document, data, topic, form, lapsed, solve, shown, faults>>
      /\ UNCHANGED setup
  BY DEF WriteBatch, asked
<1>2. /\ worker[w] \in WorkerState /\ worker[w].at = "writing" /\ data
      /\ draw \in 1 .. solve /\ draw \in Nat /\ draw > 0 /\ sent \in Nat
  BY <1>1 DEF SolverOK, SolverType, SolverInv, DrawHolds, Working, Doing, WorkerState
<1>3. n \in Nat /\ after \in Nat /\ after > sent /\ after <= n
  BY <1>1, <1>2, SeatOrderIs, MatrixAssumption
<1>4. Taken(JobOf(w)) /\ (JobOf(w) \notin lapsed => Pending(JobOf(w)) /\ worker[w].holds)
  BY <1>1 DEF SolverOK, SolverInv, LeaseHolds, Doing, Taken, Pending
<1> HIDE DEF after
<1>5. /\ to \in WorkerState /\ to.at = "writing" /\ to.draw = draw
      /\ to.sent = after /\ to.msg = worker[w].msg /\ to.holds = worker[w].holds
  BY <1>2, <1>3 DEF WorkerState
<1>6. /\ final \in [draw : Nat, msg : Msgs \union {Nothing}, sent : Nat, alone : BOOLEAN]
      /\ final.draw = draw /\ final.msg = JobOf(w) /\ final.sent = after
      /\ final.alone => sent = 0 \/ (last.draw = draw /\ last.alone)
  <2>1. last.alone \in BOOLEAN
    BY DEF SolverOK, SolverType
  <2>2. (sent = 0 \/ (last.draw = draw /\ last.alone)) \in BOOLEAN
    BY <2>1
  <2>3. QED
    BY <1>2, <1>3, <1>4, <2>2 DEF Taken
<1> HIDE DEF to, final
<1>7. Local(w, to)
  BY <1>1, <1>2, <1>5 DEF Local, SolverOK, TopicType
<1>8. /\ TopicType' /\ TopicServed /\ LeaseHolds'
      /\ worker' \in [Callbacks -> WorkerState] /\ worker'[w] = to
      /\ \A v \in Callbacks \ {w} : worker'[v] = worker[v]
  BY <1>7, LocalKeeps
<1>9. SolverType'
  <2>1. docs' \in [Seats \union ({"stray"} \X Seats) -> Nat]
    BY <1>1, <1>2 DEF SolverOK, SolverType
  <2>2. QED
    BY <1>1, <1>6, <1>8, <2>1 DEF SolverOK, SolverType
<1>10. DrawHolds'
  BY <1>1, <1>2, <1>3, <1>5, <1>6, <1>8
     DEF SolverOK, SolverInv, DrawHolds, Doing, Working, JobOf
<1>11. ASSUME final.alone, NEW k \in 1 .. after, SeatOrder[k][1] \notin Underscored
       PROVE  docs'[SeatOrder[k]] = draw
  <2>1. SeatDoc(SeatOrder[k]) = SeatOrder[k]
    BY <1>11 DEF SeatDoc
  <2>2. k \in 1 .. n /\ SeatOrder[k] \in DOMAIN docs
    BY <1>3, <1>11, SeatOrderIs DEF SolverOK, SolverType
  <2>3. CASE k <= sent
    <3>1. last.draw = draw /\ last.alone
      BY <1>2, <1>6, <1>11, <2>2, <2>3
    <3>2. last.sent = sent
      BY <1>2, <3>1 DEF SolverOK, SolverInv, DrawHolds, Working
    <3>3. docs[SeatOrder[k]] = draw
      BY <1>11, <2>2, <2>3, <3>1, <3>2 DEF SolverOK, SolverInv, SeatsHold
    <3>4. QED
      BY <1>1, <2>2, <3>3
  <2>4. CASE ~(k <= sent)
    <3>1. k \in sent + 1 .. after
      BY <1>2, <1>3, <1>11, <2>4
    <3>2. QED
      BY <1>1, <2>1, <2>2, <3>1
  <2>5. QED
    BY <2>3, <2>4
<1>12. SeatsHold'
  BY <1>1, <1>2, <1>3, <1>4, <1>6, <1>11 DEF SeatsHold, Taken
<1>13. ReplacementWaits'
  <2>1. ASSUME NEW v \in Callbacks, worker'[v].msg = JobOf(w), JobOf(w) \notin lapsed,
               worker'[v].sent > 0
        PROVE  v = w
    <3>1. SUFFICES ASSUME v # w PROVE FALSE
      OBVIOUS
    <3>2. worker[v].sent > 0 /\ JobOf(v) = JobOf(w)
      BY <1>8, <2>1, <3>1 DEF JobOf
    <3>3. ~Doing(v, "idle")
      BY <3>2 DEF SolverOK, SolverInv, DrawHolds, Doing
    <3>4. worker[v].holds
      BY <2>1, <3>2, <3>3 DEF SolverOK, SolverInv, LeaseHolds
    <3>5. QED
      BY <1>4, <2>1, <3>1, <3>2, <3>4 DEF SolverOK, SolverInv, LeaseHolds
  <2>2. QED
    BY <1>1, <1>4, <1>5, <1>6, <1>8, <2>1 DEF ReplacementWaits, JobOf, Pending
<1>14. ShownHolds'
  <2>1. \A v \in Callbacks : worker'[v].at = worker[v].at
    BY <1>2, <1>5, <1>8
  <2>2. QED
    BY <1>1, <1>2, <1>6, <2>1 DEF SolverOK, SolverInv, ShownHolds, Doing
<1>15. QED
  BY <1>8, <1>9, <1>10, <1>12, <1>13, <1>14 DEF SolverOK, SolverInv

LEMMA WorkerKeeps ==
    ASSUME SolverOK, NEW w \in Callbacks, WorkerStep(w) \/ LeaseExpires(w) \/ Abort(w)
    PROVE  SolverOK' /\ TopicServed
BY DropKeeps, ReceiveKeeps, RaiseKeeps, NoDataKeeps, SolveKeeps, ProgressKeeps, CompleteKeeps,
   WriteBatchKeeps, AcknowledgeKeeps, LeaseExpiresKeeps, AbortKeeps DEF WorkerStep

(***************************************************************************)
(* The specification.                                                      *)
(***************************************************************************)
LEMMA MatrixInvInit == SolverInit => MatrixInv
<1> SUFFICES ASSUME SolverInit PROVE MatrixInv
  OBVIOUS
<1>1. TopicType
  BY DEF SolverInit, SetupInit, TopicType, MsgStates, Forms
<1>2. ExamType
  BY DEF SolverInit, SetupInit, ExamType, Statuses, Asked
<1>3. Published("examId") = {} /\ Published("payload") = {}
  BY DEF SolverInit, SetupInit, Published
<1>4. \A c \in Callers : ask[c].at = "idle"
  BY DEF SolverInit, SetupInit, Idle
<1>5. SetupInv
  <2>1. JobIsNamed
    BY <1>3, <1>4 DEF SolverInit, SetupInit, JobIsNamed, At
  <2>2. CheckHolds
    BY <1>4 DEF CheckHolds, At, Checked
  <2>3. JobIsOnly
    BY <1>3, <1>4 DEF SolverInit, SetupInit, JobIsOnly, At, Nothing
  <2>4. QED
    BY <2>1, <2>2, <2>3 DEF SetupInv
<1>6. /\ worker \in [Callbacks -> WorkerState] /\ \A w \in Callbacks : worker[w] = Resting
      /\ lapsed = {} /\ solve = 0 /\ shown = "none"
      /\ docs \in [Seats \union ({"stray"} \X Seats) -> Nat] /\ \A p \in Seats : docs[p] = 0
      /\ last \in [draw : Nat, msg : Msgs \union {Nothing}, sent : Nat, alone : BOOLEAN]
      /\ last.draw = 0 /\ last.sent = 0
      /\ \A m \in Msgs : topic[m] = Nothing
  BY RestingIs DEF SolverInit, SetupInit
<1>7. SolverType
  BY <1>6 DEF SolverInit, SolverType
<1>8. LeaseHolds /\ DrawHolds
  BY <1>6, RestingIs, SeatOrderIs DEF LeaseHolds, DrawHolds, Doing, Working
<1>9. SeatsHold /\ ReplacementWaits /\ ShownHolds
  BY <1>6, RestingIs, SeatOrderIs, Apart
     DEF SeatsHold, ReplacementWaits, ShownHolds, Doing, Final, Nothing
<1>10. QED
  BY <1>1, <1>2, <1>5, <1>7, <1>8, <1>9 DEF MatrixInv, MatrixTypeOK, SolverInv

LEMMA MatrixInvStep == MatrixInv /\ [SolverNext]_solver => MatrixInv'
<1> SUFFICES ASSUME MatrixInv, [SolverNext]_solver PROVE MatrixInv'
  OBVIOUS
<1>1. SolverOK /\ ExamType /\ (sender = "services" => SetupInv)
  BY DEF MatrixInv, MatrixTypeOK, SolverOK
<1>2. ASSUME SolverOK', TopicServed, sender' = sender
      PROVE  MatrixInv'
  <2>1. ExamType'
    BY <1>1, <1>2 DEF TopicServed, setup, ExamType
  <2>2. sender' = "services" => SetupInv'
    BY <1>1, <1>2, SetupKept DEF SolverOK
  <2>3. QED
    BY <1>2, <2>1, <2>2 DEF MatrixInv, MatrixTypeOK, SolverOK
<1>3. ASSUME NEW w \in Callbacks, WorkerStep(w) \/ LeaseExpires(w) \/ Abort(w)
      PROVE  MatrixInv'
  <2>1. SolverOK' /\ TopicServed
    BY <1>1, <1>3, WorkerKeeps
  <2>2. sender' = sender
    BY <1>3 DEF WorkerStep, Drop, Receive, Raise, NoData, Solve, Progress, Complete, WriteBatch,
                Acknowledge, LeaseExpires, Abort, asked
  <2>3. QED
    BY <1>2, <2>1, <2>2
<1>4. CASE /\ sender = "services" /\ SetupNext
           /\ UNCHANGED <<sender, document, data, worker, lapsed, solve, docs, last, shown>>
  <2>1. TopicType' /\ ExamType' /\ SetupInv'
    BY <1>1, <1>4, SetupTypeStep, SetupInvStep DEF SolverOK
  <2>2. SolverOK'
    BY <1>1, <1>4, <2>1, RequestsOnlySend, SentKeeps DEF SolverOK
  <2>3. QED
    BY <2>1, <2>2 DEF MatrixInv, MatrixTypeOK, SolverOK
<1>5. ASSUME sender = "hand", NEW m \in Msgs, NEW field \in Fields, PublishByHand(m, field)
      PROVE  MatrixInv'
  <2>1. /\ Send(m, field) /\ field \in Forms /\ UNCHANGED setup /\ faults' = faults
        /\ UNCHANGED <<sender, document, data, worker, lapsed, solve, docs, last, shown>>
    BY <1>5 DEF PublishByHand, Fields, Forms, asked
  <2>2. TopicType'
    BY <1>1, <2>1, SendPublishes DEF SolverOK, TopicType
  <2>3. ExamType'
    BY <1>1, <2>1 DEF setup, ExamType
  <2>4. SolverOK'
    BY <1>1, <2>1, <2>2, SendOnlySends, SentKeeps DEF SolverOK
  <2>5. QED
    BY <1>5, <2>1, <2>3, <2>4 DEF MatrixInv, MatrixTypeOK, SolverOK
<1>6. CASE DataArrives
  BY <1>1, <1>2, <1>6, DataArrivesKeeps DEF DataArrives, asked
<1>7. CASE UNCHANGED solver
  <2>1. /\ UNCHANGED <<topic, form, faults>> /\ UNCHANGED setup
        /\ UNCHANGED <<sender, document, data, worker, lapsed, solve, docs, last, shown>>
    BY <1>7 DEF solver, asked
  <2>2. TopicType' /\ TopicServed /\ OnlySent
    BY <1>1, <2>1, TopicRests DEF SolverOK, TopicType, OnlySent
  <2>3. SolverOK'
    BY <1>1, <2>1, <2>2, SentKeeps
  <2>4. QED
    BY <1>2, <2>1, <2>2, <2>3
<1>8. QED
  BY <1>3, <1>4, <1>5, <1>6, <1>7 DEF SolverNext

LEMMA MatrixInvHolds == SolverSpec => []MatrixInv
BY MatrixInvInit, MatrixInvStep, PTL DEF SolverSpec

\* The exam's document, the requests, the topic, the callbacks and the seats
\* keep their types, for any messages, callers, blueprints, callbacks and seats.
THEOREM MatrixTypeCorrect == SolverSpec => []MatrixTypeOK
<1>1. MatrixInv => MatrixTypeOK
  BY DEF MatrixInv
<1>2. QED
  BY <1>1, MatrixInvHolds, PTL

\* When all is quiet the seats hold one draw and the document says so, however
\* many callbacks overlapped, died between batches or lost their leases
\* (main.py:61, 255; a last draw that another's batches came between, or that
\* was broken off when its message was with somebody else, is excepted), and
\* the document agrees with the jobs of triggerMatrixSolver and
\* triggerMatrixGeneration.
THEOREM OneDrawIsStored == SolverSpec => []OneDrawStored
<1>1. MatrixInv => OneDrawStored
  <2> SUFFICES ASSUME MatrixInv PROVE OneDrawStored
    OBVIOUS
  <2>1. sender = "services" => SetupAgrees
    BY SetupInvSays DEF MatrixInv, MatrixTypeOK
  <2>2. ASSUME Quiet, last.alone, last.sent < Len(SeatOrder) => last.msg \notin lapsed
        PROVE  OneDraw(last.draw) /\ last.draw \in 0 .. solve
    <3>1. /\ last.draw \in Nat /\ last.sent \in Nat /\ solve \in Nat /\ faults \in Nat
          /\ last.draw <= solve /\ last.sent <= Len(SeatOrder)
      BY DEF MatrixInv, MatrixTypeOK, SolverType, TopicType, SolverInv, SeatsHold
    <3>2. \A m \in Msgs : ~Pending(m)
      BY <2>2, Apart DEF Quiet, Pending, Final
    <3>3. last.draw > 0 => last.sent = Len(SeatOrder)
      BY <2>2, <3>1, <3>2, SeatOrderIs
         DEF MatrixInv, SolverInv, ReplacementWaits, SeatsHold, Taken
    <3>4. \A p \in Seats : p[1] \notin Underscored => docs[p] = last.draw
      <4>1. CASE last.draw = 0
        BY <4>1 DEF MatrixInv, SolverInv, SeatsHold
      <4>2. CASE last.draw > 0
        BY <2>2, <3>3, <4>2, SeatOrderIs DEF MatrixInv, SolverInv, SeatsHold
      <4>3. QED
        BY <3>1, <4>1, <4>2
    <3>5. \A w \in Callbacks : ~Doing(w, "solving")
      BY <2>2 DEF Quiet, Doing
    <3>6. (last.draw > 0 /\ faults = 0) => shown = "completed"
      BY <3>5 DEF MatrixInv, SolverInv, ShownHolds
    <3>7. (shown = "completed" /\ lapsed = {}) => last.draw > 0
      BY <3>1, <3>2 DEF MatrixInv, SolverInv, ShownHolds
    <3>8. (\E m \in Msgs : topic[m] = "stored") => last.draw > 0
      BY DEF MatrixInv, SolverInv, ShownHolds
    <3>9. QED
      BY <3>1, <3>4, <3>6, <3>7, <3>8 DEF OneDraw
  <2>3. QED
    BY <2>1, <2>2 DEF OneDrawStored
<1>2. QED
  BY <1>1, MatrixInvHolds, PTL

(***************************************************************************)
(* The invariant of the annealing, and the theorem.                        *)
(***************************************************************************)
BestOf(now, cost, from, top, least) ==
    /\ now \in AllSheets /\ cost = Energy[now]
    /\ top \in AllSheets /\ least = Energy[top]
    /\ from \in Nat /\ least <= from /\ least <= cost
    /\ \A q \in Bank : Copies(q, now) = Copies(q, top)

Annealed ==
    stage # "drawing" =>
        /\ BestOf(papers, energy, first, best, bestEnergy)
        /\ (stage = "solved" /\ iteration < MaxIterations) => 100 * bestEnergy < Whole

LEMMA DrawAnneals ==
    ASSUME Draw
    PROVE  Annealed'
<1>1. PICK a \in [Papers -> Drawn] :
          /\ papers' = a /\ energy' = Energy[a] /\ first' = Energy[a]
          /\ best' = a /\ bestEnergy' = Energy[a]
  BY DEF Draw
<1>2. a \in AllSheets
  BY DrawnIs DEF AllSheets
<1>3. Energy[a] \in Nat
  BY <1>2, EnergyIs
<1>4. BestOf(papers', energy', first', best', bestEnergy')
  BY <1>1, <1>2, <1>3 DEF BestOf
<1>5. stage' = "annealing"
  BY DEF Draw
<1>6. QED
  BY <1>4, <1>5 DEF Annealed

LEMMA SwapAnneals ==
    ASSUME BestOf(papers, energy, first, best, bestEnergy),
           NEW p \in Papers, NEW r \in Papers, p # r,
           NEW i \in 1 .. PaperSize, NEW j \in 1 .. PaperSize,
           NEW b, b = Swapped(papers, p, i, r, j)
    PROVE  IF Energy[b] < bestEnergy
           THEN BestOf(b, Energy[b], first, b, Energy[b])
           ELSE BestOf(b, Energy[b], first, best, bestEnergy)
<1>1. b \in AllSheets /\ papers \in AllSheets
  BY SwapIs DEF BestOf
<1>2. \A q \in Bank : Copies(q, b) = Copies(q, papers)
  BY <1>1, SwapKeepsCopies
<1>3. Energy[b] \in Nat /\ bestEnergy \in Nat /\ first \in Nat
  BY <1>1, EnergyIs DEF BestOf
<1>4. CASE Energy[b] < bestEnergy
  BY <1>1, <1>3, <1>4 DEF BestOf
<1>5. CASE ~(Energy[b] < bestEnergy)
  BY <1>1, <1>2, <1>3, <1>5 DEF BestOf
<1>6. QED
  BY <1>4, <1>5

LEMMA AnnealAnneals ==
    ASSUME Annealed, Anneal
    PROVE  Annealed'
<1>1. stage = "annealing" /\ stage' = stage /\ first' = first
  BY DEF Anneal
<1>2. BestOf(papers, energy, first, best, bestEnergy) /\ papers \in AllSheets
  BY <1>1 DEF Annealed, BestOf
<1>3. PICK k \in DOMAIN PaperOrder, n \in DOMAIN PaperOrder, i \in 1 .. PaperSize, j \in 1 .. PaperSize :
        /\ k < n
        /\ LET p == PaperOrder[k]  r == PaperOrder[n]
               swapped == Swapped(papers, p, i, r, j)
               cost == Energy[swapped]
           IN  \/ /\ papers[p][i] = papers[r][j]
                  /\ UNCHANGED <<papers, energy, best, bestEnergy>>
               \/ /\ papers[p][i] # papers[r][j]
                  /\ \/ /\ papers' = swapped /\ energy' = cost
                        /\ best' = IF cost < bestEnergy THEN swapped ELSE best
                        /\ bestEnergy' = IF cost < bestEnergy THEN cost ELSE bestEnergy
                     \/ /\ cost > energy
                        /\ papers' = Undone(swapped, p, i, papers[p][i], r, j, papers[r][j])
                        /\ UNCHANGED <<energy, best, bestEnergy>>
  BY DEF Anneal
<1> DEFINE p == PaperOrder[k]  r == PaperOrder[n]
           b == Swapped(papers, p, i, r, j)
<1>4. p \in Papers /\ r \in Papers /\ p # r
  <2>1. k # n
    BY <1>3, OrderIs
  <2>2. QED
    BY <2>1, OrderIs
<1>5. Undone(b, p, i, papers[p][i], r, j, papers[r][j]) = papers
  BY <1>2, <1>4, SwapIs
<1>6. IF Energy[b] < bestEnergy
      THEN BestOf(b, Energy[b], first, b, Energy[b])
      ELSE BestOf(b, Energy[b], first, best, bestEnergy)
  BY <1>2, <1>4, SwapAnneals
<1>7. \/ UNCHANGED <<papers, energy, best, bestEnergy>>
      \/ /\ papers' = b /\ energy' = Energy[b]
         /\ best' = IF Energy[b] < bestEnergy THEN b ELSE best
         /\ bestEnergy' = IF Energy[b] < bestEnergy THEN Energy[b] ELSE bestEnergy
  BY <1>3, <1>5
<1> HIDE DEF b, p, r
<1>8. BestOf(papers', energy', first', best', bestEnergy')
  <2>1. CASE UNCHANGED <<papers, energy, best, bestEnergy>>
    BY <1>1, <1>2, <2>1
  <2>2. CASE /\ papers' = b /\ energy' = Energy[b]
             /\ best' = IF Energy[b] < bestEnergy THEN b ELSE best
             /\ bestEnergy' = IF Energy[b] < bestEnergy THEN Energy[b] ELSE bestEnergy
    <3>1. CASE Energy[b] < bestEnergy
      BY <1>1, <1>6, <2>2, <3>1
    <3>2. CASE ~(Energy[b] < bestEnergy)
      BY <1>1, <1>6, <2>2, <3>2
    <3>3. QED
      BY <3>1, <3>2
  <2>3. QED
    BY <1>7, <2>1, <2>2
<1>9. QED
  BY <1>1, <1>8 DEF Annealed

\* The best is no worse than the current assignment, so that it too has the
\* small energy with which the solver stops early.
LEMMA FinishAnneals ==
    ASSUME Annealed, Finish
    PROVE  Annealed'
<1>1. stage = "annealing" /\ stage' = "solved"
  BY DEF Finish
<1>2. /\ papers' = papers /\ energy' = energy /\ first' = first
      /\ best' = best /\ bestEnergy' = bestEnergy /\ iteration' = iteration
  BY DEF Finish
<1>3. BestOf(papers, energy, first, best, bestEnergy)
  BY <1>1 DEF Annealed
<1>4. ASSUME iteration < MaxIterations PROVE 100 * bestEnergy < Whole
  <2>1. MaxIterations \in Nat
    BY AnnealingAssumption
  <2>2. 100 * energy < Whole
    BY <1>4, <2>1 DEF Finish, Converged
  <2>3. bestEnergy <= energy /\ bestEnergy \in Nat /\ energy \in Nat /\ Whole \in Nat
    BY <1>3, EnergyIs, UnitsAre DEF BestOf
  <2>4. QED
    BY <2>2, <2>3
<1>5. QED
  BY <1>1, <1>2, <1>3, <1>4 DEF Annealed

LEMMA AnnealedStep == Annealed /\ [AnnealNext]_anneal => Annealed'
<1> SUFFICES ASSUME Annealed, [AnnealNext]_anneal PROVE Annealed'
  OBVIOUS
<1>1. CASE UNCHANGED anneal
  <2>1. /\ stage' = stage /\ papers' = papers /\ energy' = energy /\ first' = first
        /\ best' = best /\ bestEnergy' = bestEnergy /\ iteration' = iteration
    BY <1>1 DEF anneal
  <2>2. QED
    BY <2>1 DEF Annealed
<1>2. QED
  BY <1>1, DrawAnneals, AnnealAnneals, FinishAnneals DEF AnnealNext

LEMMA AnnealedHolds == AnnealSpec => []Annealed
<1>1. AnnealInit => Annealed
  BY DEF AnnealInit, Annealed
<1>2. QED
  BY <1>1, AnnealedStep, PTL DEF AnnealSpec

\* The stored papers are never worse than the first draw nor made of other
\* questions than were drawn, and a solver that stops early stores papers that
\* satisfy the four constraints: for any bank, blueprint, centres, seats and
\* number of iterations.
THEOREM BestPapersAreKept == AnnealSpec => []BestIsKept
<1>1. Annealed => BestIsKept
  <2> SUFFICES ASSUME Annealed, stage # "drawing" PROVE BestIsKept
    BY DEF BestIsKept
  <2>1. BestOf(papers, energy, first, best, bestEnergy)
    BY DEF Annealed
  <2>2. /\ papers \in AllSheets /\ best \in AllSheets
        /\ energy = Energy[papers] /\ bestEnergy = Energy[best]
        /\ bestEnergy <= first /\ bestEnergy <= energy
        /\ \A q \in Bank : Copies(q, papers) = Copies(q, best)
    BY <2>1 DEF BestOf
  <2>3. \A p \in Papers : Len(papers[p]) = PaperSize /\ Len(best[p]) = PaperSize
    BY <2>2, SizeIs DEF AllSheets
  <2>4. ASSUME stage = "solved", iteration < MaxIterations, Cardinality(Papers) < 23, PaperSize <= 1000
        PROVE  Satisfied(best)
    <3>1. 100 * Energy[best] < Whole
      BY <2>2, <2>4 DEF Annealed
    <3>2. QED
      BY <2>2, <2>4, <3>1, SmallIsSatisfied
  <2>5. ASSUME Satisfied(best), \A c \in Centers : Len(SeatsOf[c]) <= 5
        PROVE  CheckersPass(best)
    BY <2>2, <2>5, SatisfiedPasses
  <2>6. QED
    BY <2>2, <2>3, <2>4, <2>5 DEF BestIsKept
<1>2. QED
  BY <1>1, AnnealedHolds, PTL
=============================================================================
