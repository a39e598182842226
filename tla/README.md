# Pariksha Suraksha in TLA+

Specifications of the exam-integrity system of this repository, the TLC runs
that check them on small instances, and proofs of the properties that matter
most. All source paths are relative to the repository; definitions keep the
names of the code where TLA+ allows it, and `PROJECT.json` maps each one to
its lines.

Check a module with `tlc -config <X>.cfg <Module>.tla`, a proof with
`tlapm <Module>Proofs.tla`; `PROJECT.json` says which configuration belongs to
which module.

## The system

| Component | State it keeps | What is hard | Model |
|---|---|---|---|
| **Key release**: `packages/crypto-lifecycle` `SchedulingService`, `KmsService` | Firestore `keySchedule/kek` and `keySchedule/release`, the KMS key, a Cloud Scheduler job, backup timers in the memory of each replica, papers in Redis, encrypted questions in a bucket with their keys in Firestore | two triggers on several replicas, six awaits per release without a `try`, retries, crashes, swallowed failures; two stores per question | `KeyRelease`, `KeyCustody`, `ReleaseClock`, `QuestionVault` |
| **Emergency release**: `ShamirService`, `gf256` | fragments in the memory of one replica, hashes in Firestore | awaits between use and deletion of the fragments, replicas, restarts; field arithmetic | `EmergencyRelease`, `EmergencyApproval`, `Gf256`, `KeySplit` |
| **Time-lock puzzles**: `TlpService`, `workers/tlp-generator` | puzzles and a speed cached in three places | two callbacks, redelivery, when a puzzle opens | `TimeLock` |
| **Exam terminal**: `packages/candidate-portal` and its service worker | the zustand store, `localStorage`, IndexedDB with the sync queue, the service worker's control of the page, the proctor's monitors | overlapping async callbacks, outages, made-up answers, crash and restart, stale renderings, double clicks | `ExamTerminal`, `ProctoredExam`, `AnswerSheet`, `Calculator` |
| **MVP server**: `mvp-server.js` | one in-memory `db`, timers | overlapping timers that write one job, repeated submissions, a bank that changes while exams run | `MvpExam`; its sessions in `ExamTerminal`, its proctor log in `ProctoredExam`, its question endpoints in `QuestionDesk` |
| **Admin dashboard**: `packages/admin-dashboard` | the query cache of the pages that run a job; the generated template, in a store that outlives its page | polling that stops at a stale status; answers to a page that was left | `AdminConsole` (on top of `MvpExam`), `QuestionDesk` |
| **Exam session service**: `packages/exam-session-service` | Firestore sessions, response and backup buckets, Redis checkpoints, the submission index | many awaits, partial failures, Redis or the bucket, a KEK that is configured anew | `ExamSession` (on top of `AuditLedger`) |
| **Blockchain service and chaincode**: `packages/blockchain-service`, `chaincode/exam-audit` | the ledger, four kinds of composite keys | Merkle proofs of trees of any size, commits out of the order of time, lost answers | `AuditLedger`, `AuditTrail` |
| **Paper generator**: `packages/paper-generator` | Redis papers, the exam's pending job | three writers of one cache, pipelines in which commands fail | `PaperDelivery`; its matrix trigger in `ExamSetup` |
| **Workers**: `workers/*` | status documents, seats, results, item parameters | redelivery, batches that break off, workers that append to what they read | `MatrixSolver`, `Annealing`, `CollusionCheck`, `Calibration`, `ScoreEquating`, `TimeLock` |
| **Collusion engine**: `packages/collusion-engine` | run and centre documents | publish before commit | `CollusionCheck` |
| **Question service**: `packages/question-service` | templates, exams | read, check and write with awaits between, a document and a topic that no transaction joins | `QuestionBank` (on top of `Calibration`); the exam and its matrix trigger in `ExamSetup` |
| **API gateway**: `packages/api-gateway` | bearer tokens, the calls under way, a counter per address | a timeout and a deadline racing an answer, an audit interceptor that may be unsubscribed, windows that expire under a sweep | `Gateway` |
| **Shared types** | none | - | not modelled |

How they interact: the gateway forwards REST calls; the services share
Firestore and Redis, call each other over gRPC (crypto-lifecycle notifies the
paper generator and records audit events with the blockchain service, and so
does the exam session service) and hand work to the workers over Pub/Sub.
Cloud Scheduler calls crypto-lifecycle back. The terminal talks HTTP through
its service worker. `mvp-server.js` is the whole back end in one process for
demonstrations, and the API the checked-in portal and dashboard really speak.

What makes each correct: keys are announced as released only when they are,
never before their time, and never left unreleased; a key comes out of its
fragments and a text out of its own key; a candidate's answers reach the
server, stay with their session and are never reported as delivered when they
are not; what a candidate sees is what is sent, and a shown exam is watched; a
receipt outlives what comes after it; a job that was started ends, once, with
one consistent result, however often its message comes; what is "completed"
is done, and whoever watches it learns of it.

The hazards this code is exposed to are listed in `PROJECT.json` at the lines
where they bite, each with the properties that cover it.

## The modules

| Module | What it is |
|---|---|
| `KeyRelease` | the key schedule of one exam: handlers of several replicas, step by step |
| `KeyCustody` | abstract: what the documents and the paper cache of an exam promise; refined by `KeyRelease` |
| `ReleaseClock` | when the two triggers of a release fire |
| `TimeLock` | the puzzles that open at the same time without a key server |
| `QuestionVault` | encrypted questions: blob and key in two stores |
| `EmergencyRelease` | fragments and reconstructions of one exam on several replicas |
| `EmergencyApproval` | abstract: three holders approve a release; refined by `EmergencyRelease` |
| `Gf256`, `KeySplit` | the field of 256 elements with its tables; splitting and rebuilding a byte |
| `PaperDelivery` | the paper of a seat: assignment, cache, request |
| `ExamSetup` | one exam's blueprint and its job for the solver, by two services |
| `MatrixSolver` | the solver's callbacks: leases, batches, redelivery, progress (on top of `ExamSetup`) |
| `Annealing` | one solve: the first draw, the swaps, the energy, the checkers |
| `ExamTerminal` | one terminal, its service worker, the network and the session endpoints |
| `ProctoredExam` | login, seat, start, the proctor's monitors and limits |
| `AnswerSheet`, `Calculator` | what the terminal shows of the answers; its calculator |
| `ExamSession` | the exam session service, composed with `AuditLedger` |
| `AuditLedger`, `AuditTrail` | the ledger with its Merkle proofs; its keys and queries |
| `MvpExam` | the life of one exam in the demonstration server |
| `AdminConsole` | a dashboard page that starts and watches one of its jobs |
| `CollusionCheck` | trigger, detector workers and stored results of one exam |
| `Calibration`, `QuestionBank` | the IRT calibrator; the bank that hands templates to it |
| `ScoreEquating` | the score equator |
| `Gateway` | a request's way through guards, interceptors and the call behind |
| `QuestionDesk` | the dashboard's question pages and the server's question endpoints |
| `MC*` | instances for TLC, and the compositions side by side |
| `*Proofs` | the theorems, for every value of the constants |

Three conventions are common to them. JavaScript runs from one `await` to the
next without interruption, so an action is *one external call taking effect
and the synchronous code up to the next call*; a variable (`step[h]`, `pc[c]`,
`req[r].at`) names the call a handler waits before. In the Python
workers each action is one read, computation or write of a callback. The
subscriptions deliver one message at a time, but are opened again after a
stream error while the old callback goes on (`matrix-solver/src/main.py:255`):
the matrix solver, the collusion detector and the puzzle generator have
several callbacks under way, the calibrator and the equator are taken to have
one. And a definition named after another with a suffix,
under a comment that begins "Mutant of" or "As if", is a plausible bug of that
definition: nothing uses it, but when it is put in place of the original the
property `PROJECT.json` pairs it with fails.

### KeyRelease and KeyCustody

`kek`, `emergency` and `relDoc` are fields of the two Firestore documents,
`kms` the Cloud KMS key, `papers` the Redis pipeline of the pre-rendered
papers, `audit` what became of each kind of blockchain event, `job` and
`attempts` the Cloud Scheduler job and the HTTP attempts left of its firing,
`timer[r]` the backup timer in the memory of replica `r`, and `step[h]`,
`src[h]` the handlers.

| Operation of the code | Actions, in the order of its awaits |
|---|---|
| `scheduleKeyRelease` | `DeleteJob`, `CreateJob`, `Arm`, `SaveRel` |
| `cancelScheduledRelease` | `CancelJob`, `Disarm`, `SaveCancel` |
| `releaseKeys` (from `TimerFire` or `Deliver`) | `SkipReleased` or `PassCheck`, `CachePapers`, `LogDecrypt`, `LogRelease`, `MarkKek` or `MarkKekMissing`, `MarkRel` or `MarkRelMissing` |
| `bulkDecryptAndCache` on request | `CachePapers`, `LogDecrypt` |
| `generateExamKek` | `CreateKey` or `CreateKeyRefused`, `SaveKek`, `LogKek` |
| `destroyKeys` | `DestroyRefused` or `DestroyVersions`, `DestroyMark`, `DestroyLog` |
| end of `attemptReconstruction` | `RecLog`, `RecMark` or `RecMarkMissing` |
| an await rejects, a pod goes down | `Fail`, `Crash` |

The failures follow the code: the Cloud Scheduler calls are inside a `try` and
their failure is swallowed, `recordBlockchainEvent` rejects on a transport
error only, and every other rejection ends the handler, which the job's retry
configuration (one delivery and three retries) may repeat. The DEKs are
wrapped by a global KMS key and not by the exam's KEK
(`kms.service.ts:290-310`), so neither a missing nor a destroyed KEK stops
the decryption; the model keeps that. `KeyCustody` has the same documents and
the paper cache with none of the machinery: generate once, publish, announce
only with papers, complete only what was announced, destroy.

### ReleaseClock

`KeyRelease` lets an armed trigger fire at any moment; here the moments are
what matters. `release` and `cron` are the schedule in force and the Cloud
Scheduler job, which all replicas share, each a set of at most one schedule
with the time it is for and the time it was made at; `backup[r]` is the timer
in the memory of replica `r`, which only a request that `r` serves sets,
replaces or clears, and `served[r]` is history: what the last change asked for
that `r` served; `CronMatches` is the cron
expression of `dateToCron` (no seconds, no year), `Delay` what Node.js makes
of a delay that does not fit 31 bits. Abstractions: a request is
one step, a call of `releaseKeys` drops its replica's timer or fails, triggers
are prompt (time passes together with what is due), and no
release is scheduled a year or more ahead.

### EmergencyRelease and EmergencyApproval

`lists[r]` are the arrays that replica `r` has made for the exam since it
started and `entry[r]` the one its `pendingFragments` map points to. The
distinction matters: a reconstruction that awaits keeps its array
(`held[h]`), which later fragments join, and which is filled with zeros at the
end whatever the map points to by then. `collectFragment` is
`CollectFragment`, `StoreHash`, `LogCollected`; `attemptReconstruction` is
`AttemptReconstruction`, `LogReconstructed`, `MarkReleased` or `MarkMissing`,
`Wipe`. Of a fragment's bytes it matters whether they are the share that was
given to the holder, other bytes, bytes of another length, or zeros; an index
stands for its holder; the arithmetic is `KeySplit`'s.
Answers to callers are left out. `EmergencyApproval` says that a release needs
`Threshold` different holders in the memory of one replica since it started.

### ExamTerminal

A candidate's answers are the number of edits made (`ver[s]`), since all a
checkpoint can be is older or newer. `pc[c]` says what a run of
`performCheckpoint`, of `processSyncQueue` or the run of `handleSubmit`
awaits, `payload[c]` what it sends, `todo[c]` the items its loop still has;
`local` and `queue` are localStorage and the sync queue in IndexedDB, `sw`
whether a service worker controls the page, `cp` and `subs` the server's
checkpoints and submissions. `Faked` is `handleQueueableRequest`, which
answers in the server's place. The server is `mvp-server.js`, whose handlers
do not await; the checked-in portal speaks its shapes. All of IndexedDB but
the sync queue is left out because nothing reads it.

### TimeLock

A message of the exam (`topic`) is taken by one of two callbacks, whose
`pc[w]` says what it awaits, `rate[w]` and `draft[w]` what it holds. The three
places a worker knows its speed from are `cached` (the process),
`calibration` (Firestore) and a benchmark: `UseCached`, `ReadCalibration`,
`Benchmark`, `RecordBenchmark`; two benchmarks at once share the processor.
`ReadClock` draws the primes, reads the clock and computes the puzzle, `Store`
writes it, `Acknowledge` or `Fail` end the message. The numbers are real: the
modulus, the shortcut through the totient, the squarings and the XOR with the
key are computed as the worker does, over small safe primes. Finding primes
takes no time in the model (in the code it delays the opening).

### QuestionVault

`blob` and `keyDoc` are the two stores of a question, `call[k]` a run of
`encryptQuestion` (`Encrypt`, `SaveBlob`, `SetKeyDocument`,
`RecordBlockchainEvent`, `EncryptFails`), `reader[r]` a release that has read
all key documents and opens one blob after another (`BulkDecrypt`,
`DecryptQuestion`, `EndRead`), or the caller of `decryptQuestion` with what an
encryption returned (`DecryptReturned`).

### Gf256 and KeySplit

`Gf256` builds the exponent and logarithm tables of `gf256.ts` and multiplies
and divides by them, a byte being the set of its bits. `KeySplit` splits one
byte (`SplitKey`), lets a fragment change (`Damage`), collects fragments in any
order (`CollectFragment`) and interpolates (`Reconstruct`). `MCEmergencyRelease`
runs it beside `EmergencyRelease`, whose notion of a fragment it justifies.

### PaperDelivery

`assigned` is the seats' documents, `paper` and `decrypted` the Redis keys.
`bulk` is `bulkDecryptAndCache` (`StartBulk`, `ReadCenter`, `ReadSeats`,
`WritePapers`, `BulkFails`), `warm` is `preWarmCache` (`StartWarm`,
`RenderSeat`, `BatchSet`, `EndWarm`), `req[r]` a candidate's `getAssignment`
(`Ask`, `ReadAssignment`, `ReadQuestions`, `StorePaper`, `Answer`,
`RequestFails`, `AskAgain`). `Assign` is the solver drawing again, `Decrypt` a
text arriving in Redis. Commands of a pipeline fail one by one.

### ExamSetup and MatrixSolver

`exam` is the document that the question service and the paper generator
share: status, blueprint, pending job. `ask[c]` says what caller `c`'s request
awaits: `CheckBlueprint` and `DefineBlueprint` are `defineBlueprint`,
`CheckSolver`, `MarkGenerating` and `PublishToMatrixSolver` are
`triggerMatrixSolver`, `LoadExam`, `PublishJob` and `RecordPending` are
`triggerMatrixGeneration`. Two callers are two requests that overlap, which
the gateway makes ordinary: it gives a request up after 30 seconds
(`grpc-client.service.ts:79`) and the service goes on with it. `found` and
`overlapped` are history. `updateStatus` has no caller and is left out.

`MatrixSolver` adds the worker. A message carries the exam's id in one of
three forms (`form`); the worker reads only one of them, which neither service
sends, so a behaviour is one of the services' (`sender`), whose messages are
dropped, or of messages published by hand (`PublishByHand`), which are worked
on, about an exam whose `topicCoverage` is a map, a list or missing with its
document (`document`).
`worker[w]` is a run of `_handle_message`: `Receive` leases a message,
`loading` reads document, bank and centres and ends in `Raise` (no document,
or a list that has no `items()`: refused, and delivered again), in `NoData` or
in `Solve`; `solving` reports its progress (`Report`, `shown`) and
`Complete`s; `writing` commits the seats batch by batch (`WriteBatch`,
`docs`) and acknowledges. `Abort` is an exception or a crash at any of these.
Several runs may be under way, and `LeaseExpires` takes a message from a run
that goes on with it: the message is then delivered again beside it. A solve
is the number of its draw here; `last` is history, the callback that
committed a batch last, and whether another draw's batch came between its own.

### Annealing

One run of `solve_assignment_matrix`: `Draw` draws one paper per seat,
topic by topic (`Sample`: distinct questions, repeated ones when the bank is
too small, none when the topic has none), `Anneal` swaps with an
acceptance the random numbers decide (so any outcome with positive
probability) and keeps the best, `Finish` returns it. `Satisfied` and the
energy are computed as `solver.py` does, multiplied by what makes every one of
its numbers an integer: difficulties are given in `Unit`ths, shares of common
questions in `Parts` (the product of the numbers up to the length of a paper, a
multiple of every denominator, so that no division is rounded), energies in
parts of `Whole`. `CheckersPass` is `constraints.py`, and `CheckersAgree` in
the instance states when the two agree. It shares no state with the worker,
and `MCMatrixSolver` runs the two side by side.

### ProctoredExam

`run[h]` is a run of one of the page's handlers: the login (`RequestOtp`,
`OtpSent`, `VerifyOtp`, `LoggedIn`), the seat (`VerifySeat`, `SeatVerified`),
the start (`StartSession`, `InitializeExam`, `StartFails`), the submission
(`SendSubmission`, `Submitted`, `SubmissionFails`). Two of them can be under
way, because a key press does not wait for the first. `shown` and `phase` are
the store, `cur` the proctor that the effect has mounted, `inst[m]` the counts
of each one. `HideTab`, `LoseFocus`, `ForbiddenAction` and `AskScreens` with
`ScreensKnown` are the monitors; a report goes over the network
(`ViolationArrives`, `ViolationLost`) into the server's `log` and `trail`.

### AnswerSheet and Calculator

`AnswerSheet` has the part of the store with the candidate's place and
answers, the components that show it, and *when each of them is drawn again*:
`grid` and `counts` are what the question grid and the submit dialog show,
which may be older than the store. `KeyDown`, `QuestionButton`, `GridButton`,
`ShowDialog`, `TickTimer` and the submission are its actions, `Redraw` the
causes that come from outside. `Calculator` types an expression key by key
(`Type`, `Slip`, `Correct`, `StartOver`, `GoOn`) into the state of
`handleCalcPress`, and evaluates what stands there with the parser of
`page.tsx`, over exact fractions with infinities and NaN. Both run beside
`ExamTerminal` in `MCExamTerminal`.

### AuditLedger, ExamSession and AuditTrail

`AuditLedger` is the orderer's queue and the committed blocks, with the tree
and the proofs of `merkle.service.ts`; a proposal, an order and a commit are
steps of their own. `ExamSession` composes it with the service that records to
it: `req[r]` is a request that goes from await to await. A start is
`StartPaper`, `StartCheck`, `StartMark`; a submission `SubmitBegin`,
`SubmitBlob`, `SubmitDoc` or `SubmitRefused`, `SubmitIndex`; a checkpoint
`SaveBegin`, `SaveToRedis`, `SaveToGcs`, `SaveSettles`; a resumption
`LoadRedis`, `LoadGcs`, `LoadRefused`; and each may record an event
(`RecordOrdered`, `RecordAnswered`, `RecordLost`, `RecordFails`). A `Crash`
ends the requests under way and may restart the service with another KEK.
`AuditTrail` has the four kinds of composite keys that the chaincode writes
(`world`) and the queries over them, for clients whose call can time out
although the event is committed later (`Propose`, `Submit`, `Cut`, `Recorded`,
`TimeOut`).

### MvpExam and AdminConsole

`MvpExam` is one exam of `mvp-server.js`. A handler is one step; between them
run the intervals and timeouts, each a closure with its own counter
(`matrixTimers`, `encryptTimers`, `timeouts`) over shared records (`matrix`,
`encryption`, `collusion`, `equating`). `bank`, `sessions` and `submissions`
are the candidates' side: a paper is drawn from the bank with the server's own
generator, graded when submitted, and equated when the timer fires.
`AdminConsole` puts a page of the dashboard on top of it: the query with its
cache (`data`, `invalidated`, `fetch`), the trigger mutation (`calls`),
mounting and leaving, another person's trigger, a failed request.

### CollusionCheck

`handler[h]` is a trigger walking the list of centres (`StartTrigger`,
`SkipCenter`, `PublishJob`, `PublishFails`, `CommitBatch`), whose documents
(`jobs`) come after its messages (`msgs`). `worker[w]` takes one
(`Take`, `Drop`), checks that the exam is over, calibrates the threshold or
reads it, scores the pairs, writes them one batch after the other and its
rings, and answers (`Work`); `Abort` is an exception or a crash at any of
these. The scores are computed from answers as `detector.py` does, with
integer log-likelihoods; the threshold is the quantile of the simulated pairs,
which a seeded generator makes the same for every worker.

### Calibration and QuestionBank

`Calibration` is the worker: `TakeMail`, `DropMail`, then step by step the
fit, the rows of the warehouse, the profiles, the verdict and the documents of
the instantiations, with a failure at each. Its loops over the instantiations
take them in any order. `QuestionBank` is the service:
requests (`create`, `update`, `delete`, `fieldTest`) that read, validate,
check for duplicates and write, with another request in between. A template
is a function on its fields; formulas are functions of their parameter, so
that the validation's samples and bounds are evaluated. The field test's
message is a `mail` of the calibrator.

### ScoreEquating

The worker's `pc` goes over `load`, `compute`, `append`, `commit` and
`report`; `results` are the rows of the table it reads *and appends to*,
`scored` the candidates' documents, `summary` the exam's. Cohorts of results
(`Arrive`), a further fit (`AppendFit`), duplicated and malformed triggers
(`Duplicate`, `TriggerBadly`) and failures (`Abort`) come at any time. The
queries name no order, so a batch of documents (`Batches`) is any part of what
is left that is large enough, and a document has the raw score of any of its
candidate's rows (`ResultDocs`). The Kolmogorov-Smirnov statistic is computed
from the rows, against critical values that depend on their number.

### Gateway

`call[c]` is a request with its route, the time it came and its answer,
`work[c]` what the service behind makes of it, `trail` the audit events, and
`token[u]` a bearer token. The routes of the nine proxies are records of their
roles and limits; `Asked` are those a run asks for. `JwtAuthGuard`,
`RbacGuard` and `RateLimitGuard` refuse in their order, `Forward` sends,
`Login` and `LoginFails` are the public routes of the gateway itself,
`Verify` and `VerifyRejected` the public check of a receipt, with
`NeedsCaptcha` and `Count` over `captcha`, the counter of every address.
`Serve` and `ServiceFails` are the service; `Return`, `Unavailable`,
`DeadlinePasses` and `TimesOut` end the call in the gateway, the last outside
the audit interceptor. A CAPTCHA is asked for and checked by another server
before its check is counted, so `solved` may be true in a window that no
longer needs it. Timers are prompt (`TimePasses` waits for what is due). Which
routes a service knows is the constant `Served`. `windows` is history.

### QuestionDesk

One tab of an administrator. `template` is in the store and outlives the page;
`editing` and `edited` are the page's own and are gone when it is left
(`OpenPage`). `request[c]` is a fetch from the page `page`; the server answers
(`Handle`), the connection may fail before or after (`Cut`), and the callbacks
of the mutation (`Hear`) write the store whatever page is open, but the state
of their own page only. `Generate`, `Edit`, `SaveEdit`, `CancelEdit` and
`ApproveAndSave` are the buttons of the generation page, `ChooseTemplate`,
`ChooseFile` and `CancelFile` the upload of the calibration page, and `TestEnds`
the timer of a field test. A text is known by the template it was written for.
`overtaken` is history: that a page that was left had its template come in
under the edit of a newer one.

## What the runs check

All runs pass: each property holds in the instance. Where two modules share no
state but the point where they meet is small, they are run side by side: a
behaviour is one or the other, as a variable `side` or `plan` says.

| Run | Question | Properties |
|---|---|---|
| `KeyReleaseSafety` (with `Gateway`, `QuestionDesk`) | do documents, audit trail and bank ever say what did not happen, and does the counter of checks hold? | `ImplementsCustody`, `AuditTells`, `FreeChecksAreFew`, `BankIsWhole` |
| `KeyReleaseLive` | does a scheduled release happen in spite of one fault? | `ScheduledIsReleased` |
| `OpeningTimes` (`ReleaseClock`, `TimeLock`) | do keys and puzzles open at their time, whatever failed? | `OpensAtItsMinute`, `NoStaleTrigger`, `PuzzleSealsKey` |
| `EmergencyRelease` (with `KeySplit`) | do racing reconstructions and fragments keep buffers, lists and the threshold intact, and does the key come out? | `WrongOnlyFromWrong`, `KeptUntilReleased`, `ImplementsApproval`, `KeyFromItsFragments` |
| `ExamTerminal` (with `AnswerSheet`, `Calculator`) | is what the terminal shows, saves and sends true, the session's own, and sent when the time is up? | `SubmissionFaithful`, `CheckpointsArrive`, `TimeUpSubmits`, `SheetIsShown`, `CalculatorComputes` |
| `ProctoredExam` | is a shown exam watched for its own session, through double logins and late answers? | `WatchedToTheLimit`, `LogIsOwn` |
| `PaperDelivery` (with `QuestionVault`) | is a paper of one draw, whoever writes it, and does a question open with its key? | `OneDrawPerPaper`, `VaultOpens` |
| `MatrixSolver` (with `ExamSetup`, `Annealing`) | do an exam's document and the topic agree, do the seats hold one draw, the best of its annealing, and is every job settled? | `BestIsKept`, `OneDrawStored`, `JobsSettle` |
| `CollusionCheck` | do racing workers agree, and is an answered job complete? | `OneThreshold`, `AnsweredIsComplete`, `JobsAnswered` |
| `ExamSession` (with `AuditLedger`, `AuditTrail`) | does a receipt outlive what comes after it, and is what was recorded found? | `ReceiptsKeepTheirAnswers`, `ProofsFitOneLeaf`, `ResumesFromNewest`, `ToldIsFound` |
| `MvpExam` (with `AdminConsole`) | is "completed" true, a result final, a job ended, and does the page learn of it? | `CompletedMeansDone`, `GradedOnOwnPaper`, `ResultStands`, `JobsComplete`, `ConsoleSettles` |
| `Psychometrics` (`QuestionBank` with `Calibration`, `ScoreEquating`) | do the bank, the fits and the scores tell one story? | `BankIsSound`, `FlagsFollowFits`, `CalibrationSettles`, `ResultsAgree` |

Several properties hold only with an exception that they name, and the
exception is where the code falls short. They are listed under "What was met
on the way".

Properties that are stated and proved, but have no run of their own any more
because the proof says more: the type invariants of `KeyRelease`,
`ReleaseClock` and `EmergencyRelease`, `ReleaseBacked`, `EmergencyAudited`,
`CompletedImpliesReleased`, `KekBackedByKms`, `KekNeverReset` and `NotBlocked`.

### Bounds, and why they are enough

Every bound is a constant, and a guard of the action it stops. Deadlock is not
checked in any run: an instance stops when its bounds are used up, and the
real systems may rest as well (an exam that was released, a terminal that
shows its last screen, a worker without messages).

- *KeyRelease*: two replicas with one request each, four administrators'
  requests (two of them schedules), one cron firing with its three retries,
  one fault. Handlers share nothing but the stores and one timer per replica,
  so two of them give every interleaving of a pair, and a third party is
  present as the timer and the retries that follow. The liveness run starts
  from a generated KEK (the usual order) and has one schedule: a reschedule
  would only start it again; its
  behaviours are all of the side of the release, so that the gateway and the
  pages need one value of each constant only.
- *ReleaseClock*: minutes of three steps, years of nine, and a longest delay
  of five, so that a time can be inside its minute, cross a year, and be too
  far for the timer; the horizon is a year and a minute, so that the yearly
  repetition of an early job falls into it. Two replicas, two changes: one
  replica schedules and the other replaces or cancels.
- *TimeLock*: safe primes 7, 11 and 23, a base that shares a factor with one
  of them, rates 2 and 3, a target at 4 with a margin of 1 and a horizon of 5
  (a start may be too late), two callbacks, two messages, one fault.
- *EmergencyRelease*: two replicas with two requests in flight each; four
  fragments, one more than the threshold, one holder with other bytes and one
  with bytes of another length; two attempts and one fault. *KeySplit*: five
  holders, threshold three, every order of arrival, one damaged bit.
- *ExamTerminal*: two sessions (two candidates in turn, or one who starts
  again), one edit each, one checkpoint run at a time, two sync runs, one
  outage, one fault. One edit tells an old snapshot from a new one; two queued
  items and two runs over them give the overlaps of the loop. *AnswerSheet*:
  two questions in two sections, one second, one failed submission.
  *Calculator*: every expression of up to three operators in two levels, one
  slip or new start, results rounded to two places instead of ten.
- *Gateway*: three requests of one user from one address, over a mutating
  route that is ordinary, one that is long, one that no service knows, a login
  and the public check; a deadline and an ordinary limit of one step, a long
  one of two, two steps of time; a CAPTCHA from the second check of a window
  of one step on. Three requests are two in one window and one in the next.
- *QuestionDesk*: three requests (two generations that overtake each other and
  a save of what came of it, or a save, a field test and a second one), three
  questions, two pages, one deletion.
- *ProctoredExam*: two runs of handlers, two sessions, two mounted proctors;
  limits of one tab switch and two losses of focus stand for the code's.
- *PaperDelivery*: two seats of one centre, two draws, one request that may
  ask again, one fault. *QuestionVault*: three calls over two questions (two
  that overlap and one that repairs), one reader, one rejection.
- *MatrixSolver*: three papers in batches of one, so that a last draw can be
  broken off, or have another's batch between its own; two callbacks, two
  messages, and two faults, so that a lease lapses and the callback that kept
  the message, or the one that got it, fails as well; two callers with three
  blueprints, one of which does not add up. *Annealing*: a paper of two
  questions in each of two centres and a bank of four, so that some draws
  converge, some need a swap and some never do; two iterations.
- *CollusionCheck*: centres of three, two and no candidates, two workers, three
  messages, one fault; `ComponentsAreWhole` checks the grouping for every set
  of pairs of five candidates.
- *ExamSession*: one candidate with a start and a submission, with two
  submissions, with two saves and a resumption, or with a submission and a
  save; two instants (requests may share one), two faults, two KEKs and one of
  the wrong length; a submission whose event shares its block with three to six
  of other clients, so that proofs meet odd levels. *AuditTrail*: two clients,
  two exams, three events whose ids come in another order than the events, two
  instants, one call that fails.
- *MvpExam*: two candidates, a bank of at most three questions, papers of two,
  two triggers per job, three submissions, four units of progress. Two
  intervals on one job are every overlap of a pair. *AdminConsole*: one page,
  one failed request.
- *Psychometrics*: a template of three instantiations of which first one, then
  two, then all can be fitted; two authors with three requests; four
  candidates in two cohorts and two variants.

### Fairness

- `KeyRelease!Fairness`: weak fairness of each handler's next step and timer
  (the event loop of a live replica runs what is ready), of `JobFire` and of
  the deliveries as a whole (Cloud Scheduler fires the jobs it holds and
  retries them). Nothing is assumed of administrators, failures or crashes.
- `ExamTerminal!Fairness`: the effect of the timer, the steps of
  `handleSubmit` once it was called, the return of the link (losses are
  bounded by `MaxOutages`), and the press on *Return to Exam*, which is the
  only button of the error screen. Nothing is assumed of checkpoints, the sync
  queue, edits or the candidate's own submission.
- `MatrixSolver!SolverFairness`: weak fairness of every callback, whose step
  includes taking a message: Pub/Sub offers what is not acknowledged, and a
  callback that has begun goes on. Nothing is assumed of failures and leases.
- `CollusionCheck!Fairness` and `QuestionBank!Fairness`: weak fairness of the
  worker's own steps. Some messages come back for ever (a centre that cannot
  be scored, a template with one fitted instantiation), so that for the others
  strong fairness of being taken is needed: Pub/Sub redelivers every one of
  them again and again and starves none.
- `MvpExam!Fairness`: the oldest interval of each kind and the timeouts fire.
- `AdminConsole!ConsoleFairness`: the open page's timer fires and its requests
  are answered. Nothing is assumed of who triggers jobs or opens pages.
- The other modules have safety properties only and assume no fairness.

## What is proved

Every theorem is about arbitrary sets (replicas, slots, holders, handlers,
requests, questions, candidates) and arbitrary bounds, limits and lengths.
They rest on the assumptions named in the modules and nothing else, and those
ask only for what the code's configuration gives: bounds and limits are
numbers, roles are disjoint (`SessionAssumption`, `TerminalAssumption`: a
request is a start, a submission, a save or a load), the value that stands for
"nothing" is none of the data, a limit of the proctor is at least one
(`LimitsAssumption`), holders are finitely many (`HoldersAssumption`, for the
threshold to be a count), a paper has a question (`MvpAssumption`), papers are
sequences of questions and seats finitely many (`PapersAssumption`), a
template has finitely many instantiations, which are no other template's, and
an instantiation that could be fitted still can after more answers
(`CalibrationAssumption`), a parameter's range is two integers and an edit
does not delete (`BankAssumption`), an exam has seats to store
(`MatrixAssumption`), finitely many and two at least for an annealing, and some
topic of its blueprint asks for a question and has one (`AnnealingAssumption`;
`exam.validation.ts:41` and `:49` ask for counts above zero), questions are
numbered and no option
is the blank (`SheetAssumption`), the target rate of false pairs is at most one
half and the simulated scores are whole numbers (`CollusionAssumption`), the
gateway's deadline is below the limit of a long route (`GatewayAssumption`: 30
seconds and five minutes), and
the expected true scores are integers (`EquatingAssumption`; the worker rounds
to four places, which is a change of unit).

In each module the type invariant and the safety invariants are parts of one
inductive invariant, checked by TLC before it was proved. None of the
properties is inductive by itself, for each speaks of what is stored or shown
and not of the handlers that are about to write; what the invariant adds is
what a handler in the middle of its awaits has seen and still may rely on.

**`KeyReleaseProofs`**: `TypeCorrect`, `ReleaseIsBacked`,
`EmergencyIsAudited`, `CompletionIsHonest`, `KekIsBackedByKms`,
`KekIsNeverReset` and `Refinement` (`Spec => ImplementsCustody`). None of the
invariants is inductive by itself, for each speaks of documents and not of the
handlers about to write them. `StepsBacked` adds what a handler that waits
before a call has seen done (a handler before `markKek` has written the papers
and had its event answered), `SingleSaver` that at most one handler waits to
save a KEK (Cloud KMS admits one creation of a name, which is all that keeps
the unconditional write of `generateExamKek` from resetting a released key),
and `EmergencyHasKek` that the flag is set on a document that exists.

In the same module, for `ReleaseClock`: `ClockTypeCorrect`, `NeverBeforeItsMinute`,
`OneFaultIsCovered`, together `OpenedAtItsMinute` (`OpensAtItsMinute`), and
`NoTriggerIsStale`. The invariant has `WellArmed` (every
schedule is within a year and every timer due no later than its time),
`NothingStale` (the job is for the release in force, and a replica's timer for
what that replica was last asked for, which is as much as the code ensures and
is why the property excepts other replicas' timers), and `Covered`: a release
not yet triggered is waited for by
both triggers, or by one of them after a fault. The arithmetic is that of a
matching minute being the one meant or at least a year away from it.

And for `Gateway`: `GatewayTypeCorrect`, `TheAuditTells` (`AuditTells`),
`FreeChecksStayFew` (`FreeChecksAreFew`). The first two conjuncts of the audit
property speak of answers only; `WellTold` says of every request at every
moment what it has in the trail: nothing while it is pending or was refused by
a guard, one event once its handler has answered, of success only if the work
is done. That a long route is never silent needs the clock: a pending call is
never older than its deadline, because `TimePasses` waits for what is due, so
the five minutes of a long route do not come before the 30 seconds of its
call. For the counter, `WindowsOf` ties an address's entry to the last window
opened for it (it ends when that does, and has counted no less than was let
through), says of every older one that it was over before (`Apart`), and that
without an entry every window is over. A sweep
drops an entry only when it has expired, which is why it makes no second
allowance; the strict comparison is what the mutant loses.

**`EmergencyReleaseProofs`**: `TypeCorrect`, `RebuiltFromIntact`,
`RacesDoNotBlock`, `FragmentsAreKept`, `ThresholdHeld`
(`Spec => ImplementsApproval`). The invariant has `Intact` (no pending buffer
is zero: whoever fills a list with zeros drops the pending one as well),
`Unique` (which makes the number of fragments the number of holders, by a
bijection), `StepsSound` (what a reconstruction used was approved by enough
holders in its replica's memory) and `WipeAfterMark`.

**`PaperDeliveryProofs`**: `PapersAreOfOneDraw` (`OneDrawPerPaper`). A writer
of the cache holds what it has read of a seat while the seat is drawn again;
the invariant says of each of them (`BulkOK`, `WarmOK`, `RequestOK`), of the
cache (`CacheOK`) and of every draw (`DrawsOK`) that a paper is some draw's,
whole and in order. The lemmas are about sorting: the sequence that rises by
position exists for every finite set of placed questions (by a minimal
counterexample) and is unique, which is what makes a rendered paper the
assignment it came from.

In the same module, for `QuestionVault`: `VaultTypeCorrect`, `VaultIsSafe`
(`VaultOpens`). A data key is the identity of the call that drew it. `KeysAreOwned`: whatever
is stored or held under a key is that call's, so that an opened text is the
sealed one. For a question that must open, the argument is about order:
calls begin one after the other (`InOrder`), a call that has been alone leaves
no older one under way (`OlderAreDone`), hence the last call for a question
finds its two writes as it left them (`LastWriteStands`). The event is a call's
last await (`RecordedHasEnded`), so that what is in the trail has both writes.

And for `QuestionDesk`: `DeskTypeCorrect`, `BankStaysWhole` (`BankIsWhole`).
The bank is of one piece because everything that leads there is: `InPiece`
says of each request under way, of the template in the store and of the text
that is being edited that it belongs to the formula beside it, until a page
that was left interferes (`overtaken`, which stays). Each of the parts is
preserved by the others only: a save sends the edited text with the template's
formula, an answer that replaces the template ends the edit. For the field
tests, `Tested` says that whatever is in one has a timer, and whatever counts
as calibrated was given parameters in the same step; it needs that only
questions that exist are tested (`Carried`).

**`IntegrityProofs`**: `ProctorTypeCorrect`, `ShownIsWatched`,
`LimitsEndExams` (both as `WatchedUntilTheLimit`, `WatchedToTheLimit`),
`LogsAreOwn`. The watch and the limit need each other: the
screen that is watched has not tripped (`ScreenIsArmed`), because the callback
of a limit unmounts it. The log needs that a report is of its instance and
session while it is on its way (`ReportsAreOwn`), that counts only grow
(`Grown`), and that a report arrives at most once, which is why the number of
trail events is the cardinality of the log.

In the same module, for `CollusionCheck`: `CheckTypeCorrect`, `ThresholdIsOne`
(`OneThreshold`), `AnswersAreStored`. Workers race to calibrate, so the proof
is not that only one does: `SeedDecides` says that whoever has a threshold, in
hand or in the document, has the one the seed gives, and `StoresAreDue` that
what is stored was flagged by it. That at most the target share exceeds it
needs that the quantile exists (a least element of a finite set) and the
arithmetic of its index. For the answers, `LeasesAreOwn` gives every message
to at most one worker and `StoresAreDue` says how far down its batches a
worker is: what it has passed is stored, and what is stored is due.
`AnswersAreStored` is the part of `AnsweredIsComplete` about jobs and pairs;
the rings are found by a recursive search and stay with TLC.

**`ExamTerminalProofs`**: `TerminalTypeCorrect`, `SubmissionsAreFaithful`,
`CheckpointsDoArrive`. `PhaseFollows` ties the phase to what `handleSubmit`
awaits and says that the interval is off from the moment it sends;
`NothingIsLost` that what is sent is the last edit and is in localStorage
until it is known to be on the server. The queue needs `ItemsAreKeyed` (two
items, in the queue or in the hands of any of the overlapping runs, are equal
if their keys are, so that removing by key removes only what was sent), and
`Receipts` (a run that removes has been answered, by the server or by the
service worker).

In the same module, for `AnswerSheet`: `SheetTypeCorrect`, `SheetsAreShown`
(`SheetIsShown`). The invariant says of grid and dialog what they were drawn from: the
grid is fresh but for the current question, whose own changes do not draw it
again (`GridIsFresh`), and the dialog but for what was touched since it was
drawn (`DialogIsFresh`).

**`ExamLifeCycleProofs`**: `MvpTypeCorrect`, `CompletedIsDone`, `GradesAreOwn`,
`ResultsStand`. `JobsHaveRecords` says that one trigger means one interval
whose counter is the record's progress; overlapping intervals are what the
property excepts. The score bounds rest on lemmas about `Clamp` and about the
smallest index of a candidate's submissions, which does not change when one is
appended: that is why a shown result stands.

In the same module, for `ExamSetup` and `MatrixSolver`: `MatrixTypeCorrect`,
`OneDrawIsStored` (`OneDrawStored`). `SetupInv` says of every request what it
has checked and whether it still holds, and of every job that the document
names it or the request that is about to; requests that overlapped are the
exception the property names. `LeaseHolds` says that at most one
callback holds a message, and that whoever works on one without holding it has
let its lease lapse; `DrawHolds` that every draw is of one callback, and that
the callback of the last one has stored what `last` says; `SeatsHold` that as
far as the last draw was stored, and nobody's batch came between, the seats
hold it; `ReplacementWaits` that a draw which was broken off has its message
waiting, unless that was with two callbacks; `ShownHolds` what "completed" in
the document goes with. When all is quiet no message waits, so the last draw
was stored to its end, or is one of the two that the property excepts.

`BestPapersAreKept` (`BestIsKept`) is about the annealing itself. Its
invariant, `Annealed`, says that both energies are those of their assignments,
the best one is no worse than the first and the current, the two have the same
number of copies of every question (a swap exchanges two places of the
assignment, so a permutation of the places maps the copies of one to those of
the other), and a worker that stopped early has a best energy below a hundredth.
The rest is arithmetic on one assignment. Below a hundredth no paper can miss
its blueprint by a question (that costs 5) and no pair of papers can share one
question more than the limit: shares are exact, so the excess is a multiple of
a twentieth of one question's share, which is a thousandth or more. And no paper can be 0.15 off
the mean: for n papers with hardness h and total T, (n h - T)^2 is at most n
times n sum h^2 - T^2, proved along the sum (`Deviations`), so a variance below
a thousandth keeps every deviation below the square root of n thousandths,
which is 0.15 up to 22 papers; with more, the conclusion is not drawn. The
checkers then agree because five papers of a centre are all the solver samples.

**`ExamSessionProofs`**: `SessionTypeCorrect`, `ResumesAreNewest`,
`ReceiptsAreKept`, `ProofsLeadFromOneLeaf` (`ProofsFitOneLeaf`).
`RedisIsNewest` says that without a refused write or two saves at a time Redis
holds nothing or something as new as every settled save;
`BackupsAreThere` the same of the bucket. For the receipts, a submission
between its awaits has the answers it has written where it wrote them, unless
another one fell on its millisecond; for the ledger, an index entry is of an
event whose proposal was answered, and a block once committed stays. For the
Merkle proofs, a transaction has one id among all the ledger has (`LedgerInv`),
so that the search of a block finds the event itself; the rest is about trees
of any size and follows `computeMerkleProof` round by round: in every round the
proof so far leads from the leaf to the round's target (`Leads`), the levels do
not depend on the target, and each round but the last shortens the level, which
is why there are rounds enough. Rounds and hashes are recursive functions of
their number; that a number has a property is proved by the set of those that
have it (`EveryNumber`: a least one without it would have a predecessor), which
needs no operator for a parameter.

In the same module, for `AuditTrail`: `WhatIsToldIsFound` (`ToldIsFound`), for
any clients, exams, hash order of the ids, times and lost answers. The
inductive invariant is that the chaincode's keys are those of the committed
events and hold them (`WorldIs`), that a transaction and its event have ids of
their own (`TrailIds`), and that what was told is committed. A block adds keys
that nothing had, because two events never share one (`KeysAreOwn`), so the
order of the writes in a block does not matter; that rests on `TrailAssumption`,
that two ids are never the same hash. The rest is about sorting. `InOrder`
places an element of a finite set behind as many as are before it in a strict
order; the lemma `InOrderIs` shows that this lists everything once and in
order, by the injection of the elements into the places, and `ByTimeIs` what a
stable sort does to a list. The timeline walks the ids and sorts by time, the
range walks the times: both come out in the order of time and then id
(`TimelineIs`, `TimeRangeIs`), which is why they cannot disagree on two events
(`OrdersAgree`). That the scan of a range may break off at the first key past
its end (`KeysBetweenAre`) follows from the order of the keys. The blocks'
proofs are those of `ProofsFit`.

**`PsychometricsProofs`**: `FlagsDoFollowFits`, `BankStaysSound`. For the
calibrator, `WorkerOK` says what the worker has loaded and what it has written
by now in each phase, and `AllAgree` that a template whose stores disagree has
a message that is with the worker or will come back, and answers that can be
fitted when it does; `DocsAreFitted` makes an instantiation with a document one
of those that will be written again, which rests on the assumption that more
answers do not undo a fit. That unflagged parameters lie within the tolerances
needs that the median of integers is one (`MedianIsInt`, on extremal elements
of finite sets). For the bank, `RequestsOK` says what a request has read,
validated and looked up, and that it still holds while nobody has written
since; a request's write then preserves `Sound` of every template, the one
written and those it could read like. The theorem is about one service or
several, as many clients as there are.

In the same module, for `ScoreEquating`: `EquatorTypeCorrect`, `ResultsDoAgree`
(`ResultsAgree`). `RowsAreTrue` says that rows and documents have their
candidate's raw score, and that only who has a row in the table is read or
published: as rows are never taken out, a run reads everyone an earlier run
has published, which is why it replaces *all* documents of that run and not
some (`RunIsOwn`: what it has sent is its own, and it reports when all it has
read is sent). A run that breaks off leaves a message to be delivered again.
The largest adjustment is one of finitely many; which scores are equated to
what, and whether the test asks for it, does not matter to the argument.

**Only model-checked**, and why:

- *Liveness* (`ScheduledIsReleased`, `TimeUpSubmits`, `JobsSettle`,
  `JobsAnswered`, `JobsComplete`, `ConsoleSettles`, `CalibrationSettles`):
  fairness and ENABLED are out of the proof system's reach.
- *What a recursive definition computes for every input* would need an
  induction over data, whose rule the provers cannot instantiate: the field's
  tables and the interpolation (`KeyFromItsFragments`), the squarings
  (`PuzzleSealsKey`), the parser (`CalculatorComputes`), the search for rings in
  `AnsweredIsComplete`. (The Merkle trees are recursive functions of a number,
  and proved about.)

Every invariant and action property of the runs that is not named here has a
theorem.

## What is not modelled, and what is assumed

- *Cryptography and numerics*: AES-GCM refuses a wrong key, SHA-256 is
  injective, the KMS unwraps what it wrapped. What the fits, the ability
  estimates and the simulated null distribution compute are constants of the
  modules, with the assumptions they need; the decisions made from them are
  modelled.
- *The language model* that writes questions, the rendering of papers and
  scorecards, authentication, rate limits, and pure reads.
- *API gateway*: external are the throttler's counts (it may be at its limit
  at any time), the user store that says whom it knows, and the services
  behind. Bodies of requests and answers are left out.
- The *shared types* (declarations, constants, schemas) have no state.
- *Admin dashboard*: the pages that only show (monitor, bank, calibration
  detail), the wizard that creates an exam, and the results page, which watches
  no job. `PUT /questions/:id` is sent by no page and not modelled; the
  endpoints that approve and delete a question are modelled although no page
  calls them either. `mvp-server.js` is taken to run on Express 4, which its
  path patterns are written for.
- *Exam terminal*: pages without state (pitch, about, architecture), wording
  and layout, the fetch cache of the service worker.
- *Key release*: the key schedule's reads; the expiry of the papers in Redis
  (the exam's length and an hour).
- *Fabric*: ordering, endorsement and block cutting are external. A real
  header's `dataHash` is not the root of this binary tree; the model follows
  what `merkle.service.ts` says of it. The protobuf reader in front of it is
  left out (its lengths wrap only from 2^28 on).
- *Collusion engine*: the PDF reports and the copy of the results for
  analysts.
- The client's proto packages (`crypto-lifecycle/src/proto/blockchain.proto:3`,
  `blockchain`; `papergenerator`) differ from the servers'
  (`pariksha.blockchain`, `paper_generator`). The models assume that the names
  agree; otherwise every call is refused and nothing is audited.
- The services publish nested or camel-case payloads and some workers read
  snake-case fields at the top: the models have both forms, and a message of
  the form the worker does not read is dropped by it, as it is in the code.

## What was met on the way

Places where the code and its comments, or two parts of the code, disagree.
Where a property had to except them, it names the exception.

*Key release.* An emergency reconstruction marks the exam released without
publishing papers, and the scheduled release then skips
(`shamir.service.ts:366`, `scheduling.service.ts:269`). Cancelling or
rescheduling on one replica leaves the timers of the others, which fire at the
old time (`scheduling.service.ts:183`, `:388`): `NoStaleTrigger` excepts them.
An event answered with `success = false` is taken as recorded
(`kms.service.ts:152`), so that an answered encryption need not be in the
trail: `VaultOpens` says nothing of it. `releaseKeys` refuses a released KEK
and not a destroyed one, so that the job of the next year, or a late trigger,
sets `destroyed` back to `released` (`scheduling.service.ts:294`); `KeyCustody`
has that step.
`setTimeout` takes more than 24.8 days for one millisecond
(`scheduling.service.ts:188`). `bulkDecryptAndCache` counts failed commands as
written papers, and a partial paper stays in the cache for hours. Overlapping
`encryptQuestion` calls can leave the blob of one and the key of the other:
the question never opens, and the whole bulk release fails with it.
`decryptQuestion` says "verify plaintext hash integrity" and compares nothing.

*Emergency.* The comment at `shamir.service.ts:341-342` says that the first
three fragments are used; all of them are, so one false fragment spoils any
number of true ones.

*Time-lock puzzles.* Two concurrent benchmarks halve the rate that is stored
for the exam; `verifyTlpTiming` compares a number with itself; the worker
writes `tlpCalibration/latest`, the service reads a field of the exam;
nothing sets the status from `pending` on.

*Exam terminal.* The service worker answers queued submissions with a made-up
success (`service-worker.js:164`). A restart begins with no answers
(`exam-store.ts:168`, against `lockdown/README.md:370`). The Enter key ignores
`isLoading`: two sessions can start, and the second `initializeExam` wipes
answers and clock; a late failure throws a candidate out of a running exam.
Counts of violations start afresh when the screen remounts; screens that
become known after the end are still reported; a violation's type arrives as
"unknown" at the demonstration server. Grid and dialog lag until the clock
moves; the dialog does not hold the keyboard; Ctrl+C, Ctrl+A and Ctrl+D choose
options. The calculator calls `-(2)` an error, ignores what follows a complete
expression (`2(3)` is 2), and after DEL has emptied it puts a parenthesis
behind the 0.

*Gateway.* Requests marked `@LongRunning` get five minutes
(`timeout.interceptor.ts:18`), but their call is given up after 30 seconds
(`grpc-client.service.ts:79`). The comment at `app.module.ts:17-25` has the
audit interceptor outside the timeout; it is registered inside, so a request
that times out, though the service does its work, leaves no event. An event
is a log line only. The gateway calls paths like
`/question-service/ListQuestions` with JSON, which no service of the
repository serves.

*Matrix.* The solver stores papers that did not converge, and a swap can
repeat a question. `progress.py` reports "completed" before a paper is stored,
and never reports a failure; `metadata.matrixStatus` stays `pending` because
the worker writes another field. The checkers of `constraints.py` are imported
and not called, and compare more papers across centres than the solver does.
The question service stores `topicCoverage` as a list and the worker asks it
for `.items()`, so a job about such an exam raises and comes back for ever
(`exam.service.ts:109`, `solver.py:222`): `JobsSettle` excepts it. Nothing
keeps two callbacks from one exam, and draws are random: if a lease lapses, two
messages of the exam are taken, or the subscription is opened again after a
stream error (`main.py:255`), the batches of two draws interleave and the seats
end with some papers of each, with every message acknowledged; `OneDrawStored`
excepts that, and a late callback that fails where another had its message.
A failed publish leaves an exam `matrix_generating` for good, for
`triggerMatrixSolver` then refuses it and `updateStatus` has no caller; two
triggers that overlap publish two jobs; and a blueprint defined beside a
trigger sets the status back while its job is under way.

*Paper delivery.* Nobody writes the `decrypted` keys that the request reads;
the key release caches papers in another format; `exam-session-service` calls
`getPaper`, which the paper generator does not implement.

*Session service and ledger.* A start does not look for an existing session.
`lastHash` is set before its event succeeded. A KEK that is configured anew or
missing makes earlier checkpoints unreadable, which `loadCheckpoint` answers
with "none" and a log line; the bucket's fallback tries only the newest
object. `RecordEvent` can answer failure for an event that is committed later.
`grpcVerifyMerkleProof` ignores the proof it is given.

*Demonstration server.* Papers may repeat a question; an equated score of 0 is
shown as the raw one; ranks count duplicate submissions; timers that overlap
set back an exam's status; `PUT` sets any status; scorecards and the audit
page's proofs are made up.

*Dashboard.* The answer of a generation whose page was left replaces the
template that is being edited on a newer one, so that the edited text is saved
with another template's formula (`generate/page.tsx:66`); the answer of a save
clears a newer template (`:75`). "Approve & Save" posts a second copy of a
question that the generation has stored already. The page says that a field
test is triggered automatically, and nothing does. A trigger that is answered while the page's very first status
request is under way leaves the page at "idle" without polling, as does a
first request that fails (on the matrix and collusion pages). The buttons are
enabled between the trigger's answer and the refetch. The login expects
`accessToken`, which the demonstration server does not send; the sockets have
no server.

*Workers.* The collusion results are looked up under another path than the
worker writes. Blank answers count as the same wrong answer. The equator
appends equated rows to the table it reads, so that a redelivery doubles them
and may flip its decision; what it counts as candidates are rows. The
calibrator's single-instantiation templates come back for ever, and merging
dotted keys writes fields of that literal name. An update of a template's
topic alone skips the duplicate check, which looks at 100 templates.

## Plan

What is left is to model the wizard that creates an exam, which sends what the
servers are modelled to accept, and the monitor page, which displays.
