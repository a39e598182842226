----------------------------- MODULE KeyRelease -----------------------------
(***************************************************************************)
(* The key release of one exam by crypto-lifecycle: SchedulingService      *)
(* (schedule, release, cancel), the parts of KmsService it calls           *)
(* (generateExamKek, bulkDecryptAndCache, destroyKeys) and the end of      *)
(* ShamirService.attemptReconstruction.  Every await is an interleaving    *)
(* point: step[h] names the next external call of handler h, and an action *)
(* is that call taking effect followed by the synchronous code up to the   *)
(* next await.  The service runs as several replicas; backup timers live   *)
(* in the memory of one replica, everything else in shared stores.         *)
(*                                                                         *)
(* Abstractions: release times are dropped (an armed trigger may fire at   *)
(* any moment); the exam's questions are already encrypted, so             *)
(* bulkDecryptAndCache fails only because a call it makes fails.           *)
(***************************************************************************)
EXTENDS Naturals

CONSTANTS
    Replicas,     \* pods of the service
    Slots,        \* requests one replica has in flight at a time
    AdminOps,     \* the operations administrators request in this instance
    MaxRequests,  \* bound on administrators' requests
    MaxSchedules, \* bound on the schedule-release requests among them
    MaxFirings,   \* bound on firings of the Cloud Scheduler cron job
    MaxFaults     \* bound on failed calls, lost audit events and crashes

Operations == {"schedule", "cancel", "bulk", "genKek", "destroy", "emergency"}

ASSUME AdminOpsAssumption == AdminOps \subseteq Operations
ASSUME BoundsAssumption ==
    /\ MaxRequests \in Nat
    /\ MaxSchedules \in Nat
    /\ MaxFirings \in Nat
    /\ MaxFaults \in Nat

\* One delivery and the three retries of the job's retryConfig.
MaxAttempts == 4

Handlers == Replicas \X Slots

Triggers == {"none", "admin", "job", "timer"}

Steps == {"idle",
          "deleteJob", "createJob", "arm", "saveRel",         \* schedule
          "cancelJob", "disarm", "saveCancel",                \* cancel
          "check", "cache", "logDecrypt",                     \* release
          "logRelease", "markKek", "markRel",
          "bulkCache", "bulkLog",                             \* bulk-decrypt
          "createKey", "saveKek", "logKek",                   \* generate-kek
          "destroyVersions", "destroyMark", "destroyLog",     \* destroy-keys
          "recLog", "recMark"}                                \* reconstruct

\* The audit events the service asks the blockchain service to record, by
\* type; the destruction is recorded under type key_release as well, and is
\* told apart here by its metadata's operation.
Events == {"key_generate", "decrypt", "key_release", "destruction",
           "emergency_release"}

VARIABLES
    kek,        \* status in keySchedule/kek, "none" when there is no document
    emergency,  \* emergencyRelease in keySchedule/kek
    relDoc,     \* status in keySchedule/release, "none" when no document
    kms,        \* the Cloud KMS key exam-kek-{examId}
    papers,     \* the papers' Redis pipeline was executed
    audit,      \* per event: not sent, lost by the service, or recorded
    job,        \* the Cloud Scheduler job exists
    attempts,   \* HTTP attempts left of the job's current firing
    timer,      \* backupTimers of each replica: armed or not
    step,       \* next external call of each handler
    src,        \* what started each handler
    requests, schedules, firings, faults    \* what the bounds count

docVars == <<kek, emergency, relDoc>>
bounds  == <<requests, schedules, firings, faults>>
vars == <<docVars, kms, papers, audit, job, attempts, timer, step, src, bounds>>

Init ==
    /\ kek = "none" /\ emergency = FALSE /\ relDoc = "none"
    /\ kms = "none"
    /\ papers = "absent"
    /\ audit = [e \in Events |-> "unsent"]
    /\ job = FALSE
    /\ attempts = 0
    /\ timer = [r \in Replicas |-> FALSE]
    /\ step = [h \in Handlers |-> "idle"]
    /\ src = [h \in Handlers |-> "none"]
    /\ requests = 0 /\ schedules = 0 /\ firings = 0 /\ faults = 0

(***************************************************************************)
(* Helpers.                                                                *)
(***************************************************************************)
Goto(h, from, to) ==
    /\ step[h] = from
    /\ step' = [step EXCEPT ![h] = to]
    /\ UNCHANGED src

Finish(h, from) ==
    /\ step[h] = from
    /\ step' = [step EXCEPT ![h] = "idle"]
    /\ src' = [src EXCEPT ![h] = "none"]

Fault ==
    /\ faults < MaxFaults
    /\ faults' = faults + 1
    /\ UNCHANGED <<requests, schedules, firings>>

\* recordBlockchainEvent resolves on every answer of the blockchain service,
\* and that service answers a failed write with success = false.
Record(e) ==
    \/ /\ audit' = [audit EXCEPT ![e] = "recorded"]
       /\ UNCHANGED bounds
    \/ /\ audit' = [audit EXCEPT ![e] = IF @ = "unsent" THEN "lost" ELSE @]
       /\ Fault

\* A 2xx answer to a Cloud Scheduler attempt ends the firing.
AckJob(h) == attempts' = IF src[h] = "job" THEN 0 ELSE attempts

(***************************************************************************)
(* Requests of the administrators (CryptoLifecycleController).             *)
(***************************************************************************)
FirstStep == [schedule  |-> "deleteJob",
              cancel    |-> "cancelJob",
              bulk      |-> "bulkCache",
              genKek    |-> "createKey",
              destroy   |-> "destroyVersions",
              emergency |-> "recLog"]

\* "emergency" is a reconstruct request that finds its three fragments.
Request(h, op) ==
    /\ step[h] = "idle"
    /\ requests < MaxRequests
    /\ op = "schedule" => schedules < MaxSchedules
    /\ step' = [step EXCEPT ![h] = FirstStep[op]]
    /\ src' = [src EXCEPT ![h] = "admin"]
    /\ requests' = requests + 1
    /\ schedules' = IF op = "schedule" THEN schedules + 1 ELSE schedules
    /\ UNCHANGED <<docVars, kms, papers, audit, job, attempts, timer,
                   firings, faults>>

(***************************************************************************)
(* scheduleKeyRelease.                                                     *)
(***************************************************************************)
\* Deleting the job ends its retries, and the answers to its attempts in
\* flight no longer matter; any failure is swallowed.
RemoveJob ==
    \/ /\ job' = FALSE
       /\ attempts' = 0
       /\ src' = [g \in Handlers |-> IF src[g] = "job" THEN "timer" ELSE src[g]]
       /\ UNCHANGED bounds
    \/ /\ Fault
       /\ UNCHANGED <<job, attempts, src>>

DeleteJob(h) ==
    /\ step[h] = "deleteJob"
    /\ step' = [step EXCEPT ![h] = "createJob"]
    /\ RemoveJob
    /\ UNCHANGED <<docVars, kms, papers, audit, timer>>

\* createJob refuses an existing name; that and any other failure is
\* swallowed, "the backup timer will handle the release".
CreateJob(h) ==
    /\ Goto(h, "createJob", "arm")
    /\ \/ job' = TRUE /\ UNCHANGED bounds
       \/ job' = job  /\ Fault
    /\ UNCHANGED <<docVars, kms, papers, audit, attempts, timer>>

\* Mutant of Arm: the delay is taken for past and no timer is armed.
ArmForgotten(h) ==
    /\ Goto(h, "arm", "saveRel")
    /\ UNCHANGED <<docVars, kms, papers, audit, job, attempts, timer, bounds>>

Arm(h) ==
    /\ Goto(h, "arm", "saveRel")
    /\ timer' = [timer EXCEPT ![h[1]] = TRUE]
    /\ UNCHANGED <<docVars, kms, papers, audit, job, attempts, bounds>>

SaveRel(h) ==
    /\ Finish(h, "saveRel")
    /\ relDoc' = "scheduled"
    /\ UNCHANGED <<kek, emergency, kms, papers, audit, job, attempts, timer,
                   bounds>>

(***************************************************************************)
(* cancelScheduledRelease.                                                 *)
(***************************************************************************)
CancelJob(h) ==
    /\ step[h] = "cancelJob"
    /\ step' = [step EXCEPT ![h] = "disarm"]
    /\ RemoveJob
    /\ UNCHANGED <<docVars, kms, papers, audit, timer>>

\* Only the timer of the replica that serves the request can be cleared.
Disarm(h) ==
    /\ Goto(h, "disarm", "saveCancel")
    /\ timer' = [timer EXCEPT ![h[1]] = FALSE]
    /\ UNCHANGED <<docVars, kms, papers, audit, job, attempts, bounds>>

\* Firestore's update throws when the document does not exist.
SaveCancel(h) ==
    /\ Finish(h, "saveCancel")
    /\ relDoc' = IF relDoc = "none" THEN "none" ELSE "cancelled"
    /\ UNCHANGED <<kek, emergency, kms, papers, audit, job, attempts, timer,
                   bounds>>

(***************************************************************************)
(* The triggers of releaseKeys.                                            *)
(***************************************************************************)
TimerFire(h) ==
    /\ step[h] = "idle"
    /\ timer[h[1]]
    /\ timer' = [timer EXCEPT ![h[1]] = FALSE]
    /\ step' = [step EXCEPT ![h] = "check"]
    /\ src' = [src EXCEPT ![h] = "timer"]
    /\ UNCHANGED <<docVars, kms, papers, audit, job, attempts, bounds>>

\* The cron expression has no year: the job fires again every year, when
\* the handlers of its last firing are long gone.
JobFire ==
    /\ job
    /\ attempts = 0
    /\ \A h \in Handlers : src[h] # "job"
    /\ firings < MaxFirings
    /\ attempts' = MaxAttempts
    /\ firings' = firings + 1
    /\ UNCHANGED <<docVars, kms, papers, audit, job, timer, step, src,
                   requests, schedules, faults>>

\* An attempt that timed out is retried while its handler still runs.
Deliver(h) ==
    /\ step[h] = "idle"
    /\ attempts > 0
    /\ attempts' = attempts - 1
    /\ step' = [step EXCEPT ![h] = "check"]
    /\ src' = [src EXCEPT ![h] = "job"]
    /\ UNCHANGED <<docVars, kms, papers, audit, job, timer, bounds>>

(***************************************************************************)
(* releaseKeys and bulkDecryptAndCache.                                    *)
(***************************************************************************)
SkipReleased(h) ==
    /\ kek = "released"
    /\ Finish(h, "check")
    /\ AckJob(h)
    /\ UNCHANGED <<docVars, kms, papers, audit, job, timer, bounds>>

PassCheck(h) ==
    /\ kek # "released"
    /\ Goto(h, "check", "cache")
    /\ UNCHANGED <<docVars, kms, papers, audit, job, attempts, timer, bounds>>

\* The DEKs are wrapped by the global KMS key: neither a missing nor a
\* destroyed exam KEK stops the decryption.
CachePapers(h) ==
    /\ \/ Goto(h, "cache", "logDecrypt")
       \/ Goto(h, "bulkCache", "bulkLog")
    /\ papers' = "written"
    /\ UNCHANGED <<docVars, kms, audit, job, attempts, timer, bounds>>

\* In a release the paper generator is notified next; its failure is ignored.
LogDecrypt(h) ==
    /\ \/ Goto(h, "logDecrypt", "logRelease")
       \/ Finish(h, "bulkLog")
    /\ Record("decrypt")
    /\ UNCHANGED <<docVars, kms, papers, job, attempts, timer>>

LogRelease(h) ==
    /\ Goto(h, "logRelease", "markKek")
    /\ Record("key_release")
    /\ UNCHANGED <<docVars, kms, papers, job, attempts, timer>>

MarkKek(h) ==
    /\ kek # "none"
    /\ Goto(h, "markKek", "markRel")
    /\ kek' = "released"
    /\ UNCHANGED <<emergency, relDoc, kms, papers, audit, job, attempts,
                   timer, bounds>>

MarkKekMissing(h) ==
    /\ kek = "none"
    /\ Finish(h, "markKek")
    /\ UNCHANGED <<docVars, kms, papers, audit, job, attempts, timer, bounds>>

MarkRel(h) ==
    /\ relDoc # "none"
    /\ Finish(h, "markRel")
    /\ relDoc' = "completed"
    /\ timer' = [timer EXCEPT ![h[1]] = FALSE]
    /\ AckJob(h)
    /\ UNCHANGED <<kek, emergency, kms, papers, audit, job, bounds>>

\* Mutant of MarkRelMissing: set with merge in place of update.
MarkRelMerged(h) ==
    /\ relDoc = "none"
    /\ Finish(h, "markRel")
    /\ relDoc' = "completed"
    /\ UNCHANGED <<kek, emergency, kms, papers, audit, job, attempts, timer,
                   bounds>>

MarkRelMissing(h) ==
    /\ relDoc = "none"
    /\ Finish(h, "markRel")
    /\ UNCHANGED <<docVars, kms, papers, audit, job, attempts, timer, bounds>>

(***************************************************************************)
(* generateExamKek.                                                        *)
(***************************************************************************)

CreateKey(h) ==
    /\ kms = "none"
    /\ Goto(h, "createKey", "saveKek")
    /\ kms' = "enabled"
    /\ UNCHANGED <<docVars, papers, audit, job, attempts, timer, bounds>>

\* A key name is never free again in Cloud KMS, not even after destruction.
CreateKeyRefused(h) ==
    /\ kms # "none"
    /\ Finish(h, "createKey")
    /\ UNCHANGED <<docVars, kms, papers, audit, job, attempts, timer, bounds>>

SaveKek(h) ==
    /\ Goto(h, "saveKek", "logKek")
    /\ kek' = "generated"
    /\ emergency' = FALSE
    /\ UNCHANGED <<relDoc, kms, papers, audit, job, attempts, timer, bounds>>

LogKek(h) ==
    /\ Finish(h, "logKek")
    /\ Record("key_generate")
    /\ UNCHANGED <<docVars, kms, papers, job, attempts, timer>>

(***************************************************************************)
(* destroyKeys.                                                            *)
(***************************************************************************)
DestroyRefused(h) ==
    /\ kek = "none"
    /\ Finish(h, "destroyVersions")
    /\ UNCHANGED <<docVars, kms, papers, audit, job, attempts, timer, bounds>>

DestroyVersions(h) ==
    /\ kek # "none"
    /\ Goto(h, "destroyVersions", "destroyMark")
    /\ kms' = "destroyed"
    /\ UNCHANGED <<docVars, papers, audit, job, attempts, timer, bounds>>

DestroyMark(h) ==
    /\ Goto(h, "destroyMark", "destroyLog")
    /\ kek' = "destroyed"
    /\ UNCHANGED <<emergency, relDoc, kms, papers, audit, job, attempts,
                   timer, bounds>>

DestroyLog(h) ==
    /\ Finish(h, "destroyLog")
    /\ Record("destruction")
    /\ UNCHANGED <<docVars, kms, papers, job, attempts, timer>>

(***************************************************************************)
(* attemptReconstruction, from the moment the key is rebuilt.              *)
(***************************************************************************)

RecLog(h) ==
    /\ Goto(h, "recLog", "recMark")
    /\ Record("emergency_release")
    /\ UNCHANGED <<docVars, kms, papers, job, attempts, timer>>

\* Mutant of RecMark: the emergencyRelease flag is left out of the update.
RecMarkUnflagged(h) ==
    /\ kek # "none"
    /\ Finish(h, "recMark")
    /\ kek' = "released"
    /\ UNCHANGED <<emergency, relDoc, kms, papers, audit, job, attempts,
                   timer, bounds>>

RecMark(h) ==
    /\ kek # "none"
    /\ Finish(h, "recMark")
    /\ kek' = "released"
    /\ emergency' = TRUE
    /\ UNCHANGED <<relDoc, kms, papers, audit, job, attempts, timer, bounds>>

RecMarkMissing(h) ==
    /\ kek = "none"
    /\ Finish(h, "recMark")
    /\ UNCHANGED <<docVars, kms, papers, audit, job, attempts, timer, bounds>>

(***************************************************************************)
(* Failures.                                                               *)
(***************************************************************************)
\* The calls whose failure scheduleKeyRelease and cancelScheduledRelease
\* swallow, and the steps that make no call.
Swallowed == {"idle", "deleteJob", "createJob", "arm", "cancelJob", "disarm"}

\* A call is rejected, or the answer of the one before it is lost: the
\* handler throws.
Fail(h) ==
    /\ step[h] \notin Swallowed
    /\ Finish(h, step[h])
    /\ Fault
    /\ UNCHANGED <<docVars, kms, papers, audit, job, attempts, timer>>

\* A replica goes down and is replaced: its handlers and timers are gone.
Crash(r) ==
    /\ Fault
    /\ step' = [h \in Handlers |-> IF h[1] = r THEN "idle" ELSE step[h]]
    /\ src' = [h \in Handlers |-> IF h[1] = r THEN "none" ELSE src[h]]
    /\ timer' = [timer EXCEPT ![r] = FALSE]
    /\ UNCHANGED <<docVars, kms, papers, audit, job, attempts>>

(***************************************************************************)
(* Specification.                                                          *)
(***************************************************************************)
Proceed(h) ==
    \/ DeleteJob(h) \/ CreateJob(h) \/ Arm(h) \/ SaveRel(h)
    \/ CancelJob(h) \/ Disarm(h) \/ SaveCancel(h)
    \/ SkipReleased(h) \/ PassCheck(h) \/ CachePapers(h)
    \/ LogDecrypt(h) \/ LogRelease(h)
    \/ MarkKek(h) \/ MarkKekMissing(h) \/ MarkRel(h) \/ MarkRelMissing(h)
    \/ CreateKey(h) \/ CreateKeyRefused(h) \/ SaveKek(h) \/ LogKek(h)
    \/ DestroyRefused(h) \/ DestroyVersions(h) \/ DestroyMark(h)
    \/ DestroyLog(h)
    \/ RecLog(h) \/ RecMark(h) \/ RecMarkMissing(h)

Next ==
    \/ \E h \in Handlers :
          \/ \E op \in AdminOps : Request(h, op)
          \/ TimerFire(h) \/ Deliver(h) \/ Proceed(h) \/ Fail(h)
    \/ \E r \in Replicas : Crash(r)
    \/ JobFire

Spec == Init /\ [][Next]_vars

\* The event loop of a replica runs what is ready, timers that are due
\* included, and Cloud Scheduler fires and retries the jobs it holds.
Fairness ==
    /\ \A h \in Handlers : /\ WF_vars(Proceed(h))
                           /\ WF_vars(TimerFire(h))
    /\ WF_vars(JobFire)
    /\ WF_vars(\E h \in Handlers : Deliver(h))

FairSpec == Spec /\ Fairness

(***************************************************************************)
(* Properties.                                                             *)
(***************************************************************************)
\* Every variable keeps to the values its store or field can hold.
TypeOK ==
    /\ kek \in {"none", "generated", "released", "destroyed"}
    /\ emergency \in BOOLEAN
    /\ relDoc \in {"none", "scheduled", "cancelled", "completed"}
    /\ kms \in {"none", "enabled", "destroyed"}
    /\ papers \in {"absent", "written"}
    /\ audit \in [Events -> {"unsent", "lost", "recorded"}]
    /\ job \in BOOLEAN
    /\ attempts \in 0..MaxAttempts
    /\ timer \in [Replicas -> BOOLEAN]
    /\ step \in [Handlers -> Steps]
    /\ src \in [Handlers -> Triggers]
    /\ requests \in Nat /\ schedules \in Nat
    /\ firings \in Nat /\ faults \in Nat

\* A KEK document that says released, other than by an emergency, stands for
\* papers that are in Redis and a key_release event the blockchain service
\* answered, however many releases, retries, crashes and destructions raced.
ReleaseBacked ==
    kek = "released" /\ ~emergency =>
        papers = "written" /\ audit["key_release"] # "unsent"

\* The emergencyRelease flag is never set before the blockchain service
\* answered the emergency_release event.
EmergencyAudited == emergency => audit["emergency_release"] # "unsent"

\* The release document says completed only when the KEK document was marked
\* released before (and possibly destroyed since): the two updates of
\* releaseKeys are never seen out of order, whichever handler made them.
CompletedImpliesReleased ==
    relDoc = "completed" => kek \in {"released", "destroyed"}

\* The KEK document never describes a Cloud KMS key that was not created, and
\* says destroyed only when the versions of the key were destroyed.
KekBackedByKms ==
    /\ kek # "none" => kms # "none"
    /\ kek = "destroyed" => kms = "destroyed"

\* generateExamKek never overwrites a KEK document: a released or destroyed
\* KEK is not reset to generated, although the code writes the document
\* without looking at it.
KekNeverReset == [][kek' = "generated" => kek = "none"]_kek

Custody == INSTANCE KeyCustody

\* The documents, seen without handlers and triggers, follow KeyCustody.
ImplementsCustody == Custody!CustodySpec
=============================================================================
