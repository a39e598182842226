-------------------------- MODULE KeyReleaseProofs --------------------------
(***************************************************************************)
(* Proofs, for any sets of replicas, slots and operations and any bounds,  *)
(* of the safety properties of KeyRelease and of its refinement of         *)
(* KeyCustody; about ReleaseClock, for clocks of any minute, year, longest *)
(* delay and horizon: no trigger fires before its minute, none is stale,   *)
(* and a single fault never makes a release late; and about Gateway, for   *)
(* any requests, users, addresses and limits: the audit trail tells of the *)
(* work that was done, and free checks stay within their threshold.        *)
(***************************************************************************)
EXTENDS KeyRelease, ReleaseClock, Gateway, TLAPS

(***************************************************************************)
(* KeyRelease: type correctness.                                           *)
(***************************************************************************)
\* A handler names the replica it runs on.
LEMMA HandlerReplica == \A h \in Handlers : h[1] \in Replicas
BY DEF Handlers

\* Every request begins at a step of the service.
LEMMA FirstStepType == \A op \in Operations : FirstStep[op] \in Steps
BY DEF Operations, FirstStep, Steps

\* Recording an event keeps the log well typed and the bounds natural.
LEMMA RecordType ==
    ASSUME TypeOK, NEW e \in Events, Record(e)
    PROVE  /\ audit' \in [Events -> {"unsent", "lost", "recorded"}]
           /\ requests' \in Nat /\ schedules' \in Nat
           /\ firings' \in Nat /\ faults' \in Nat
BY DEF TypeOK, Record, Fault, bounds

\* Moving one handler to another step keeps the handlers well typed.
LEMMA GotoType ==
    ASSUME TypeOK, NEW h \in Handlers, NEW from, NEW to \in Steps,
           Goto(h, from, to)
    PROVE  step' \in [Handlers -> Steps] /\ src' \in [Handlers -> Triggers]
BY DEF TypeOK, Goto

\* Ending one handler keeps the handlers well typed.
LEMMA FinishType ==
    ASSUME TypeOK, NEW h \in Handlers, NEW from, Finish(h, from)
    PROVE  step' \in [Handlers -> Steps] /\ src' \in [Handlers -> Triggers]
BY DEF TypeOK, Finish, Steps, Triggers

\* Deleting the Cloud Scheduler job keeps the types, whether it succeeds or not.
LEMMA RemoveJobType ==
    ASSUME TypeOK, RemoveJob
    PROVE  /\ job' \in BOOLEAN
           /\ attempts' \in 0..MaxAttempts
           /\ src' \in [Handlers -> Triggers]
           /\ requests' \in Nat /\ schedules' \in Nat
           /\ firings' \in Nat /\ faults' \in Nat
<1>1. 0 \in 0..MaxAttempts
  BY DEF MaxAttempts
<1>2. "timer" \in Triggers
  BY DEF Triggers
<1>3. CASE /\ job' = FALSE
           /\ attempts' = 0
           /\ src' = [g \in Handlers |->
                        IF src[g] = "job" THEN "timer" ELSE src[g]]
           /\ UNCHANGED bounds
  BY <1>1, <1>2, <1>3 DEF TypeOK, bounds
<1>4. CASE Fault /\ UNCHANGED <<job, attempts, src>>
  BY <1>4 DEF TypeOK, Fault
<1>5. QED
  BY <1>3, <1>4 DEF RemoveJob

\* Every step of a handler that runs keeps the types.
LEMMA ProceedType ==
    ASSUME TypeOK, NEW h \in Handlers, Proceed(h)
    PROVE  TypeOK'
<1> USE DEF docVars, bounds
<1>1. h[1] \in Replicas
  BY HandlerReplica
<1>2. CASE DeleteJob(h)
  <2>1. step' \in [Handlers -> Steps]
    BY <1>2 DEF DeleteJob, TypeOK, Steps
  <2>2. QED
    BY <1>2, <2>1, RemoveJobType DEF DeleteJob, TypeOK
<1>3. CASE CreateJob(h)
  <2>1. step' \in [Handlers -> Steps] /\ src' \in [Handlers -> Triggers]
    BY <1>3, GotoType DEF CreateJob, Steps
  <2>2. job' \in BOOLEAN
    BY <1>3 DEF CreateJob, TypeOK
  <2>3. requests' \in Nat /\ schedules' \in Nat /\ firings' \in Nat /\ faults' \in Nat
    BY <1>3 DEF CreateJob, TypeOK, Fault
  <2>4. QED
    BY <1>3, <2>1, <2>2, <2>3 DEF CreateJob, TypeOK
<1>4. CASE Arm(h)
  BY <1>1, <1>4, GotoType DEF Arm, TypeOK, Steps
<1>5. CASE SaveRel(h)
  BY <1>5, FinishType DEF SaveRel, TypeOK
<1>6. CASE CancelJob(h)
  <2>1. step' \in [Handlers -> Steps]
    BY <1>6 DEF CancelJob, TypeOK, Steps
  <2>2. QED
    BY <1>6, <2>1, RemoveJobType DEF CancelJob, TypeOK
<1>7. CASE Disarm(h)
  BY <1>1, <1>7, GotoType DEF Disarm, TypeOK, Steps
<1>8. CASE SaveCancel(h)
  BY <1>8, FinishType DEF SaveCancel, TypeOK
<1>9. CASE SkipReleased(h)
  BY <1>9, FinishType DEF SkipReleased, AckJob, TypeOK, MaxAttempts
<1>10. CASE PassCheck(h)
  BY <1>10, GotoType DEF PassCheck, TypeOK, Steps
<1>11. CASE CachePapers(h)
  BY <1>11, GotoType DEF CachePapers, TypeOK, Steps
<1>12. CASE LogDecrypt(h)
  BY <1>12, GotoType, FinishType, RecordType DEF LogDecrypt, TypeOK, Steps, Events
<1>13. CASE LogRelease(h)
  BY <1>13, GotoType, RecordType DEF LogRelease, TypeOK, Steps, Events
<1>14. CASE MarkKek(h)
  BY <1>14, GotoType DEF MarkKek, TypeOK, Steps
<1>15. CASE MarkKekMissing(h)
  BY <1>15, FinishType DEF MarkKekMissing, TypeOK
<1>16. CASE MarkRel(h)
  BY <1>1, <1>16, FinishType DEF MarkRel, AckJob, TypeOK, MaxAttempts
<1>17. CASE MarkRelMissing(h)
  BY <1>17, FinishType DEF MarkRelMissing, TypeOK
<1>18. CASE CreateKey(h)
  BY <1>18, GotoType DEF CreateKey, TypeOK, Steps
<1>19. CASE CreateKeyRefused(h)
  BY <1>19, FinishType DEF CreateKeyRefused, TypeOK
<1>20. CASE SaveKek(h)
  BY <1>20, GotoType DEF SaveKek, TypeOK, Steps
<1>21. CASE LogKek(h)
  BY <1>21, FinishType, RecordType DEF LogKek, TypeOK, Events
<1>22. CASE DestroyRefused(h)
  BY <1>22, FinishType DEF DestroyRefused, TypeOK
<1>23. CASE DestroyVersions(h)
  BY <1>23, GotoType DEF DestroyVersions, TypeOK, Steps
<1>24. CASE DestroyMark(h)
  BY <1>24, GotoType DEF DestroyMark, TypeOK, Steps
<1>25. CASE DestroyLog(h)
  BY <1>25, FinishType, RecordType DEF DestroyLog, TypeOK, Events
<1>26. CASE RecLog(h)
  BY <1>26, GotoType, RecordType DEF RecLog, TypeOK, Steps, Events
<1>27. CASE RecMark(h)
  BY <1>27, FinishType DEF RecMark, TypeOK
<1>28. CASE RecMarkMissing(h)
  BY <1>28, FinishType DEF RecMarkMissing, TypeOK
<1>29. QED
  BY <1>2, <1>3, <1>4, <1>5, <1>6, <1>7, <1>8, <1>9, <1>10, <1>11, <1>12,
     <1>13, <1>14, <1>15, <1>16, <1>17, <1>18, <1>19, <1>20, <1>21, <1>22,
     <1>23, <1>24, <1>25, <1>26, <1>27, <1>28 DEF Proceed

\* Every variable always holds one of the values its store or field can hold.
THEOREM TypeCorrect == Spec => []TypeOK
<1>1. Init => TypeOK
  <2> SUFFICES ASSUME Init PROVE TypeOK
    OBVIOUS
  <2>1. step \in [Handlers -> Steps] /\ src \in [Handlers -> Triggers]
    BY DEF Init, Steps, Triggers
  <2>2. attempts \in 0..MaxAttempts
    BY DEF Init, MaxAttempts
  <2>3. QED
    BY <2>1, <2>2 DEF Init, TypeOK
<1>2. TypeOK /\ [Next]_vars => TypeOK'
  <2> SUFFICES ASSUME TypeOK, [Next]_vars PROVE TypeOK'
    OBVIOUS
  <2> USE DEF docVars, bounds
  <2>1. CASE \E h \in Handlers, op \in AdminOps : Request(h, op)
    BY <2>1, FirstStepType, AdminOpsAssumption DEF Request, TypeOK, Triggers
  <2>2. CASE \E h \in Handlers : TimerFire(h)
    BY <2>2, HandlerReplica DEF TimerFire, TypeOK, Steps, Triggers
  <2>3. CASE \E h \in Handlers : Deliver(h)
    BY <2>3 DEF Deliver, TypeOK, Steps, Triggers, MaxAttempts
  <2>4. CASE \E h \in Handlers : Proceed(h)
    BY <2>4, ProceedType
  <2>5. CASE \E h \in Handlers : Fail(h)
    BY <2>5, FinishType DEF Fail, Fault, TypeOK
  <2>6. CASE \E r \in Replicas : Crash(r)
    BY <2>6 DEF Crash, Fault, TypeOK, Steps, Triggers
  <2>7. CASE JobFire
    BY <2>7 DEF JobFire, TypeOK, MaxAttempts
  <2>8. CASE UNCHANGED vars
    BY <2>8 DEF vars, TypeOK
  <2>9. QED
    BY <2>1, <2>2, <2>3, <2>4, <2>5, <2>6, <2>7, <2>8 DEF Next
<1>3. QED
  BY <1>1, <1>2, PTL DEF Spec

(***************************************************************************)
(* The inductive invariant.  None of the safety properties is inductive:   *)
(* each one needs to know what a handler has already seen done when it     *)
(* waits before the call that the property is about.                       *)
(***************************************************************************)
HandlerBacked(h) ==
    /\ step[h] \in {"logDecrypt", "logRelease", "markKek", "markRel", "bulkLog"}
          => papers = "written"
    /\ step[h] \in {"markKek", "markRel"} => audit["key_release"] # "unsent"
    /\ step[h] = "markRel" => kek \in {"released", "destroyed"}
    /\ step[h] = "recMark" => audit["emergency_release"] # "unsent"
    /\ step[h] = "saveKek" => kek = "none" /\ kms = "enabled"
    /\ step[h] = "destroyMark" => kek # "none" /\ kms = "destroyed"

StepsBacked == \A h \in Handlers : HandlerBacked(h)

\* Cloud KMS admits one creation of the key, so one handler writes its document.
SingleSaver ==
    \A g, h \in Handlers : step[g] = "saveKek" /\ step[h] = "saveKek" => g = h

EmergencyHasKek == emergency => kek # "none"

IInv == /\ StepsBacked
        /\ SingleSaver
        /\ ReleaseBacked
        /\ EmergencyAudited
        /\ CompletedImpliesReleased
        /\ KekBackedByKms
        /\ EmergencyHasKek

\* The steps that rely on nothing done before them.
Unbacked == {"idle", "deleteJob", "createJob", "arm", "saveRel", "cancelJob",
             "disarm", "saveCancel", "check", "cache", "bulkCache",
             "createKey", "logKek", "destroyVersions", "destroyLog", "recLog"}

\* Goto moves one handler to the step it names and leaves the others.
LEMMA GotoMoves ==
    ASSUME TypeOK, NEW h \in Handlers, NEW from, NEW to, Goto(h, from, to)
    PROVE  /\ step[h] = from
           /\ \A g \in Handlers : step'[g] = IF g = h THEN to ELSE step[g]
BY DEF TypeOK, Goto

\* Finish makes one handler idle and leaves the others.
LEMMA FinishMoves ==
    ASSUME TypeOK, NEW h \in Handlers, NEW from, Finish(h, from)
    PROVE  /\ step[h] = from
           /\ \A g \in Handlers : step'[g] = IF g = h THEN "idle" ELSE step[g]
BY DEF TypeOK, Finish

\* An event that was sent stays sent, and recording an event sends it.
LEMMA RecordSends ==
    ASSUME TypeOK, NEW e \in Events, Record(e)
    PROVE  /\ audit'[e] # "unsent"
           /\ \A f \in Events : audit[f] # "unsent" => audit'[f] # "unsent"
BY DEF TypeOK, Record

\* A step that touches no document, key, cache or log and leads handlers only
\* to steps that rely on nothing keeps the invariant.
LEMMA QuietStep ==
    ASSUME IInv, UNCHANGED <<docVars, kms, papers, audit>>,
           \A g \in Handlers : step'[g] = step[g] \/ step'[g] \in Unbacked
    PROVE  IInv'
<1> USE DEF docVars
<1>1. StepsBacked'
  BY DEF IInv, StepsBacked, HandlerBacked, Unbacked
<1>2. SingleSaver'
  BY DEF IInv, SingleSaver, Unbacked
<1>3. QED
  BY <1>1, <1>2
     DEF IInv, ReleaseBacked, EmergencyAudited, CompletedImpliesReleased,
         KekBackedByKms, EmergencyHasKek

\* The steps of a handler that leave documents, key, cache and log alone.
QuietProceed(h) ==
    \/ DeleteJob(h) \/ CreateJob(h) \/ Arm(h) \/ CancelJob(h) \/ Disarm(h)
    \/ SkipReleased(h) \/ PassCheck(h) \/ MarkKekMissing(h) \/ MarkRelMissing(h)
    \/ CreateKeyRefused(h) \/ DestroyRefused(h) \/ RecMarkMissing(h)

\* The quiet steps of a handler keep the invariant.
LEMMA QuietProceedInvariant ==
    ASSUME TypeOK, IInv, NEW h \in Handlers, QuietProceed(h)
    PROVE  IInv'
<1>1. UNCHANGED <<docVars, kms, papers, audit>>
  BY DEF QuietProceed, DeleteJob, CreateJob, Arm, CancelJob, Disarm, SkipReleased, PassCheck, MarkKekMissing, MarkRelMissing, CreateKeyRefused, DestroyRefused, RecMarkMissing
<1>2. \A g \in Handlers : step'[g] = step[g] \/ step'[g] \in Unbacked
  <2>1. CASE DeleteJob(h)
    BY <2>1 DEF DeleteJob, TypeOK, Unbacked
  <2>2. CASE CreateJob(h)
    BY <2>2, GotoMoves DEF CreateJob, Unbacked
  <2>3. CASE Arm(h)
    BY <2>3, GotoMoves DEF Arm, Unbacked
  <2>4. CASE CancelJob(h)
    BY <2>4 DEF CancelJob, TypeOK, Unbacked
  <2>5. CASE Disarm(h)
    BY <2>5, GotoMoves DEF Disarm, Unbacked
  <2>6. CASE SkipReleased(h)
    BY <2>6, FinishMoves DEF SkipReleased, Unbacked
  <2>7. CASE PassCheck(h)
    BY <2>7, GotoMoves DEF PassCheck, Unbacked
  <2>8. CASE MarkKekMissing(h)
    BY <2>8, FinishMoves DEF MarkKekMissing, Unbacked
  <2>9. CASE MarkRelMissing(h)
    BY <2>9, FinishMoves DEF MarkRelMissing, Unbacked
  <2>10. CASE CreateKeyRefused(h)
    BY <2>10, FinishMoves DEF CreateKeyRefused, Unbacked
  <2>11. CASE DestroyRefused(h)
    BY <2>11, FinishMoves DEF DestroyRefused, Unbacked
  <2>12. CASE RecMarkMissing(h)
    BY <2>12, FinishMoves DEF RecMarkMissing, Unbacked
  <2>13. QED
    BY <2>1, <2>2, <2>3, <2>4, <2>5, <2>6, <2>7, <2>8, <2>9, <2>10, <2>11, <2>12 DEF QuietProceed
<1>3. QED
  BY <1>1, <1>2, QuietStep

\* A handler's step keeps the invariant: each step of the protocol leaves
\* behind what the handler's next step relies on, and takes nothing from the
\* other handlers.
LEMMA ProceedInvariant ==
    ASSUME TypeOK, IInv, NEW h \in Handlers, Proceed(h)
    PROVE  IInv'
<1> USE DEF docVars, bounds
<1>1. CASE SaveRel(h)
  <2>1. StepsBacked'
    BY <1>1, FinishMoves
       DEF SaveRel, IInv, StepsBacked, HandlerBacked, KekBackedByKms
  <2>2. SingleSaver'
    BY <1>1, FinishMoves
       DEF SaveRel, IInv, SingleSaver, StepsBacked, HandlerBacked
  <2>3. (/\ ReleaseBacked /\ EmergencyAudited
         /\ CompletedImpliesReleased /\ KekBackedByKms
         /\ EmergencyHasKek)'
    BY <1>1, FinishMoves
       DEF SaveRel, IInv, StepsBacked, HandlerBacked, ReleaseBacked,
           EmergencyAudited, CompletedImpliesReleased, KekBackedByKms,
           EmergencyHasKek
  <2>4. QED
    BY <2>1, <2>2, <2>3 DEF IInv
<1>2. CASE SaveCancel(h)
  <2>1. StepsBacked'
    BY <1>2, FinishMoves
       DEF SaveCancel, IInv, StepsBacked, HandlerBacked, KekBackedByKms
  <2>2. SingleSaver'
    BY <1>2, FinishMoves
       DEF SaveCancel, IInv, SingleSaver, StepsBacked, HandlerBacked
  <2>3. (/\ ReleaseBacked /\ EmergencyAudited
         /\ CompletedImpliesReleased /\ KekBackedByKms
         /\ EmergencyHasKek)'
    BY <1>2, FinishMoves
       DEF SaveCancel, IInv, StepsBacked, HandlerBacked, ReleaseBacked,
           EmergencyAudited, CompletedImpliesReleased, KekBackedByKms,
           EmergencyHasKek
  <2>4. QED
    BY <2>1, <2>2, <2>3 DEF IInv
<1>3. CASE CachePapers(h)
  <2>1. StepsBacked'
    BY <1>3, GotoMoves
       DEF CachePapers, IInv, StepsBacked, HandlerBacked, KekBackedByKms
  <2>2. SingleSaver'
    BY <1>3, GotoMoves
       DEF CachePapers, IInv, SingleSaver, StepsBacked, HandlerBacked
  <2>3. (/\ ReleaseBacked /\ EmergencyAudited
         /\ CompletedImpliesReleased /\ KekBackedByKms
         /\ EmergencyHasKek)'
    BY <1>3, GotoMoves
       DEF CachePapers, IInv, StepsBacked, HandlerBacked, ReleaseBacked,
           EmergencyAudited, CompletedImpliesReleased, KekBackedByKms,
           EmergencyHasKek
  <2>4. QED
    BY <2>1, <2>2, <2>3 DEF IInv
<1>4. CASE LogDecrypt(h)
  <2>1. /\ audit'["decrypt"] # "unsent"
        /\ \A f \in Events : audit[f] # "unsent" => audit'[f] # "unsent"
    BY <1>4, RecordSends DEF LogDecrypt, Events
  <2>2. StepsBacked'
    BY <1>4, <2>1, GotoMoves, FinishMoves
       DEF LogDecrypt, IInv, StepsBacked, HandlerBacked, KekBackedByKms, Events
  <2>3. SingleSaver'
    BY <1>4, GotoMoves, FinishMoves
       DEF LogDecrypt, IInv, SingleSaver, StepsBacked, HandlerBacked
  <2>4. (/\ ReleaseBacked /\ EmergencyAudited
         /\ CompletedImpliesReleased /\ KekBackedByKms
         /\ EmergencyHasKek)'
    BY <1>4, <2>1, GotoMoves, FinishMoves
       DEF LogDecrypt, IInv, StepsBacked, HandlerBacked, ReleaseBacked,
           EmergencyAudited, CompletedImpliesReleased, KekBackedByKms,
           EmergencyHasKek, Events
  <2>5. QED
    BY <2>2, <2>3, <2>4 DEF IInv
<1>5. CASE LogRelease(h)
  <2>1. /\ audit'["key_release"] # "unsent"
        /\ \A f \in Events : audit[f] # "unsent" => audit'[f] # "unsent"
    BY <1>5, RecordSends DEF LogRelease, Events
  <2>2. StepsBacked'
    BY <1>5, <2>1, GotoMoves
       DEF LogRelease, IInv, StepsBacked, HandlerBacked, KekBackedByKms, Events
  <2>3. SingleSaver'
    BY <1>5, GotoMoves
       DEF LogRelease, IInv, SingleSaver, StepsBacked, HandlerBacked
  <2>4. (/\ ReleaseBacked /\ EmergencyAudited
         /\ CompletedImpliesReleased /\ KekBackedByKms
         /\ EmergencyHasKek)'
    BY <1>5, <2>1, GotoMoves
       DEF LogRelease, IInv, StepsBacked, HandlerBacked, ReleaseBacked,
           EmergencyAudited, CompletedImpliesReleased, KekBackedByKms,
           EmergencyHasKek, Events
  <2>5. QED
    BY <2>2, <2>3, <2>4 DEF IInv
<1>6. CASE MarkKek(h)
  <2>1. StepsBacked'
    BY <1>6, GotoMoves
       DEF MarkKek, IInv, StepsBacked, HandlerBacked, KekBackedByKms
  <2>2. SingleSaver'
    BY <1>6, GotoMoves
       DEF MarkKek, IInv, SingleSaver, StepsBacked, HandlerBacked
  <2>3. (/\ ReleaseBacked /\ EmergencyAudited
         /\ CompletedImpliesReleased /\ KekBackedByKms
         /\ EmergencyHasKek)'
    BY <1>6, GotoMoves
       DEF MarkKek, IInv, StepsBacked, HandlerBacked, ReleaseBacked,
           EmergencyAudited, CompletedImpliesReleased, KekBackedByKms,
           EmergencyHasKek
  <2>4. QED
    BY <2>1, <2>2, <2>3 DEF IInv
<1>7. CASE MarkRel(h)
  <2>1. StepsBacked'
    BY <1>7, FinishMoves
       DEF MarkRel, IInv, StepsBacked, HandlerBacked, KekBackedByKms
  <2>2. SingleSaver'
    BY <1>7, FinishMoves
       DEF MarkRel, IInv, SingleSaver, StepsBacked, HandlerBacked
  <2>3. (/\ ReleaseBacked /\ EmergencyAudited
         /\ CompletedImpliesReleased /\ KekBackedByKms
         /\ EmergencyHasKek)'
    BY <1>7, FinishMoves
       DEF MarkRel, IInv, StepsBacked, HandlerBacked, ReleaseBacked,
           EmergencyAudited, CompletedImpliesReleased, KekBackedByKms,
           EmergencyHasKek
  <2>4. QED
    BY <2>1, <2>2, <2>3 DEF IInv
<1>8. CASE CreateKey(h)
  <2>1. StepsBacked'
    BY <1>8, GotoMoves
       DEF CreateKey, IInv, StepsBacked, HandlerBacked, KekBackedByKms
  <2>2. SingleSaver'
    BY <1>8, GotoMoves
       DEF CreateKey, IInv, SingleSaver, StepsBacked, HandlerBacked
  <2>3. (/\ ReleaseBacked /\ EmergencyAudited
         /\ CompletedImpliesReleased /\ KekBackedByKms
         /\ EmergencyHasKek)'
    BY <1>8, GotoMoves
       DEF CreateKey, IInv, StepsBacked, HandlerBacked, ReleaseBacked,
           EmergencyAudited, CompletedImpliesReleased, KekBackedByKms,
           EmergencyHasKek
  <2>4. QED
    BY <2>1, <2>2, <2>3 DEF IInv
<1>9. CASE SaveKek(h)
  <2>1. StepsBacked'
    BY <1>9, GotoMoves
       DEF SaveKek, IInv, StepsBacked, HandlerBacked, KekBackedByKms, SingleSaver
  <2>2. SingleSaver'
    BY <1>9, GotoMoves
       DEF SaveKek, IInv, SingleSaver, StepsBacked, HandlerBacked
  <2>3. (/\ ReleaseBacked /\ EmergencyAudited
         /\ CompletedImpliesReleased /\ KekBackedByKms
         /\ EmergencyHasKek)'
    BY <1>9, GotoMoves
       DEF SaveKek, IInv, StepsBacked, HandlerBacked, ReleaseBacked,
           EmergencyAudited, CompletedImpliesReleased, KekBackedByKms,
           EmergencyHasKek
  <2>4. QED
    BY <2>1, <2>2, <2>3 DEF IInv
<1>10. CASE LogKek(h)
  <2>1. /\ audit'["key_generate"] # "unsent"
        /\ \A f \in Events : audit[f] # "unsent" => audit'[f] # "unsent"
    BY <1>10, RecordSends DEF LogKek, Events
  <2>2. StepsBacked'
    BY <1>10, <2>1, FinishMoves
       DEF LogKek, IInv, StepsBacked, HandlerBacked, KekBackedByKms, Events
  <2>3. SingleSaver'
    BY <1>10, FinishMoves
       DEF LogKek, IInv, SingleSaver, StepsBacked, HandlerBacked
  <2>4. (/\ ReleaseBacked /\ EmergencyAudited
         /\ CompletedImpliesReleased /\ KekBackedByKms
         /\ EmergencyHasKek)'
    BY <1>10, <2>1, FinishMoves
       DEF LogKek, IInv, StepsBacked, HandlerBacked, ReleaseBacked,
           EmergencyAudited, CompletedImpliesReleased, KekBackedByKms,
           EmergencyHasKek, Events
  <2>5. QED
    BY <2>2, <2>3, <2>4 DEF IInv
<1>11. CASE DestroyVersions(h)
  <2>1. StepsBacked'
    BY <1>11, GotoMoves
       DEF DestroyVersions, IInv, StepsBacked, HandlerBacked, KekBackedByKms
  <2>2. SingleSaver'
    BY <1>11, GotoMoves
       DEF DestroyVersions, IInv, SingleSaver, StepsBacked, HandlerBacked
  <2>3. (/\ ReleaseBacked /\ EmergencyAudited
         /\ CompletedImpliesReleased /\ KekBackedByKms
         /\ EmergencyHasKek)'
    BY <1>11, GotoMoves
       DEF DestroyVersions, IInv, StepsBacked, HandlerBacked, ReleaseBacked,
           EmergencyAudited, CompletedImpliesReleased, KekBackedByKms,
           EmergencyHasKek
  <2>4. QED
    BY <2>1, <2>2, <2>3 DEF IInv
<1>12. CASE DestroyMark(h)
  <2>1. StepsBacked'
    BY <1>12, GotoMoves
       DEF DestroyMark, IInv, StepsBacked, HandlerBacked, KekBackedByKms
  <2>2. SingleSaver'
    BY <1>12, GotoMoves
       DEF DestroyMark, IInv, SingleSaver, StepsBacked, HandlerBacked
  <2>3. (/\ ReleaseBacked /\ EmergencyAudited
         /\ CompletedImpliesReleased /\ KekBackedByKms
         /\ EmergencyHasKek)'
    BY <1>12, GotoMoves
       DEF DestroyMark, IInv, StepsBacked, HandlerBacked, ReleaseBacked,
           EmergencyAudited, CompletedImpliesReleased, KekBackedByKms,
           EmergencyHasKek
  <2>4. QED
    BY <2>1, <2>2, <2>3 DEF IInv
<1>13. CASE DestroyLog(h)
  <2>1. /\ audit'["destruction"] # "unsent"
        /\ \A f \in Events : audit[f] # "unsent" => audit'[f] # "unsent"
    BY <1>13, RecordSends DEF DestroyLog, Events
  <2>2. StepsBacked'
    BY <1>13, <2>1, FinishMoves
       DEF DestroyLog, IInv, StepsBacked, HandlerBacked, KekBackedByKms, Events
  <2>3. SingleSaver'
    BY <1>13, FinishMoves
       DEF DestroyLog, IInv, SingleSaver, StepsBacked, HandlerBacked
  <2>4. (/\ ReleaseBacked /\ EmergencyAudited
         /\ CompletedImpliesReleased /\ KekBackedByKms
         /\ EmergencyHasKek)'
    BY <1>13, <2>1, FinishMoves
       DEF DestroyLog, IInv, StepsBacked, HandlerBacked, ReleaseBacked,
           EmergencyAudited, CompletedImpliesReleased, KekBackedByKms,
           EmergencyHasKek, Events
  <2>5. QED
    BY <2>2, <2>3, <2>4 DEF IInv
<1>14. CASE RecLog(h)
  <2>1. /\ audit'["emergency_release"] # "unsent"
        /\ \A f \in Events : audit[f] # "unsent" => audit'[f] # "unsent"
    BY <1>14, RecordSends DEF RecLog, Events
  <2>2. StepsBacked'
    BY <1>14, <2>1, GotoMoves
       DEF RecLog, IInv, StepsBacked, HandlerBacked, KekBackedByKms, Events
  <2>3. SingleSaver'
    BY <1>14, GotoMoves
       DEF RecLog, IInv, SingleSaver, StepsBacked, HandlerBacked
  <2>4. (/\ ReleaseBacked /\ EmergencyAudited
         /\ CompletedImpliesReleased /\ KekBackedByKms
         /\ EmergencyHasKek)'
    BY <1>14, <2>1, GotoMoves
       DEF RecLog, IInv, StepsBacked, HandlerBacked, ReleaseBacked,
           EmergencyAudited, CompletedImpliesReleased, KekBackedByKms,
           EmergencyHasKek, Events
  <2>5. QED
    BY <2>2, <2>3, <2>4 DEF IInv
<1>15. CASE RecMark(h)
  <2>1. StepsBacked'
    BY <1>15, FinishMoves
       DEF RecMark, IInv, StepsBacked, HandlerBacked, KekBackedByKms
  <2>2. SingleSaver'
    BY <1>15, FinishMoves
       DEF RecMark, IInv, SingleSaver, StepsBacked, HandlerBacked
  <2>3. (/\ ReleaseBacked /\ EmergencyAudited
         /\ CompletedImpliesReleased /\ KekBackedByKms
         /\ EmergencyHasKek)'
    BY <1>15, FinishMoves
       DEF RecMark, IInv, StepsBacked, HandlerBacked, ReleaseBacked,
           EmergencyAudited, CompletedImpliesReleased, KekBackedByKms,
           EmergencyHasKek
  <2>4. QED
    BY <2>1, <2>2, <2>3 DEF IInv
<1>16. CASE QuietProceed(h)
  BY <1>16, QuietProceedInvariant
<1>17. QED
  BY <1>1, <1>2, <1>3, <1>4, <1>5, <1>6, <1>7, <1>8, <1>9, <1>10, <1>11,
     <1>12, <1>13, <1>14, <1>15, <1>16 DEF Proceed, QuietProceed

\* Every step of the service or of its environment keeps the invariant.
LEMMA StepInvariant ==
    ASSUME TypeOK, IInv, [Next]_vars
    PROVE  IInv'
<1>1. CASE \E h \in Handlers, op \in AdminOps : Request(h, op)
  <2>1. \A op \in AdminOps : FirstStep[op] \in Unbacked
    BY AdminOpsAssumption DEF Operations, FirstStep, Unbacked
  <2>2. QED
    BY <1>1, <2>1, QuietStep DEF Request, TypeOK
<1>2. CASE \E h \in Handlers : TimerFire(h)
  BY <1>2, QuietStep DEF TimerFire, TypeOK, Unbacked
<1>3. CASE \E h \in Handlers : Deliver(h)
  BY <1>3, QuietStep DEF Deliver, TypeOK, Unbacked
<1>4. CASE \E h \in Handlers : Proceed(h)
  BY <1>4, ProceedInvariant
<1>5. CASE \E h \in Handlers : Fail(h)
  BY <1>5, FinishMoves, QuietStep DEF Fail, Unbacked
<1>6. CASE \E r \in Replicas : Crash(r)
  BY <1>6, QuietStep DEF Crash, Unbacked
<1>7. CASE JobFire
  BY <1>7, QuietStep DEF JobFire
<1>8. CASE UNCHANGED vars
  BY <1>8, QuietStep DEF vars
<1>9. QED
  BY <1>1, <1>2, <1>3, <1>4, <1>5, <1>6, <1>7, <1>8 DEF Next

\* The inductive invariant always holds.
THEOREM Invariance == Spec => [](TypeOK /\ IInv)
<1>1. Init => IInv
  BY DEF Init, IInv, StepsBacked, HandlerBacked, SingleSaver, ReleaseBacked,
         EmergencyAudited, CompletedImpliesReleased, KekBackedByKms,
         EmergencyHasKek
<1>2. TypeOK /\ IInv /\ [Next]_vars => IInv'
  BY StepInvariant
<1>3. QED
  BY <1>1, <1>2, TypeCorrect, PTL DEF Spec

\* A KEK document released without an emergency stands for papers in Redis
\* and for a key_release event the blockchain service answered.
THEOREM ReleaseIsBacked == Spec => []ReleaseBacked
<1>1. IInv => ReleaseBacked
  BY DEF IInv
<1>2. QED
  BY <1>1, Invariance, PTL

\* The emergencyRelease flag implies that the event was sent and answered.
THEOREM EmergencyIsAudited == Spec => []EmergencyAudited
<1>1. IInv => EmergencyAudited
  BY DEF IInv
<1>2. QED
  BY <1>1, Invariance, PTL

\* A completed schedule stands for keys that were released.
THEOREM CompletionIsHonest == Spec => []CompletedImpliesReleased
<1>1. IInv => CompletedImpliesReleased
  BY DEF IInv
<1>2. QED
  BY <1>1, Invariance, PTL

\* The KEK document follows the life of the Cloud KMS key.
THEOREM KekIsBackedByKms == Spec => []KekBackedByKms
<1>1. IInv => KekBackedByKms
  BY DEF IInv
<1>2. QED
  BY <1>1, Invariance, PTL

(***************************************************************************)
(* The refinement.                                                         *)
(***************************************************************************)
\* Every step of the service is a step of KeyCustody or leaves its variables.
LEMMA StepImplementsCustody ==
    ASSUME TypeOK, IInv, [Next]_vars
    PROVE  [Custody!CustodyNext]_(Custody!custodyVars)
<1> USE DEF docVars, Custody!CustodyNext, Custody!custodyVars
<1>1. ASSUME NEW h \in Handlers, Proceed(h)
      PROVE  [Custody!CustodyNext]_(Custody!custodyVars)
  <2>1. CASE SaveRel(h)
    BY <2>1 DEF SaveRel, Custody!Schedule
  <2>2. CASE SaveCancel(h)
    BY <2>2 DEF SaveCancel, Custody!Cancel
  <2>3. CASE CachePapers(h)
    BY <2>3 DEF CachePapers, Custody!Publish
  <2>4. CASE LogDecrypt(h) \/ LogRelease(h) \/ LogKek(h) \/ DestroyLog(h) \/ RecLog(h)
    BY <2>4 DEF LogDecrypt, LogRelease, LogKek, DestroyLog, RecLog
  <2>5. CASE MarkKek(h)
    BY <2>5 DEF MarkKek, Goto, IInv, StepsBacked, HandlerBacked, Custody!Release
  <2>6. CASE MarkRel(h)
    BY <2>6 DEF MarkRel, Finish, IInv, StepsBacked, HandlerBacked, Custody!Complete
  <2>7. CASE CreateKey(h) \/ DestroyVersions(h)
    BY <2>7 DEF CreateKey, DestroyVersions
  <2>8. CASE SaveKek(h)
    <3>1. kek = "none" /\ ~emergency
      BY <2>8 DEF SaveKek, Goto, IInv, StepsBacked, HandlerBacked,
                     EmergencyHasKek
    <3>2. QED
      BY <2>8, <3>1 DEF SaveKek, TypeOK, Custody!Generate
  <2>9. CASE DestroyMark(h)
    BY <2>9 DEF DestroyMark, Goto, IInv, StepsBacked, HandlerBacked, Custody!Destroy
  <2>10. CASE RecMark(h)
    BY <2>10 DEF RecMark, Custody!EmergencyRelease
  <2>11. CASE QuietProceed(h)
    BY <2>11
       DEF QuietProceed, DeleteJob, CreateJob, Arm, CancelJob, Disarm,
           SkipReleased, PassCheck, MarkKekMissing, MarkRelMissing,
           CreateKeyRefused, DestroyRefused, RecMarkMissing
  <2>12. QED
    BY <1>1, <2>1, <2>2, <2>3, <2>4, <2>5, <2>6, <2>7, <2>8, <2>9, <2>10,
       <2>11 DEF Proceed, QuietProceed
<1>2. CASE \E h \in Handlers, op \in AdminOps : Request(h, op)
  BY <1>2 DEF Request
<1>3. CASE \E h \in Handlers : TimerFire(h) \/ Deliver(h) \/ Fail(h)
  BY <1>3 DEF TimerFire, Deliver, Fail
<1>4. CASE JobFire \/ \E r \in Replicas : Crash(r)
  BY <1>4 DEF JobFire, Crash
<1>5. CASE UNCHANGED vars
  BY <1>5 DEF vars
<1>6. QED
  BY <1>1, <1>2, <1>3, <1>4, <1>5 DEF Next

\* The documents and the paper cache of one exam implement KeyCustody.
THEOREM Refinement == Spec => ImplementsCustody
<1>1. Init => Custody!CustodyInit
  BY DEF Init, Custody!CustodyInit
<1>2. TypeOK /\ IInv /\ [Next]_vars
        => [Custody!CustodyNext]_(Custody!custodyVars)
  BY StepImplementsCustody
<1>3. QED
  BY <1>1, <1>2, Invariance, PTL DEF Spec, ImplementsCustody, Custody!CustodySpec

\* generateExamKek never overwrites a KEK document.
THEOREM KekIsNeverReset == Spec => KekNeverReset
<1>1. TypeOK /\ IInv /\ [Next]_vars => [kek' = "generated" => kek = "none"]_kek
  <2> SUFFICES ASSUME TypeOK, IInv, [Next]_vars, kek' # kek, kek' = "generated"
               PROVE  kek = "none"
    OBVIOUS
  <2>1. [Custody!CustodyNext]_(Custody!custodyVars)
    BY StepImplementsCustody
  <2>2. QED
    BY <2>1
       DEF Custody!CustodyNext, Custody!custodyVars, Custody!Generate,
           Custody!Publish, Custody!Release, Custody!EmergencyRelease,
           Custody!Destroy, Custody!Schedule, Custody!Cancel, Custody!Complete
<1>2. QED
  BY <1>1, Invariance, PTL DEF Spec, KekNeverReset

(***************************************************************************)
(* ReleaseClock: the arithmetic of the two clocks.                         *)
(***************************************************************************)
\* The minute of a release time begins at it or before it.
LEMMA MinuteBounds ==
    ASSUME NEW time \in Nat
    PROVE  MinuteStart(time) \in Nat /\ MinuteStart(time) <= time
<1>1. time % Minute \in Nat /\ time % Minute <= time
  BY ClockAssumption
<1> QED  BY <1>1 DEF MinuteStart

\* A multiple of the year that is more than a year below zero is not below it.
LEMMA YearMultiple ==
    ASSUME NEW d \in Int, NEW y \in Nat \ {0}, d % y = 0, 0 < d + y
    PROVE  0 <= d
<1>1. PICK q \in Int : d = y * q
  <2>1. d \div y \in Int /\ d = y * (d \div y) + (d % y)
    OBVIOUS
  <2> QED  BY <2>1
<1>2. CASE q >= 0
  BY <1>1, <1>2
<1>3. CASE q <= -1
  <2>1. y * q <= -y
    BY <1>1, <1>3
  <2> QED  BY <2>1, <1>1
<1> QED  BY <1>1, <1>2, <1>3

\* A minute that matches the cron expression is the minute meant, or at least
\* a year away from it.
LEMMA CronBounds ==
    ASSUME NEW time \in Nat, NEW t \in Nat, CronMatches(time, t),
           MinuteStart(time) < t + Year
    PROVE  MinuteStart(time) <= t
<1>1. MinuteStart(time) \in Nat /\ Year \in Nat \ {0}
  BY MinuteBounds, ClockAssumption
<1>2. t - MinuteStart(time) \in Int /\ 0 < (t - MinuteStart(time)) + Year
  BY <1>1
<1>3. 0 <= t - MinuteStart(time)
  BY <1>1, <1>2, YearMultiple DEF CronMatches
<1> QED  BY <1>1, <1>3

\* The job runs in the minute it is meant for.
LEMMA CronMatchesItsMinute ==
    ASSUME NEW time \in Nat
    PROVE  CronMatches(time, MinuteStart(time))
<1>1. MinuteStart(time) - MinuteStart(time) = 0
  BY MinuteBounds
<1>2. 0 % Year = 0
  BY ClockAssumption
<1> QED  BY <1>1, <1>2 DEF CronMatches
\* setTimeout's delay is a number of steps between 1 and the delay asked for,
\* which it keeps if it can.
LEMMA DelayBounds ==
    ASSUME NEW d \in Nat \ {0}
    PROVE  /\ Delay(d) \in Nat /\ 0 < Delay(d) /\ Delay(d) <= d
           /\ d <= MaxDelay => Delay(d) = d
BY ClockAssumption DEF Delay

(***************************************************************************)
(* Type correctness.                                                       *)
(***************************************************************************)
\* The calls made at a time are dated and are for schedules, and who made
\* them is known.
LEMMA CallsType ==
    ASSUME ClockTypeOK, NEW t \in Nat
    PROVE  CallsAt(t) \subseteq [at : Nat, for : Schedules, by : SUBSET Pods]
<1>1. ASSUME NEW s \in JobsDue(t)
      PROVE  [at |-> t, for |-> s, by |-> {}] \in [at : Nat, for : Schedules, by : SUBSET Pods]
  BY <1>1 DEF ClockTypeOK, JobsDue
<1>2. ASSUME NEW r \in Pods, NEW k \in Rings(r, t)
      PROVE  [at |-> t, for |-> k.for, by |-> {r}]
                \in [at : Nat, for : Schedules, by : SUBSET Pods]
  <2>1. k \in [due : Nat, for : Schedules]
    BY <1>2 DEF ClockTypeOK, Rings
  <2> QED  BY <2>1
<1> QED  BY <1>1, <1>2 DEF CallsAt

\* What a change of the schedule does, with one replica's timer.
LEMMA PutType ==
    ASSUME ClockTypeOK, NEW r \in Pods, NEW new \in SUBSET Schedules,
           NEW armed \in SUBSET [due : Nat, for : Schedules], Put(r, new, armed)
    PROVE  ClockTypeOK'
BY DEF ClockTypeOK, Put, ReplaceJob, Change

\* A schedule made now is dated, and its timer too.
LEMMA NewScheduleType ==
    ASSUME ClockTypeOK, NEW r \in Pods, NEW time \in 1..Horizon,
           ScheduleKeyRelease(r, time)
    PROVE  /\ [time |-> time, at |-> now] \in Schedules
           /\ now + Delay(time - now) \in Nat
<1>1. [time |-> time, at |-> now] \in Schedules
  BY ClockAssumption DEF ClockTypeOK, Schedules
<1>2. time - now \in Nat \ {0}
  BY ClockAssumption DEF ClockTypeOK, ScheduleKeyRelease
<1> QED  BY <1>1, <1>2, DelayBounds DEF ClockTypeOK

\* Every step keeps the types.
LEMMA ClockTypeStep == ClockTypeOK /\ [ClockNext]_clock => ClockTypeOK'
<1> SUFFICES ASSUME ClockTypeOK, [ClockNext]_clock
             PROVE  ClockTypeOK'
  OBVIOUS
<1>1. ASSUME NEW r \in Pods, NEW time \in 1..Horizon, ScheduleKeyRelease(r, time)
      PROVE  ClockTypeOK'
  <2>1. /\ {[time |-> time, at |-> now]} \in SUBSET Schedules
        /\ {[due |-> now + Delay(time - now), for |-> [time |-> time, at |-> now]]}
              \in SUBSET [due : Nat, for : Schedules]
    BY <1>1, NewScheduleType
  <2> QED  BY <1>1, <2>1, PutType DEF ScheduleKeyRelease
<1>2. ASSUME NEW r \in Pods, CancelScheduledRelease(r) PROVE ClockTypeOK'
  BY <1>2, PutType DEF CancelScheduledRelease
<1>3. ASSUME NEW r \in Pods, Restart(r) PROVE ClockTypeOK'
  BY <1>3 DEF ClockTypeOK, Restart
<1>4. CASE Tick
  <2>1. now' \in Nat
    BY <1>4 DEF ClockTypeOK, Tick
  <2>2. fired' \subseteq [at : Nat, for : Schedules, by : SUBSET Pods]
    BY <1>4, <2>1, CallsType DEF ClockTypeOK, Tick
  <2>3. backup' \in [Pods -> SUBSET [due : Nat, for : Schedules]]
    BY <1>4 DEF ClockTypeOK, Tick
  <2> QED  BY <1>4, <2>1, <2>2, <2>3 DEF ClockTypeOK, Tick
<1>5. CASE UNCHANGED clock
  BY <1>5 DEF ClockTypeOK, clock
<1> QED  BY <1>1, <1>2, <1>3, <1>4, <1>5 DEF ClockNext

\* Every variable always holds dated schedules, triggers and calls.
THEOREM ClockTypeCorrect == ClockSpec => []ClockTypeOK
<1>1. ClockInit => ClockTypeOK
  BY DEF ClockInit, ClockTypeOK
<1> QED  BY <1>1, ClockTypeStep, PTL DEF ClockSpec

(***************************************************************************)
(* The inductive invariant.                                                *)
(***************************************************************************)
Legal(s) == s.at <= now /\ s.at < s.time /\ s.time < s.at + Year

\* A timer is for a schedule that is Legal, due by its time, and at that time
\* if its delay could be kept.
OnTime(k) ==
    /\ Legal(k.for)
    /\ now < k.due /\ k.due <= k.for.time
    /\ k.for.time - k.for.at <= MaxDelay => k.due = k.for.time

\* Every schedule was made in the past for a time within a year, and every
\* timer is on time.
WellArmed ==
    /\ \A s \in release \union cron : Legal(s)
    /\ \A r \in Pods : \A k \in backup[r] : OnTime(k)

\* The job, without a fault, is for the release in force, and a timer for what
\* the last change its replica served asked for.
NothingStale ==
    /\ failures = 0 => cron \subseteq release
    /\ \A r \in Pods : \A k \in backup[r] : k.for \in served[r]

Done(s)       == \E f \in fired : s.at < f.at /\ f.at <= s.time
JobWaits(s)   == s \in cron /\ now < MinuteStart(s.time)
TimerWaits(s) == \E r \in Pods : \E k \in backup[r] : k.for = s

\* A release that has not been triggered is waited for by both triggers, or
\* after one fault by one of them.
Covered ==
    \A s \in release : s.at < MinuteStart(s.time) /\ ~Done(s) =>
        /\ failures = 0 => JobWaits(s) /\ TimerWaits(s)
        /\ failures = 1 => JobWaits(s) \/ TimerWaits(s)

ClockInv == WellArmed /\ NotBeforeItsMinute /\ NothingStale /\ Covered

(***************************************************************************)
(* The steps keep it.                                                      *)
(***************************************************************************)
\* What a change of the schedule leaves well armed and not stale: the other
\* replicas' timers are as they were.
LEMMA PutInvariant ==
    ASSUME ClockTypeOK, ClockInv, NEW r \in Pods, NEW new, NEW armed,
           Put(r, new, armed), \A s \in new : Legal(s),
           \A k \in armed : OnTime(k) /\ k.for \in new
    PROVE  WellArmed' /\ NotBeforeItsMinute' /\ NothingStale'
<1>1. /\ release' = new /\ now' = now /\ fired' = fired
      /\ backup' = [backup EXCEPT ![r] = armed] /\ served' = [served EXCEPT ![r] = new]
      /\ \/ cron' = new /\ failures' = failures
         \/ cron' \in {{}, cron} /\ failures' = failures + 1
      /\ failures \in Nat
      /\ DOMAIN backup = Pods /\ DOMAIN served = Pods
  BY DEF ClockTypeOK, Put, ReplaceJob
<1>2. \A x \in Pods : /\ backup'[x] = IF x = r THEN armed ELSE backup[x]
                      /\ served'[x] = IF x = r THEN new ELSE served[x]
  BY <1>1
<1>3. WellArmed'
  <2>1. \A s \in release' \union cron' : Legal(s)'
    BY <1>1 DEF ClockInv, WellArmed, Legal
  <2>2. ASSUME NEW x \in Pods, NEW k \in backup'[x] PROVE OnTime(k)'
    <3>1. OnTime(k)
      BY <1>2, <2>2 DEF ClockInv, WellArmed
    <3> QED  BY <1>1, <3>1 DEF OnTime, Legal
  <2> QED  BY <2>1, <2>2 DEF WellArmed
<1>4. NotBeforeItsMinute'
  BY <1>1 DEF ClockInv, NotBeforeItsMinute
<1>5. NothingStale'
  <2>1. failures' = 0 => cron' \subseteq release'
    BY <1>1
  <2>2. \A x \in Pods : \A k \in backup'[x] : k.for \in served'[x]
    BY <1>2 DEF ClockInv, NothingStale
  <2> QED  BY <2>1, <2>2 DEF NothingStale
<1> QED  BY <1>3, <1>4, <1>5

\* A new schedule replaces the old one, its job unless a call failed, and the
\* timer of the replica that served it.
LEMMA ScheduleInvariant ==
    ASSUME ClockTypeOK, ClockInv, NEW r \in Pods, NEW time \in 1..Horizon,
           time - now < Year, ScheduleKeyRelease(r, time)
    PROVE  ClockInv'
<1>s. PICK s : s = [time |-> time, at |-> now]
  OBVIOUS
<1>k. PICK k : k = [due |-> now + Delay(time - now), for |-> s]
  OBVIOUS
<1>1. time \in Nat /\ now \in Nat /\ now < time /\ failures \in Nat
  BY ClockAssumption DEF ClockTypeOK, ScheduleKeyRelease
<1>2. Put(r, {s}, {k})
  BY <1>s, <1>k DEF ScheduleKeyRelease
<1>3. s.time = time /\ s.at = now /\ k.for = s /\ k.due = now + Delay(time - now)
  BY <1>s, <1>k
<1>4. /\ Delay(time - now) \in Nat /\ 0 < Delay(time - now)
      /\ Delay(time - now) <= time - now
      /\ time - now <= MaxDelay => Delay(time - now) = time - now
  <2>1. time - now \in Nat \ {0}
    BY <1>1
  <2> QED  BY <2>1, DelayBounds
<1>5. Legal(s)
  BY <1>1, <1>3, ClockAssumption DEF Legal
<1>6. OnTime(k)
  BY <1>1, <1>3, <1>4, <1>5, ClockAssumption DEF OnTime
<1>7. WellArmed' /\ NotBeforeItsMinute' /\ NothingStale'
  BY <1>2, <1>3, <1>5, <1>6, PutInvariant
<1>8. Covered'
  <2>1. /\ release' = {s} /\ now' = now /\ backup'[r] = {k}
        /\ \/ cron' = {s} /\ failures' = failures
           \/ failures' = failures + 1
    BY <1>2 DEF ClockTypeOK, Put, ReplaceJob
  <2>2. TimerWaits(s)'
    BY <1>3, <2>1 DEF TimerWaits
  <2>3. s.at < MinuteStart(s.time) /\ failures' = 0 => JobWaits(s)'
    BY <1>1, <1>3, <2>1 DEF JobWaits
  <2> QED  BY <2>1, <2>2, <2>3 DEF Covered
<1> QED  BY <1>7, <1>8 DEF ClockInv

\* A cancellation leaves no release to be triggered.
LEMMA CancelInvariant ==
    ASSUME ClockTypeOK, ClockInv, NEW r \in Pods, CancelScheduledRelease(r)
    PROVE  ClockInv'
<1>1. WellArmed' /\ NotBeforeItsMinute' /\ NothingStale'
  BY PutInvariant DEF CancelScheduledRelease
<1>2. Covered'
  BY DEF CancelScheduledRelease, Put, Covered
<1> QED  BY <1>1, <1>2 DEF ClockInv

\* A restart takes the timer; if it is the first fault, the job still waits.
LEMMA RestartInvariant ==
    ASSUME ClockTypeOK, ClockInv, NEW r \in Pods, Restart(r)
    PROVE  ClockInv'
<1>1. /\ release' = release /\ now' = now /\ fired' = fired /\ served' = served
      /\ cron' = cron /\ failures' = failures + 1 /\ failures \in Nat
      /\ \A x \in Pods : backup'[x] = IF x = r THEN {} ELSE backup[x]
  BY DEF ClockTypeOK, Restart
<1>2. WellArmed'
  BY <1>1 DEF ClockInv, WellArmed, OnTime, Legal
<1>3. NotBeforeItsMinute'
  BY <1>1 DEF ClockInv, NotBeforeItsMinute
<1>4. NothingStale'
  BY <1>1 DEF ClockInv, NothingStale
<1>5. Covered'
  <2> SUFFICES ASSUME NEW s \in release, s.at < MinuteStart(s.time), ~Done(s),
                      failures = 0
               PROVE  JobWaits(s)
    BY <1>1 DEF Covered, Done, JobWaits
  <2> QED  BY DEF ClockInv, Covered
<1> QED  BY <1>2, <1>3, <1>4, <1>5 DEF ClockInv

\* Every call of releaseKeys is its job's, or a timer's.
LEMMA CallIs ==
    ASSUME NEW t, NEW f \in CallsAt(t)
    PROVE  /\ f.at = t
           /\ \/ f.by = {} /\ f.for \in JobsDue(t)
              \/ \E r \in Pods : f.by = {r} /\ \E k \in Rings(r, t) : f.for = k.for
<1>1. CASE \E s \in JobsDue(t) : f = [at |-> t, for |-> s, by |-> {}]
  BY <1>1
<1>2. CASE \E r \in Pods : \E k \in Rings(r, t) : f = [at |-> t, for |-> k.for, by |-> {r}]
  BY <1>2
<1> QED  BY <1>1, <1>2 DEF CallsAt

\* As time passes a timer stays, or it or another trigger makes a call.
LEMMA TimersLeft ==
    ASSUME ClockTypeOK, Tick, NEW r \in Pods
    PROVE  /\ backup'[r] \subseteq {k \in backup[r] : k.due # now'}
           /\ \A k \in backup[r] : k \in backup'[r] \/ CallsAt(now') # {}
<1>1. PICK x \in Pods : \E completed \in SUBSET CalledAt(now', x) :
          backup' = [y \in Pods |->
                       IF y \in completed THEN {} ELSE backup[y] \ Rings(y, now')]
  BY DEF Tick
<1>2. PICK completed \in SUBSET CalledAt(now', x) :
          backup' = [y \in Pods |->
                       IF y \in completed THEN {} ELSE backup[y] \ Rings(y, now')]
  BY <1>1
<1>3. backup'[r] \subseteq {k \in backup[r] : k.due # now'}
  BY <1>2 DEF Rings
<1>4. ASSUME NEW y \in Pods, NEW k \in Rings(y, now') PROVE CallsAt(now') # {}
  <2> DEFINE own(z) == {[at |-> now', for |-> q.for, by |-> {z}] : q \in Rings(z, now')}
  <2>1. [at |-> now', for |-> k.for, by |-> {y}] \in own(y)
    BY <1>4
  <2>2. own(y) \subseteq UNION {own(z) : z \in Pods}
    BY <1>4
  <2> QED  BY <2>1, <2>2 DEF CallsAt
<1>5. ASSUME NEW s \in JobsDue(now') PROVE CallsAt(now') # {}
  <2>1. [at |-> now', for |-> s, by |-> {}] \in CallsAt(now')
    BY <1>5 DEF CallsAt
  <2> QED  BY <2>1
<1>6. ASSUME NEW k \in backup[r], k \notin backup'[r] PROVE CallsAt(now') # {}
  <2>1. r \in completed \/ k \in Rings(r, now')
    BY <1>2, <1>6
  <2>2. CASE k \in Rings(r, now')
    BY <1>4, <2>2
  <2>3. CASE r \in completed
    BY <1>4, <1>5, <2>3 DEF CalledAt
  <2> QED  BY <2>1, <2>2, <2>3
<1> QED  BY <1>3, <1>6

\* Whatever fires as time passes fires in its minute or later, and in time.
LEMMA TickInvariant ==
    ASSUME ClockTypeOK, ClockInv, Tick
    PROVE  ClockInv'
<1>1. /\ release' = release /\ cron' = cron /\ failures' = failures
      /\ now' = now + 1 /\ now \in Nat /\ served' = served
      /\ fired' = fired \union CallsAt(now')
  BY DEF ClockTypeOK, Tick
<1>2. /\ release \subseteq Schedules /\ cron \subseteq Schedules
      /\ \A r \in Pods : backup[r] \subseteq [due : Nat, for : Schedules]
      /\ \A s \in Schedules : s.time \in Nat /\ s.at \in Nat
  BY DEF ClockTypeOK, Schedules
<1>3. WellArmed'
  <2>1. ASSUME NEW s \in Schedules, Legal(s) PROVE Legal(s)'
    BY <1>1, <1>2, <2>1 DEF Legal
  <2>2. \A s \in release \union cron : Legal(s)'
    BY <1>2, <2>1 DEF ClockInv, WellArmed
  <2>3. ASSUME NEW r \in Pods, NEW k \in backup'[r] PROVE OnTime(k)'
    <3>1. k \in backup[r] /\ k.due # now'
      BY TimersLeft
    <3>2. k.due \in Nat /\ k.for \in Schedules /\ OnTime(k)
      BY <1>2, <3>1 DEF ClockInv, WellArmed
    <3>3. Legal(k.for)'
      BY <2>1, <3>2 DEF OnTime
    <3> QED  BY <1>1, <3>1, <3>2, <3>3 DEF OnTime
  <2> QED  BY <1>1, <2>2, <2>3 DEF WellArmed
<1>4. NotBeforeItsMinute'
  <2> SUFFICES ASSUME NEW f \in CallsAt(now'), f.for.time - f.for.at <= MaxDelay
               PROVE  MinuteStart(f.for.time) <= f.at
    BY <1>1 DEF ClockInv, NotBeforeItsMinute
  <2>1. CASE \E r \in Pods : \E k \in Rings(r, now') : f.for = k.for
    <3>1. PICK r \in Pods : \E k \in backup[r] : k.due = now' /\ f.for = k.for
      BY <2>1 DEF Rings
    <3>2. f.for \in Schedules /\ f.for.time = now' /\ f.at = now'
      BY <1>2, <3>1, CallIs DEF ClockInv, WellArmed, OnTime
    <3> QED  BY <1>2, <3>1, <3>2, MinuteBounds
  <2>2. CASE f.for \in JobsDue(now')
    <3>1. /\ f.for.time \in Nat /\ f.for.at \in Nat /\ now' \in Nat /\ f.at = now'
          /\ Legal(f.for) /\ CronMatches(f.for.time, now')
      BY <1>1, <1>2, <2>2, CallIs DEF ClockInv, WellArmed, JobsDue
    <3>2. MinuteStart(f.for.time) \in Nat /\ MinuteStart(f.for.time) <= f.for.time
      BY <3>1, MinuteBounds
    <3>3. MinuteStart(f.for.time) < now' + Year
      BY <1>1, <3>1, <3>2, ClockAssumption DEF Legal
    <3> QED  BY <3>1, <3>3, CronBounds
  <2> QED  BY <2>1, <2>2, CallIs
<1>5. NothingStale'
  <2>1. \A r \in Pods : \A k \in backup'[r] : k \in backup[r]
    BY TimersLeft
  <2> QED  BY <1>1, <2>1 DEF ClockInv, NothingStale
<1>6. Covered'
  <2> SUFFICES ASSUME NEW s \in release, s.at < MinuteStart(s.time), ~Done(s)'
               PROVE  /\ failures = 0 => JobWaits(s)' /\ TimerWaits(s)'
                      /\ failures = 1 => JobWaits(s)' \/ TimerWaits(s)'
    BY <1>1 DEF Covered
  <2>1. ~Done(s)
    BY <1>1 DEF Done
  <2>2. /\ s.time \in Nat /\ MinuteStart(s.time) \in Nat
        /\ MinuteStart(s.time) <= s.time /\ s.at \in Nat /\ s.at <= now
    BY <1>2, MinuteBounds DEF ClockInv, WellArmed, Legal
  <2>3. now' <= s.time => CallsAt(now') = {}
    <3> SUFFICES ASSUME now' <= s.time, NEW f \in CallsAt(now')
                 PROVE  FALSE
      OBVIOUS
    <3>1. f \in fired' /\ f.at = now'
      BY <1>1, CallIs
    <3> QED  BY <1>1, <2>2, <3>1 DEF Done
  <2>4. JobWaits(s) => JobWaits(s)'
    <3> SUFFICES ASSUME s \in cron, MinuteStart(s.time) = now'
                 PROVE  FALSE
      BY <1>1, <2>2 DEF JobWaits
    <3>1. s \in JobsDue(now')
      BY <2>2, CronMatchesItsMinute DEF JobsDue
    <3>2. [at |-> now', for |-> s, by |-> {}] \in CallsAt(now')
      BY <3>1 DEF CallsAt
    <3> QED  BY <2>2, <2>3, <3>2
  <2>5. TimerWaits(s) => TimerWaits(s)'
    <3> SUFFICES ASSUME NEW r \in Pods, NEW k \in backup[r], k.for = s
                 PROVE  k \in backup'[r]
      BY DEF TimerWaits
    <3>1. now < k.due /\ k.due <= s.time /\ k.due \in Nat
      BY <1>2 DEF ClockInv, WellArmed, OnTime
    <3>2. now' <= s.time
      BY <1>1, <2>2, <3>1
    <3> QED  BY <2>3, <3>2, TimersLeft
  <2> QED  BY <2>1, <2>4, <2>5 DEF ClockInv, Covered
<1> QED  BY <1>3, <1>4, <1>5, <1>6 DEF ClockInv

\* Every step of the service and of the clock keeps the invariant.
LEMMA ClockStep == ClockTypeOK /\ ClockInv /\ [ClockNext]_clock => ClockInv'
<1> SUFFICES ASSUME ClockTypeOK, ClockInv, [ClockNext]_clock
             PROVE  ClockInv'
  OBVIOUS
<1>1. CASE UNCHANGED clock
  BY <1>1 DEF clock, ClockInv, WellArmed, OnTime, Legal, NotBeforeItsMinute,
              NothingStale, Covered, Done, JobWaits, TimerWaits
<1> QED  BY <1>1, ScheduleInvariant, CancelInvariant, RestartInvariant,
            TickInvariant DEF ClockNext

\* The inductive invariant always holds.
THEOREM ClockInvariance == ClockSpec => [](ClockTypeOK /\ ClockInv)
<1>1. ClockInit => ClockTypeOK /\ ClockInv
  BY DEF ClockInit, ClockTypeOK, ClockInv, WellArmed, NotBeforeItsMinute, NothingStale, Covered
<1> QED  BY <1>1, ClockTypeStep, ClockStep, PTL DEF ClockSpec

(***************************************************************************)
(* What it is for.                                                         *)
(***************************************************************************)
\* No trigger whose delay setTimeout keeps fires before its minute, whatever
\* the lengths of minutes and years are.
THEOREM NeverBeforeItsMinute == ClockSpec => []NotBeforeItsMinute
<1>1. ClockTypeOK /\ ClockInv => NotBeforeItsMinute
  BY DEF ClockInv
<1> QED  BY <1>1, ClockInvariance, PTL

\* With at most one fault a release is triggered by its time.
THEOREM OneFaultIsCovered == ClockSpec => []TriggeredInTime
<1>1. ClockTypeOK /\ ClockInv => TriggeredInTime
  <2> SUFFICES ASSUME ClockTypeOK, ClockInv, NEW s \in release, failures <= 1,
                      s.at < MinuteStart(s.time), s.time <= now, ~Done(s)
               PROVE  FALSE
    BY DEF TriggeredInTime, Done
  <2>1. s.time \in Nat /\ now \in Nat /\ failures \in {0, 1}
    BY DEF ClockTypeOK, Schedules
  <2>2. JobWaits(s) \/ TimerWaits(s)
    BY <2>1 DEF ClockInv, Covered
  <2>3. ~JobWaits(s)
    BY <2>1, MinuteBounds DEF JobWaits
  <2>4. ~TimerWaits(s)
    <3> SUFFICES ASSUME NEW r \in Pods, NEW k \in backup[r], k.for = s
                 PROVE  FALSE
      BY DEF TimerWaits
    <3>1. k.due \in Nat /\ now < k.due /\ k.due <= s.time
      BY DEF ClockTypeOK, ClockInv, WellArmed, OnTime
    <3> QED  BY <2>1, <3>1
  <2> QED  BY <2>2, <2>3, <2>4
<1> QED  BY <1>1, ClockInvariance, PTL

\* Between them: a release that setTimeout can keep is triggered within its
\* minute, whatever single call failed or timer was lost.
THEOREM OpenedAtItsMinute == ClockSpec => []OpensAtItsMinute
<1>1. NotBeforeItsMinute /\ TriggeredInTime => OpensAtItsMinute
  BY DEF OpensAtItsMinute
<1> QED  BY <1>1, NeverBeforeItsMinute, OneFaultIsCovered, PTL

\* Without a fault the job never outlives the schedule it was made for, and a
\* timer only when another replica served the change.
THEOREM NoTriggerIsStale == ClockSpec => NoStaleTrigger
<1>1. ClockTypeOK /\ ClockInv /\ [ClockNext]_clock
        => [failures = 0 =>
               \A f \in fired' \ fired :
                  \/ f.for \in release
                  \/ \E r \in f.by : served[r] # release /\ f.for \in served[r]]_clock
  <2> SUFFICES ASSUME ClockInv, ClockNext, failures = 0, NEW f \in fired' \ fired
               PROVE  \/ f.for \in release
                      \/ \E r \in f.by : served[r] # release /\ f.for \in served[r]
    BY DEF clock
  <2>1. Tick
    BY DEF ClockNext, ScheduleKeyRelease, CancelScheduledRelease, Put, Restart
  <2>2. f \in CallsAt(now')
    BY <2>1 DEF Tick
  <2>3. CASE f.for \in JobsDue(now')
    BY <2>3 DEF JobsDue, ClockInv, NothingStale
  <2>4. ASSUME NEW r \in Pods, f.by = {r}, NEW k \in Rings(r, now'), f.for = k.for
        PROVE  \/ f.for \in release
               \/ \E x \in f.by : served[x] # release /\ f.for \in served[x]
    <3>1. f.for \in served[r]
      BY <2>4 DEF Rings, ClockInv, NothingStale
    <3> QED  BY <2>4, <3>1
  <2> QED  BY <2>2, <2>3, <2>4, CallIs
<1> QED  BY <1>1, ClockInvariance, PTL DEF ClockSpec, NoStaleTrigger

(***************************************************************************)
(* The gateway: type correctness.                                          *)
(***************************************************************************)
\* The routes of sign-in and of verification are routes.
LEMMA PublicRoutes == AuthRoutes \subseteq Route /\ VerifyRoutes \subseteq Route
BY DEF Route, Public

\* The time at which a token expires is a number.
LEMMA ExpiryType == \A role \in Role : Expiry(role) \in Nat
BY GatewayAssumption DEF Expiry

\* An event of a request is an event.
LEMMA EventType ==
    ASSUME NEW c \in Calls, NEW r, NEW failed \in BOOLEAN
    PROVE  Event(c, r, failed) \subseteq [call : Calls, failed : BOOLEAN]
BY DEF Event

\* A request that comes keeps the requests well typed.
LEMMA ComesType ==
    ASSUME GatewayTypeOK, NEW c \in Calls, NEW r \in Route,
           NEW answer \in {"unauthorized", "forbidden", "throttled", "rejected", "pending",
                           "ok", "unavailable", "timeout"},
           Comes(c, r, answer)
    PROVE  call' \in [Calls -> {Unasked} \union
             [route : Route, at : 0 .. MaxTime,
              answer : {"unauthorized", "forbidden", "throttled", "rejected", "pending",
                        "ok", "unavailable", "timeout"}]]
BY DEF Comes, GatewayTypeOK

\* One that was asked for has a route, and was asked for in the past.
LEMMA PendingType ==
    ASSUME GatewayTypeOK, NEW c \in Calls, call[c] # Unasked
    PROVE  call[c] \in [route : Route, at : 0 .. MaxTime,
                        answer : {"unauthorized", "forbidden", "throttled", "rejected",
                                  "pending", "ok", "unavailable", "timeout"}]
BY DEF GatewayTypeOK

LEMMA GatewayTypeStep == GatewayTypeOK /\ [GatewayNext]_gateway => GatewayTypeOK'
<1> SUFFICES ASSUME GatewayTypeOK, [GatewayNext]_gateway PROVE GatewayTypeOK'
  OBVIOUS
<1> USE GatewayAssumption
<1>1. ASSUME NEW c \in Calls, NEW r \in Route,
             NEW answer \in {"unauthorized", "forbidden", "throttled", "rejected"},
             Refuse(c, r, answer)
      PROVE  GatewayTypeOK'
  BY <1>1, ComesType DEF Refuse, GatewayTypeOK
<1>2. ASSUME NEW c \in Calls, NEW u \in Users, NEW r \in Route, Forward(c, u, r)
      PROVE  GatewayTypeOK'
  BY <1>2, ComesType DEF Forward, GatewayTypeOK
<1>3. ASSUME NEW c \in Calls, NEW u \in Users, NEW r \in Route, NEW role \in Role,
             Login(c, u, r, role)
      PROVE  GatewayTypeOK'
  <2>1. SignToken(role) \in [role : Role, exp : Nat]
    BY ExpiryType DEF SignToken, GatewayTypeOK
  <2>2. trail' \subseteq [call : Calls, failed : BOOLEAN]
    BY <1>3, EventType DEF Login, GatewayTypeOK
  <2> QED  BY <1>3, <2>1, <2>2, ComesType DEF Login, GatewayTypeOK
<1>4. ASSUME NEW c \in Calls, NEW r \in Route, LoginFails(c, r)
      PROVE  GatewayTypeOK'
  <2>1. trail' \subseteq [call : Calls, failed : BOOLEAN]
    BY <1>4, EventType DEF LoginFails, GatewayTypeOK
  <2> QED  BY <1>4, <2>1, ComesType DEF LoginFails, GatewayTypeOK
<1>5. ASSUME NEW c \in Calls, NEW r \in Route, NEW a \in Addresses,
             NEW solved \in BOOLEAN, NEW evict \in BOOLEAN, Verify(c, r, a, solved, evict)
      PROVE  GatewayTypeOK'
  <2>1. captcha' \in [Addresses -> {NoEntry} \union [count : Nat \ {0}, resetAt : Nat]]
    <3> SUFFICES ASSUME NEW b \in Addresses
                 PROVE  captcha'[b] \in {NoEntry} \union [count : Nat \ {0}, resetAt : Nat]
      BY <1>5 DEF Verify, Count
    <3>1. CASE b = a /\ (captcha[a] = NoEntry \/ Expired(a))
      BY <1>5, <3>1 DEF Verify, Count, GatewayTypeOK
    <3>2. CASE b = a /\ captcha[a] # NoEntry /\ ~Expired(a)
      <4>1. captcha[a] \in [count : Nat \ {0}, resetAt : Nat]
        BY <3>2 DEF GatewayTypeOK
      <4>2. captcha'[b] = [captcha[a] EXCEPT !.count = @ + 1]
        BY <1>5, <3>2 DEF Verify, Count
      <4> QED  BY <4>1, <4>2
    <3>3. CASE b # a
      <4>1. captcha'[b] \in {NoEntry, captcha[b]}
        BY <1>5, <3>3 DEF Verify, Count
      <4> QED  BY <4>1 DEF GatewayTypeOK
    <3> QED  BY <3>1, <3>2, <3>3
  <2>2. windows' \in [Addresses -> SUBSET [opened : 0 .. MaxTime, n : Nat]]
    <3> DEFINE costs == IF solved THEN 0 ELSE 1
               W == [opened : 0 .. MaxTime, n : Nat]
    <3>1. costs \in Nat /\ [opened |-> elapsed, n |-> costs] \in W
      BY DEF GatewayTypeOK
    <3>2. \A w \in windows[a] : [w EXCEPT !.n = @ + costs] \in W /\ w \in W
      BY <3>1 DEF GatewayTypeOK
    <3>3. windows' = [windows EXCEPT ![a] =
             IF captcha[a] = NoEntry \/ Expired(a)
             THEN @ \union {[opened |-> elapsed, n |-> costs]}
             ELSE {IF w.opened + CaptchaWindow = captcha[a].resetAt
                   THEN [w EXCEPT !.n = @ + costs] ELSE w : w \in @}]
      BY <1>5 DEF Verify
    <3> HIDE DEF costs, W
    <3>4. windows'[a] = IF captcha[a] = NoEntry \/ Expired(a)
             THEN windows[a] \union {[opened |-> elapsed, n |-> costs]}
             ELSE {IF w.opened + CaptchaWindow = captcha[a].resetAt
                   THEN [w EXCEPT !.n = @ + costs] ELSE w : w \in windows[a]}
      BY <3>3 DEF GatewayTypeOK
    <3>5. windows[a] \subseteq W
      BY <3>2
    <3>6. windows'[a] \subseteq W
      BY <3>1, <3>2, <3>4, <3>5
    <3> QED  BY <3>3, <3>6 DEF W, GatewayTypeOK
  <2>3. call' \in [Calls -> {Unasked} \union
             [route : Route, at : 0 .. MaxTime,
              answer : {"unauthorized", "forbidden", "throttled", "rejected", "pending",
                        "ok", "unavailable", "timeout"}]]
    BY <1>5, ComesType DEF Verify
  <2> QED  BY <1>5, <2>1, <2>2, <2>3 DEF Verify, GatewayTypeOK
<1>6. ASSUME NEW c \in Calls, Ask(c) PROVE GatewayTypeOK'
  <2>1. PICK r \in Asked :
          \/ \E u \in Users : \/ JwtAuthGuard(c, u, r) \/ RbacGuard(c, u, r)
                              \/ RateLimitGuard(c, u, r) \/ Forward(c, u, r)
                              \/ \E role \in Role : Login(c, u, r, role)
          \/ LoginFails(c, r)
          \/ \E a \in Addresses, solved, evict \in BOOLEAN : Verify(c, r, a, solved, evict)
          \/ VerifyRejected(c, r)
    BY <1>6 DEF Ask
  <2>2. r \in Route
    BY RouteAssumption
  <2> QED  BY <2>1, <2>2, <1>1, <1>2, <1>3, <1>4, <1>5
           DEF JwtAuthGuard, RbacGuard, RateLimitGuard, VerifyRejected
<1>7. ASSUME NEW c \in Calls, Serve(c) \/ ServiceFails(c) PROVE GatewayTypeOK'
  BY <1>7 DEF Serve, ServiceFails, GatewayTypeOK
<1>8. ASSUME NEW c \in Calls, NEW answer \in {"ok", "unavailable"}, NEW failed \in BOOLEAN,
             Pending(c), Ends(c, answer, failed)
      PROVE  GatewayTypeOK'
  <2>1. call[c] # Unasked
    BY <1>8 DEF Pending, Unasked
  <2>2. trail' \subseteq [call : Calls, failed : BOOLEAN]
    BY <1>8, EventType DEF Ends, GatewayTypeOK
  <2> QED  BY <1>8, <2>1, <2>2, PendingType DEF Ends, GatewayTypeOK
<1>9. ASSUME NEW c \in Calls, TimesOut(c) PROVE GatewayTypeOK'
  <2>1. call[c] # Unasked
    BY <1>9 DEF TimesOut, Pending, Unasked
  <2> QED  BY <1>9, <2>1, PendingType DEF TimesOut, GatewayTypeOK
<1>10. CASE TimePasses
  BY <1>10 DEF TimePasses, GatewayTypeOK
<1>11. CASE UNCHANGED gateway
  BY <1>11 DEF gateway, GatewayTypeOK
<1> QED  BY <1>6, <1>7, <1>8, <1>9, <1>10, <1>11
         DEF GatewayNext, Return, Unavailable, DeadlinePasses

\* Every request has a route, a time and an answer; tokens, work, events and
\* counts are what they are meant to be.
THEOREM GatewayTypeCorrect == GatewaySpec => []GatewayTypeOK
<1>1. GatewayInit => GatewayTypeOK
  BY GatewayAssumption DEF GatewayInit, GatewayTypeOK
<1> QED  BY <1>1, GatewayTypeStep, PTL DEF GatewaySpec

(***************************************************************************)
(* What the audit trail tells of one request.  An open request has no      *)
(* event and is no older than the deadline of its call, so that one whose  *)
(* limit is the long one never reaches it.                                 *)
(***************************************************************************)
EventsOf(c) == {e \in trail : e.call = c}

WellTold(c) ==
    /\ Pending(c) => EventsOf(c) = {} /\ elapsed <= call[c].at + Deadline
    /\ call[c] = Unasked => EventsOf(c) = {} /\ work[c] = "none"
    /\ Answered(c, {"unauthorized", "forbidden", "throttled", "rejected"}) => work[c] = "none"
    /\ Answered(c, {"timeout"}) => ~call[c].route.long
    /\ Answered(c, {"ok", "unavailable", "rejected"}) /\ call[c].route.mutates =>
          \E e : EventsOf(c) = {e}
    /\ \A e \in EventsOf(c) : ~e.failed => work[c] = "done" /\ Answered(c, {"ok"})

TrailInv == \A c \in Calls : WellTold(c)

\* A step that leaves a request and its events alone.
LEMMA LeftAlone ==
    ASSUME NEW c \in Calls, WellTold(c), call'[c] = call[c], work'[c] = work[c],
           elapsed' = elapsed, EventsOf(c)' = EventsOf(c)
    PROVE  WellTold(c)'
BY DEF WellTold, Pending, Answered

\* An event written for one request is no other's.
LEMMA OwnEvents ==
    ASSUME NEW c \in Calls, NEW d \in Calls, NEW r, NEW failed \in BOOLEAN,
           trail' = trail \union Event(c, r, failed)
    PROVE  /\ d # c => EventsOf(d)' = EventsOf(d)
           /\ EventsOf(c)' = EventsOf(c) \union Event(c, r, failed)
BY DEF EventsOf, Event

\* A request that a guard or the handler of a public route turns away.
LEMMA RefusedWellTold ==
    ASSUME GatewayTypeOK, TrailInv, NEW c \in Calls, NEW r \in Route, call[c] = Unasked,
           NEW answer \in {"unauthorized", "forbidden", "throttled", "rejected"},
           Refuse(c, r, answer), answer = "rejected" => ~r.mutates
    PROVE  TrailInv'
<1> SUFFICES ASSUME NEW d \in Calls PROVE WellTold(d)'
  BY DEF TrailInv
<1>1. call' = [call EXCEPT ![c] = [route |-> r, at |-> elapsed, answer |-> answer]]
  BY DEF Refuse, Comes
<1>2. work' = work /\ trail' = trail /\ elapsed' = elapsed /\ EventsOf(d)' = EventsOf(d)
  BY DEF Refuse, EventsOf
<1>3. call \in [Calls -> {Unasked} \union
         [route : Route, at : 0 .. MaxTime,
          answer : {"unauthorized", "forbidden", "throttled", "rejected", "pending",
                    "ok", "unavailable", "timeout"}]]
  BY DEF GatewayTypeOK
<1>4. CASE d # c
  BY <1>1, <1>2, <1>3, <1>4, LeftAlone DEF TrailInv
<1>5. CASE d = c
  <2>1. call'[c] = [route |-> r, at |-> elapsed, answer |-> answer]
    BY <1>1, <1>3
  <2>2. EventsOf(c) = {} /\ work[c] = "none"
    BY DEF TrailInv, WellTold
  <2>3. call'[c] # Unasked
    BY <2>1 DEF Unasked
  <2> QED  BY <1>2, <1>5, <2>1, <2>2, <2>3 DEF WellTold, Pending, Answered
<1> QED  BY <1>4, <1>5

\* A request that is sent to its service.
LEMMA SentWellTold ==
    ASSUME GatewayTypeOK, TrailInv, NEW c \in Calls, NEW r \in Route, call[c] = Unasked,
           Comes(c, r, "pending"), work' = [work EXCEPT ![c] = "sent"],
           trail' = trail, elapsed' = elapsed
    PROVE  TrailInv'
<1> SUFFICES ASSUME NEW d \in Calls PROVE WellTold(d)'
  BY DEF TrailInv
<1>1. EventsOf(d)' = EventsOf(d)
  BY DEF EventsOf
<1>2. CASE d # c
  BY <1>1, <1>2, LeftAlone DEF TrailInv, GatewayTypeOK, Comes
<1>3. CASE d = c
  <2>1. call'[c] = [route |-> r, at |-> elapsed, answer |-> "pending"]
    BY DEF Comes, GatewayTypeOK
  <2>2. EventsOf(c) = {} /\ elapsed <= elapsed + Deadline
    BY GatewayAssumption DEF TrailInv, WellTold, GatewayTypeOK
  <2>3. call'[c] # Unasked
    BY <2>1 DEF Unasked
  <2> QED  BY <1>1, <1>3, <2>1, <2>2, <2>3 DEF WellTold, Pending, Answered
<1> QED  BY <1>2, <1>3

\* A sign-in: the gateway does the work and tells of it in one step.
LEMMA LoginWellTold ==
    ASSUME GatewayTypeOK, TrailInv, NEW c \in Calls, NEW r \in Route, call[c] = Unasked,
           \/ \E u \in Users, role \in Role : Login(c, u, r, role)
           \/ LoginFails(c, r)
    PROVE  TrailInv'
<1> SUFFICES ASSUME NEW d \in Calls PROVE WellTold(d)'
  BY DEF TrailInv
<1>1. PICK failed \in BOOLEAN :
        /\ call' = [call EXCEPT ![c] = [route |-> r, at |-> elapsed,
                                        answer |-> IF failed THEN "rejected" ELSE "ok"]]
        /\ work' = IF failed THEN work ELSE [work EXCEPT ![c] = "done"]
        /\ trail' = trail \union Event(c, r, failed)
        /\ elapsed' = elapsed
  BY DEF Login, LoginFails, Comes
<1>2. CASE d # c
  <2>1. EventsOf(d)' = EventsOf(d)
    BY <1>1, <1>2, OwnEvents
  <2> QED  BY <1>1, <1>2, <2>1, LeftAlone DEF TrailInv, GatewayTypeOK
<1>3. CASE d = c
  <2>1. call'[c] = [route |-> r, at |-> elapsed, answer |-> IF failed THEN "rejected" ELSE "ok"]
    BY <1>1 DEF GatewayTypeOK
  <2>2. EventsOf(c) = {} /\ work[c] = "none"
    BY DEF TrailInv, WellTold
  <2>3. EventsOf(c)' = IF r.mutates THEN {[call |-> c, failed |-> failed]} ELSE {}
    BY <1>1, <2>2, OwnEvents DEF Event
  <2>4. work'[c] = IF failed THEN "none" ELSE "done"
    BY <1>1, <2>2 DEF GatewayTypeOK
  <2>5. call'[c] # Unasked
    BY <2>1 DEF Unasked
  <2>6. \A e \in EventsOf(c)' : ~e.failed => ~failed
    BY <2>3
  <2>7. r.mutates => \E e : EventsOf(c)' = {e}
    BY <2>3
  <2>8. CASE failed
    <3>1. call'[c].answer = "rejected" /\ call'[c].route = r /\ work'[c] = "none"
      BY <2>1, <2>4, <2>8
    <3>2. \A e \in EventsOf(c)' : ~e.failed => FALSE
      BY <2>6, <2>8
    <3> QED  BY <1>3, <2>5, <2>7, <3>1, <3>2 DEF WellTold, Pending, Answered
  <2>9. CASE ~failed
    BY <1>3, <2>1, <2>4, <2>5, <2>6, <2>7, <2>9 DEF WellTold, Pending, Answered
  <2> QED  BY <2>8, <2>9
<1> QED  BY <1>2, <1>3

\* A call that ends, with the work done or told as failed.
LEMMA EndWellTold ==
    ASSUME GatewayTypeOK, TrailInv, NEW c \in Calls, Pending(c), NEW failed \in BOOLEAN,
           Ends(c, IF failed THEN "unavailable" ELSE "ok", failed),
           ~failed => work[c] = "done"
    PROVE  TrailInv'
<1> SUFFICES ASSUME NEW d \in Calls PROVE WellTold(d)'
  BY DEF TrailInv
<1> DEFINE answer == IF failed THEN "unavailable" ELSE "ok"
<1>1. /\ call' = [call EXCEPT ![c].answer = answer]
      /\ trail' = trail \union Event(c, call[c].route, failed)
      /\ work' = work /\ elapsed' = elapsed
  BY DEF Ends
<1>2. CASE d # c
  <2>1. EventsOf(d)' = EventsOf(d)
    BY <1>1, <1>2, OwnEvents
  <2> QED  BY <1>1, <1>2, <2>1, LeftAlone DEF TrailInv, GatewayTypeOK
<1>3. CASE d = c
  <2>1. call[c] # Unasked
    BY DEF Pending, Unasked
  <2>2. call'[c] = [route |-> call[c].route, at |-> call[c].at, answer |-> answer]
    BY <1>1, <2>1, PendingType DEF GatewayTypeOK
  <2>3. EventsOf(c) = {}
    BY DEF TrailInv, WellTold
  <2>4. EventsOf(c)' = IF call[c].route.mutates THEN {[call |-> c, failed |-> failed]} ELSE {}
    BY <1>1, <2>3, OwnEvents DEF Event
  <2>5. call'[c] # Unasked
    BY <2>2 DEF Unasked
  <2>6. \A e \in EventsOf(c)' : ~e.failed => ~failed
    BY <2>4
  <2>7. call[c].route.mutates => \E e : EventsOf(c)' = {e}
    BY <2>4
  <2>8. CASE failed
    <3>1. call'[c].answer = "unavailable" /\ call'[c].route = call[c].route
      BY <2>2, <2>8
    <3>2. \A e \in EventsOf(c)' : ~e.failed => FALSE
      BY <2>6, <2>8
    <3> QED  BY <1>3, <2>5, <2>7, <3>1, <3>2 DEF WellTold, Pending, Answered
  <2>9. CASE ~failed
    <3>1. call'[c].answer = "ok" /\ call'[c].route = call[c].route /\ work'[c] = "done"
      BY <1>1, <2>2, <2>9
    <3> QED  BY <1>3, <2>5, <2>7, <3>1 DEF WellTold, Pending, Answered
  <2> QED  BY <2>8, <2>9
<1> QED  BY <1>2, <1>3

\* The timeout interceptor gives up only on a request of the short limit.
LEMMA TimeoutWellTold ==
    ASSUME GatewayTypeOK, TrailInv, NEW c \in Calls, TimesOut(c)
    PROVE  TrailInv'
<1> SUFFICES ASSUME NEW d \in Calls PROVE WellTold(d)'
  BY DEF TrailInv
<1>1. /\ call' = [call EXCEPT ![c].answer = "timeout"]
      /\ trail' = trail /\ work' = work /\ elapsed' = elapsed /\ EventsOf(d)' = EventsOf(d)
  BY DEF TimesOut, EventsOf
<1>2. CASE d # c
  BY <1>1, <1>2, LeftAlone DEF TrailInv, GatewayTypeOK
<1>3. CASE d = c
  <2>1. call[c] # Unasked
    BY DEF TimesOut, Pending, Unasked
  <2>2. call[c].at \in Nat /\ elapsed \in Nat
    BY <2>1, PendingType DEF GatewayTypeOK
  <2>3. call'[c] = [route |-> call[c].route, at |-> call[c].at, answer |-> "timeout"]
    BY <1>1, <2>1, PendingType DEF GatewayTypeOK
  <2>4. EventsOf(c) = {} /\ elapsed <= call[c].at + Deadline
    BY DEF TimesOut, TrailInv, WellTold
  <2>5. ~call[c].route.long
    BY <2>2, <2>4, GatewayAssumption DEF TimesOut, LimitOf
  <2>6. call'[c] # Unasked
    BY <2>3 DEF Unasked
  <2> QED  BY <1>1, <1>3, <2>3, <2>4, <2>5, <2>6 DEF WellTold, Pending, Answered
<1> QED  BY <1>2, <1>3

\* What a service does changes no answer that was given.
LEMMA ServiceWellTold ==
    ASSUME GatewayTypeOK, TrailInv, NEW c \in Calls, Serve(c) \/ ServiceFails(c)
    PROVE  TrailInv'
<1> SUFFICES ASSUME NEW d \in Calls PROVE WellTold(d)'
  BY DEF TrailInv
<1>1. /\ call' = call /\ trail' = trail /\ elapsed' = elapsed /\ EventsOf(d)' = EventsOf(d)
      /\ work[c] = "sent" /\ \E w : work' = [work EXCEPT ![c] = w]
  BY DEF Serve, ServiceFails, EventsOf
<1>2. CASE d # c
  BY <1>1, <1>2, LeftAlone DEF TrailInv, GatewayTypeOK
<1>3. CASE d = c
  BY <1>1, <1>3 DEF TrailInv, WellTold, Pending, Answered
<1> QED  BY <1>2, <1>3

LEMMA TrailStep == GatewayTypeOK /\ TrailInv /\ [GatewayNext]_gateway => TrailInv'
<1> SUFFICES ASSUME GatewayTypeOK, TrailInv, [GatewayNext]_gateway PROVE TrailInv'
  OBVIOUS
<1>1. ASSUME NEW c \in Calls, Ask(c) PROVE TrailInv'
  <2>1. PICK r \in Asked :
          \/ \E u \in Users : \/ JwtAuthGuard(c, u, r) \/ RbacGuard(c, u, r)
                              \/ RateLimitGuard(c, u, r) \/ Forward(c, u, r)
                              \/ \E role \in Role : Login(c, u, r, role)
          \/ LoginFails(c, r)
          \/ \E a \in Addresses, solved, evict \in BOOLEAN : Verify(c, r, a, solved, evict)
          \/ VerifyRejected(c, r)
    BY <1>1 DEF Ask
  <2>2. r \in Route /\ call[c] = Unasked
    BY <1>1, RouteAssumption DEF Ask
  <2>3. CASE \E u \in Users : \/ JwtAuthGuard(c, u, r) \/ RbacGuard(c, u, r)
                              \/ RateLimitGuard(c, u, r)
    BY <2>2, <2>3, RefusedWellTold DEF JwtAuthGuard, RbacGuard, RateLimitGuard
  <2>4. CASE VerifyRejected(c, r)
    <3>1. ~r.mutates
      BY <2>4 DEF VerifyRejected, VerifyRoutes, Get
    <3> QED  BY <2>2, <2>4, <3>1, RefusedWellTold DEF VerifyRejected
  <2>5. CASE \E u \in Users : Forward(c, u, r)
    BY <2>2, <2>5, SentWellTold DEF Forward
  <2>6. CASE \E a \in Addresses, solved, evict \in BOOLEAN : Verify(c, r, a, solved, evict)
    BY <2>2, <2>6, SentWellTold DEF Verify
  <2>7. CASE (\E u \in Users, role \in Role : Login(c, u, r, role)) \/ LoginFails(c, r)
    BY <2>2, <2>7, LoginWellTold
  <2> QED  BY <2>1, <2>3, <2>4, <2>5, <2>6, <2>7
<1>2. ASSUME NEW c \in Calls, Return(c) PROVE TrailInv'
  BY <1>2, EndWellTold DEF Return
<1>3. ASSUME NEW c \in Calls, Unavailable(c) \/ DeadlinePasses(c) PROVE TrailInv'
  BY <1>3, EndWellTold DEF Unavailable, DeadlinePasses
<1>4. CASE TimePasses
  <2> SUFFICES ASSUME NEW c \in Calls PROVE WellTold(c)'
    BY DEF TrailInv
  <2>1. /\ call' = call /\ work' = work /\ trail' = trail /\ elapsed' = elapsed + 1
        /\ EventsOf(c)' = EventsOf(c)
    BY <1>4 DEF TimePasses, EventsOf
  <2>2. Pending(c) => elapsed + 1 <= call[c].at + Deadline
    <3> SUFFICES ASSUME Pending(c) PROVE elapsed + 1 <= call[c].at + Deadline
      OBVIOUS
    <3>1. call[c].at \in Nat /\ elapsed \in Nat
      BY PendingType DEF Pending, Unasked, GatewayTypeOK
    <3>2. ~(elapsed >= call[c].at + Deadline)
      BY <1>4 DEF TimePasses, Due, DeadlineOf
    <3> QED  BY <3>1, <3>2, GatewayAssumption
  <2> QED  BY <2>1, <2>2 DEF TrailInv, WellTold, Pending, Answered
<1>5. CASE UNCHANGED gateway
  BY <1>5 DEF gateway, TrailInv, WellTold, EventsOf, Pending, Answered
<1> QED  BY <1>1, <1>2, <1>3, <1>4, <1>5, ServiceWellTold, TimeoutWellTold DEF GatewayNext

\* For any requests, users, routes and times, with a deadline below the long
\* limit: what the audit trail says of success was done and was told, no
\* request that reached its handler has two events or, unless it timed out,
\* none, and no @LongRunning work is done in silence.
THEOREM TheAuditTells == GatewaySpec => []AuditTells
<1>1. GatewayInit => TrailInv
  BY DEF GatewayInit, TrailInv, WellTold, EventsOf, Pending, Answered, Unasked
<1>2. GatewayTypeOK /\ TrailInv => AuditTells
  <2> SUFFICES ASSUME GatewayTypeOK, TrailInv PROVE AuditTells
    OBVIOUS
  <2>1. \A e \in trail : ~e.failed => work[e.call] = "done" /\ Answered(e.call, {"ok"})
    <3> SUFFICES ASSUME NEW e \in trail, ~e.failed
                 PROVE  work[e.call] = "done" /\ Answered(e.call, {"ok"})
      OBVIOUS
    <3>1. e.call \in Calls /\ e \in EventsOf(e.call)
      BY DEF GatewayTypeOK, EventsOf
    <3> QED  BY <3>1 DEF TrailInv, WellTold
  <2>2. ASSUME NEW c \in Calls, Answered(c, {"ok", "unavailable", "rejected"}),
               call[c].route.mutates
        PROVE  \E e \in trail : \A f \in trail : f.call = c <=> f = e
    <3>1. PICK e : EventsOf(c) = {e}
      BY <2>2 DEF TrailInv, WellTold
    <3> QED  BY <3>1 DEF EventsOf
  <2>3. ASSUME NEW c \in Calls, Silent(c)
        PROVE  Answered(c, {"timeout"}) /\ ~call[c].route.long
    <3>1. WellTold(c) /\ EventsOf(c) = {} /\ work[c] = "done" /\ ~Pending(c)
          /\ call[c].route.mutates
      BY <2>3 DEF TrailInv, Silent, Told, EventsOf
    <3>2. call[c] # Unasked
      BY <3>1 DEF WellTold
    <3>3. call[c].answer \in {"unauthorized", "forbidden", "throttled", "rejected",
                              "pending", "ok", "unavailable", "timeout"}
      BY <3>2, PendingType
    <3> QED  BY <3>1, <3>3 DEF WellTold, Answered, Pending
  <2> QED  BY <2>1, <2>2, <2>3 DEF AuditTells
<1> QED  BY <1>1, <1>2, TrailStep, GatewayTypeCorrect, PTL DEF GatewaySpec

(***************************************************************************)
(* Public verification: the entry of an address is of its last window, and *)
(* has counted at least the checks that window let through; without an     *)
(* entry every window is over.                                             *)
(***************************************************************************)
Apart(v, w) == v.opened > w.opened + CaptchaWindow \/ w.opened > v.opened + CaptchaWindow

WindowsOf(a) ==
    /\ \A v, w \in windows[a] : v # w => Apart(v, w)
    /\ \A w \in windows[a] :
          /\ w.n <= CaptchaThreshold
          /\ captcha[a] = NoEntry => w.opened + CaptchaWindow < elapsed
          /\ captcha[a] # NoEntry =>
                /\ w.opened + CaptchaWindow <= captcha[a].resetAt
                /\ w.opened + CaptchaWindow = captcha[a].resetAt => w.n <= captcha[a].count

WindowInv == \A a \in Addresses : WindowsOf(a)

\* The types the arithmetic needs.
LEMMA WindowTypes ==
    ASSUME GatewayTypeOK, NEW a \in Addresses
    PROVE  /\ elapsed \in Nat
           /\ captcha[a] # NoEntry => captcha[a] \in [count : Nat \ {0}, resetAt : Nat]
           /\ \A w \in windows[a] : w.opened \in Nat /\ w.n \in Nat
                                    /\ w = [opened |-> w.opened, n |-> w.n]
BY DEF GatewayTypeOK

\* A check that opens a window: every earlier one is over.
LEMMA OpeningKeepsWindows ==
    ASSUME GatewayTypeOK, NEW a \in Addresses, WindowsOf(a), NEW costs \in {0, 1},
           captcha[a] = NoEntry \/ Expired(a),
           captcha'[a] = [count |-> 1, resetAt |-> elapsed + CaptchaWindow],
           windows'[a] = windows[a] \union {[opened |-> elapsed, n |-> costs]},
           elapsed' = elapsed
    PROVE  WindowsOf(a)'
<1> DEFINE new == [opened |-> elapsed, n |-> costs]
<1> USE GatewayAssumption
<1>1. \A w \in windows[a] : w.opened + CaptchaWindow < elapsed
  <2> SUFFICES ASSUME NEW w \in windows[a] PROVE w.opened + CaptchaWindow < elapsed
    OBVIOUS
  <2>1. CASE captcha[a] = NoEntry
    BY <2>1 DEF WindowsOf
  <2>2. CASE captcha[a] # NoEntry
    <3>1. w.opened + CaptchaWindow <= captcha[a].resetAt /\ captcha[a].resetAt < elapsed
      BY <2>2, WindowTypes DEF WindowsOf, Expired
    <3> QED  BY <2>2, <3>1, WindowTypes
  <2> QED  BY <2>1, <2>2
<1>2. \A w \in windows[a] : Apart(w, new) /\ Apart(new, w)
  BY <1>1, WindowTypes DEF Apart
<1>3. \A v, w \in windows'[a] : v # w => Apart(v, w)
  BY <1>2 DEF WindowsOf
<1>4. captcha'[a] # NoEntry /\ captcha'[a].count = 1
      /\ captcha'[a].resetAt = elapsed + CaptchaWindow
  BY DEF NoEntry
<1>5. ASSUME NEW w \in windows'[a]
      PROVE  /\ w.n <= CaptchaThreshold
             /\ w.opened + CaptchaWindow <= elapsed + CaptchaWindow
             /\ w.opened + CaptchaWindow = elapsed + CaptchaWindow => w.n <= 1
  <2>1. CASE w \in windows[a]
    BY <1>1, <2>1, WindowTypes DEF WindowsOf
  <2>2. CASE w = new
    BY <2>2, WindowTypes
  <2> QED  BY <1>5, <2>1, <2>2
<1> QED  BY <1>3, <1>4, <1>5 DEF WindowsOf, Apart

\* A check within the window: the one it counts for is the last.
LEMMA CountingKeepsWindows ==
    ASSUME GatewayTypeOK, NEW a \in Addresses, WindowsOf(a), NEW costs \in {0, 1},
           captcha[a] # NoEntry, costs = 1 => captcha[a].count < CaptchaThreshold,
           captcha'[a] = [captcha[a] EXCEPT !.count = @ + 1],
           windows'[a] = {IF w.opened + CaptchaWindow = captcha[a].resetAt
                          THEN [w EXCEPT !.n = @ + costs] ELSE w : w \in windows[a]},
           elapsed' = elapsed
    PROVE  WindowsOf(a)'
<1> DEFINE counted(w) == IF w.opened + CaptchaWindow = captcha[a].resetAt
                         THEN [w EXCEPT !.n = @ + costs] ELSE w
<1> USE GatewayAssumption
<1>1. captcha'[a].count = captcha[a].count + 1 /\ captcha'[a].resetAt = captcha[a].resetAt
      /\ captcha[a].count \in Nat \ {0}
  BY WindowTypes
<1>2. captcha'[a] # NoEntry
  BY <1>1 DEF NoEntry
<1>3. ASSUME NEW w \in windows[a]
      PROVE  /\ counted(w).opened = w.opened
             /\ counted(w).n = IF w.opened + CaptchaWindow = captcha[a].resetAt
                               THEN w.n + costs ELSE w.n
  BY WindowTypes
<1>4. ASSUME NEW w \in windows[a]
      PROVE  /\ counted(w).n <= CaptchaThreshold
             /\ counted(w).opened + CaptchaWindow <= captcha[a].resetAt
             /\ counted(w).opened + CaptchaWindow = captcha[a].resetAt
                   => counted(w).n <= captcha[a].count + 1
  <2>1. /\ w.n <= CaptchaThreshold /\ w.opened + CaptchaWindow <= captcha[a].resetAt
        /\ w.opened + CaptchaWindow = captcha[a].resetAt => w.n <= captcha[a].count
    BY DEF WindowsOf
  <2>2. w.n \in Nat /\ w.opened \in Nat
    BY WindowTypes
  <2> HIDE DEF counted
  <2> QED  BY <1>1, <1>3, <2>1, <2>2
<1>5. ASSUME NEW v \in windows[a], NEW w \in windows[a], counted(v) # counted(w)
      PROVE  Apart(counted(v), counted(w))
  <2>1. v # w
    BY <1>5
  <2>2. Apart(v, w)
    BY <2>1 DEF WindowsOf
  <2> HIDE DEF counted
  <2> QED  BY <1>3, <2>2 DEF Apart
<1>6. windows'[a] = {counted(w) : w \in windows[a]}
  OBVIOUS
<1> HIDE DEF counted
<1>7. \A v, w \in windows'[a] : v # w => Apart(v, w)
  BY <1>5, <1>6
<1>8. \A w \in windows'[a] :
         /\ w.n <= CaptchaThreshold
         /\ w.opened + CaptchaWindow <= captcha'[a].resetAt
         /\ w.opened + CaptchaWindow = captcha'[a].resetAt => w.n <= captcha'[a].count
  BY <1>1, <1>4, <1>6
<1> QED  BY <1>2, <1>7, <1>8 DEF WindowsOf, Apart

\* Another address's check may drop an entry whose window is over.
LEMMA DroppingKeepsWindows ==
    ASSUME GatewayTypeOK, NEW a \in Addresses, WindowsOf(a),
           captcha'[a] = captcha[a] \/ (captcha'[a] = NoEntry /\ Expired(a)),
           windows'[a] = windows[a], elapsed' = elapsed
    PROVE  WindowsOf(a)'
<1>1. CASE captcha'[a] = captcha[a]
  BY <1>1 DEF WindowsOf, Apart
<1>2. CASE captcha'[a] = NoEntry /\ Expired(a) /\ captcha[a] # NoEntry
  <2>1. \A w \in windows[a] : w.opened + CaptchaWindow < elapsed
    <3> SUFFICES ASSUME NEW w \in windows[a] PROVE w.opened + CaptchaWindow < elapsed
      OBVIOUS
    <3>1. w.opened + CaptchaWindow <= captcha[a].resetAt /\ captcha[a].resetAt < elapsed
      BY <1>2, WindowTypes DEF WindowsOf, Expired
    <3> QED  BY <1>2, <3>1, WindowTypes, GatewayAssumption
  <2> QED  BY <1>2, <2>1 DEF WindowsOf, Apart
<1> QED  BY <1>1, <1>2

LEMMA VerifyKeepsWindows ==
    ASSUME GatewayTypeOK, WindowInv, NEW c, NEW r, NEW a \in Addresses,
           NEW solved \in BOOLEAN, NEW evict \in BOOLEAN, Verify(c, r, a, solved, evict)
    PROVE  WindowInv'
<1> SUFFICES ASSUME NEW b \in Addresses PROVE WindowsOf(b)'
  BY DEF WindowInv
<1>1. WindowsOf(b) /\ elapsed' = elapsed
  BY DEF WindowInv, Verify
<1> DEFINE costs == IF solved THEN 0 ELSE 1
<1>2. costs \in {0, 1} /\ (costs = 1 => ~NeedsCaptcha(a))
  BY DEF Verify
<1>3. windows' = [windows EXCEPT ![a] =
         IF captcha[a] = NoEntry \/ Expired(a)
         THEN @ \union {[opened |-> elapsed, n |-> costs]}
         ELSE {IF w.opened + CaptchaWindow = captcha[a].resetAt
               THEN [w EXCEPT !.n = @ + costs] ELSE w : w \in @}]
  BY DEF Verify
<1> HIDE DEF costs
<1>4. CASE b # a
  <2>1. captcha'[b] = IF evict /\ Expired(b) THEN NoEntry ELSE captcha[b]
    BY <1>4 DEF Verify, Count
  <2>2. windows'[b] = windows[b]
    BY <1>3, <1>4 DEF GatewayTypeOK
  <2> QED  BY <1>1, <2>1, <2>2, DroppingKeepsWindows
<1>5. CASE b = a /\ (captcha[a] = NoEntry \/ Expired(a))
  <2>1. captcha'[a] = [count |-> 1, resetAt |-> elapsed + CaptchaWindow]
    BY <1>5 DEF Verify, Count
  <2>2. windows'[a] = windows[a] \union {[opened |-> elapsed, n |-> costs]}
    BY <1>3, <1>5 DEF GatewayTypeOK
  <2> QED  BY <1>1, <1>2, <1>5, <2>1, <2>2, OpeningKeepsWindows
<1>6. CASE b = a /\ captcha[a] # NoEntry /\ ~Expired(a)
  <2>1. captcha'[a] = [captcha[a] EXCEPT !.count = @ + 1]
    BY <1>6 DEF Verify, Count
  <2>2. windows'[a] = {IF w.opened + CaptchaWindow = captcha[a].resetAt
                       THEN [w EXCEPT !.n = @ + costs] ELSE w : w \in windows[a]}
    BY <1>3, <1>6 DEF GatewayTypeOK
  <2>3. costs = 1 => captcha[a].count < CaptchaThreshold
    BY <1>2, <1>6, WindowTypes, GatewayAssumption DEF NeedsCaptcha
  <2> QED  BY <1>1, <1>2, <1>6, <2>1, <2>2, <2>3, CountingKeepsWindows
<1> QED  BY <1>4, <1>5, <1>6

LEMMA WindowStep == GatewayTypeOK /\ WindowInv /\ [GatewayNext]_gateway => WindowInv'
<1> SUFFICES ASSUME GatewayTypeOK, WindowInv, [GatewayNext]_gateway PROVE WindowInv'
  OBVIOUS
<1>1. CASE UNCHANGED <<elapsed, captcha, windows>>
  BY <1>1 DEF WindowInv, WindowsOf, Apart
<1>2. ASSUME NEW c \in Calls, NEW r, NEW a \in Addresses, NEW solved \in BOOLEAN,
             NEW evict \in BOOLEAN, Verify(c, r, a, solved, evict)
      PROVE  WindowInv'
  BY <1>2, VerifyKeepsWindows
<1>3. CASE TimePasses
  <2> SUFFICES ASSUME NEW a \in Addresses PROVE WindowsOf(a)'
    BY DEF WindowInv
  <2>1. captcha' = captcha /\ windows' = windows /\ elapsed' = elapsed + 1
    BY <1>3 DEF TimePasses
  <2>2. ASSUME NEW w \in windows[a], w.opened + CaptchaWindow < elapsed
        PROVE  w.opened + CaptchaWindow < elapsed + 1
    BY <2>2, WindowTypes, GatewayAssumption
  <2> QED  BY <2>1, <2>2 DEF WindowInv, WindowsOf, Apart
<1>4. ASSUME NEW c \in Calls, Ask(c) PROVE WindowInv'
  BY <1>1, <1>2, <1>4
     DEF Ask, JwtAuthGuard, RbacGuard, RateLimitGuard, VerifyRejected, Refuse, Forward,
         Login, LoginFails
<1>5. ASSUME NEW c \in Calls,
             \/ Serve(c) \/ ServiceFails(c) \/ Return(c) \/ Unavailable(c)
             \/ DeadlinePasses(c) \/ TimesOut(c)
      PROVE  WindowInv'
  BY <1>1, <1>5
     DEF Serve, ServiceFails, Return, Unavailable, DeadlinePasses, TimesOut, Ends
<1>6. CASE UNCHANGED gateway
  BY <1>1, <1>6 DEF gateway
<1> QED  BY <1>3, <1>4, <1>5, <1>6 DEF GatewayNext

\* However its checks, those of the other addresses and the sweeps of the
\* expired entries interleave, an address has no more free checks in a window
\* than the threshold, and its windows do not overlap.
THEOREM FreeChecksStayFew == GatewaySpec => []FreeChecksAreFew
<1>1. GatewayInit => WindowInv
  BY DEF GatewayInit, WindowInv, WindowsOf
<1>2. WindowInv => FreeChecksAreFew
  BY DEF WindowInv, WindowsOf, Apart, FreeChecksAreFew
<1> QED  BY <1>1, <1>2, WindowStep, GatewayTypeCorrect, PTL DEF GatewaySpec
=============================================================================
