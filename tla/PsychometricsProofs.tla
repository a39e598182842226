------------------------ MODULE PsychometricsProofs ------------------------
(***************************************************************************)
(* Proofs about the questions and what is computed of them.  For any       *)
(* templates, edits and clients, requests that do not overlap leave a bank *)
(* that can be used; for any field tests, messages and failures, flags and *)
(* profiles follow the fits; and for any results and any equated scores,   *)
(* candidates' documents and summary tell of one run of the equator.       *)
(***************************************************************************)
EXTENDS QuestionBank, ScoreEquating, FiniteSetTheorems, SequenceTheorems,
        WellFoundedInduction, TLAPS

(***************************************************************************)
(* Calibration: the median of the fits.                                    *)
(***************************************************************************)
Extremal(S) == /\ \E n \in S : \A m \in S : m <= n
               /\ \E n \in S : \A m \in S : n <= m

\* One more number than a set whose largest and least are known.
LEMMA ExtremalWithOne ==
    ASSUME NEW S \in SUBSET Int, NEW x \in S, S \ {x} = {} \/ Extremal(S \ {x})
    PROVE  Extremal(S)
<1>1. CASE S \ {x} = {}
  <2>1. \A m \in S : m = x
    BY <1>1
  <2>2. QED
    BY <2>1 DEF Extremal
<1>2. CASE Extremal(S \ {x})
  <2>1. PICK hi \in S \ {x}, lo \in S \ {x} : \A m \in S \ {x} : m <= hi /\ lo <= m
    BY <1>2 DEF Extremal
  <2>2. x \in Int /\ hi \in Int /\ lo \in Int
    OBVIOUS
  <2>3. \E n \in S : \A m \in S : m <= n
    <3>1. CASE x <= hi
      BY <2>1, <3>1
    <3>2. CASE ~(x <= hi)
      <4>1. \A m \in S : m <= x
        BY <2>1, <2>2, <3>2
      <4>2. QED
        BY <4>1
    <3>3. QED
      BY <3>1, <3>2
  <2>4. \E n \in S : \A m \in S : n <= m
    <3>1. CASE lo <= x
      BY <2>1, <3>1
    <3>2. CASE ~(lo <= x)
      <4>1. \A m \in S : x <= m
        BY <2>1, <2>2, <3>2
      <4>2. QED
        BY <4>1
    <3>3. QED
      BY <3>1, <3>2
  <2>5. QED
    BY <2>3, <2>4 DEF Extremal
<1>3. QED
  BY <1>1, <1>2

LEMMA FiniteIsExtremal ==
    ASSUME NEW S \in SUBSET Int, IsFiniteSet(S), S # {}
    PROVE  Extremal(S)
<1> DEFINE Bad(T, n) == T \in SUBSET Int /\ IsFiniteSet(T) /\ T # {}
                        /\ Cardinality(T) = n /\ ~Extremal(T)
           bad == {n \in Nat : \E T : Bad(T, n)}
<1>1. SUFFICES ASSUME ~Extremal(S) PROVE FALSE
  OBVIOUS
<1>2. Cardinality(S) \in bad
  BY <1>1, FS_CardinalityType
<1>3. PICK n \in bad : \A x \in bad : <<x, n>> \notin OpToRel(<, Nat)
  <2>1. bad \in SUBSET Nat /\ bad # {}
    BY <1>2
  <2> HIDE DEF bad
  <2>2. QED
    BY <2>1, NatLessThanWellFounded, WFMin, Zenon
<1>4. PICK T : Bad(T, n)
  OBVIOUS
<1>5. PICK x \in T : TRUE
  BY <1>4
<1>6. IsFiniteSet(T \ {x}) /\ Cardinality(T \ {x}) = n - 1
  BY <1>4, <1>5, FS_RemoveElement
<1>7. n - 1 \in Nat /\ n - 1 < n
  BY <1>6, FS_CardinalityType
<1>8. <<n - 1, n>> \in OpToRel(<, Nat)
  BY <1>7, Zenon DEF OpToRel
<1>9. n - 1 \notin bad
  BY <1>3, <1>8
<1>10. T \ {x} = {} \/ Extremal(T \ {x})
  BY <1>4, <1>6, <1>7, <1>9
<1>11. Extremal(T)
  BY <1>4, <1>5, <1>10, ExtremalWithOne
<1>12. QED
  BY <1>4, <1>11

\* What the fits of some instantiations look like.
AllFitted(C, v) ==
    /\ C # {} /\ C \subseteq AllInsts /\ IsFiniteSet(C)
    /\ \A i \in C : Fits[v][i] \in [DOMAIN Epsilon -> Int]

LEMMA MedianIsInt ==
    ASSUME NEW C, NEW v, AllFitted(C, v), NEW k \in DOMAIN Epsilon
    PROVE  Median2(C, v, k) \in Int
<1> DEFINE of == {Fits[v][i][k] : i \in C}
           size == Cardinality(C)
           half == {n \in of : 2 * AtMost(C, v, k, n) >= size}
           more == {n \in of : 2 * AtMost(C, v, k, n) > size}
<1>1. of \in SUBSET Int /\ of # {} /\ IsFiniteSet(of)
  <2>1. \A i \in C : Fits[v][i][k] \in Int
    BY DEF AllFitted
  <2>2. [i \in C |-> Fits[v][i][k]] \in Surjection(C, of)
    BY DEF Surjection
  <2>3. IsFiniteSet(of)
    BY <2>2, FS_Surjection DEF AllFitted
  <2>4. QED
    BY <2>1, <2>3 DEF AllFitted
<1>2. PICK top \in of : \A m \in of : m <= top
  BY <1>1, FiniteIsExtremal DEF Extremal
<1>3. {i \in C : Fits[v][i][k] <= top} = C
  BY <1>2
<1>4. AtMost(C, v, k, top) = size /\ size \in Nat /\ size # 0
  BY <1>3, FS_CardinalityType, FS_EmptySet DEF AllFitted, AtMost
<1>5. top \in half /\ top \in more
  BY <1>4
<1>6. half \subseteq of /\ more \subseteq of
  OBVIOUS
<1>7. Median2(C, v, k) = Least(half) + Least(more)
  BY DEF Median2
<1> HIDE DEF half, more, of
<1>8. ASSUME NEW P, P \subseteq of, P # {} PROVE Least(P) \in Int
  <2>1. IsFiniteSet(P) /\ P \in SUBSET Int
    BY <1>1, <1>8, FS_Subset
  <2>2. \E n \in P : \A m \in P : n <= m
    BY <1>8, <2>1, FiniteIsExtremal DEF Extremal
  <2>3. QED
    BY <2>1, <2>2 DEF Least
<1>9. QED
  BY <1>5, <1>6, <1>7, <1>8

\* Half the tolerance on either side of the median is the tolerance between two.
LEMMA UnflaggedIsWithin ==
    ASSUME NEW C, NEW v, AllFitted(C, v), Flagged(C, v) = {},
           NEW i \in C, NEW j \in C, NEW k \in DOMAIN Epsilon
    PROVE  Fits[v][i][k] - Fits[v][j][k] <= Epsilon[k]
<1>1. Median2(C, v, k) \in Int /\ Epsilon[k] \in Int
  BY MedianIsInt, CalibrationAssumption
<1>2. ASSUME NEW x \in C
      PROVE  /\ Fits[v][x][k] \in Int
             /\ 2 * Fits[v][x][k] - Median2(C, v, k) <= Epsilon[k]
             /\ Median2(C, v, k) - 2 * Fits[v][x][k] <= Epsilon[k]
  <2>1. Fits[v][x][k] \in Int
    BY DEF AllFitted
  <2> DEFINE off == 2 * Fits[v][x][k] - Median2(C, v, k)
  <2>2. ~((IF off < 0 THEN -off ELSE off) > Epsilon[k])
    BY DEF Flagged
  <2>3. QED
    BY <1>1, <2>1, <2>2
<1>3. QED
  BY <1>1, <1>2

(***************************************************************************)
(* Calibration: the invariant.                                             *)
(***************************************************************************)
States == {"none", "sent", "taken", "acked", "nacked"}
Phases == {"idle", "load", "parameters", "profiles", "verdict", "instantiations", "ack"}

CalTypes ==
    /\ fielded \in 0..Len(Fits)
    /\ mail \in [CalMsgs -> [state : States, template : {None} \union Templates]]
    /\ phase \in Phases
    /\ DOMAIN profile = AllInsts /\ DOMAIN instDoc = AllInsts /\ DOMAIN verdict = Templates

\* The worker has at most one message.
OneLetter ==
    /\ phase # "idle" => /\ letter \in CalMsgs /\ mail[letter].state = "taken"
                         /\ mail[letter].template \in Templates
    /\ \A m \in CalMsgs : mail[m].state = "taken" => phase # "idle" /\ m = letter

\* What has a document can be fitted.
DocsAreFitted ==
    \A i \in AllInsts : instDoc[i] # None => fielded > 0 /\ Fits[fielded][i] # None

\* What the worker has loaded, of the template t.
Loaded(t) ==
    /\ data \in 1..Len(Fits)
    /\ Fitted(t, data) # {} /\ done \subseteq Fitted(t, data)
    /\ Fitted(t, data) \subseteq Fitted(t, fielded)
    /\ \A i \in Insts[t] : instDoc[i] # None => i \in Fitted(t, data)

Result(t, i) == [irt |-> Fits[data][i], flagged |-> i \in Flagged(Fitted(t, data), data)]

\* What it has written by now.
Progress(t) ==
    /\ phase = "profiles" => \A i \in done : profile[i] = data
    /\ phase \in {"verdict", "instantiations", "ack"} =>
          \A i \in Fitted(t, data) : profile[i] = data
    /\ phase \in {"instantiations", "ack"} =>
          verdict[t] = [equivalent |-> Equivalent(Fitted(t, data), data),
                        flagged |-> Flagged(Fitted(t, data), data)]
    /\ phase = "instantiations" => \A i \in done : instDoc[i] = Result(t, i)
    /\ phase = "ack" => \A i \in Fitted(t, data) : instDoc[i] = Result(t, i)

WorkerOK ==
    /\ phase \notin {"profiles", "instantiations"} => done = {}
    /\ phase \notin {"idle", "load"} =>
          Loaded(mail[letter].template) /\ Progress(mail[letter].template)

\* The stores tell one story of the template t.
Agrees(t) ==
    verdict[t] # None =>
        LET written == {i \in Insts[t] : instDoc[i] # None} IN
        /\ written # {}
        /\ \A i \in written : /\ instDoc[i].irt = Fits[profile[i]][i]
                              /\ instDoc[i].flagged <=> i \in verdict[t].flagged
        /\ verdict[t].flagged = {} =>
              \A i, j \in written, k \in DOMAIN Epsilon :
                  instDoc[i].irt[k] - instDoc[j].irt[k] <= Epsilon[k]

\* Its message is with the worker or will come back, and can be handled then.
Unsettled(t) ==
    /\ \E m \in CalMsgs : mail[m].template = t /\ mail[m].state \in {"nacked", "taken"}
    /\ Fitted(t, fielded) # {}

AllAgree == \A t \in Templates : Agrees(t) \/ Unsettled(t)

CalInv == CalTypes /\ OneLetter /\ DocsAreFitted /\ WorkerOK /\ AllAgree

\* The parameters a document has are those of a fit.
LEMMA LoadedIsFitted ==
    ASSUME NEW t \in Templates, data \in 1..Len(Fits), Fitted(t, data) # {}
    PROVE  AllFitted(Fitted(t, data), data)
<1>1. Fitted(t, data) \subseteq Insts[t] /\ Insts[t] \subseteq AllInsts
  BY DEF Fitted, AllInsts
<1>2. IsFiniteSet(Fitted(t, data))
  BY <1>1, FS_Subset, CalibrationAssumption
<1>3. Fits[data] \in [AllInsts -> {None} \union [DOMAIN Epsilon -> Int]]
  BY CalibrationAssumption
<1>4. \A i \in Fitted(t, data) : Fits[data][i] \in [DOMAIN Epsilon -> Int]
  BY <1>1, <1>3 DEF Fitted
<1>5. QED
  BY <1>1, <1>2, <1>4 DEF AllFitted

LEMMA ResultIsDocument ==
    ASSUME NEW t \in Templates, data \in 1..Len(Fits), NEW i \in Fitted(t, data)
    PROVE  Result(t, i) # None
<1>1. Fits[data][i] \in [DOMAIN Epsilon -> Int]
  BY LoadedIsFitted DEF AllFitted
<1>2. Result(t, i) \in [irt : [DOMAIN Epsilon -> Int], flagged : BOOLEAN]
  BY <1>1 DEF Result
<1>3. QED
  BY <1>2, CalibrationAssumption

\* Every calibration that comes to its end leaves one story.
LEMMA AckAgrees ==
    ASSUME CalInv, phase = "ack"
    PROVE  Agrees(mail[letter].template)
<1> DEFINE t == mail[letter].template
           C == Fitted(t, data)
           written == {i \in Insts[t] : instDoc[i] # None}
<1>1. t \in Templates /\ Loaded(t) /\ Progress(t)
  BY DEF CalInv, OneLetter, WorkerOK
<1>2. AllFitted(C, data)
  BY <1>1, LoadedIsFitted DEF Loaded
<1>3. \A i \in C : profile[i] = data /\ instDoc[i] = Result(t, i) /\ instDoc[i] # None
  BY <1>1, ResultIsDocument DEF Loaded, Progress
<1>4. written = C
  <2>1. C \subseteq Insts[t]
    BY DEF Fitted
  <2>2. QED
    BY <1>1, <1>3, <2>1 DEF Loaded
<1>5. verdict[t].flagged = Flagged(C, data)
  BY <1>1 DEF Progress
<1>6. ASSUME NEW i \in C
      PROVE  instDoc[i].irt = Fits[data][i] /\ (instDoc[i].flagged <=> i \in Flagged(C, data))
  <2>1. instDoc[i] = Result(t, i)
    BY <1>3
  <2>2. instDoc[i] = [irt |-> Fits[data][i], flagged |-> i \in Flagged(C, data)]
    BY <2>1, Zenon DEF Result
  <2> DEFINE listed == i \in Flagged(C, data)
  <2>3. instDoc[i].irt = Fits[data][i]
    BY <2>2
  <2>4. instDoc[i].flagged = listed
    <3>1. instDoc[i] = [irt |-> Fits[data][i], flagged |-> listed]
      BY <2>2
    <3> HIDE DEF listed
    <3>2. QED
      BY <3>1
  <2>5. QED
    BY <2>3, <2>4, Zenon
<1>7. C # {}
  BY <1>1 DEF Loaded
<1>8. ASSUME verdict[t].flagged = {}, NEW i \in C, NEW j \in C, NEW k \in DOMAIN Epsilon
      PROVE  instDoc[i].irt[k] - instDoc[j].irt[k] <= Epsilon[k]
  <2>1. Fits[data][i][k] - Fits[data][j][k] <= Epsilon[k]
    BY <1>2, <1>5, <1>8, UnflaggedIsWithin
  <2>2. QED
    BY <1>6, <2>1
<1>9. \A i \in C : /\ instDoc[i].irt = Fits[profile[i]][i]
                   /\ instDoc[i].flagged <=> i \in verdict[t].flagged
  BY <1>3, <1>5, <1>6
<1> HIDE DEF C
<1>10. QED
  BY <1>4, <1>7, <1>8, <1>9 DEF Agrees

LEMMA AgreesStays ==
    ASSUME UNCHANGED stores, NEW t
    PROVE  Agrees(t)' <=> Agrees(t)
BY DEF stores, Agrees

LEMMA LoadedStays ==
    ASSUME UNCHANGED <<fielded, worker, stores>>, NEW t
    PROVE  (Loaded(t)' <=> Loaded(t)) /\ (Progress(t)' <=> Progress(t))
<1>1. Fitted(t, fielded)' = Fitted(t, fielded)
  BY DEF Fitted
<1>2. fielded' = fielded /\ phase' = phase /\ data' = data /\ done' = done
      /\ profile' = profile /\ verdict' = verdict /\ instDoc' = instDoc
  BY DEF worker, stores
<1>3. Loaded(t)' <=> Loaded(t)
  BY <1>1, <1>2, Zenon DEF Loaded
<1>4. QED
  BY <1>2, <1>3, Zenon DEF Progress, Result

\* The worker parts with its message.
LEMMA SettleKeeps ==
    ASSUME CalInv, NEW state \in {"acked", "nacked"}, phase # "idle", Settle(state),
           UNCHANGED <<fielded, stores>>,
           state = "acked" => Agrees(mail[letter].template)
    PROVE  CalInv'
<1>1. letter \in CalMsgs /\ mail[letter].state = "taken"
  BY DEF CalInv, OneLetter
<1>2. \A m \in CalMsgs : /\ mail'[m].template = mail[m].template
                         /\ mail'[m].state = IF m = letter THEN state ELSE mail[m].state
  BY <1>1 DEF CalInv, CalTypes, Settle
<1>3. CalTypes'
  BY <1>1 DEF CalInv, CalTypes, Settle, stores, States, Phases
<1>4. OneLetter'
  BY <1>1, <1>2 DEF CalInv, OneLetter, Settle
<1>5. DocsAreFitted'
  BY DEF CalInv, DocsAreFitted, stores
<1>6. WorkerOK'
  BY DEF WorkerOK, Settle
<1>7. ASSUME NEW t \in Templates PROVE Agrees(t)' \/ Unsettled(t)'
  <2>1. CASE Agrees(t)
    BY <2>1, AgreesStays
  <2>2. CASE ~Agrees(t)
    <3>1. Unsettled(t)
      BY <2>2 DEF CalInv, AllAgree
    <3>2. PICK m \in CalMsgs : mail[m].template = t /\ mail[m].state \in {"nacked", "taken"}
      BY <3>1 DEF Unsettled
    <3>3. mail'[m].template = t /\ mail'[m].state \in {"nacked", "taken"}
      <4>1. m = letter => state = "nacked"
        BY <2>2, <3>2
      <4>2. QED
        BY <1>2, <3>2, <4>1
    <3>4. Fitted(t, fielded)' # {}
      BY <3>1 DEF Unsettled, Fitted
    <3>5. QED
      BY <3>3, <3>4 DEF Unsettled
  <2>3. QED
    BY <2>1, <2>2
<1>8. QED
  BY <1>3, <1>4, <1>5, <1>6, <1>7 DEF CalInv, AllAgree

\* What is around the worker: another message's state.
LEMMA OtherMailKeeps ==
    ASSUME CalInv, NEW m \in CalMsgs, NEW letter2 \in [state : {"sent", "acked"}, template : {None} \union Templates],
           mail[m].state \in {"none", "sent"}, mail' = [mail EXCEPT ![m] = letter2],
           UNCHANGED <<fielded, worker, stores>>
    PROVE  CalInv'
<1>1. \A x \in CalMsgs : x # m => mail'[x] = mail[x]
  BY DEF CalInv, CalTypes
<1>2. mail'[m] = letter2
  BY DEF CalInv, CalTypes
<1>3. phase # "idle" => letter # m
  BY DEF CalInv, OneLetter
<1>4. CalTypes'
  BY DEF CalInv, CalTypes, worker, stores, States
<1>5. OneLetter'
  BY <1>1, <1>2, <1>3 DEF CalInv, OneLetter, worker
<1>6. DocsAreFitted'
  BY DEF CalInv, DocsAreFitted, stores
<1>7. WorkerOK'
  <2>1. CASE phase \in {"idle", "load"}
    BY <2>1 DEF CalInv, WorkerOK, worker
  <2>2. CASE phase \notin {"idle", "load"}
    <3>1. letter \in CalMsgs /\ mail'[letter'] = mail[letter]
      BY <1>1, <1>3, <2>2 DEF CalInv, OneLetter, worker
    <3> DEFINE t == mail[letter].template
    <3>2. Loaded(t) /\ Progress(t)
      BY <2>2 DEF CalInv, WorkerOK
    <3>3. t' = t
      BY <3>1
    <3>4. Loaded(t)' /\ Progress(t)'
      <4> HIDE DEF t
      <4>1. QED
        BY <3>2, <3>3, LoadedStays
    <3>5. QED
      BY <2>2, <3>4 DEF CalInv, WorkerOK, worker
  <2>3. QED
    BY <2>1, <2>2
<1>8. ASSUME NEW t \in Templates PROVE Agrees(t)' \/ Unsettled(t)'
  <2>1. CASE Agrees(t)
    BY <2>1, AgreesStays
  <2>2. CASE Unsettled(t)
    BY <1>1, <2>2 DEF Unsettled, Fitted
  <2>3. QED
    BY <2>1, <2>2 DEF CalInv, AllAgree
<1>9. QED
  BY <1>4, <1>5, <1>6, <1>7, <1>8 DEF CalInv, AllAgree

LEMMA MailIsRecord ==
    ASSUME CalInv, NEW m \in CalMsgs, NEW s
    PROVE  [mail[m] EXCEPT !.state = s] = [state |-> s, template |-> mail[m].template]
<1>1. mail[m] \in [state : States, template : {None} \union Templates]
  BY DEF CalInv, CalTypes
<1>2. QED
  BY <1>1

LEMMA DropMailKeeps ==
    ASSUME CalInv, NEW m \in CalMsgs, DropMail(m)
    PROVE  CalInv'
<1>1. PICK l \in [state : {"sent", "acked"}, template : {None} \union Templates] :
        l = [state |-> "acked", template |-> mail[m].template]
  BY DEF CalInv, CalTypes
<1>2. mail' = [mail EXCEPT ![m] = l]
  <2>1. mail' = [mail EXCEPT ![m] = [mail[m] EXCEPT !.state = "acked"]]
    BY DEF DropMail
  <2>2. QED
    BY <1>1, <2>1, MailIsRecord
<1>3. mail[m].state \in {"none", "sent"} /\ UNCHANGED <<fielded, worker, stores>>
  BY DEF DropMail
<1>4. QED
  BY <1>2, <1>3, OtherMailKeeps

LEMMA PublishKeeps ==
    ASSUME CalInv, NEW m \in CalMsgs, NEW t \in Templates, PublishToIrtCalibration(m, t)
    PROVE  CalInv'
<1>1. [state |-> "sent", template |-> t] \in [state : {"sent", "acked"}, template : {None} \union Templates]
  OBVIOUS
<1>2. QED
  BY <1>1, OtherMailKeeps DEF PublishToIrtCalibration

LEMMA NothingKeeps ==
    ASSUME CalInv, UNCHANGED calVars
    PROVE  CalInv'
<1>1. /\ UNCHANGED <<fielded, worker, stores>>
      /\ letter' = letter /\ phase' = phase /\ done' = done /\ mail' = mail /\ instDoc' = instDoc
  BY DEF calVars, worker, stores
<1>2. CalTypes'
  BY DEF CalInv, CalTypes, calVars, worker, stores
<1>3. OneLetter' /\ DocsAreFitted'
  BY <1>1 DEF CalInv, OneLetter, DocsAreFitted
<1>4. WorkerOK'
  BY <1>1, LoadedStays DEF CalInv, WorkerOK
<1>5. AllAgree'
  BY <1>1, AgreesStays DEF CalInv, AllAgree, Unsettled, Fitted
<1>6. QED
  BY <1>2, <1>3, <1>4, <1>5 DEF CalInv

LEMMA PublishFieldTestKeeps ==
    ASSUME CalInv, NEW c, PublishFieldTest(c)
    PROVE  CalInv'
<1>1. CASE UNCHANGED mail
  <2>1. UNCHANGED calVars
    BY <1>1 DEF PublishFieldTest, calVars
  <2>2. QED
    BY <2>1, NothingKeeps
<1>2. CASE \E m \in CalMsgs : mail[m].state = "none" /\ mail' = [mail EXCEPT ![m].state = "sent"]
  <2>1. PICK m \in CalMsgs : mail[m].state = "none" /\ mail' = [mail EXCEPT ![m].state = "sent"]
    BY <1>2
  <2>2. PICK l \in [state : {"sent", "acked"}, template : {None} \union Templates] :
          l = [state |-> "sent", template |-> mail[m].template]
    BY DEF CalInv, CalTypes
  <2>3. mail' = [mail EXCEPT ![m] = l]
    <3>1. mail' = [mail EXCEPT ![m] = [mail[m] EXCEPT !.state = "sent"]]
      BY <2>1
    <3>2. QED
      BY <2>2, <3>1, MailIsRecord
  <2>4. UNCHANGED <<fielded, worker, stores>>
    BY DEF PublishFieldTest
  <2>5. QED
    BY <2>1, <2>3, <2>4, OtherMailKeeps
<1>3. QED
  BY <1>1, <1>2 DEF PublishFieldTest

\* A further field test takes no fit back.
LEMMA FieldTestKeeps ==
    ASSUME CalInv, FieldTestRuns
    PROVE  CalInv'
<1>1. fielded \in 0..(Len(Fits) - 1) /\ fielded' = fielded + 1 /\ Len(Fits) \in Nat
  BY CalibrationAssumption DEF CalInv, CalTypes, FieldTestRuns
<1>2. /\ mail' = mail /\ phase' = phase /\ letter' = letter /\ data' = data /\ done' = done
      /\ profile' = profile /\ verdict' = verdict /\ instDoc' = instDoc /\ UNCHANGED stores
  BY DEF FieldTestRuns, worker, stores
<1>3. \A i \in AllInsts : fielded > 0 /\ Fits[fielded][i] # None => Fits[fielded + 1][i] # None
  <2>1. \A v \in 1 .. Len(Fits) - 1, i \in AllInsts : Fits[v][i] # None => Fits[v + 1][i] # None
    BY CalibrationAssumption
  <2>2. fielded > 0 => fielded \in 1 .. Len(Fits) - 1
    BY <1>1
  <2>3. QED
    BY <2>1, <2>2
<1>4. \A t \in Templates : Fitted(t, fielded) \subseteq Fitted(t, fielded)'
  BY <1>1, <1>3 DEF Fitted, AllInsts
<1>5. CalTypes'
  BY <1>1, <1>2 DEF CalInv, CalTypes
<1>6. OneLetter'
  BY <1>2 DEF CalInv, OneLetter
<1>7. DocsAreFitted'
  BY <1>1, <1>2, <1>3 DEF CalInv, DocsAreFitted
<1>8. WorkerOK'
  <2>1. CASE phase \in {"idle", "load"}
    BY <1>2, <2>1 DEF CalInv, WorkerOK
  <2>2. CASE phase \notin {"idle", "load"}
    <3>1. PICK t \in Templates : t = mail[letter].template
      BY <2>2 DEF CalInv, OneLetter
    <3>2. Loaded(t) /\ Progress(t)
      BY <2>2, <3>1 DEF CalInv, WorkerOK
    <3>3. Fitted(t, data)' = Fitted(t, data)
      BY <1>2 DEF Fitted
    <3>4. Loaded(t)'
      BY <1>2, <1>4, <3>2, <3>3 DEF Loaded
    <3>5. Progress(t)'
      BY <1>2, <3>2, Zenon DEF Progress, Result
    <3>6. mail'[letter'].template = t
      BY <1>2, <3>1
    <3>7. QED
      BY <1>2, <3>4, <3>5, <3>6 DEF CalInv, WorkerOK
  <2>3. QED
    BY <2>1, <2>2
<1>9. ASSUME NEW t \in Templates PROVE Agrees(t)' \/ Unsettled(t)'
  <2>1. CASE Agrees(t)
    BY <1>2, <2>1, AgreesStays
  <2>2. CASE Unsettled(t)
    BY <1>2, <1>4, <2>2 DEF Unsettled
  <2>3. QED
    BY <2>1, <2>2 DEF CalInv, AllAgree
<1>10. QED
  BY <1>5, <1>6, <1>7, <1>8, <1>9 DEF CalInv, AllAgree

LEMMA TakeMailKeeps ==
    ASSUME CalInv, NEW m \in CalMsgs, TakeMail(m)
    PROVE  CalInv'
<1>1. /\ fielded' = fielded /\ phase = "idle" /\ phase' = "load" /\ letter' = m
      /\ data' = data /\ done' = done /\ UNCHANGED stores /\ mail[m].state \in {"sent", "nacked"}
  BY DEF TakeMail, Free
<1>2. \A x \in CalMsgs : /\ mail'[x].template = mail[x].template
                         /\ mail'[x].state = IF x = m THEN "taken" ELSE mail[x].state
  BY DEF CalInv, CalTypes, TakeMail
<1>3. CalTypes'
  BY <1>1 DEF CalInv, CalTypes, TakeMail, stores, States, Phases
<1>4. OneLetter'
  <2>1. mail[m].template \in Templates
    BY DEF CalInv, CalTypes, TakeMail
  <2>2. QED
    BY <1>1, <1>2, <2>1 DEF CalInv, OneLetter
<1>5. DocsAreFitted'
  BY <1>1 DEF CalInv, DocsAreFitted, stores
<1>6. WorkerOK'
  BY <1>1 DEF CalInv, WorkerOK
<1>7. ASSUME NEW t \in Templates PROVE Agrees(t)' \/ Unsettled(t)'
  <2>1. CASE Agrees(t)
    BY <1>1, <2>1, AgreesStays
  <2>2. CASE Unsettled(t)
    <3>1. PICK x \in CalMsgs : mail[x].template = t /\ mail[x].state \in {"nacked", "taken"}
      BY <2>2 DEF Unsettled
    <3>2. mail'[x].template = t /\ mail'[x].state \in {"nacked", "taken"}
      BY <1>2, <3>1
    <3>3. QED
      BY <1>1, <2>2, <3>2 DEF Unsettled, Fitted
  <2>3. QED
    BY <2>1, <2>2 DEF CalInv, AllAgree
<1>8. QED
  BY <1>3, <1>4, <1>5, <1>6, <1>7 DEF CalInv, AllAgree

LEMMA LoadKeeps ==
    ASSUME CalInv, Load
    PROVE  CalInv'
<1>1. /\ fielded' = fielded /\ phase = "load" /\ phase' = "parameters" /\ letter' = letter
      /\ data' = fielded /\ done' = done /\ mail' = mail /\ UNCHANGED stores /\ instDoc' = instDoc
  BY DEF Load, stores
<1>2. PICK t \in Templates : t = mail[letter].template
  BY <1>1 DEF CalInv, OneLetter
<1>3. Fitted(t, fielded) # {}
  <2>1. Cardinality(Fitted(t, fielded)) > 1
    BY <1>2 DEF Load
  <2>2. QED
    BY <2>1, FS_EmptySet
<1>4. CalTypes'
  BY <1>1 DEF CalInv, CalTypes, stores, Phases
<1>5. OneLetter'
  BY <1>1 DEF CalInv, OneLetter
<1>6. DocsAreFitted'
  BY <1>1 DEF CalInv, DocsAreFitted
<1>7. Fitted(t, data)' = Fitted(t, fielded) /\ Fitted(t, fielded)' = Fitted(t, fielded)
  BY <1>1 DEF Fitted
<1>8. Loaded(t)'
  <2>1. fielded \in 1..Len(Fits)
    BY <1>3, CalibrationAssumption DEF CalInv, CalTypes, Fitted
  <2>2. done = {}
    BY <1>1 DEF CalInv, WorkerOK
  <2>3. \A i \in Insts[t] : instDoc[i] # None => i \in Fitted(t, fielded)
    BY DEF CalInv, DocsAreFitted, Fitted, AllInsts
  <2>4. QED
    BY <1>1, <1>3, <1>7, <2>1, <2>2, <2>3 DEF Loaded
<1>9. WorkerOK'
  <2>1. Progress(t)'
    BY <1>1 DEF Progress
  <2>2. mail'[letter'].template = t
    BY <1>1, <1>2
  <2>3. done' = {}
    BY <1>1 DEF CalInv, WorkerOK
  <2>4. QED
    BY <1>8, <2>1, <2>2, <2>3 DEF WorkerOK
<1>10. ASSUME NEW u \in Templates PROVE Agrees(u)' \/ Unsettled(u)'
  BY <1>1, AgreesStays DEF CalInv, AllAgree, Unsettled, Fitted
<1>11. QED
  BY <1>4, <1>5, <1>6, <1>9, <1>10 DEF CalInv, AllAgree

\* Trouble, or nothing to do: the message is settled.
LEMMA SettledKeeps ==
    ASSUME CalInv, NothingFitted \/ LoneInstantiation \/ AckMail \/ Fail
    PROVE  CalInv'
<1>1. UNCHANGED <<fielded, stores>> /\ phase # "idle"
  BY DEF NothingFitted, LoneInstantiation, AckMail, Fail
<1>2. CASE LoneInstantiation \/ Fail
  <2>1. Settle("nacked")
    BY <1>2 DEF LoneInstantiation, Fail
  <2>2. QED
    BY <1>1, <2>1, SettleKeeps
<1>3. CASE NothingFitted
  <2>1. mail[letter].template \in Templates /\ Fitted(mail[letter].template, fielded) = {}
    BY <1>1, <1>3 DEF CalInv, OneLetter, NothingFitted
  <2>2. Agrees(mail[letter].template)
    BY <2>1 DEF CalInv, AllAgree, Unsettled
  <2>3. Settle("acked")
    BY <1>3 DEF NothingFitted
  <2>4. QED
    BY <1>1, <2>2, <2>3, SettleKeeps
<1>4. CASE AckMail
  <2>1. Settle("acked") /\ phase = "ack"
    BY <1>4 DEF AckMail
  <2>2. QED
    BY <1>1, <2>1, AckAgrees, SettleKeeps
<1>5. QED
  BY <1>2, <1>3, <1>4

\* The instantiations of two templates are different ones.
LEMMA OthersAgree ==
    ASSUME NEW t \in Templates, NEW u \in Templates \ {t},
           \A i \in AllInsts \ Insts[t] : profile'[i] = profile[i] /\ instDoc'[i] = instDoc[i],
           verdict'[u] = verdict[u]
    PROVE  Agrees(u)' <=> Agrees(u)
<1>1. \A i \in Insts[u] : profile'[i] = profile[i] /\ instDoc'[i] = instDoc[i]
  BY CalibrationAssumption DEF AllInsts
<1>2. {i \in Insts[u] : instDoc[i] # None}' = {i \in Insts[u] : instDoc[i] # None}
  BY <1>1
<1>3. QED
  BY <1>1, <1>2 DEF Agrees

\* A write of the worker: its template may disagree until the message is
\* settled, the others are what they were.
LEMMA WritingAgrees ==
    ASSUME CalInv, phase \notin {"idle", "load"}, UNCHANGED <<fielded, mail>>,
           NEW t \in Templates, t = mail[letter].template,
           \A i \in AllInsts \ Insts[t] : profile'[i] = profile[i] /\ instDoc'[i] = instDoc[i],
           \A u \in Templates \ {t} : verdict'[u] = verdict[u]
    PROVE  AllAgree'
<1>1. Unsettled(t)'
  <2>1. letter \in CalMsgs /\ mail[letter].state = "taken"
    BY DEF CalInv, OneLetter
  <2>2. Fitted(t, fielded) # {}
    BY DEF CalInv, WorkerOK, Loaded
  <2>3. QED
    BY <2>1, <2>2 DEF Unsettled, Fitted
<1>2. ASSUME NEW u \in Templates \ {t} PROVE Agrees(u)' \/ Unsettled(u)'
  <2>1. Agrees(u)' <=> Agrees(u)
    BY OthersAgree
  <2>2. Unsettled(u)' <=> Unsettled(u)
    BY DEF Unsettled, Fitted
  <2>3. QED
    BY <2>1, <2>2 DEF CalInv, AllAgree
<1>3. QED
  BY <1>1, <1>2 DEF AllAgree

LEMMA WriteParametersKeeps ==
    ASSUME CalInv, WriteParameters
    PROVE  CalInv'
<1>1. /\ fielded' = fielded /\ phase = "parameters" /\ phase' = "profiles" /\ letter' = letter
      /\ data' = data /\ done' = done /\ mail' = mail
      /\ profile' = profile /\ verdict' = verdict /\ instDoc' = instDoc
  BY DEF WriteParameters
<1>2. PICK t \in Templates : t = mail[letter].template
  BY <1>1 DEF CalInv, OneLetter
<1>3. CalTypes' /\ OneLetter' /\ DocsAreFitted'
  BY <1>1 DEF CalInv, CalTypes, OneLetter, DocsAreFitted, Phases
<1>4. Loaded(t) /\ done = {}
  BY <1>1, <1>2 DEF CalInv, WorkerOK
<1>5. Loaded(t)' /\ Progress(t)'
  BY <1>1, <1>4 DEF Loaded, Fitted, Progress
<1>6. WorkerOK'
  <2>1. mail'[letter'].template = t
    BY <1>1, <1>2
  <2>2. QED
    BY <1>1, <1>5, <2>1 DEF WorkerOK
<1>7. AllAgree'
  BY <1>1, <1>2, WritingAgrees
<1>8. QED
  BY <1>3, <1>6, <1>7 DEF CalInv

LEMMA WriteProfileKeeps ==
    ASSUME CalInv, WriteProfile
    PROVE  CalInv'
<1>1. /\ fielded' = fielded /\ phase = "profiles" /\ letter' = letter
      /\ data' = data /\ mail' = mail /\ verdict' = verdict /\ instDoc' = instDoc
  BY DEF WriteProfile
<1>2. PICK t \in Templates : t = mail[letter].template
  BY <1>1 DEF CalInv, OneLetter
<1>3. PICK i \in AllInsts : Handled(i, "verdict") /\ profile' = [profile EXCEPT ![i] = data]
  BY DEF WriteProfile
<1>4. Current = Fitted(t, data) /\ Fitted(t, data)' = Fitted(t, data)
  BY <1>1, <1>2 DEF Current, Fitted
<1> DEFINE C == Fitted(t, data)
<1>5. Loaded(t) /\ \A x \in done : profile[x] = data
  BY <1>1, <1>2 DEF CalInv, WorkerOK, Progress
<1>6. /\ i \in C \ done
      /\ \/ C \subseteq done \union {i} /\ done' = {} /\ phase' = "verdict"
         \/ done' = done \union {i} /\ phase' = "profiles"
  BY <1>1, <1>3, <1>4 DEF Handled
<1>7. \A x \in AllInsts : profile'[x] = IF x = i THEN data ELSE profile[x]
  BY <1>3 DEF CalInv, CalTypes
<1>8. C \subseteq Insts[t] /\ C \subseteq AllInsts
  BY DEF Fitted, AllInsts
<1>9. done \subseteq C
  BY <1>5 DEF Loaded
<1>10. \A x \in done \union {i} : profile'[x] = data
  BY <1>5, <1>7, <1>8, <1>9
<1>11. CalTypes'
  BY <1>1, <1>3, <1>6 DEF CalInv, CalTypes, Phases
<1>12. OneLetter' /\ DocsAreFitted'
  BY <1>1, <1>6 DEF CalInv, OneLetter, DocsAreFitted
<1>13. Loaded(t)'
  <2>1. Fitted(t, fielded)' = Fitted(t, fielded)
    BY <1>1 DEF Fitted
  <2>2. done' \subseteq C
    BY <1>6, <1>9
  <2>3. QED
    BY <1>1, <1>4, <1>5, <2>1, <2>2 DEF Loaded
<1>14. Progress(t)'
  <2>1. CASE phase' = "profiles"
    BY <1>1, <1>6, <1>10, <2>1 DEF Progress
  <2>2. CASE phase' # "profiles"
    <3>1. phase' = "verdict" /\ C \subseteq done \union {i}
      BY <1>6, <2>2
    <3>2. \A x \in C : profile'[x] = data'
      BY <1>1, <1>10, <3>1
    <3>3. QED
      BY <1>4, <3>1, <3>2 DEF Progress
  <2>3. QED
    BY <2>1, <2>2
<1>15. WorkerOK'
  <2>1. mail'[letter'].template = t
    BY <1>1, <1>2
  <2>2. QED
    BY <1>6, <1>13, <1>14, <2>1 DEF WorkerOK
<1>16. AllAgree'
  <2>1. \A x \in AllInsts \ Insts[t] : profile'[x] = profile[x]
    BY <1>6, <1>7, <1>8
  <2>2. QED
    BY <1>1, <1>2, <2>1, WritingAgrees
<1>17. QED
  BY <1>11, <1>12, <1>15, <1>16 DEF CalInv

LEMMA WriteVerdictKeeps ==
    ASSUME CalInv, WriteVerdict
    PROVE  CalInv'
<1>1. /\ fielded' = fielded /\ phase = "verdict" /\ phase' = "instantiations" /\ letter' = letter
      /\ data' = data /\ done' = done /\ mail' = mail /\ profile' = profile /\ instDoc' = instDoc
  BY DEF WriteVerdict
<1>2. PICK t \in Templates : t = mail[letter].template
  BY <1>1 DEF CalInv, OneLetter
<1> DEFINE C == Fitted(t, data)
           new == [equivalent |-> Equivalent(C, data), flagged |-> Flagged(C, data)]
<1>3. verdict' = [verdict EXCEPT ![t] = new]
  BY <1>2 DEF WriteVerdict, Current
<1>4. CalTypes' /\ OneLetter' /\ DocsAreFitted'
  <2> HIDE DEF new
  <2>1. QED
    BY <1>1, <1>3 DEF CalInv, CalTypes, OneLetter, DocsAreFitted, Phases
<1>5. Loaded(t) /\ done = {} /\ \A i \in C : profile[i] = data
  BY <1>1, <1>2 DEF CalInv, WorkerOK, Progress
<1>6. verdict'[t] = new /\ \A u \in Templates \ {t} : verdict'[u] = verdict[u]
  <2> HIDE DEF new
  <2>1. QED
    BY <1>3 DEF CalInv, CalTypes
<1>7. Loaded(t)' /\ C' = C
  BY <1>1, <1>5 DEF Loaded, Fitted
<1>8. Progress(t)'
  <2>1. new = [equivalent |-> Equivalent(Fitted(t, data), data),
               flagged |-> Flagged(Fitted(t, data), data)]'
    BY <1>1, <1>7
  <2>2. verdict'[t] = new /\ done' = {} /\ \A i \in Fitted(t, data)' : profile'[i] = data'
    BY <1>1, <1>5, <1>6, <1>7
  <2> HIDE DEF new
  <2>3. QED
    BY <1>1, <2>1, <2>2 DEF Progress
<1>9. WorkerOK'
  <2>1. mail'[letter'].template = t
    BY <1>1, <1>2
  <2>2. QED
    BY <1>1, <1>7, <1>8, <2>1 DEF WorkerOK
<1>10. AllAgree'
  BY <1>1, <1>2, <1>6, WritingAgrees
<1>11. QED
  BY <1>4, <1>9, <1>10 DEF CalInv

LEMMA WriteInstantiationKeeps ==
    ASSUME CalInv, WriteInstantiation
    PROVE  CalInv'
<1>1. /\ fielded' = fielded /\ phase = "instantiations" /\ letter' = letter
      /\ data' = data /\ mail' = mail /\ verdict' = verdict /\ profile' = profile
  BY DEF WriteInstantiation
<1>2. PICK t \in Templates : t = mail[letter].template
  BY <1>1 DEF CalInv, OneLetter
<1> DEFINE C == Fitted(t, data)
<1>3. PICK i \in AllInsts : Handled(i, "ack") /\ instDoc' = [instDoc EXCEPT ![i] = Result(t, i)]
  BY <1>2 DEF WriteInstantiation, Current, Result
<1>4. Current = C /\ C' = C
  BY <1>1, <1>2 DEF Current, Fitted
<1>5. Loaded(t) /\ Progress(t) /\ \A x \in done : instDoc[x] = Result(t, x)
  BY <1>1, <1>2 DEF CalInv, WorkerOK, Progress
<1>6. /\ i \in C \ done
      /\ \/ C \subseteq done \union {i} /\ done' = {} /\ phase' = "ack"
         \/ done' = done \union {i} /\ phase' = "instantiations"
  BY <1>1, <1>3, <1>4 DEF Handled
<1>7. \A x \in AllInsts : instDoc'[x] = IF x = i THEN Result(t, i) ELSE instDoc[x]
  <2>1. DOMAIN instDoc = AllInsts
    BY DEF CalInv, CalTypes
  <2>2. QED
    BY <1>3, <2>1
<1>8. C \subseteq Insts[t] /\ C \subseteq AllInsts /\ done \subseteq C
  BY <1>5 DEF Loaded, Fitted, AllInsts
<1>9. \A x : Result(t, x)' = Result(t, x)
  BY <1>1, <1>4 DEF Result
<1>10. \A x \in done \union {i} : instDoc'[x] = Result(t, x)
  BY <1>5, <1>7, <1>8
<1>11. CalTypes' /\ OneLetter'
  BY <1>1, <1>3, <1>6 DEF CalInv, CalTypes, OneLetter, Phases
<1>12. DocsAreFitted'
  <2>1. fielded > 0 /\ Fits[fielded][i] # None
    BY <1>5, <1>6 DEF Loaded, Fitted
  <2>2. QED
    BY <1>1, <1>7, <2>1 DEF CalInv, DocsAreFitted
<1>13. Loaded(t)'
  <2>1. Fitted(t, fielded)' = Fitted(t, fielded)
    BY <1>1 DEF Fitted
  <2>2. done' \subseteq C
    BY <1>6, <1>8
  <2>3. \A x \in Insts[t] : instDoc'[x] # None => x \in C
    BY <1>5, <1>6, <1>7 DEF Loaded, AllInsts
  <2>4. QED
    BY <1>1, <1>4, <1>5, <2>1, <2>2, <2>3 DEF Loaded
<1>14. Progress(t)'
  <2>1. /\ \A x \in C : profile'[x] = data'
        /\ verdict'[t] = [equivalent |-> Equivalent(C, data), flagged |-> Flagged(C, data)]
    BY <1>1, <1>5 DEF Progress
  <2>2. phase' = "instantiations" => \A x \in done' : instDoc'[x] = Result(t, x)'
    BY <1>6, <1>9, <1>10
  <2>3. phase' = "ack" => \A x \in C : instDoc'[x] = Result(t, x)'
    BY <1>6, <1>9, <1>10
  <2>4. phase' # "profiles"
    BY <1>6
  <2>5. [equivalent |-> Equivalent(C, data), flagged |-> Flagged(C, data)]
        = [equivalent |-> Equivalent(C, data), flagged |-> Flagged(C, data)]'
    BY <1>1, <1>4
  <2>6. QED
    BY <1>4, <2>1, <2>2, <2>3, <2>4, <2>5, Zenon DEF Progress
<1>15. WorkerOK'
  <2>1. mail'[letter'].template = t
    BY <1>1, <1>2
  <2>2. QED
    BY <1>6, <1>13, <1>14, <2>1 DEF WorkerOK
<1>16. AllAgree'
  <2>1. \A x \in AllInsts \ Insts[t] : instDoc'[x] = instDoc[x]
    BY <1>6, <1>7, <1>8
  <2>2. QED
    BY <1>1, <1>2, <2>1, WritingAgrees
<1>17. QED
  BY <1>11, <1>12, <1>15, <1>16 DEF CalInv

LEMMA CalInvInit == Init => CalInv
<1> SUFFICES ASSUME Init PROVE CalInv
  OBVIOUS
<1>2. CalTypes
  <2>1. Len(Fits) \in Nat
    BY CalibrationAssumption
  <2>2. QED
    BY <2>1 DEF Init, CalInit, CalTypes, States, Phases
<1>3. OneLetter /\ DocsAreFitted /\ WorkerOK
  BY DEF Init, CalInit, OneLetter, DocsAreFitted, WorkerOK
<1>4. AllAgree
  BY DEF Init, CalInit, AllAgree, Agrees
<1>5. QED
  BY <1>2, <1>3, <1>4 DEF CalInv

LEMMA CalInvStep == CalInv /\ [Next]_vars => CalInv'
<1> SUFFICES ASSUME CalInv, [Next]_vars PROVE CalInv'
  OBVIOUS
<1>2. CASE CalWork
  <2>1. CASE CalStep
    BY <2>1, LoadKeeps, SettledKeeps, WriteParametersKeeps, WriteProfileKeeps, WriteVerdictKeeps,
       WriteInstantiationKeeps DEF CalStep
  <2>2. QED
    BY <1>2, <2>1, DropMailKeeps, TakeMailKeeps, SettledKeeps DEF CalWork
<1>3. CASE CalInput
  BY <1>3, FieldTestKeeps, PublishKeeps DEF CalInput
<1>4. CASE \E c \in Clients : PublishFieldTest(c)
  BY <1>4, PublishFieldTestKeeps
<1>5. CASE UNCHANGED calVars
  BY <1>5, NothingKeeps
<1>6. BankNext => (\E c \in Clients : PublishFieldTest(c)) \/ UNCHANGED calVars
  BY DEF BankNext, Create, Read, Begin, Validate, Check, Write, Break
<1>7. UNCHANGED vars => UNCHANGED calVars
  BY DEF vars
<1>8. QED
  BY <1>2, <1>3, <1>4, <1>5, <1>6, <1>7 DEF Next

\* Whatever was fielded, published, redelivered and interrupted, when no
\* calibration is half done flags, profiles and parameters are of one fit.
THEOREM FlagsDoFollowFits == Spec => []FlagsFollowFits
<1>1. CalInv => FlagsFollowFits
  <2>1. ASSUME CalInv, phase = "idle", \A m \in CalMsgs : mail[m].state # "nacked",
               NEW t \in Templates
        PROVE  Agrees(t)
    BY <2>1 DEF CalInv, OneLetter, AllAgree, Unsettled
  <2>2. QED
    BY <2>1 DEF FlagsFollowFits, Agrees
<1>2. QED
  BY <1>1, CalInvInit, CalInvStep, PTL DEF Spec

(***************************************************************************)
(* The bank: the invariant.                                                *)
(***************************************************************************)
Usable(t) ==
    \A x \in Range(t["range"]) :
        /\ t["answer"][x] # None
        /\ \A d \in DOMAIN t["distractors"] : t["distractors"][d][x] # t["answer"][x]

Validated(t) == \E w \in Samples(t["range"]) : Valid(t, w)

\* A request that has been begun.
Asked(r) ==
    /\ DOMAIN r = {"op", "id", "step", "dto", "base", "seen"}
    /\ r.op \in {"create", "update", "delete", "fieldTest"}
    /\ r.id \in Ids /\ r.seen \in Nat /\ r.seen <= writes
    /\ CASE r.op = "create" -> r.dto \in NewTemplates /\ Validated(r.dto)
         [] r.op = "update" -> r.dto \in Edits
         [] OTHER -> r.dto = <<>>

\* Nobody has written since it was begun.
Alone(r) == r.seen = writes

\* While nobody has, what it has read and what it has checked holds.
AsRead(r) == r.op # "create" /\ r.step # "publish" /\ Alone(r) => docs[r.id] = r.base /\ Get(r.id)

AsValidated(r) ==
    r.op = "update" /\ Revalidated(r.dto) /\ r.step \in {"check", "write"} => Validated(Merged(r))

AsChecked(r) ==
    r.step = "write" /\ Alone(r) =>
        /\ r.op = "create" => Duplicates(r.dto["text"], r.dto["topic"], None) = {}
        /\ r.op = "update" /\ Revalidated(r.dto) =>
               Duplicates(Merged(r)["text"], Merged(r)["topic"], r.id) = {}

Fine(r) == Asked(r) /\ AsRead(r) /\ AsValidated(r) /\ AsChecked(r)

RequestsOK == \A c \in Clients : req[c] # None => Fine(req[c])

Document(t) == DOMAIN t = Fields /\ t["range"] \in Int \X Int

\* A template is usable, and those that read like it were moved, or it was.
Sound(a) ==
    /\ Document(docs[a]) /\ Usable(docs[a])
    /\ \A b \in Duplicates(docs[a]["text"], docs[a]["topic"], a) \ overlapped :
          a \in moved \/ b \in moved

BankInv ==
    /\ writes \in Nat /\ DOMAIN req = Clients /\ DOMAIN docs = Ids
    /\ RequestsOK
    /\ \A a \in Ids \ overlapped : Get(a) => Sound(a)

\* The bounds are always drawn.
LEMMA ValidatedIsUsable ==
    ASSUME NEW t, t["range"] \in Int \X Int, Validated(t)
    PROVE  Usable(t)
<1> DEFINE lo == t["range"][1]
           hi == t["range"][2]
<1>1. PICK w \in Samples(t["range"]) : Valid(t, w)
  BY DEF Validated
<1>2. lo \in Int /\ hi \in Int /\ Range(t["range"]) = {lo, hi}
  BY DEF Range
<1>3. lo < hi
  BY <1>1 DEF Valid
<1>4. DOMAIN w = lo..hi /\ w[lo] >= 1 /\ w[hi] >= 1 /\ \A x \in lo..hi : w[x] \in Int
  BY <1>1 DEF Samples
<1>5. lo \in Drawn(w) /\ hi \in Drawn(w)
  BY <1>2, <1>3, <1>4 DEF Drawn
<1>6. ASSUME NEW x \in Drawn(w) PROVE t["answer"][x] # None
  BY <1>1 DEF Valid
<1>7. ASSUME NEW x \in Drawn(w), NEW d \in DOMAIN t["distractors"]
      PROVE  t["distractors"][d][x] # t["answer"][x]
  <2>1. Alike(w, t["answer"], t["distractors"][d]) = {}
    BY <1>1 DEF Valid
  <2>2. QED
    BY <1>6, <2>1 DEF Alike
<1>8. QED
  BY <1>2, <1>5, <1>6, <1>7 DEF Usable

LEMMA FineStays ==
    ASSUME UNCHANGED <<docs, writes>>, NEW r
    PROVE  Fine(r)' <=> Fine(r)
BY DEF Fine, Asked, AsRead, AsValidated, AsChecked, Alone, Get, Duplicates

\* The requests change, the bank does not.
LEMMA RequestKeeps ==
    ASSUME BankInv, NEW c \in Clients, NEW r, r # None => Fine(r),
           req' = [req EXCEPT ![c] = r], UNCHANGED <<docs, writes, overlapped, moved>>
    PROVE  BankInv'
<1>1. RequestsOK'
  <2>1. ASSUME NEW d \in Clients, req'[d] # None PROVE Fine(req[d])'
    <3>1. DOMAIN req = Clients
      BY DEF BankInv
    <3>2. req'[d] = IF d = c THEN r ELSE req[d]
      BY <3>1
    <3>3. Fine(req'[d])
      BY <2>1, <3>2 DEF BankInv, RequestsOK
    <3>4. QED
      BY <3>3, FineStays
  <2>2. QED
    BY <2>1 DEF RequestsOK
<1>2. \A a \in Ids \ overlapped' : Get(a)' => Sound(a)'
  <2>1. \A a : (Get(a)' <=> Get(a)) /\ (Sound(a)' <=> Sound(a))
    BY DEF Get, Sound, Document, Usable, Duplicates
  <2>2. QED
    BY <2>1 DEF BankInv
<1>3. QED
  BY <1>1, <1>2 DEF BankInv

LEMMA CreateKeeps ==
    ASSUME BankInv, NEW c \in Clients, Create(c)
    PROVE  BankInv'
<1>1. PICK id \in Ids, t \in NewTemplates :
        /\ \E w \in Samples(t["range"]) : Valid(t, w)
        /\ Begin(c, [op |-> "create", id |-> id, step |-> "check", dto |-> t,
                     base |-> None, seen |-> writes])
  BY DEF Create
<1>2. PICK r : r = [op |-> "create", id |-> id, step |-> "check", dto |-> t,
                    base |-> None, seen |-> writes]
  OBVIOUS
<1>3. Fine(r)
  BY <1>1, <1>2 DEF BankInv, Fine, Asked, AsRead, AsValidated, AsChecked, Validated
<1>4. req' = [req EXCEPT ![c] = r] /\ UNCHANGED <<docs, writes, overlapped, moved>>
  BY <1>1, <1>2 DEF Begin
<1>5. QED
  BY <1>3, <1>4, RequestKeeps

LEMMA ReadKeeps ==
    ASSUME BankInv, NEW c \in Clients, NEW op \in {"update", "delete", "fieldTest"}, Read(c, op)
    PROVE  BankInv'
<1>1. PICK id \in Ids, dto \in (IF op = "update" THEN Edits ELSE {<<>>}) :
        /\ Get(id)
        /\ Begin(c, [op |-> op, id |-> id, dto |-> dto, base |-> docs[id], seen |-> writes,
                     step |-> IF Revalidated(dto) THEN "validate" ELSE "write"])
  BY DEF Read
<1>2. PICK r : r = [op |-> op, id |-> id, dto |-> dto, base |-> docs[id], seen |-> writes,
                    step |-> IF Revalidated(dto) THEN "validate" ELSE "write"]
  OBVIOUS
<1>3. Asked(r)
  BY <1>1, <1>2 DEF BankInv, Asked
<1>4. AsRead(r)
  BY <1>1, <1>2 DEF AsRead
<1>5. AsValidated(r) /\ AsChecked(r)
  BY <1>2 DEF AsValidated, AsChecked
<1>6. req' = [req EXCEPT ![c] = r] /\ UNCHANGED <<docs, writes, overlapped, moved>>
  BY <1>1, <1>2 DEF Begin
<1>7. QED
  BY <1>3, <1>4, <1>5, <1>6, RequestKeeps DEF Fine

\* The request goes on to its next step, or ends.
LEMMA MovesOn ==
    ASSUME BankInv, NEW c \in Clients, req[c] # None, NEW step
    PROVE  LET r == [req[c] EXCEPT !.step = step]
           IN  /\ r.step = step /\ r.op = req[c].op /\ r.id = req[c].id /\ r.dto = req[c].dto
               /\ r.base = req[c].base /\ r.seen = req[c].seen
               /\ Asked(r) /\ Merged(r) = Merged(req[c])
<1> DEFINE r == [req[c] EXCEPT !.step = step]
<1>1. Asked(req[c])
  BY DEF BankInv, RequestsOK, Fine
<1>2. /\ r.step = step /\ r.op = req[c].op /\ r.id = req[c].id /\ r.dto = req[c].dto
      /\ r.base = req[c].base /\ r.seen = req[c].seen /\ DOMAIN r = DOMAIN req[c]
  BY <1>1 DEF Asked
<1> HIDE DEF r
<1>3. Asked(r)
  BY <1>1, <1>2 DEF Asked
<1>4. Merged(r) = Merged(req[c])
  BY <1>2 DEF Merged
<1>5. QED
  BY <1>2, <1>3, <1>4 DEF r

LEMMA ValidateKeeps ==
    ASSUME BankInv, NEW c \in Clients, Validate(c)
    PROVE  BankInv'
<1>1. /\ req[c] # None /\ req[c].step = "validate"
      /\ UNCHANGED <<docs, writes, overlapped, moved>>
  BY DEF Validate
<1>2. CASE req' = [req EXCEPT ![c] = None]
  BY <1>1, <1>2, RequestKeeps
<1>3. CASE Reach(c, "check") /\ Validated(Merged(req[c]))
  <2>1. PICK r : r = [req[c] EXCEPT !.step = "check"]
    OBVIOUS
  <2>2. /\ r.step = "check" /\ r.op = req[c].op /\ r.id = req[c].id /\ r.dto = req[c].dto
        /\ r.base = req[c].base /\ r.seen = req[c].seen
        /\ Asked(r) /\ Merged(r) = Merged(req[c])
    BY <1>1, <2>1, MovesOn
  <2>3. AsRead(req[c])
    BY <1>1 DEF BankInv, RequestsOK, Fine
  <2>4. AsRead(r) /\ AsValidated(r) /\ AsChecked(r)
    BY <1>1, <1>3, <2>2, <2>3 DEF AsRead, AsValidated, AsChecked, Alone
  <2>5. req' = [req EXCEPT ![c] = r]
    BY <1>3, <2>1 DEF Reach
  <2>6. QED
    BY <1>1, <2>2, <2>4, <2>5, RequestKeeps DEF Fine
<1>4. QED
  BY <1>2, <1>3 DEF Validate, Validated, End

LEMMA CheckKeeps ==
    ASSUME BankInv, NEW c \in Clients, Check(c)
    PROVE  BankInv'
<1>1. /\ req[c] # None /\ req[c].step = "check"
      /\ UNCHANGED <<docs, writes, overlapped, moved>>
  BY DEF Check
<1>2. CASE req' = [req EXCEPT ![c] = None]
  BY <1>1, <1>2, RequestKeeps
<1>3. CASE Reach(c, "write")
           /\ (req[c].op = "create" => Duplicates(req[c].dto["text"], req[c].dto["topic"], None) = {})
           /\ (req[c].op # "create" =>
                 Duplicates(Merged(req[c])["text"], Merged(req[c])["topic"], req[c].id) = {})
  <2>1. PICK r : r = [req[c] EXCEPT !.step = "write"]
    OBVIOUS
  <2>2. /\ r.step = "write" /\ r.op = req[c].op /\ r.id = req[c].id /\ r.dto = req[c].dto
        /\ r.base = req[c].base /\ r.seen = req[c].seen
        /\ Asked(r) /\ Merged(r) = Merged(req[c])
    BY <1>1, <2>1, MovesOn
  <2>3. AsRead(req[c]) /\ AsValidated(req[c])
    BY <1>1 DEF BankInv, RequestsOK, Fine
  <2>4. AsRead(r) /\ AsValidated(r) /\ AsChecked(r)
    BY <1>1, <1>3, <2>2, <2>3 DEF AsRead, AsValidated, AsChecked, Alone
  <2>5. req' = [req EXCEPT ![c] = r]
    BY <1>3, <2>1 DEF Reach
  <2>6. QED
    BY <1>1, <2>2, <2>4, <2>5, RequestKeeps DEF Fine
<1>4. QED
  BY <1>2, <1>3 DEF Check, End

LEMMA EndKeeps ==
    ASSUME BankInv, NEW c \in Clients, End(c), UNCHANGED <<docs, writes, overlapped, moved>>
    PROVE  BankInv'
BY RequestKeeps DEF End

\* The templates in use beside one, that read like a text in a topic.
Rival(b, id, text, topic) ==
    b \in Ids \ {id} /\ Get(b) /\ docs[b]["topic"] = topic /\ Similar(docs[b]["text"], text)

LEMMA RivalsAreDuplicates ==
    ASSUME NEW id, NEW text, NEW topic, NEW b
    PROVE  Rival(b, id, text, topic) <=> b \in Duplicates(text, topic, id)
BY DEF Rival, Duplicates, Get

\* What a request writes when nobody else has written meanwhile.
LEMMA WrittenIsSound ==
    ASSUME BankInv, NEW c \in Clients, Write(c), NEW r, r = req[c],
           r.id \notin overlapped', Get(r.id)'
    PROVE  /\ Document(docs'[r.id]) /\ Usable(docs'[r.id])
           /\ \A b : Rival(b, r.id, docs'[r.id]["text"], docs'[r.id]["topic"]) /\ b \notin overlapped'
                       => r.id \in moved' \/ b \in moved'
<1> DEFINE new == Written(r)
<1>1. /\ r # None /\ r.step = "write" /\ docs' = [docs EXCEPT ![r.id] = new]
      /\ overlapped' = IF writes # r.seen THEN overlapped \union {r.id} ELSE overlapped
      /\ moved' = IF "topic" \in DOMAIN r.dto /\ DOMAIN r.dto \intersect Content = {}
                  THEN moved \union {r.id} ELSE moved
  BY DEF Write
<1>2. Asked(r) /\ AsRead(r) /\ AsValidated(r) /\ AsChecked(r)
  BY <1>1 DEF BankInv, RequestsOK, Fine
<1>3. r.id \in Ids /\ docs'[r.id] = new
  BY <1>1, <1>2 DEF Asked, BankInv
<1>4. Alone(r) /\ overlapped' = overlapped /\ r.id \notin overlapped
  BY <1>1 DEF Alone
<1>5. r.op # "create" => docs[r.id] = r.base /\ Get(r.id) /\ Sound(r.id)
  BY <1>1, <1>2, <1>3, <1>4 DEF AsRead, BankInv
<1>6. CASE r.op = "create"
  <2>1. r.dto \in NewTemplates /\ Validated(r.dto)
    BY <1>2, <1>6 DEF Asked
  <2>2. DOMAIN r.dto = Content \union {"topic"} /\ r.dto["range"] \in Int \X Int
    BY <2>1, BankAssumption
  <2>3. new = [f \in Fields |-> IF f \in DOMAIN r.dto THEN r.dto[f]
                                ELSE IF f = "status" THEN "draft" ELSE FALSE]
    BY <1>6 DEF Written
  <2>4. /\ DOMAIN new = Fields /\ new["range"] = r.dto["range"] /\ new["answer"] = r.dto["answer"]
        /\ new["distractors"] = r.dto["distractors"] /\ new["text"] = r.dto["text"]
        /\ new["topic"] = r.dto["topic"]
    BY <2>2, <2>3 DEF Content, Fields
  <2> HIDE DEF new
  <2>5. Usable(r.dto)
    BY <2>1, <2>2, ValidatedIsUsable
  <2>6. Document(new) /\ Usable(new)
    BY <2>2, <2>4, <2>5 DEF Document, Usable
  <2>7. Duplicates(new["text"], new["topic"], None) = {}
    BY <1>1, <1>2, <1>4, <1>6, <2>4 DEF AsChecked
  <2>8. ASSUME NEW b, Rival(b, r.id, new["text"], new["topic"]) PROVE FALSE
    BY <2>7, <2>8, BankAssumption DEF Rival, Duplicates, Get
  <2>9. QED
    BY <1>3, <2>6, <2>8
<1>7. CASE r.op = "update" /\ Revalidated(r.dto)
  <2>1. Validated(Merged(r)) /\ Duplicates(Merged(r)["text"], Merged(r)["topic"], r.id) = {}
    BY <1>1, <1>2, <1>4, <1>7 DEF AsValidated, AsChecked
  <2>2. new = Merged(r)
    BY <1>5, <1>7 DEF Written, Merged
  <2>3. r.dto \in Edits /\ Document(r.base)
    BY <1>2, <1>5, <1>7 DEF Asked, Sound
  <2>4. DOMAIN new = Fields /\ new["range"] \in Int \X Int
    BY <2>2, <2>3, BankAssumption DEF Merged, Document, Fields, Content
  <2> HIDE DEF new
  <2>5. Document(new) /\ Usable(new)
    BY <2>1, <2>2, <2>4, ValidatedIsUsable DEF Document
  <2>6. ASSUME NEW b, Rival(b, r.id, new["text"], new["topic"]) PROVE FALSE
    BY <2>1, <2>2, <2>6, RivalsAreDuplicates
  <2>7. QED
    BY <1>3, <2>5, <2>6
<1>8. CASE (r.op = "update" /\ ~Revalidated(r.dto)) \/ r.op = "fieldTest"
  <2> DEFINE now == docs[r.id]
  <2>1. Sound(r.id) /\ Document(now) /\ Usable(now)
    BY <1>5, <1>8 DEF Sound
  <2>2. /\ DOMAIN new = Fields
        /\ \A f \in Content : new[f] = now[f]
        /\ new["topic"] = now["topic"] \/ r.id \in moved'
    <3>1. CASE r.op = "update" /\ ~Revalidated(r.dto)
      <4>1. new = [f \in Fields |-> IF f \in DOMAIN r.dto THEN r.dto[f] ELSE now[f]]
        BY <3>1 DEF Written
      <4>2. DOMAIN r.dto \intersect Content = {}
        BY <3>1 DEF Revalidated
      <4>3. "topic" \in DOMAIN r.dto => r.id \in moved'
        BY <1>1, <4>2
      <4> HIDE DEF new
      <4>4. QED
        BY <4>1, <4>2, <4>3 DEF Fields
    <3>2. CASE r.op = "fieldTest"
      <4>1. new = [now EXCEPT !["status"] = "field_testing"]
        BY <3>2 DEF Written
      <4> HIDE DEF new
      <4>2. QED
        BY <2>1, <4>1 DEF Document, Fields, Content
    <3>3. QED
      BY <1>8, <3>1, <3>2
  <2> HIDE DEF new
  <2>3. /\ new["text"] = now["text"] /\ new["range"] = now["range"] /\ new["answer"] = now["answer"]
        /\ new["distractors"] = now["distractors"]
    BY <2>2 DEF Content
  <2>4. Document(new) /\ Usable(new)
    BY <2>1, <2>2, <2>3 DEF Document, Usable
  <2>5. ASSUME NEW b, Rival(b, r.id, new["text"], new["topic"]), b \notin overlapped'
        PROVE  r.id \in moved' \/ b \in moved'
    <3>1. CASE new["topic"] = now["topic"]
      <4>1. b \in Duplicates(now["text"], now["topic"], r.id) \ overlapped
        BY <1>4, <2>3, <2>5, <3>1, RivalsAreDuplicates
      <4>2. r.id \in moved \/ b \in moved
        BY <2>1, <4>1 DEF Sound
      <4>3. QED
        BY <1>1, <4>2
    <3>2. QED
      BY <2>2, <3>1
  <2>6. QED
    BY <1>3, <2>4, <2>5
<1>9. CASE r.op = "delete"
  <2>1. new = [docs[r.id] EXCEPT !["deleted"] = TRUE]
    BY <1>9 DEF Written
  <2>2. Document(docs[r.id])
    BY <1>5, <1>9 DEF Sound
  <2>3. new["deleted"]
    BY <2>1, <2>2 DEF Document, Fields
  <2>4. QED
    BY <1>3, <2>3 DEF Get
<1>10. QED
  BY <1>2, <1>6, <1>7, <1>8, <1>9 DEF Asked

LEMMA WriteKeeps ==
    ASSUME BankInv, NEW c \in Clients, Write(c)
    PROVE  BankInv'
<1>1. PICK r : r = req[c]
  OBVIOUS
<1>2. /\ r # None /\ r.step = "write" /\ docs' = [docs EXCEPT ![r.id] = Written(r)]
      /\ overlapped \subseteq overlapped' /\ moved \subseteq moved' /\ writes' = writes + 1
      /\ \/ req' = [req EXCEPT ![c] = None]
         \/ r.op = "fieldTest" /\ req' = [req EXCEPT ![c] = [r EXCEPT !.step = "publish"]]
  BY <1>1 DEF Write, Reach, End
<1>3. writes \in Nat /\ DOMAIN req = Clients /\ DOMAIN docs = Ids
  BY DEF BankInv
<1>4. Fine(r) /\ r.id \in Ids
  BY <1>1, <1>2 DEF BankInv, RequestsOK, Fine, Asked
<1>5. RequestsOK'
  <2>1. ASSUME NEW x, Asked(x), AsValidated(x)
        PROVE  Fine(x)'
    <3>1. x.seen <= writes /\ x.seen \in Nat
      BY <2>1 DEF Asked
    <3>2. x.seen # writes' /\ x.seen <= writes'
      BY <1>2, <1>3, <3>1
    <3>3. Asked(x)'
      BY <2>1, <3>2 DEF Asked
    <3>4. AsRead(x)' /\ AsChecked(x)' /\ AsValidated(x)'
      BY <2>1, <3>2 DEF AsRead, AsChecked, AsValidated, Alone
    <3>5. QED
      BY <3>3, <3>4 DEF Fine
  <2>2. ASSUME NEW d \in Clients, req'[d] # None PROVE Fine(req[d])'
    <3>1. CASE d # c
      <4>1. req'[d] = req[d]
        BY <1>2, <1>3, <3>1
      <4>2. Asked(req[d]) /\ AsValidated(req[d])
        BY <2>2, <4>1 DEF BankInv, RequestsOK, Fine
      <4>3. QED
        BY <2>1, <4>1, <4>2
    <3>2. CASE d = c
      <4>1. r.op = "fieldTest" /\ req'[c] = [r EXCEPT !.step = "publish"]
        BY <1>2, <1>3, <2>2, <3>2
      <4>2. PICK x : x = [r EXCEPT !.step = "publish"]
        OBVIOUS
      <4>3. Asked(x) /\ x.op = "fieldTest"
        BY <1>1, <1>2, <4>1, <4>2, MovesOn
      <4>4. AsValidated(x)
        BY <4>3 DEF AsValidated
      <4>5. QED
        BY <2>1, <3>2, <4>1, <4>2, <4>3, <4>4
    <3>3. QED
      BY <3>1, <3>2
  <2>3. QED
    BY <2>2 DEF RequestsOK
<1>6. ASSUME NEW a \in Ids \ overlapped', Get(a)' PROVE Sound(a)'
  <2>1. CASE a = r.id
    <3>1. /\ Document(docs'[a]) /\ Usable(docs'[a])
          /\ \A b : Rival(b, a, docs'[a]["text"], docs'[a]["topic"]) /\ b \notin overlapped'
                      => a \in moved' \/ b \in moved'
      BY <1>1, <1>6, <2>1, WrittenIsSound
    <3>2. ASSUME NEW b \in Duplicates(docs[a]["text"], docs[a]["topic"], a)' \ overlapped'
          PROVE  a \in moved' \/ b \in moved'
      <4>1. b \in Ids \ {a} /\ docs'[b] = docs[b]
        BY <1>2, <1>3, <2>1 DEF Duplicates
      <4>2. Rival(b, a, docs'[a]["text"], docs'[a]["topic"])
        BY <3>2, <4>1 DEF Rival, Duplicates, Get
      <4>3. QED
        BY <3>1, <3>2, <4>2
    <3>3. QED
      BY <3>1, <3>2 DEF Sound, Document, Usable
  <2>2. CASE a # r.id
    <3>1. docs'[a] = docs[a] /\ Get(a) /\ a \notin overlapped
      BY <1>2, <1>3, <1>6, <2>2 DEF Get
    <3>2. Sound(a)
      BY <3>1 DEF BankInv
    <3>3. ASSUME NEW b \in Duplicates(docs[a]["text"], docs[a]["topic"], a)' \ overlapped'
          PROVE  a \in moved' \/ b \in moved'
      <4>1. CASE b # r.id
        <5>1. docs'[b] = docs[b]
          BY <1>2, <1>3, <3>3, <4>1 DEF Duplicates
        <5>2. b \in Duplicates(docs[a]["text"], docs[a]["topic"], a) \ overlapped
          BY <1>2, <3>1, <3>3, <5>1 DEF Duplicates
        <5>3. QED
          BY <1>2, <3>2, <5>2 DEF Sound
      <4>2. CASE b = r.id
        <5>1. /\ Get(b)' /\ docs'[b]["topic"] = docs[a]["topic"]
              /\ Similar(docs'[b]["text"], docs[a]["text"])
          BY <3>1, <3>3 DEF Duplicates, Get
        <5>2. Rival(a, r.id, docs'[r.id]["text"], docs'[r.id]["topic"])
          BY <2>2, <3>1, <4>2, <5>1 DEF Rival, Similar
        <5>3. QED
          BY <1>1, <1>6, <3>3, <4>2, <5>1, <5>2, WrittenIsSound
      <4>3. QED
        BY <4>1, <4>2
    <3>4. QED
      BY <3>1, <3>2, <3>3 DEF Sound, Document, Usable
  <2>3. QED
    BY <2>1, <2>2
<1>7. QED
  BY <1>2, <1>3, <1>5, <1>6 DEF BankInv

LEMMA BankInvStep == BankInv /\ [Next]_vars => BankInv'
<1> SUFFICES ASSUME BankInv, [Next]_vars PROVE BankInv'
  OBVIOUS
<1>1. CASE BankNext
  <2>1. PICK c \in Clients :
          \/ Create(c) \/ (\E op \in {"update", "delete", "fieldTest"} : Read(c, op))
          \/ Validate(c) \/ Check(c) \/ Write(c) \/ PublishFieldTest(c) \/ Break(c)
    BY <1>1 DEF BankNext
  <2>2. PublishFieldTest(c) \/ Break(c) => End(c) /\ UNCHANGED <<docs, writes, overlapped, moved>>
    BY DEF PublishFieldTest, Break
  <2>3. QED
    BY <2>1, <2>2, CreateKeeps, ReadKeeps, ValidateKeeps, CheckKeeps, WriteKeeps, EndKeeps
<1>2. CASE UNCHANGED bank
  <2>1. UNCHANGED <<docs, writes, overlapped, moved>> /\ req' = req
    BY <1>2 DEF bank
  <2>2. RequestsOK'
    BY <2>1, FineStays DEF BankInv, RequestsOK
  <2>3. \A a : (Get(a)' <=> Get(a)) /\ (Sound(a)' <=> Sound(a))
    BY <2>1 DEF Get, Sound, Document, Usable, Duplicates
  <2>4. QED
    BY <2>1, <2>2, <2>3 DEF BankInv
<1>3. QED
  BY <1>1, <1>2 DEF Next, vars

\* Whatever is created, changed piece by piece, moved, deleted and broken off,
\* requests that do not overlap leave templates with an answer and distractors
\* at both ends of their range, and no two of a topic that read alike.
THEOREM BankStaysSound == Spec => []BankIsSound
<1>1. Init => BankInv
  BY DEF Init, BankInv, RequestsOK, Get
<1>2. BankInv => BankIsSound
  BY DEF BankInv, Sound, Usable, BankIsSound
<1>3. QED
  BY <1>1, <1>2, BankInvStep, PTL DEF Spec


(***************************************************************************)
(* Score equating: the invariant.                                          *)
(***************************************************************************)
Steps == {"idle", "load", "compute", "append", "commit", "report", "acknowledge"}
TriggerStates == {"none", "sent", "unreadable", "leased", "nacked", "acked"}
Rows == [cand : Candidates, raw : Nat, equated : Int \union {Nothing}, applied : BOOLEAN]

EquatorType ==
    /\ arrived \in 0 .. Len(Cohorts) /\ results \in Seq(Rows) /\ scores \in Seq(Rows)
    /\ irt \in [AllItems -> SUBSET ItemFits]
    /\ trigger \in [Msgs -> TriggerStates] /\ pc \in Steps
    /\ pc # "idle" => lease \in Msgs
    /\ sent \subseteq Seen /\ scored \in [Candidates -> Documents \union {Nothing}]
    /\ summary \in Summaries \union {Nothing} /\ faults \in 0 .. MaxFaults

\* The raw score of every row and of every document is its candidate's, and
\* only who has a row in the table is read or published.
TrueRows(rows) == \A k \in DOMAIN rows : rows[k].raw = Raw[rows[k].cand]
Entered == {results[k].cand : k \in DOMAIN results}

RowsAreTrue ==
    /\ TrueRows(results) /\ TrueRows(scores) /\ Seen \subseteq Entered
    /\ \A c \in Published : scored[c].raw = Raw[c] /\ c \in Entered

\* What the worker has computed from the rows it has read.
Computed ==
    /\ outcome.applied \in BOOLEAN /\ outcome.adjustment \in Int
    /\ \A c \in Seen : outcome.equated[c] \in Int
    /\ Seen # {} =>
          outcome.adjustment = Largest({Abs(outcome.equated[c] - Raw[c]) : c \in Seen})

\* A run reads everyone who has a document; what it has sent is its own, and
\* it reports when all it has read is sent.
DocOf(c) == [raw |-> Raw[c], equated |-> outcome.equated[c], applied |-> outcome.applied]

RunIsOwn ==
    /\ pc \notin {"idle", "load"} => Published \subseteq Seen
    /\ pc \in {"compute", "append", "commit"} => Seen # {}
    /\ pc \in {"append", "commit", "report", "acknowledge"} => Computed
    /\ pc \in {"idle", "load", "compute", "append"} => sent = {}
    /\ \A c \in sent : scored[c] = DocOf(c)
    /\ pc \in {"report", "acknowledge"} => sent = Seen
    /\ pc = "acknowledge" => /\ summary \in Summaries /\ summary.applied = outcome.applied
                             /\ summary.adjustment = outcome.adjustment

HalfDone == pc # "idle" \/ \E m \in Msgs : trigger[m] = "nacked"

EquatorInv ==
    /\ EquatorType
    /\ RowsAreTrue
    /\ RunIsOwn
    /\ HalfDone \/ Published = {} \/ OneRunIsTold

(***************************************************************************)
(* What the worker computes.                                               *)
(***************************************************************************)
LEMMA AbsIsInt == ASSUME NEW n \in Int PROVE Abs(n) \in Int
  BY DEF Abs

\* What is read is of finitely many candidates, so there is a largest of any
\* numbers there is one of for each.
LEMMA LargestOfSeen ==
    ASSUME EquatorType, Seen # {}, NEW f, \A c \in Seen : f[c] \in Int
    PROVE  Largest({f[c] : c \in Seen}) \in Int
<1> DEFINE S == {f[c] : c \in Seen}
           g == [k \in 1 .. Len(scores) |-> f[scores[k].cand]]
<1>1. Len(scores) \in Nat /\ DOMAIN scores = 1 .. Len(scores)
  BY DEF EquatorType
<1>2. Seen = {scores[k].cand : k \in 1 .. Len(scores)}
  BY <1>1 DEF Seen
<1>3. g \in Surjection(1 .. Len(scores), S)
  <2>1. g \in [1 .. Len(scores) -> S]
    BY <1>2
  <2>2. \A x \in S : \E k \in 1 .. Len(scores) : g[k] = x
    BY <1>2
  <2>3. QED
    BY <2>1, <2>2 DEF Surjection
<1>4. IsFiniteSet(S)
  <2>1. IsFiniteSet(1 .. Len(scores))
    BY <1>1, FS_Interval
  <2>2. QED
    BY <1>3, <2>1, FS_Surjection
<1>5. S \in SUBSET Int /\ S # {}
  OBVIOUS
<1>6. Extremal(S)
  BY <1>4, <1>5, FiniteIsExtremal
<1>7. Largest(S) \in S
  BY <1>6 DEF Extremal, Largest
<1>8. QED
  BY <1>5, <1>7

LEMMA SeenAreCandidates ==
    ASSUME EquatorType
    PROVE  Seen \subseteq Candidates
<1>1. \A k \in DOMAIN scores : scores[k] \in Rows
  BY DEF EquatorType
<1>2. QED
  BY <1>1 DEF Seen, Rows

\* With any parameters of the questions, and any reference paper.
LEMMA TrueScoresAreInt ==
    ASSUME EquatorType, NEW v \in References(scores), NEW f \in Lookups
    PROVE  \A c \in Seen : TrueScores(Seen, v, f)[c] \in Int
<1>1. v \in Variants /\ f \in [AllItems -> Parameters]
  BY DEF References, Lookups
<1>2. SUFFICES ASSUME NEW c \in Seen
               PROVE  TrueScores(Seen, v, f)[c] \in Int
  OBVIOUS
<1>3. c \in Candidates /\ Variant[c] \in Variants
  BY SeenAreCandidates DEF Variants
<1>4. Items[v] \subseteq AllItems /\ Items[Variant[c]] \subseteq AllItems
  BY <1>1, <1>3 DEF AllItems
<1> DEFINE own == [i \in Items[Variant[c]] |-> f[i]]
           reference == [i \in Items[v] |-> f[i]]
<1>5. own \in [Items[Variant[c]] -> Parameters] /\ reference \in [Items[v] -> Parameters]
  BY <1>1, <1>4
<1>6. TrueScores(Seen, v, f)[c] = TrueScore(c, own, reference)
  BY DEF TrueScores
<1>7. TrueScore(c, own, reference) \in Int
  BY <1>1, <1>3, <1>5, EquatingAssumption
<1>8. QED
  BY <1>6, <1>7

LEMMA OutcomeIsComputed ==
    ASSUME EquatorType, Seen # {}, NEW o \in Outcomes(scores), outcome' = o, Seen' = Seen
    PROVE  Computed'
<1>1. \A c \in Seen : c \in Candidates /\ Raw[c] \in Nat
  BY SeenAreCandidates, EquatingAssumption
<1>2. CASE EquatingNeeded(scores)
  <2>1. PICK v \in References(scores), f \in Lookups :
          o = [applied |-> TRUE, equated |-> TrueScores(Seen, v, f),
               adjustment |-> Adjustment(TrueScores(Seen, v, f), Seen)]
    <3>1. PICK e \in EquatedScores(scores, Seen) :
             o = [applied |-> TRUE, equated |-> e, adjustment |-> Adjustment(e, Seen)]
      BY <1>2 DEF Outcomes, Seen
    <3>2. PICK v \in References(scores), f \in Lookups : e = TrueScores(Seen, v, f)
      BY <3>1 DEF EquatedScores
    <3>3. QED
      BY <3>1, <3>2
  <2> DEFINE e == TrueScores(Seen, v, f)
             d == [c \in Seen |-> Abs(e[c] - Raw[c])]
  <2>2. \A c \in Seen : e[c] \in Int
    BY TrueScoresAreInt
  <2> HIDE DEF e
  <2>3. \A c \in Seen : e[c] - Raw[c] \in Int
    BY <1>1, <2>2
  <2>4. \A c \in Seen : d[c] \in Int
    BY <2>3, AbsIsInt
  <2>5. Largest({d[c] : c \in Seen}) \in Int
    BY <2>4, LargestOfSeen
  <2>6. {d[c] : c \in Seen} = {Abs(e[c] - Raw[c]) : c \in Seen}
    OBVIOUS
  <2>7. o.applied = TRUE /\ o.equated = e /\ o.adjustment = Adjustment(e, Seen)
    BY <2>1 DEF e
  <2>8. o.adjustment = Largest({Abs(e[c] - Raw[c]) : c \in Seen})
    BY <2>7 DEF Adjustment
  <2>9. QED
    BY <2>2, <2>5, <2>6, <2>7, <2>8 DEF Computed
<1>3. CASE ~EquatingNeeded(scores)
  <2>1. o = [applied |-> FALSE, equated |-> [c \in Seen |-> Raw[c]], adjustment |-> 0]
    BY <1>3 DEF Outcomes, Seen
  <2>2. \A c \in Seen : o.equated[c] = Raw[c] /\ Abs(o.equated[c] - Raw[c]) = 0
    BY <1>1, <2>1 DEF Abs
  <2>3. {Abs(o.equated[c] - Raw[c]) : c \in Seen} = {0}
    BY <2>2
  <2>4. Largest({0}) = 0
    BY DEF Largest
  <2>5. QED
    BY <1>1, <2>1, <2>2, <2>3, <2>4 DEF Computed
<1>4. QED
  BY <1>2, <1>3
(***************************************************************************)
(* Score equating: every step.                                             *)
(***************************************************************************)

\* Outside the worker nothing is told or forgotten, and rows are only added.
LEMMA OutsideKeeps ==
    ASSUME EquatorInv, UNCHANGED <<equating, scored, summary>>,
           arrived' \in 0 .. Len(Cohorts), irt' \in [AllItems -> SUBSET ItemFits],
           trigger' \in [Msgs -> TriggerStates], faults' \in 0 .. MaxFaults,
           results' \in Seq(Rows), TrueRows(results)', Entered \subseteq Entered',
           \A m \in Msgs : trigger[m] = "nacked" => trigger'[m] = "nacked"
    PROVE  EquatorInv'
<1>1. /\ pc' = pc /\ lease' = lease /\ scores' = scores /\ outcome' = outcome /\ sent' = sent
      /\ scored' = scored /\ summary' = summary
  BY DEF equating
<1>2. Seen' = Seen /\ Published' = Published
  BY <1>1 DEF Seen, Published
<1>3. EquatorType'
  BY <1>1, <1>2 DEF EquatorInv, EquatorType
<1>4. RowsAreTrue'
  BY <1>1, <1>2 DEF EquatorInv, RowsAreTrue, TrueRows
<1>5. RunIsOwn'
  <2>1. Computed => Computed'
    BY <1>1, <1>2 DEF Computed
  <2>2. \A c : DocOf(c)' = DocOf(c)
    BY <1>1 DEF DocOf
  <2>3. QED
    BY <1>1, <1>2, <2>1, <2>2 DEF EquatorInv, RunIsOwn
<1>6. (HalfDone \/ Published = {} \/ OneRunIsTold)'
  <2>1. HalfDone => HalfDone'
    BY <1>1 DEF HalfDone
  <2>2. OneRunIsTold => OneRunIsTold'
    BY <1>1, <1>2 DEF OneRunIsTold
  <2>3. QED
    BY <1>2, <2>1, <2>2 DEF EquatorInv
<1>7. QED
  BY <1>3, <1>4, <1>5, <1>6 DEF EquatorInv

\* Rows are added behind those of the table.
LEMMA RowsAdded ==
    ASSUME NEW old \in Seq(Rows), NEW n \in Nat, NEW new \in [1 .. n -> Rows],
           TrueRows(old), TrueRows(new)
    PROVE  /\ old \o new \in Seq(Rows) /\ TrueRows(old \o new)
           /\ {old[k].cand : k \in DOMAIN old}
                  \subseteq {(old \o new)[k].cand : k \in DOMAIN (old \o new)}
<1>1. new \in Seq(Rows) /\ Len(new) = n
  OBVIOUS
<1> DEFINE all == old \o new
<1>2. all \in Seq(Rows) /\ Len(all) = Len(old) + n /\ Len(old) \in Nat
  BY <1>1
<1>3. \A k \in DOMAIN old : k \in DOMAIN all /\ all[k] = old[k]
  BY <1>1
<1>4. \A k \in DOMAIN all : k \in DOMAIN old \/ (k - Len(old) \in DOMAIN new /\ all[k] = new[k - Len(old)])
  BY <1>1
<1> HIDE DEF all
<1>5. TrueRows(all)
  BY <1>3, <1>4 DEF TrueRows
<1>6. {old[k].cand : k \in DOMAIN old} \subseteq {all[k].cand : k \in DOMAIN all}
  BY <1>3
<1>7. QED
  BY <1>2, <1>5, <1>6 DEF all

LEMMA ArriveKeeps == EquatorInv /\ Arrive => EquatorInv'
<1> SUFFICES ASSUME EquatorInv, Arrive PROVE EquatorInv'
  OBVIOUS
<1> DEFINE cohort == Cohorts[arrived + 1]
           new == [k \in DOMAIN cohort |-> RowOf(cohort[k], Nothing, FALSE)]
<1>1. Len(Cohorts) \in Nat /\ arrived + 1 \in 1 .. Len(Cohorts) /\ cohort \in Seq(Candidates)
  BY EquatingAssumption DEF EquatorInv, EquatorType, Arrive
<1> HIDE DEF cohort
<1>2. new \in [1 .. Len(cohort) -> Rows] /\ TrueRows(new) /\ Len(cohort) \in Nat
  <2>1. DOMAIN cohort = 1 .. Len(cohort) /\ Len(cohort) \in Nat
    BY <1>1
  <2>2. \A k \in 1 .. Len(cohort) : cohort[k] \in Candidates
    BY <1>1
  <2>3. \A c \in Candidates : RowOf(c, Nothing, FALSE) \in Rows
    BY EquatingAssumption DEF RowOf, Rows
  <2>4. TrueRows(new)
    BY DEF RowOf, TrueRows
  <2>5. QED
    BY <2>1, <2>2, <2>3, <2>4
<1> HIDE DEF new
<1>3. results' = results \o new
  BY DEF Arrive, new, cohort
<1>4. results \in Seq(Rows) /\ TrueRows(results)
  BY DEF EquatorInv, EquatorType, RowsAreTrue
<1>5. results' \in Seq(Rows) /\ TrueRows(results') /\ Entered \subseteq Entered'
  <2>1. /\ results \o new \in Seq(Rows) /\ TrueRows(results \o new)
        /\ {results[k].cand : k \in DOMAIN results}
               \subseteq {(results \o new)[k].cand : k \in DOMAIN (results \o new)}
    BY <1>2, <1>4, RowsAdded
  <2>2. Entered' = {results'[k].cand : k \in DOMAIN results'}
    BY DEF Entered
  <2>3. QED
    BY <1>3, <2>1, <2>2 DEF Entered
<1>6. TrueRows(results)'
  BY <1>5 DEF TrueRows
<1>7. QED
  BY <1>1, <1>5, <1>6, OutsideKeeps DEF EquatorInv, EquatorType, Arrive

\* What goes on around the worker besides.
MessageMoves ==
    \/ \E i \in AllItems, fit \in ItemFits : AppendFit(i, fit)
    \/ \E m \in Msgs : Trigger(m) \/ TriggerBadly(m) \/ Duplicate(m) \/ Drop(m)

LEMMA MessageMovesKeep == EquatorInv /\ MessageMoves => EquatorInv'
<1> SUFFICES ASSUME EquatorInv, MessageMoves PROVE EquatorInv'
  OBVIOUS
<1>1. results' = results /\ arrived' = arrived /\ UNCHANGED <<equating, scored, summary>>
  BY DEF MessageMoves, AppendFit, Trigger, TriggerBadly, Duplicate, Drop
<1>2. TrueRows(results)' /\ Entered \subseteq Entered' /\ results' \in Seq(Rows)
  BY <1>1 DEF EquatorInv, EquatorType, RowsAreTrue, TrueRows, Entered
<1>3. trigger \in [Msgs -> TriggerStates] /\ irt \in [AllItems -> SUBSET ItemFits]
      /\ faults \in 0 .. MaxFaults /\ MaxFaults \in Nat
  BY EquatingAssumption DEF EquatorInv, EquatorType
<1>4. irt' \in [AllItems -> SUBSET ItemFits]
  BY <1>3 DEF MessageMoves, AppendFit, Trigger, TriggerBadly, Duplicate, Drop
<1>5. trigger' \in [Msgs -> TriggerStates]
  BY <1>3 DEF MessageMoves, AppendFit, Trigger, TriggerBadly, Duplicate, Drop, TriggerStates
<1>6. faults' \in 0 .. MaxFaults
  <2>1. faults' = faults \/ (faults < MaxFaults /\ faults' = faults + 1)
    BY DEF MessageMoves, AppendFit, Trigger, TriggerBadly, Duplicate, Drop
  <2>2. QED
    BY <1>3, <2>1
<1>7. \A m \in Msgs : trigger[m] = "nacked" => trigger'[m] = "nacked"
  BY <1>3 DEF MessageMoves, AppendFit, Trigger, TriggerBadly, Duplicate, Drop
<1>8. QED
  BY <1>1, <1>2, <1>4, <1>5, <1>6, <1>7, OutsideKeeps DEF EquatorInv, EquatorType

LEMMA TakeKeeps == ASSUME EquatorInv, NEW m \in Msgs, Take(m) PROVE EquatorInv'
<1>1. /\ arrived' = arrived /\ results' = results /\ irt' = irt /\ scores' = scores
      /\ outcome' = outcome /\ sent' = sent /\ scored' = scored /\ summary' = summary
      /\ faults' = faults /\ pc = "idle" /\ pc' = "load" /\ lease' = m
      /\ trigger' = [trigger EXCEPT ![m] = "leased"]
  BY DEF Take, EquatorFree
<1>2. Seen' = Seen /\ Published' = Published /\ Entered' = Entered
  BY <1>1 DEF Seen, Published, Entered
<1>3. EquatorType'
  BY <1>1, <1>2 DEF EquatorInv, EquatorType, TriggerStates, Steps
<1>4. RowsAreTrue'
  BY <1>1, <1>2 DEF EquatorInv, RowsAreTrue, TrueRows
<1>5. RunIsOwn'
  BY <1>1 DEF EquatorInv, RunIsOwn
<1>6. HalfDone'
  BY <1>1 DEF HalfDone
<1>7. QED
  BY <1>3, <1>4, <1>5, <1>6 DEF EquatorInv

\* Whoever has a document has a row, and every row is read.
LEMMA LoadScoresKeeps == EquatorInv /\ LoadScores => EquatorInv'
<1> SUFFICES ASSUME EquatorInv, LoadScores PROVE EquatorInv'
  OBVIOUS
<1>1. /\ arrived' = arrived /\ results' = results /\ irt' = irt /\ scores' = results
      /\ trigger' = trigger /\ lease' = lease /\ sent' = sent /\ scored' = scored
      /\ summary' = summary /\ faults' = faults
      /\ pc = "load" /\ pc' \in {"compute", "report"}
  BY DEF LoadScores
<1>2. Seen' = Entered /\ Published' = Published /\ Entered' = Entered /\ sent = {}
  BY <1>1 DEF Seen, Published, Entered, EquatorInv, RunIsOwn
<1>3. EquatorType'
  BY <1>1, <1>2 DEF EquatorInv, EquatorType, Steps
<1>4. RowsAreTrue'
  BY <1>1, <1>2 DEF EquatorInv, RowsAreTrue, TrueRows
<1>5. pc' = "compute" => Seen' # {}
  <2>1. ASSUME pc' = "compute" PROVE Entered # {}
    <3>1. results # <<>> /\ results \in Seq(Rows)
      BY <2>1 DEF LoadScores, EquatorInv, EquatorType
    <3>2. 1 \in DOMAIN results
      BY <3>1
    <3>3. QED
      BY <3>2 DEF Entered
  <2>2. QED
    BY <1>2, <2>1
<1>6. pc' = "report" => Seen' = {} /\ Computed'
  <2>1. ASSUME pc' = "report"
        PROVE  results = <<>> /\ outcome' = [applied |-> FALSE, equated |-> <<>>, adjustment |-> 0]
    BY <2>1 DEF LoadScores
  <2>2. results = <<>> => Entered = {}
    BY DEF Entered
  <2>3. ASSUME pc' = "report" PROVE Seen' = {} /\ Computed'
    <3>1. Seen' = {} /\ outcome'.applied = FALSE /\ outcome'.adjustment = 0
      BY <1>2, <2>1, <2>2, <2>3
    <3>2. outcome'.applied \in BOOLEAN
      BY <3>1, Zenon
    <3>3. outcome'.adjustment \in Int /\ \A c \in Seen' : outcome'.equated[c] \in Int
      BY <3>1
    <3>4. (Seen # {} => outcome.adjustment = Largest({Abs(outcome.equated[c] - Raw[c]) : c \in Seen}))'
      BY <3>1
    <3>5. QED
      BY <3>1, <3>2, <3>3, <3>4 DEF Computed
  <2>4. QED
    BY <2>3
<1>7. RunIsOwn'
  <2>1. Published' \subseteq Seen'
    BY <1>2 DEF EquatorInv, RowsAreTrue
  <2>2. QED
    BY <1>1, <1>2, <1>5, <1>6, <2>1 DEF RunIsOwn
<1>8. HalfDone'
  BY <1>1 DEF HalfDone
<1>9. QED
  BY <1>3, <1>4, <1>7, <1>8 DEF EquatorInv

LEMMA ComputeKeeps == EquatorInv /\ Compute => EquatorInv'
<1> SUFFICES ASSUME EquatorInv, Compute PROVE EquatorInv'
  OBVIOUS
<1>1. /\ arrived' = arrived /\ results' = results /\ irt' = irt /\ scores' = scores
      /\ trigger' = trigger /\ lease' = lease /\ sent' = sent /\ scored' = scored
      /\ summary' = summary /\ faults' = faults /\ pc = "compute" /\ pc' = "append"
  BY DEF Compute
<1>2. Seen' = Seen /\ Published' = Published /\ Entered' = Entered
  BY <1>1 DEF Seen, Published, Entered
<1>3. PICK o \in Outcomes(scores) : outcome' = o
  BY DEF Compute
<1>4. Seen # {} /\ sent = {} /\ Published \subseteq Seen
  BY <1>1 DEF EquatorInv, RunIsOwn
<1>5. Computed'
  BY <1>2, <1>3, <1>4, OutcomeIsComputed DEF EquatorInv
<1>6. EquatorType'
  BY <1>1, <1>2 DEF EquatorInv, EquatorType, Steps
<1>7. RowsAreTrue'
  BY <1>1, <1>2 DEF EquatorInv, RowsAreTrue, TrueRows
<1>8. RunIsOwn'
  BY <1>1, <1>2, <1>4, <1>5 DEF RunIsOwn
<1>9. HalfDone'
  BY <1>1 DEF HalfDone
<1>10. QED
  BY <1>6, <1>7, <1>8, <1>9 DEF EquatorInv

\* What the worker's own rows are: true, whether they are inserted or not.
LEMMA AppendRowsKeeps == EquatorInv /\ AppendRows => EquatorInv'
<1> SUFFICES ASSUME EquatorInv, AppendRows PROVE EquatorInv'
  OBVIOUS
<1>1. /\ arrived' = arrived /\ irt' = irt /\ scores' = scores /\ outcome' = outcome
      /\ trigger' = trigger /\ lease' = lease /\ sent' = sent /\ scored' = scored
      /\ summary' = summary /\ pc = "append" /\ pc' = "commit"
  BY DEF AppendRows
<1>2. Seen' = Seen /\ Published' = Published
  BY <1>1 DEF Seen, Published
<1>3. Seen # {} /\ sent = {} /\ Published \subseteq Seen /\ Computed
  BY <1>1 DEF EquatorInv, RunIsOwn
<1>4. results \in Seq(Rows) /\ scores \in Seq(Rows) /\ TrueRows(results) /\ TrueRows(scores)
  BY DEF EquatorInv, EquatorType, RowsAreTrue
<1>5. results' \in Seq(Rows) /\ TrueRows(results)' /\ Entered \subseteq Entered'
  <2>1. CASE results' = results
    BY <1>4, <2>1 DEF Entered, TrueRows
  <2>2. CASE results' = results \o Appended
    <3>1. Appended \in [1 .. Len(scores) -> Rows] /\ TrueRows(Appended) /\ Len(scores) \in Nat
      <4>1. DOMAIN scores = 1 .. Len(scores) /\ Len(scores) \in Nat
        BY <1>4
      <4>2. \A k \in DOMAIN scores :
               /\ scores[k].cand \in Candidates /\ scores[k].raw \in Nat
               /\ scores[k].raw = Raw[scores[k].cand] /\ scores[k].cand \in Seen
        <5>1. \A k \in DOMAIN scores : scores[k] \in Rows
          BY <1>4
        <5>2. QED
          BY <1>4, <5>1 DEF Rows, Seen, TrueRows
      <4>3. \A k \in DOMAIN scores : Appended[k] \in Rows
        <5>1. TAKE k \in DOMAIN scores
        <5>2. outcome.equated[scores[k].cand] \in Int \union {Nothing} /\ outcome.applied \in BOOLEAN
          BY <1>3, <4>2 DEF Computed
        <5>3. Appended[k] = [cand |-> scores[k].cand, raw |-> scores[k].raw,
                             equated |-> outcome.equated[scores[k].cand],
                             applied |-> outcome.applied]
          BY DEF Appended
        <5>4. Appended[k].applied \in BOOLEAN
          BY <5>2, <5>3
        <5>5. QED
          BY <4>2, <5>2, <5>3, <5>4 DEF Rows
      <4>4. TrueRows(Appended)
        BY <4>2 DEF TrueRows, Appended
      <4>5. QED
        BY <4>1, <4>3, <4>4 DEF Appended
    <3> DEFINE new == Appended
    <3>2. new \in [1 .. Len(scores) -> Rows] /\ TrueRows(new)
      BY <3>1
    <3> HIDE DEF new
    <3>3. /\ results \o new \in Seq(Rows) /\ TrueRows(results \o new)
          /\ {results[k].cand : k \in DOMAIN results}
                 \subseteq {(results \o new)[k].cand : k \in DOMAIN (results \o new)}
      BY <1>4, <3>1, <3>2, RowsAdded
    <3>4. results' = results \o new
      BY <2>2 DEF new
    <3>5. Entered' = {results'[k].cand : k \in DOMAIN results'}
      BY DEF Entered
    <3>6. Entered \subseteq Entered'
      BY <3>3, <3>4, <3>5 DEF Entered
    <3>7. TrueRows(results)'
      BY <3>3, <3>4 DEF TrueRows
    <3>8. QED
      BY <3>3, <3>4, <3>6, <3>7
  <2>3. QED
    BY <2>1, <2>2 DEF AppendRows
<1>6. faults' \in 0 .. MaxFaults
  BY EquatingAssumption DEF EquatorInv, EquatorType, AppendRows
<1>7. EquatorType'
  BY <1>1, <1>2, <1>5, <1>6 DEF EquatorInv, EquatorType, Steps
<1>8. RowsAreTrue'
  BY <1>1, <1>2, <1>5 DEF EquatorInv, RowsAreTrue, TrueRows
<1>9. RunIsOwn'
  <2>1. Computed'
    BY <1>1, <1>2, <1>3 DEF Computed
  <2>2. QED
    BY <1>1, <1>2, <1>3, <2>1 DEF RunIsOwn
<1>10. HalfDone'
  BY <1>1 DEF HalfDone
<1>11. QED
  BY <1>7, <1>8, <1>9, <1>10 DEF EquatorInv

\* A document of this run, whichever of its candidate's rows it is made from.
LEMMA DocsAreOwn ==
    ASSUME EquatorInv, Computed, NEW c \in Seen
    PROVE  /\ \A new \in ResultDocs(c) : new = DocOf(c)
           /\ DocOf(c) \in Documents /\ DocOf(c) # Nothing
<1>1. \A k \in DOMAIN scores : scores[k].raw = Raw[scores[k].cand]
  BY DEF EquatorInv, RowsAreTrue, TrueRows
<1>2. c \in Candidates /\ Raw[c] \in Nat
  BY SeenAreCandidates, EquatingAssumption DEF EquatorInv
<1>3. \A new \in ResultDocs(c) : new = DocOf(c)
  BY <1>1 DEF ResultDocs, DocOf
<1>4. DocOf(c) \in Documents
  BY <1>2 DEF Computed, DocOf, Documents
<1>5. QED
  BY <1>3, <1>4, EquatingAssumption

LEMMA CommitBatchKeeps == EquatorInv /\ CommitBatch => EquatorInv'
<1> SUFFICES ASSUME EquatorInv, CommitBatch PROVE EquatorInv'
  OBVIOUS
<1>1. /\ arrived' = arrived /\ results' = results /\ irt' = irt /\ scores' = scores
      /\ trigger' = trigger /\ lease' = lease /\ outcome' = outcome /\ summary' = summary
      /\ faults' = faults /\ pc = "commit" /\ pc' = IF sent' = Seen THEN "report" ELSE "commit"
  BY DEF CommitBatch
<1>2. Seen' = Seen /\ Entered' = Entered
  BY <1>1 DEF Seen, Entered
<1>3. Seen # {} /\ Published \subseteq Seen /\ Computed /\ sent \subseteq Seen
      /\ (\A c \in sent : scored[c] = DocOf(c)) /\ Seen \subseteq Entered
  BY <1>1 DEF EquatorInv, EquatorType, RowsAreTrue, RunIsOwn
<1>4. PICK batch \in Batches :
         /\ sent' = sent \union batch
         /\ \E new \in [batch -> UNION {ResultDocs(c) : c \in batch}] :
               /\ \A c \in batch : new[c] \in ResultDocs(c)
               /\ scored' = [c \in Candidates |-> IF c \in batch THEN new[c] ELSE scored[c]]
  BY DEF CommitBatch
<1>5. batch \subseteq Seen \ sent
  BY <1>4 DEF Batches
<1>6. /\ scored' \in [Candidates -> Documents \union {Nothing}]
      /\ \A c \in Candidates : scored'[c] = IF c \in batch THEN DocOf(c) ELSE scored[c]
  <2>1. PICK new : /\ \A c \in batch : new[c] \in ResultDocs(c)
                   /\ scored' = [c \in Candidates |-> IF c \in batch THEN new[c] ELSE scored[c]]
    BY <1>4
  <2>2. \A c \in batch : new[c] = DocOf(c) /\ DocOf(c) \in Documents
    BY <1>3, <1>5, <2>1, DocsAreOwn
  <2>3. scored \in [Candidates -> Documents \union {Nothing}]
    BY DEF EquatorInv, EquatorType
  <2>4. QED
    BY <2>1, <2>2, <2>3
<1>7. \A c : DocOf(c)' = DocOf(c)
  BY <1>1 DEF DocOf
<1>8. \A c \in Seen : c \in Candidates /\ DocOf(c).raw = Raw[c]
  BY SeenAreCandidates DEF EquatorInv, DocOf
<1>9. Published' \subseteq Seen
  BY <1>3, <1>5, <1>6 DEF Published
<1>10. EquatorType'
  <2>1. sent' \subseteq Seen'
    BY <1>2, <1>3, <1>4, <1>5
  <2>2. QED
    BY <1>1, <1>6, <2>1 DEF EquatorInv, EquatorType, Steps
<1>11. RowsAreTrue'
  <2>1. \A c \in Published' : scored'[c].raw = Raw[c] /\ c \in Entered
    <3>1. TAKE c \in Published'
    <3>2. c \in Candidates /\ c \in Seen /\ (c \notin batch => c \in Published)
      BY <1>6, <1>9 DEF Published
    <3>3. CASE c \in batch
      BY <1>3, <1>6, <1>8, <3>2, <3>3
    <3>4. CASE c \notin batch
      BY <1>6, <3>2, <3>4 DEF EquatorInv, RowsAreTrue
    <3>5. QED
      BY <3>3, <3>4
  <2>2. QED
    BY <1>1, <1>2, <2>1 DEF EquatorInv, RowsAreTrue, TrueRows
<1>12. RunIsOwn'
  <2>1. Computed'
    BY <1>1, <1>2, <1>3 DEF Computed
  <2>2. \A c \in sent' : scored'[c] = DocOf(c)'
    BY <1>3, <1>4, <1>5, <1>6, <1>7, <1>8
  <2>3. QED
    BY <1>1, <1>2, <1>3, <1>9, <2>1, <2>2 DEF RunIsOwn
<1>13. HalfDone'
  BY <1>1 DEF HalfDone
<1>14. QED
  BY <1>10, <1>11, <1>12, <1>13 DEF EquatorInv

LEMMA ReportKeeps == EquatorInv /\ Report => EquatorInv'
<1> SUFFICES ASSUME EquatorInv, Report PROVE EquatorInv'
  OBVIOUS
<1>1. /\ arrived' = arrived /\ results' = results /\ irt' = irt /\ scores' = scores
      /\ trigger' = trigger /\ lease' = lease /\ outcome' = outcome /\ sent' = sent
      /\ scored' = scored /\ faults' = faults /\ pc = "report" /\ pc' = "acknowledge"
      /\ summary' = [applied |-> outcome.applied, adjustment |-> outcome.adjustment,
                     rows |-> Len(scores)]
  BY DEF Report
<1>2. Seen' = Seen /\ Entered' = Entered /\ Published' = Published
  BY <1>1 DEF Seen, Entered, Published
<1>3. Published \subseteq Seen /\ Computed /\ sent = Seen
      /\ (\A c \in sent : scored[c] = DocOf(c))
  BY <1>1 DEF EquatorInv, RunIsOwn
<1>4. summary' \in Summaries /\ summary'.applied = outcome.applied
      /\ summary'.adjustment = outcome.adjustment
  BY <1>1, <1>3 DEF EquatorInv, EquatorType, Computed, Summaries
<1>5. EquatorType'
  BY <1>1, <1>2, <1>4 DEF EquatorInv, EquatorType, Steps
<1>6. RowsAreTrue'
  BY <1>1, <1>2 DEF EquatorInv, RowsAreTrue, TrueRows
<1>7. RunIsOwn'
  <2>1. Computed' /\ \A c : DocOf(c)' = DocOf(c)
    BY <1>1, <1>2, <1>3 DEF Computed, DocOf
  <2>2. QED
    BY <1>1, <1>2, <1>3, <1>4, <2>1 DEF RunIsOwn
<1>8. HalfDone'
  BY <1>1 DEF HalfDone
<1>9. QED
  BY <1>5, <1>6, <1>7, <1>8 DEF EquatorInv

\* Everyone who has a document was sent one by the run that ends here.
LEMMA AcknowledgeKeeps == EquatorInv /\ Acknowledge => EquatorInv'
<1> SUFFICES ASSUME EquatorInv, Acknowledge PROVE EquatorInv'
  OBVIOUS
<1>1. /\ arrived' = arrived /\ results' = results /\ irt' = irt /\ scores' = <<>>
      /\ trigger' = [trigger EXCEPT ![lease] = "acked"] /\ sent' = {} /\ scored' = scored
      /\ summary' = summary /\ faults' = faults /\ pc = "acknowledge" /\ pc' = "idle"
  BY DEF Acknowledge, Released
<1>2. Seen' = {} /\ Entered' = Entered /\ Published' = Published
  BY <1>1 DEF Seen, Entered, Published
<1>3. /\ Published \subseteq Seen /\ Computed /\ sent = Seen
      /\ (\A c \in sent : scored[c] = DocOf(c))
      /\ summary \in Summaries /\ summary.applied = outcome.applied
      /\ summary.adjustment = outcome.adjustment
  BY <1>1 DEF EquatorInv, RunIsOwn
<1>4. EquatorType'
  BY <1>1, <1>2, EmptySeq DEF EquatorInv, EquatorType, Steps, TriggerStates
<1>5. RowsAreTrue'
  BY <1>1, <1>2 DEF EquatorInv, RowsAreTrue, TrueRows
<1>6. RunIsOwn'
  BY <1>1 DEF RunIsOwn
<1>7. (Published = {} \/ OneRunIsTold)'
  <2>1. Published = Seen
    <3>1. \A c \in Seen : c \in Candidates /\ scored[c] # Nothing
      BY <1>3, DocsAreOwn, SeenAreCandidates DEF EquatorInv
    <3>2. QED
      BY <1>3, <3>1 DEF Published
  <2>2. \A c \in Published : scored[c].applied = outcome.applied
                             /\ scored[c].equated = outcome.equated[c] /\ scored[c].raw = Raw[c]
    <3>1. TAKE c \in Published
    <3>2. scored[c] = [raw |-> Raw[c], equated |-> outcome.equated[c], applied |-> outcome.applied]
      BY <1>3, <2>1 DEF DocOf
    <3>3. QED
      BY <3>2
  <2>3. summary # Nothing
    BY <1>3, EquatingAssumption
  <2>4. ASSUME Published # {} PROVE OneRunIsTold
    <3>1. {Abs(scored[c].equated - scored[c].raw) : c \in Published}
             = {Abs(outcome.equated[c] - Raw[c]) : c \in Seen}
      BY <2>1, <2>2
    <3>2. outcome.adjustment = Largest({Abs(outcome.equated[c] - Raw[c]) : c \in Seen})
      BY <1>3, <2>1, <2>4 DEF Computed
    <3>3. QED
      BY <1>3, <2>2, <2>3, <3>1, <3>2 DEF OneRunIsTold
  <2>5. OneRunIsTold => OneRunIsTold'
    BY <1>1, <1>2 DEF OneRunIsTold
  <2>6. QED
    BY <1>2, <2>4, <2>5
<1>8. QED
  BY <1>4, <1>5, <1>6, <1>7 DEF EquatorInv

\* A run that breaks off leaves a message that will be delivered again.
LEMMA AbortKeeps == EquatorInv /\ Abort => EquatorInv'
<1> SUFFICES ASSUME EquatorInv, Abort PROVE EquatorInv'
  OBVIOUS
<1>1. /\ arrived' = arrived /\ results' = results /\ irt' = irt /\ scores' = <<>>
      /\ trigger' = [trigger EXCEPT ![lease] = "nacked"] /\ sent' = {} /\ scored' = scored
      /\ summary' = summary /\ faults < MaxFaults /\ faults' = faults + 1
      /\ pc # "idle" /\ pc' = "idle"
  BY DEF Abort, Released
<1>2. Seen' = {} /\ Entered' = Entered /\ Published' = Published
  BY <1>1 DEF Seen, Entered, Published
<1>3. lease \in Msgs /\ trigger \in [Msgs -> TriggerStates] /\ faults \in 0 .. MaxFaults
  BY <1>1 DEF EquatorInv, EquatorType
<1>4. EquatorType'
  <2>1. faults' \in 0 .. MaxFaults
    BY <1>1, <1>3, EquatingAssumption
  <2>2. QED
    BY <1>1, <1>2, <1>3, <2>1, EmptySeq DEF EquatorInv, EquatorType, Steps, TriggerStates
<1>5. RowsAreTrue'
  BY <1>1, <1>2 DEF EquatorInv, RowsAreTrue, TrueRows
<1>6. RunIsOwn'
  BY <1>1 DEF RunIsOwn
<1>7. HalfDone'
  BY <1>1, <1>3 DEF HalfDone
<1>8. QED
  BY <1>4, <1>5, <1>6, <1>7 DEF EquatorInv

LEMMA EquatorInvInit == EquatorInit => EquatorInv
<1> SUFFICES ASSUME EquatorInit PROVE EquatorInv
  OBVIOUS
<1>1. Seen = {} /\ Published = {} /\ Entered = {}
  BY DEF EquatorInit, Seen, Published, Entered
<1>2. EquatorType
  BY <1>1, EmptySeq, EquatingAssumption
     DEF EquatorInit, EquatorType, Steps, TriggerStates
<1>3. RowsAreTrue /\ RunIsOwn
  BY <1>1 DEF EquatorInit, RowsAreTrue, RunIsOwn, TrueRows
<1>4. QED
  BY <1>1, <1>2, <1>3 DEF EquatorInv

LEMMA EquatorInvStep == EquatorInv /\ [EquatorNext]_equator => EquatorInv'
<1> SUFFICES ASSUME EquatorInv, [EquatorNext]_equator PROVE EquatorInv'
  OBVIOUS
<1>1. CASE Arrive
  BY <1>1, ArriveKeeps
<1>2. CASE MessageMoves
  BY <1>2, MessageMovesKeep
<1>3. ASSUME NEW m \in Msgs, Take(m) PROVE EquatorInv'
  BY <1>3, TakeKeeps
<1>4. CASE LoadScores \/ Compute
  BY <1>4, LoadScoresKeeps, ComputeKeeps
<1>5. CASE AppendRows \/ CommitBatch
  BY <1>5, AppendRowsKeeps, CommitBatchKeeps
<1>6. CASE Report \/ Acknowledge \/ Abort
  BY <1>6, ReportKeeps, AcknowledgeKeeps, AbortKeeps
<1>7. CASE UNCHANGED equator
  BY <1>7, OutsideKeeps DEF equator, equating, EquatorInv, EquatorType, RowsAreTrue, TrueRows, Entered
<1>8. QED
  BY <1>1, <1>2, <1>3, <1>4, <1>5, <1>6, <1>7 DEF EquatorNext, MessageMoves

(***************************************************************************)
(* Score equating: the theorems.                                           *)
(***************************************************************************)

\* Whatever results arrive and whatever the worker computes of them, rows and
\* documents stay rows and documents of the exam's candidates.
THEOREM EquatorTypeCorrect == EquatorSpec => []EquatorType
<1>1. EquatorInv => EquatorType
  BY DEF EquatorInv
<1>2. QED
  BY <1>1, EquatorInvInit, EquatorInvStep, PTL DEF EquatorSpec

\* For any cohorts and scores, any equating, any size of a batch and any number
\* of redeliveries and failures: no raw score is lost, and when no run is half
\* done candidates' documents and the exam's summary tell of the same run.
THEOREM ResultsDoAgree == EquatorSpec => []ResultsAgree
<1>1. EquatorInv => ResultsAgree
  <2>1. SUFFICES ASSUME EquatorInv PROVE ResultsAgree
    OBVIOUS
  <2>2. RawScoresSurvive
    BY <2>1 DEF EquatorInv, RowsAreTrue, TrueRows, Published, RawScoresSurvive
  <2>3. pc = "idle" /\ (\A m \in Msgs : trigger[m] # "nacked") /\ Published # {} => OneRunIsTold
    BY <2>1 DEF EquatorInv, HalfDone
  <2>4. QED
    BY <2>2, <2>3 DEF ResultsAgree
<1>2. QED
  BY <1>1, EquatorInvInit, EquatorInvStep, PTL DEF EquatorSpec

=============================================================================
