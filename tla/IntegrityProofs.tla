-------------------------- MODULE IntegrityProofs --------------------------
(***************************************************************************)
(* Proofs about the two watches over an exam's honesty.  For any number of *)
(* overlapping handlers, sessions, instances and faults and for all        *)
(* limits, the proctor of ProctoredExam watches what is shown, ends it at  *)
(* the limit, and reports no one else's violations.  For any centres,      *)
(* answers, requests, workers and faults, the workers of CollusionCheck    *)
(* use one threshold that keeps its rate, and leave what they answer       *)
(* stored.                                                                 *)
(***************************************************************************)
EXTENDS ProctoredExam, CollusionCheck, FiniteSetTheorems, SequenceTheorems,
        WellFoundedInduction, TLAPS

(***************************************************************************)
(* The proctored exam: the inductive invariant.                            *)
(***************************************************************************)
SessionIds == 0 .. MaxSessions
Phases == {"idle", "center-verify", "loading", "active", "submitting", "submitted", "error"}
Awaited == {"idle", "otp", "login", "verify", "start", "started", "save", "send"}
Instance == [session : SessionIds, screen : 0 .. MaxMounts, screens : {1, 2},
             count : [Kinds -> Nat]]
Entries == [by : Mounts, kind : Kinds, count : Nat]
Reports == [entry : Entries, session : SessionIds]

\* The candidate's side, and what the proctor and its reports are made of.
FrontType ==
    /\ step \in {"admit", "otp"} /\ started \in SessionIds
    /\ run \in [Runs -> [at : Awaited, session : SessionIds]]

WatchType ==
    /\ phase \in Phases /\ shown \in SessionIds
    /\ mounts \in 0 .. MaxMounts /\ cur \in 0 .. mounts
    /\ inst \in [Mounts -> Instance]
    /\ checks \subseteq 1 .. mounts /\ tripped \subseteq 0 .. mounts
    /\ sent \subseteq Reports
    /\ log \in [Sessions -> SUBSET Entries]
    /\ trail \in [Sessions -> Nat]

TypeOK == FrontType /\ WatchType

\* An entry is by one of the instances i, of which there are n, for its
\* session, and is not ahead of its count.
Own(e, s, i, n) ==
    e.by <= n /\ i[e.by].session = s /\ e.count <= i[e.by].count[e.kind]

\* Reports q are those of the instances i, and the server has none of them yet.
ReportsAreOwn(i, n, q) ==
    \A r \in q : /\ Own(r.entry, r.session, i, n)
                 /\ r.session \in Sessions => r.entry \notin log[r.session]

EntriesAreOwn(i, n) == \A s \in Sessions : \A e \in log[s] : Own(e, s, i, n)

TrailCounts ==
    \A s \in Sessions : IsFiniteSet(log[s]) /\ trail[s] = Cardinality(log[s])

\* A screen that has tripped is not the one that is watched, and no screen is
\* one that is still to come.
ScreenIsArmed ==
    /\ \A m \in 1 .. mounts : inst[m].screen <= mounts
    /\ cur # 0 => inst[cur].screen \notin tripped

Watch ==
    /\ WatchType
    /\ WatchedWhileShown
    /\ LimitEndsExam
    /\ ScreenIsArmed
    /\ ReportsAreOwn(inst, mounts, sent)
    /\ EntriesAreOwn(inst, mounts)
    /\ TrailCounts

IInv == FrontType /\ Watch

(***************************************************************************)
(* Counting and reporting.                                                 *)
(***************************************************************************)
\* Instances j are the instances i, further on.
Grown(i, j) ==
    \A m \in Mounts : /\ j[m].session = i[m].session /\ j[m].screen = i[m].screen
                      /\ \A k \in Kinds : i[m].count[k] <= j[m].count[k]

CountIn(i, m, k) == [i EXCEPT ![m].count[k] = @ + 1]

LEMMA CountGrows ==
    ASSUME NEW i \in [Mounts -> Instance], NEW m \in Mounts, NEW k \in Kinds
    PROVE  /\ CountIn(i, m, k) \in [Mounts -> Instance] /\ Grown(i, CountIn(i, m, k))
           /\ CountIn(i, m, k)[m].count[k] = i[m].count[k] + 1
           /\ \A x \in Mounts : \A l \in Kinds :
                 x # m \/ l # k => CountIn(i, m, k)[x].count[l] = i[x].count[l]
<1> DEFINE j == CountIn(i, m, k)
<1> DEFINE counts == [i[m].count EXCEPT ![k] = i[m].count[k] + 1]
           new == [i[m] EXCEPT !.count = counts]
<1>1. i[m] \in Instance /\ i[m].count \in [Kinds -> Nat]
  BY DEF Instance
<1>2. counts \in [Kinds -> Nat] /\ counts[k] = i[m].count[k] + 1
      /\ \A l \in Kinds : l # k => counts[l] = i[m].count[l]
  BY <1>1
<1>3. new \in Instance /\ new.session = i[m].session /\ new.screen = i[m].screen
      /\ new.count = counts
  BY <1>1, <1>2 DEF Instance
<1>4. j = [i EXCEPT ![m] = new]
  BY DEF CountIn
<1> HIDE DEF j
<1>5. j[m] = new /\ \A x \in Mounts : x # m => j[x] = i[x]
  BY <1>4
<1>6. j \in [Mounts -> Instance]
  BY <1>3, <1>4
<1>7. \A x \in Mounts : \A l \in Kinds : i[x].count[l] \in Nat
  BY DEF Instance
<1> HIDE DEF counts, new
<1>8. Grown(i, j)
  <2> SUFFICES ASSUME NEW x \in Mounts
               PROVE  /\ j[x].session = i[x].session /\ j[x].screen = i[x].screen
                      /\ \A l \in Kinds : i[x].count[l] <= j[x].count[l]
    BY DEF Grown
  <2>1. CASE x = m
    <3>1. \A l \in Kinds : i[m].count[l] <= counts[l]
      BY <1>2, <1>7
    <3>2. QED
      BY <1>3, <1>5, <2>1, <3>1
  <2>2. CASE x # m
    BY <1>5, <1>7, <2>2
  <2>3. QED
    BY <2>1, <2>2
<1>9. QED
  BY <1>2, <1>3, <1>5, <1>6, <1>8 DEF j

\* An entry stays its session's as the instances go on.
LEMMA OwnStays ==
    ASSUME NEW i \in [Mounts -> Instance], NEW j \in [Mounts -> Instance], Grown(i, j),
           NEW e \in Entries, NEW s, NEW n, Own(e, s, i, n)
    PROVE  Own(e, s, j, n)
<1>1. e.by \in Mounts /\ e.kind \in Kinds /\ e.count \in Nat
  BY DEF Entries
<1>2. i[e.by].count[e.kind] \in Nat /\ j[e.by].count[e.kind] \in Nat
  BY <1>1 DEF Instance
<1>3. QED
  BY <1>1, <1>2 DEF Own, Grown

\* A count that has just grown makes an entry that nobody has.
LEMMA ReportIsNew ==
    ASSUME WatchType, ReportsAreOwn(inst, mounts, sent), EntriesAreOwn(inst, mounts),
           NEW i \in [Mounts -> Instance], Grown(inst, i), NEW m \in 1 .. mounts, NEW k \in Kinds,
           inst[m].count[k] < i[m].count[k]
    PROVE  /\ sent \union {Report(i, m, k)} \subseteq Reports
           /\ ReportsAreOwn(i, mounts, sent \union {Report(i, m, k)})
           /\ EntriesAreOwn(i, mounts)
<1> DEFINE r == Report(i, m, k)
<1>1. m \in Mounts /\ mounts \in Nat
  BY LimitsAssumption DEF WatchType, Mounts
<1>2. i[m].session \in SessionIds /\ i[m].count[k] \in Nat /\ inst[m].count[k] \in Nat
  BY <1>1 DEF Instance, WatchType
<1>3. /\ r.session = i[m].session
      /\ r.entry = [by |-> m, kind |-> k, count |-> i[m].count[k]]
  BY DEF Report, Entry
<1>4. r.entry \in Entries /\ r \in Reports
  BY <1>1, <1>2 DEF Report, Entry, Reports, Entries
<1>5. Own(r.entry, r.session, i, mounts)
  BY <1>1, <1>2, <1>3 DEF Own
<1>6. r.session \in Sessions => r.entry \notin log[r.session]
  <2> SUFFICES ASSUME r.session \in Sessions, r.entry \in log[r.session] PROVE FALSE
    OBVIOUS
  <2>1. Own(r.entry, r.session, inst, mounts)
    BY DEF EntriesAreOwn
  <2>2. i[m].count[k] <= inst[m].count[k]
    BY <1>3, <2>1 DEF Own
  <2>3. QED
    BY <1>2, <2>2
<1>7. EntriesAreOwn(i, mounts)
  <2> SUFFICES ASSUME NEW s \in Sessions, NEW e \in log[s] PROVE Own(e, s, i, mounts)
    BY DEF EntriesAreOwn
  <2>1. e \in Entries /\ inst \in [Mounts -> Instance]
    BY DEF WatchType
  <2>2. QED
    BY <2>1, OwnStays DEF EntriesAreOwn
<1> HIDE DEF r
<1>8. ReportsAreOwn(i, mounts, sent \union {r})
  <2> SUFFICES ASSUME NEW x \in sent \union {r}
               PROVE  /\ Own(x.entry, x.session, i, mounts)
                      /\ x.session \in Sessions => x.entry \notin log[x.session]
    BY DEF ReportsAreOwn
  <2>1. CASE x \in sent
    <3>1. x.entry \in Entries /\ inst \in [Mounts -> Instance]
      BY <2>1 DEF WatchType, Reports
    <3>2. QED
      BY <2>1, <3>1, OwnStays DEF ReportsAreOwn
  <2>2. CASE x = r
    BY <1>5, <1>6, <2>2
  <2>3. QED
    BY <2>1, <2>2
<1>9. QED
  BY <1>4, <1>7, <1>8 DEF WatchType, r

(***************************************************************************)
(* A change of the store, with the proctors it mounts and unmounts.        *)
(***************************************************************************)
BelowLimits(i) ==
    cur # 0 => /\ i[cur].count["tab_switch"] < MaxTabSwitches
               /\ i[cur].count["focus_loss"] < MaxFocusLoss

\* The instance that the effect makes.
LEMMA MountIsFresh ==
    ASSUME NEW i \in [Mounts -> Instance], NEW m \in Mounts, NEW s \in SessionIds,
           NEW screen \in 0 .. MaxMounts, NEW found \in {0, 1},
           NEW j, j = Started(i, m, s, screen, found)
    PROVE  /\ j \in [Mounts -> Instance]
           /\ \A x \in Mounts : x # m => j[x] = i[x]
           /\ j[m].session = s /\ j[m].screen = screen
           /\ \A k \in Kinds : j[m].count[k] = IF k = "other" THEN found ELSE 0
<1> DEFINE counts == [k \in Kinds |-> IF k = "other" THEN found ELSE 0]
           new == [session |-> s, screen |-> screen, screens |-> 1, count |-> counts]
<1>1. counts \in [Kinds -> Nat] /\ \A k \in Kinds : counts[k] = IF k = "other" THEN found ELSE 0
  OBVIOUS
<1>2. j = [i EXCEPT ![m] = new]
  BY DEF Started
<1>3. new \in Instance /\ new.session = s /\ new.screen = screen /\ new.count = counts
  BY <1>1 DEF Instance
<1> HIDE DEF new, counts
<1>4. j \in [Mounts -> Instance] /\ j[m] = new /\ \A x \in Mounts : x # m => j[x] = i[x]
  BY <1>2, <1>3
<1>5. QED
  BY <1>1, <1>3, <1>4

LEMMA CommitKeeps ==
    ASSUME WatchType, ScreenIsArmed, TrailCounts,
           NEW i \in [Mounts -> Instance], Grown(inst, i), NEW q \in SUBSET Reports,
           ReportsAreOwn(i, mounts, q), EntriesAreOwn(i, mounts), BelowLimits(i),
           NEW p \in Phases, NEW s \in SessionIds, Commit(p, s, i, q), UNCHANGED <<log, trail>>
    PROVE  /\ tripped' = tripped => Watch'
           /\ p # "active" /\ tripped' \subseteq 0 .. mounts => Watch'
<1> USE LimitsAssumption
<1>1. /\ phase' = p /\ shown' = s
      /\ mounts \in 0 .. MaxMounts /\ cur \in 0 .. mounts /\ Mounts = 1 .. MaxMounts
  BY DEF Commit, WatchType, Mounts
<1>2. CASE p = "active" /\ ~Kept(p, s, i)
  <2> DEFINE m == mounts + 1
  <2>1. /\ m \in Mounts /\ mounts' = m /\ cur' = m /\ checks' = checks \union {m}
        /\ \E found \in {0, 1} :
              /\ inst' = Started(i, m, s, Screen(i), found)
              /\ sent' = q \union (IF found = 1 THEN {Report(inst', m, "other")} ELSE {})
    BY <1>2 DEF Commit
  <2>2. PICK found \in {0, 1} :
              /\ inst' = Started(i, m, s, Screen(i), found)
              /\ sent' = q \union (IF found = 1 THEN {Report(inst', m, "other")} ELSE {})
    BY <2>1
  <2>3. /\ Screen(i) \in 0 .. MaxMounts /\ Screen(i) <= m
        /\ tripped \subseteq 0 .. mounts => Screen(i) \notin tripped
    <3>1. CASE cur = 0
      BY <1>1, <2>1, <3>1 DEF Screen
    <3>2. CASE cur # 0
      <4>1. cur \in Mounts /\ i[cur].screen = inst[cur].screen
        BY <1>1, <3>2 DEF Grown
      <4>2. inst[cur].screen \in 0 .. MaxMounts
        BY <4>1 DEF WatchType, Instance
      <4>3. QED
        BY <1>1, <3>2, <4>1, <4>2 DEF ScreenIsArmed, Screen
    <3>3. QED
      BY <3>1, <3>2
  <2>4. /\ inst' \in [Mounts -> Instance]
        /\ \A x \in Mounts : x # m => inst'[x] = i[x]
        /\ inst'[m].session = s /\ inst'[m].screen = Screen(i)
        /\ \A k \in Kinds : inst'[m].count[k] = IF k = "other" THEN found ELSE 0
    BY <2>1, <2>2, <2>3, MountIsFresh
  <2>5. ASSUME NEW e \in Entries, NEW t, Own(e, t, i, mounts)
        PROVE  Own(e, t, inst', mounts')
    <3>1. e.by \in Mounts /\ e.by <= mounts /\ e.by # m
      BY <1>1, <2>5 DEF Own, Entries
    <3>2. QED
      BY <1>1, <2>1, <2>4, <2>5, <3>1 DEF Own
  <2>6. EntriesAreOwn(inst, mounts)'
    <3>1. \A t \in Sessions : \A e \in log[t] : e \in Entries
      BY DEF WatchType
    <3>2. \A t \in Sessions : \A e \in log[t] : Own(e, t, inst', mounts')
      BY <2>5, <3>1 DEF EntriesAreOwn
    <3>3. QED
      BY <3>2 DEF EntriesAreOwn, Own
  <2>7. sent' \subseteq Reports /\ ReportsAreOwn(inst, mounts, sent)'
    <3>1. ASSUME NEW r \in q
          PROVE  /\ Own(r.entry, r.session, inst', mounts')
                 /\ r.session \in Sessions => r.entry \notin log[r.session]
      <4>1. r.entry \in Entries
        BY DEF Reports
      <4>2. QED
        BY <2>5, <4>1 DEF ReportsAreOwn
    <3>2. ASSUME found = 1
          PROVE  LET r == Report(inst', m, "other") IN
                 /\ r \in Reports /\ Own(r.entry, r.session, inst', mounts')
                 /\ r.session \in Sessions => r.entry \notin log[r.session]
      <4> DEFINE r == Report(inst', m, "other")
      <4>1. /\ r = [entry |-> [by |-> m, kind |-> "other", count |-> 1], session |-> s]
            /\ inst'[m].count["other"] = 1
        BY <2>4, <3>2 DEF Report, Entry, Kinds
      <4>2. r \in Reports
        BY <2>1, <4>1 DEF Reports, Entries, Kinds
      <4>3. r.entry.by = m /\ r.entry.kind = "other" /\ r.entry.count = 1 /\ r.session = s
        BY <4>1
      <4>4. Own(r.entry, r.session, inst', mounts')
        BY <1>1, <2>1, <2>4, <4>1, <4>3 DEF Own
      <4>5. r.session \in Sessions => r.entry \notin log[r.session]
        BY <1>1, <4>3 DEF EntriesAreOwn, Own
      <4>6. QED
        BY <4>2, <4>4, <4>5
    <3>3. \A r \in sent' :
             /\ r \in Reports /\ Own(r.entry, r.session, inst', mounts')
             /\ r.session \in Sessions => r.entry \notin log[r.session]
      BY <2>2, <3>1, <3>2
    <3>4. QED
      BY <3>3 DEF ReportsAreOwn, Own
  <2>8. WatchedWhileShown' /\ LimitEndsExam'
    BY <1>1, <1>2, <2>1, <2>4 DEF WatchedWhileShown, LimitEndsExam, Kinds
  <2>9. \A x \in 1 .. mounts' : inst'[x].screen <= mounts'
    <3>1. ASSUME NEW x \in 1 .. mounts' PROVE inst'[x].screen <= mounts'
      <4>1. CASE x = m
        BY <2>1, <2>3, <2>4, <4>1
      <4>2. CASE x # m
        <5>1. x \in 1 .. mounts /\ x \in Mounts
          BY <1>1, <2>1, <4>2
        <5>2. inst'[x].screen = inst[x].screen /\ inst[x].screen \in 0 .. MaxMounts
          BY <2>4, <4>2, <5>1 DEF Grown, WatchType, Instance
        <5>3. QED
          BY <1>1, <2>1, <5>1, <5>2 DEF ScreenIsArmed
      <4>3. QED
        BY <4>1, <4>2
    <3>2. QED
      BY <3>1
  <2>10. ASSUME tripped' = tripped PROVE Watch'
    <3>1. ScreenIsArmed'
      BY <2>1, <2>3, <2>4, <2>9, <2>10 DEF ScreenIsArmed, WatchType
    <3>2. WatchType'
      <4>1. mounts' \in 0 .. MaxMounts /\ cur' \in 0 .. mounts' /\ checks' \subseteq 1 .. mounts'
        BY <1>1, <2>1 DEF WatchType
      <4>2. tripped' \subseteq 0 .. mounts'
        BY <1>1, <2>1, <2>10 DEF WatchType
      <4>3. log' \in [Sessions -> SUBSET Entries] /\ trail' \in [Sessions -> Nat]
        BY DEF WatchType
      <4>4. QED
        BY <1>1, <2>4, <2>7, <4>1, <4>2, <4>3 DEF WatchType
    <3>3. TrailCounts'
      BY DEF TrailCounts
    <3>4. QED
      BY <2>6, <2>7, <2>8, <3>1, <3>2, <3>3 DEF Watch
  <2>11. QED
    BY <1>2, <2>10
<1>3. CASE ~(p = "active" /\ ~Kept(p, s, i))
  <2>1. /\ cur' = IF p = "active" THEN cur ELSE 0
        /\ inst' = i /\ sent' = q /\ UNCHANGED <<mounts, checks>>
    BY <1>3 DEF Commit
  <2>2. p = "active" => cur # 0 /\ i[cur].session = s
    BY <1>3 DEF Kept
  <2>3. WatchedWhileShown' /\ LimitEndsExam'
    BY <1>1, <2>1, <2>2 DEF WatchedWhileShown, LimitEndsExam, BelowLimits
  <2>4. EntriesAreOwn(inst, mounts)' /\ ReportsAreOwn(inst, mounts, sent)'
    BY <2>1 DEF EntriesAreOwn, ReportsAreOwn, Own
  <2>5. TrailCounts'
    BY DEF TrailCounts
  <2>6. /\ \A m \in 1 .. mounts : i[m].screen = inst[m].screen
        /\ cur # 0 => i[cur].screen = inst[cur].screen
    BY <1>1 DEF Grown
  <2>7. ASSUME tripped' = tripped \/ (p # "active" /\ tripped' \subseteq 0 .. mounts)
        PROVE  WatchType' /\ ScreenIsArmed'
    <3>1. tripped' \subseteq 0 .. mounts'
      BY <2>1, <2>7 DEF WatchType
    <3>2. log' \in [Sessions -> SUBSET Entries] /\ trail' \in [Sessions -> Nat]
      BY DEF WatchType
    <3>3. mounts' \in 0 .. MaxMounts /\ cur' \in 0 .. mounts' /\ checks' \subseteq 1 .. mounts'
      BY <1>1, <2>1 DEF WatchType
    <3>4. WatchType'
      BY <1>1, <2>1, <3>1, <3>2, <3>3 DEF WatchType
    <3>5. QED
      BY <1>1, <2>1, <2>6, <2>7, <3>4 DEF ScreenIsArmed
  <2>8. QED
    BY <2>3, <2>4, <2>5, <2>7 DEF Watch
<1>4. QED
  BY <1>2, <1>3
(***************************************************************************)
(* The steps.                                                              *)
(***************************************************************************)
LEMMA StillKeeps ==
    ASSUME Watch, Still, UNCHANGED <<tripped, log, trail>>
    PROVE  Watch'
BY DEF Watch, Still, proctor, WatchType, WatchedWhileShown, LimitEndsExam, ScreenIsArmed,
       ReportsAreOwn, EntriesAreOwn, Own, TrailCounts

LEMMA StoreKeeps ==
    ASSUME Watch, NEW p \in Phases, NEW s \in SessionIds, Store(p, s),
           UNCHANGED <<tripped, log, trail>>
    PROVE  Watch'
<1>1. inst \in [Mounts -> Instance] /\ sent \in SUBSET Reports /\ BelowLimits(inst)
  BY DEF Watch, WatchType, LimitEndsExam, BelowLimits
<1>2. Grown(inst, inst)
  BY <1>1 DEF Grown, Instance
<1>3. QED
  BY <1>1, <1>2, CommitKeeps DEF Watch, Store

\* The listeners: the exam ends with the violation that reaches a limit.
LEMMA ViolationKeeps ==
    ASSUME Watch, cur # 0, NEW k \in Kinds, RecordViolation(cur, k), UNCHANGED <<log, trail>>
    PROVE  Watch'
<1> DEFINE i == Counted(cur, k)
           q == sent \union {Report(i, cur, k)}
<1> USE LimitsAssumption
<1>1. cur \in 1 .. mounts /\ cur \in Mounts /\ inst \in [Mounts -> Instance]
  BY DEF Watch, WatchType, Mounts
<1>2. /\ i \in [Mounts -> Instance] /\ Grown(inst, i)
      /\ i[cur].count[k] = inst[cur].count[k] + 1
  <2>1. i = CountIn(inst, cur, k)
    BY DEF Counted, CountIn
  <2>2. QED
    BY <1>1, <2>1, CountGrows
<1>3. inst[cur].count[k] \in Nat /\ inst[cur].screen \in 0 .. mounts
      /\ i[cur].screen = inst[cur].screen
  BY <1>1, <1>2 DEF Instance, Grown, Watch, ScreenIsArmed, WatchType
<1>4. inst[cur].count[k] < i[cur].count[k]
  BY <1>2, <1>3
<1>5. q \in SUBSET Reports /\ ReportsAreOwn(i, mounts, q) /\ EntriesAreOwn(i, mounts)
  BY <1>1, <1>2, <1>4, ReportIsNew DEF Watch
<1>6. CASE AtLimit(i[cur]) /\ i[cur].screen \notin tripped
  <2>1. tripped' = tripped \union {i[cur].screen} /\ SubmitFrom(i, q)
    BY <1>6 DEF RecordViolation
  <2>2. Commit("submitting", shown, i, q)
    BY <2>1 DEF SubmitFrom
  <2>3. tripped' \subseteq 0 .. mounts
    BY <1>3, <2>1 DEF Watch, WatchType
  <2>4. "submitting" \in Phases /\ "submitting" # "active" /\ shown \in SessionIds
    BY DEF Phases, Watch, WatchType
  <2>5. mounts' = mounts /\ cur' = 0 /\ inst' = i /\ sent' = q /\ checks' = checks
        /\ phase' = "submitting" /\ shown' = shown
    BY <2>2 DEF Commit
  <2>6. WatchType'
    BY <1>2, <1>5, <2>3, <2>4, <2>5 DEF Watch, WatchType
  <2>7. WatchedWhileShown' /\ LimitEndsExam' /\ TrailCounts'
    BY <2>5 DEF WatchedWhileShown, LimitEndsExam, TrailCounts, Watch
  <2>8. ScreenIsArmed'
    <3>1. \A m \in 1 .. mounts : i[m].screen = inst[m].screen
      BY <1>2 DEF Grown, Mounts, Watch, WatchType
    <3>2. QED
      BY <2>5, <3>1 DEF Watch, ScreenIsArmed
  <2>9. ReportsAreOwn(inst, mounts, sent)' /\ EntriesAreOwn(inst, mounts)'
    BY <1>5, <2>5 DEF ReportsAreOwn, EntriesAreOwn, Own
  <2>10. QED
    BY <2>6, <2>7, <2>8, <2>9 DEF Watch
<1>7. CASE ~(AtLimit(i[cur]) /\ i[cur].screen \notin tripped)
  <2>1. /\ inst' = i /\ sent' = q
        /\ UNCHANGED <<phase, shown, cur, mounts, checks, tripped>>
    BY <1>7 DEF RecordViolation
  <2>2. i[cur].screen \notin tripped
    BY <1>3 DEF Watch, ScreenIsArmed
  <2>3. LimitEndsExam'
    <3>1. /\ i[cur].count["tab_switch"] \in Nat /\ i[cur].count["focus_loss"] \in Nat
      BY <1>1, <1>2 DEF Instance, Kinds
    <3>2. QED
      BY <1>7, <2>1, <2>2, <3>1 DEF AtLimit, LimitEndsExam
  <2>4. WatchedWhileShown' /\ TrailCounts'
    BY <1>1, <1>2, <2>1 DEF WatchedWhileShown, Watch, Grown, TrailCounts
  <2>5. ScreenIsArmed'
    <3>1. \A m \in 1 .. mounts : i[m].screen = inst[m].screen
      BY <1>2 DEF Grown, Mounts, Watch, WatchType
    <3>2. QED
      BY <1>3, <2>1, <3>1 DEF Watch, ScreenIsArmed
  <2>6. WatchType'
    BY <1>2, <1>5, <2>1 DEF Watch, WatchType
  <2>7. ReportsAreOwn(inst, mounts, sent)' /\ EntriesAreOwn(inst, mounts)'
    BY <1>5, <2>1 DEF ReportsAreOwn, EntriesAreOwn, Own
  <2>8. QED
    BY <2>3, <2>4, <2>5, <2>6, <2>7 DEF Watch
<1>8. QED
  BY <1>6, <1>7
\* checkScreens begins, or comes to an end, perhaps after its proctor.
LEMMA ScreensKeep ==
    ASSUME Watch, AskScreens \/ \E m \in Mounts : ScreensKnown(m)
    PROVE  Watch'
<1> USE LimitsAssumption
<1>1. CASE AskScreens
  <2>1. /\ cur \in 1 .. mounts /\ checks' = checks \union {cur}
        /\ UNCHANGED <<phase, shown, cur, mounts, inst, tripped, sent, log, trail>>
    BY <1>1 DEF AskScreens, Outside, server, Watch, WatchType
  <2>2. WatchType'
    BY <2>1 DEF Watch, WatchType
  <2>3. QED
    BY <2>1, <2>2 DEF Watch, WatchedWhileShown, LimitEndsExam, ScreenIsArmed, ReportsAreOwn,
                      EntriesAreOwn, Own, TrailCounts
<1>2. CASE \E m \in Mounts : ScreensKnown(m)
  <2>1. PICK m \in Mounts : ScreensKnown(m)
    BY <1>2
  <2>2. PICK n \in {1, 2} :
           LET news == n > 1 /\ inst[m].screens # n
               known == [inst EXCEPT ![m].screens = n]
               found == [known EXCEPT ![m].count["multiple_monitors"] = @ + 1]
           IN  /\ inst' = IF news THEN found ELSE known
               /\ sent' = IF news THEN sent \union {Report(found, m, "multiple_monitors")}
                                  ELSE sent
    BY <2>1 DEF ScreensKnown
  <2> DEFINE k == "multiple_monitors"
             known == [inst EXCEPT ![m].screens = n]
  <2>3. PICK found : found = CountIn(known, m, k)
    OBVIOUS
  <2>4. /\ m \in 1 .. mounts /\ checks' = checks \ {m}
        /\ UNCHANGED <<phase, shown, cur, mounts, tripped, log, trail>>
    BY <2>1 DEF ScreensKnown, Outside, server, Watch, WatchType
  <2>5. \/ inst' = known /\ sent' = sent
        \/ inst' = found /\ sent' = sent \union {Report(found, m, k)}
    BY <2>2, <2>3 DEF CountIn
  <2>6. /\ inst \in [Mounts -> Instance]
        /\ \A x \in Mounts : /\ inst[x].session \in SessionIds /\ inst[x].screen \in Nat
                             /\ \A l \in Kinds : inst[x].count[l] \in Nat
    BY DEF Watch, WatchType, Instance
  <2>7. /\ known \in [Mounts -> Instance]
        /\ \A x \in Mounts : /\ known[x].session = inst[x].session
                             /\ known[x].screen = inst[x].screen
                             /\ known[x].count = inst[x].count
    <3>1. [inst[m] EXCEPT !.screens = n] \in Instance
      BY <2>6 DEF Instance
    <3>2. known = [inst EXCEPT ![m] = [inst[m] EXCEPT !.screens = n]]
      OBVIOUS
    <3>3. /\ [inst[m] EXCEPT !.screens = n].session = inst[m].session
          /\ [inst[m] EXCEPT !.screens = n].screen = inst[m].screen
          /\ [inst[m] EXCEPT !.screens = n].count = inst[m].count
      BY <2>6 DEF Instance
    <3>4. QED
      BY <2>6, <3>1, <3>2, <3>3
  <2> HIDE DEF known
  <2>8. Grown(inst, known)
    BY <2>6, <2>7 DEF Grown
  <2>9. /\ found \in [Mounts -> Instance] /\ Grown(known, found)
        /\ found[m].count[k] = known[m].count[k] + 1
        /\ \A x \in Mounts : \A l \in Kinds : l # k => found[x].count[l] = known[x].count[l]
    BY <2>3, <2>7, CountGrows DEF Kinds
  <2>10. Grown(inst, found)
    BY <2>7, <2>9 DEF Grown
  <2>11. PICK i \in [Mounts -> Instance] :
           /\ inst' = i /\ Grown(inst, i)
           /\ \A x \in Mounts : \A l \in Kinds : l # k => i[x].count[l] = inst[x].count[l]
           /\ sent' = sent \/ (sent' = sent \union {Report(i, m, k)}
                                /\ inst[m].count[k] < i[m].count[k])
    BY <2>5, <2>6, <2>7, <2>8, <2>9, <2>10 DEF Kinds
  <2>12. /\ sent' \subseteq Reports
         /\ ReportsAreOwn(i, mounts, sent') /\ EntriesAreOwn(i, mounts)
    <3>1. CASE sent' = sent
      <4>1. \A r \in sent : r.entry \in Entries
        BY DEF Watch, WatchType, Reports
      <4>2. \A s \in Sessions : \A e \in log[s] : e \in Entries
        BY DEF Watch, WatchType
      <4>3. QED
        BY <2>6, <2>11, <3>1, <4>1, <4>2, OwnStays DEF Watch, WatchType, ReportsAreOwn, EntriesAreOwn
    <3>2. CASE sent' # sent
      BY <2>4, <2>11, <3>2, ReportIsNew DEF Kinds, Watch
    <3>3. QED
      BY <3>1, <3>2
  <2>13. WatchType'
    BY <2>4, <2>11, <2>12 DEF Watch, WatchType
  <2>14. WatchedWhileShown' /\ LimitEndsExam' /\ ScreenIsArmed'
    <3>1. cur # 0 => cur \in Mounts
      BY DEF Watch, WatchType, Mounts
    <3>2. 1 .. mounts \subseteq Mounts
      BY DEF Watch, WatchType, Mounts
    <3>3. QED
      BY <2>4, <2>11, <3>1, <3>2 DEF Watch, WatchedWhileShown, LimitEndsExam, ScreenIsArmed, Grown,
                                     Kinds
  <2>15. TrailCounts'
    BY <2>4 DEF Watch, TrailCounts
  <2>16. ReportsAreOwn(inst, mounts, sent)' /\ EntriesAreOwn(inst, mounts)'
    BY <2>4, <2>11, <2>12 DEF ReportsAreOwn, EntriesAreOwn, Own
  <2>17. QED
    BY <2>13, <2>14, <2>15, <2>16 DEF Watch
<1>3. QED
  BY <1>1, <1>2

\* A report arrives, or is lost.
LEMMA ReportKeeps ==
    ASSUME Watch, NEW r \in sent, ViolationArrives(r) \/ ViolationLost(r)
    PROVE  Watch'
<1>1. /\ sent' = sent \ {r}
      /\ UNCHANGED <<phase, shown, cur, mounts, inst, tripped, checks>>
  BY DEF ViolationArrives, ViolationLost, proctor
<1>2. r \in Reports /\ r.entry \in Entries
  BY DEF Watch, WatchType, Reports
<1>3. WatchedWhileShown' /\ LimitEndsExam' /\ ScreenIsArmed'
  BY <1>1 DEF Watch, WatchedWhileShown, LimitEndsExam, ScreenIsArmed
<1>4. ASSUME UNCHANGED <<log, trail>> PROVE Watch'
  BY <1>1, <1>3, <1>4 DEF Watch, WatchType, ReportsAreOwn, EntriesAreOwn, Own, TrailCounts
<1>5. CASE ViolationLost(r)
  BY <1>4, <1>5 DEF ViolationLost, server
<1>6. CASE ViolationArrives(r) /\ r.session \notin Sessions
  <2>1. log' = log /\ trail' = trail
    BY <1>6 DEF ViolationArrives, Watch, WatchType
  <2>2. QED
    BY <1>4, <2>1
<1>7. CASE ViolationArrives(r) /\ r.session \in Sessions
  <2> DEFINE s == r.session
  <2>1. /\ log' = [log EXCEPT ![s] = log[s] \union {r.entry}]
        /\ trail' = [trail EXCEPT ![s] = trail[s] + 1]
    BY <1>7 DEF ViolationArrives
  <2>2. log \in [Sessions -> SUBSET Entries] /\ trail \in [Sessions -> Nat]
    BY DEF Watch, WatchType
  <2>3. /\ log' \in [Sessions -> SUBSET Entries] /\ trail' \in [Sessions -> Nat]
        /\ \A t \in Sessions : t # s => log'[t] = log[t] /\ trail'[t] = trail[t]
        /\ log'[s] = log[s] \union {r.entry} /\ trail'[s] = trail[s] + 1
    BY <1>2, <1>7, <2>1, <2>2
  <2>4. Own(r.entry, s, inst, mounts) /\ r.entry \notin log[s]
    BY <1>7 DEF Watch, ReportsAreOwn
  <2>5. WatchType'
    BY <1>1, <2>3 DEF Watch, WatchType
  <2>6. TrailCounts'
    BY <1>7, <2>3, <2>4, FS_AddElement DEF Watch, TrailCounts
  <2>7. EntriesAreOwn(inst, mounts)'
    BY <1>1, <1>7, <2>3, <2>4 DEF Watch, EntriesAreOwn, Own
  <2>8. ReportsAreOwn(inst, mounts, sent)'
    <3>1. ASSUME NEW x \in sent, x # r, x.session \in Sessions PROVE x.entry \notin log'[x.session]
      <4>1. x \in Reports /\ x.entry \notin log[x.session]
        BY <3>1 DEF Watch, WatchType, ReportsAreOwn
      <4>2. CASE x.session = s
        <5>1. x.entry # r.entry
          BY <1>2, <3>1, <4>1, <4>2 DEF Reports
        <5>2. QED
          BY <2>3, <4>1, <4>2, <5>1
      <4>3. CASE x.session # s
        BY <2>3, <3>1, <4>1, <4>3
      <4>4. QED
        BY <4>2, <4>3
    <3>2. QED
      BY <1>1, <3>1 DEF Watch, ReportsAreOwn, Own
  <2>9. QED
    BY <1>3, <2>5, <2>6, <2>7, <2>8 DEF Watch
<1>8. QED
  BY <1>5, <1>6, <1>7

LEMMA SubmitKeeps == ASSUME Watch, Submit PROVE Watch'
<1>1. Commit("submitting", shown, inst, sent) /\ UNCHANGED <<tripped, log, trail>>
  BY DEF Submit, SubmitFrom, Quiet
<1>2. "submitting" \in Phases /\ shown \in SessionIds
  BY DEF Phases, Watch, WatchType
<1>3. QED
  BY <1>1, <1>2, StoreKeeps DEF Store

\* The steps of the candidate, and what comes back to the candidate's page.
HandlerStep(h) ==
    \/ RequestOtp(h) \/ OtpSent(h) \/ VerifyOtp(h) \/ LoggedIn(h)
    \/ VerifySeat(h) \/ SeatVerified(h) \/ StartSession(h)
    \/ InitializeExam(h) \/ StartFails(h)
    \/ SendSubmission(h) \/ Submitted(h) \/ SubmissionFails(h)

LEMMA HandlerKeeps ==
    ASSUME IInv, NEW h \in Runs, HandlerStep(h)
    PROVE  Watch'
<1>1. UNCHANGED <<tripped, log, trail>>
  BY DEF HandlerStep, RequestOtp, OtpSent, VerifyOtp, LoggedIn, VerifySeat, SeatVerified,
         StartSession, InitializeExam, StartFails, SendSubmission, Submitted, SubmissionFails,
         Quiet
<1>2. Still \/ \E p \in Phases, s \in SessionIds : Store(p, s)
  <2>1. shown \in SessionIds /\ run[h].session \in SessionIds
    BY DEF IInv, FrontType, Watch, WatchType
  <2>2. CASE LoggedIn(h) \/ SeatVerified(h) \/ InitializeExam(h) \/ StartFails(h)
             \/ Submitted(h) \/ SubmissionFails(h)
    <3>1. {"center-verify", "loading", "active", "submitted", "error"} \subseteq Phases
      BY DEF Phases
    <3>2. \/ Still \/ Store("center-verify", shown) \/ Store("loading", shown)
          \/ Store("active", run[h].session) \/ Store("submitted", shown)
          \/ Store("error", shown)
      BY <2>2 DEF LoggedIn, SeatVerified, InitializeExam, StartFails, Submitted, SubmissionFails
    <3>3. QED
      BY <2>1, <3>1, <3>2
  <2>3. CASE RequestOtp(h) \/ OtpSent(h) \/ VerifyOtp(h) \/ VerifySeat(h) \/ StartSession(h)
             \/ SendSubmission(h)
    BY <2>3 DEF RequestOtp, OtpSent, VerifyOtp, VerifySeat, StartSession, SendSubmission
  <2>4. QED
    BY <2>2, <2>3 DEF HandlerStep
<1>3. QED
  BY <1>1, <1>2, StillKeeps, StoreKeeps DEF IInv

(***************************************************************************)
(* The candidate's side.                                                   *)
(***************************************************************************)
LEMMA AwaitType ==
    ASSUME FrontType, NEW h \in Runs, NEW what \in Awaited, NEW s \in SessionIds,
           run' = [run EXCEPT ![h] = [at |-> what, session |-> s]]
    PROVE  run' \in [Runs -> [at : Awaited, session : SessionIds]]
BY DEF FrontType

LEMMA HandlerType ==
    ASSUME IInv, NEW h \in Runs, HandlerStep(h)
    PROVE  FrontType'
<1> USE LimitsAssumption
<1>1. /\ step \in {"admit", "otp"} /\ started \in SessionIds /\ run[h].session \in SessionIds
      /\ 0 \in SessionIds /\ shown \in SessionIds
  BY DEF IInv, FrontType, Watch, WatchType, SessionIds
<1>2. step' \in {"admit", "otp"}
  BY <1>1 DEF HandlerStep, RequestOtp, OtpSent, VerifyOtp, LoggedIn, VerifySeat, SeatVerified,
         StartSession, InitializeExam, StartFails, SendSubmission, Submitted, SubmissionFails
<1>3. /\ started' \in SessionIds
      /\ StartSession(h) => started' = started + 1
  BY <1>1 DEF HandlerStep, RequestOtp, OtpSent, VerifyOtp, LoggedIn, VerifySeat, SeatVerified,
         StartSession, InitializeExam, StartFails, SendSubmission, Submitted, SubmissionFails,
         SessionIds
<1>4. \E what \in Awaited, s \in SessionIds : Await(h, what, s)
  <2>1. {"idle", "otp", "login", "verify", "start", "started", "send"} \subseteq Awaited
    BY DEF Awaited
  <2>2. CASE StartSession(h)
    <3>1. /\ started + 1 \in SessionIds /\ Await(h, "started", started + 1)
      BY <1>3, <2>2 DEF StartSession
    <3>2. QED
      BY <2>1, <3>1
  <2>3. CASE ~StartSession(h)
    <3>1. \/ \E what \in {"idle", "otp", "login", "verify", "start"} : Await(h, what, 0)
          \/ Await(h, "send", run[h].session)
      BY <2>3 DEF HandlerStep, RequestOtp, OtpSent, VerifyOtp, LoggedIn, VerifySeat,
             SeatVerified, InitializeExam, StartFails, SendSubmission, Submitted, SubmissionFails
    <3>2. QED
      BY <1>1, <2>1, <3>1
  <2>4. QED
    BY <2>2, <2>3
<1>5. PICK what \in Awaited, s \in SessionIds : run' = [run EXCEPT ![h] = [at |-> what, session |-> s]]
  BY <1>4 DEF Await
<1>6. run' \in [Runs -> [at : Awaited, session : SessionIds]]
  BY <1>5, AwaitType DEF IInv
<1>7. QED
  BY <1>2, <1>3, <1>6 DEF FrontType

LEMMA SubmitFromType ==
    ASSUME FrontType, WatchType, NEW i, NEW q, SubmitFrom(i, q), UNCHANGED <<step, started>>
    PROVE  FrontType'
<1>1. PICK h \in Runs : run' = [run EXCEPT ![h] = [at |-> "save", session |-> shown]]
  BY DEF SubmitFrom
<1>2. "save" \in Awaited /\ shown \in SessionIds
  BY DEF Awaited, WatchType
<1>3. QED
  BY <1>1, <1>2, AwaitType DEF FrontType

LEMMA WatchedType ==
    ASSUME FrontType, WatchType, NEW k \in Kinds, RecordViolation(cur, k),
           UNCHANGED <<step, started>>
    PROVE  FrontType'
<1>1. CASE run' = run
  BY <1>1 DEF FrontType
<1>2. CASE run' # run
  BY <1>2, SubmitFromType DEF RecordViolation
<1>3. QED
  BY <1>1, <1>2

(***************************************************************************)
(* The invariant holds.                                                    *)
(***************************************************************************)
LEMMA InvInit == Init => IInv
<1> SUFFICES ASSUME Init PROVE IInv
  OBVIOUS
<1> USE LimitsAssumption
<1>1. Unused \in Instance
  <2>1. [k \in Kinds |-> 0] \in [Kinds -> Nat]
    OBVIOUS
  <2>2. QED
    BY <2>1 DEF Unused, Instance, SessionIds
<1>2. FrontType
  BY DEF Init, FrontType, NoRun, Awaited, SessionIds
<1>3. WatchType
  BY <1>1 DEF Init, WatchType, Phases, SessionIds
<1>4. WatchedWhileShown /\ LimitEndsExam /\ ScreenIsArmed
  BY DEF Init, WatchedWhileShown, LimitEndsExam, ScreenIsArmed
<1>5. ReportsAreOwn(inst, mounts, sent) /\ EntriesAreOwn(inst, mounts)
  BY DEF Init, ReportsAreOwn, EntriesAreOwn
<1>6. TrailCounts
  BY FS_EmptySet DEF Init, TrailCounts
<1>7. QED
  BY <1>2, <1>3, <1>4, <1>5, <1>6 DEF IInv, Watch

LEMMA InvStep == IInv /\ [Next]_vars => IInv'
<1> SUFFICES ASSUME IInv, [Next]_vars PROVE IInv'
  OBVIOUS
<1>1. CASE \E h \in Runs : HandlerStep(h)
  BY <1>1, HandlerKeeps, HandlerType DEF IInv
<1>2. CASE Submit
  BY <1>2, SubmitKeeps, SubmitFromType DEF Submit, IInv, Watch
<1>3. CASE Back
  <2>1. FrontType' /\ Still /\ UNCHANGED <<tripped, log, trail>>
    BY <1>3 DEF Back, FrontType, IInv, Quiet
  <2>2. QED
    BY <2>1, StillKeeps DEF IInv
<1>4. CASE ReturnToExam
  <2>1. FrontType' /\ Store("active", shown) /\ UNCHANGED <<tripped, log, trail>>
    BY <1>4 DEF ReturnToExam, FrontType, IInv, Quiet
  <2>2. "active" \in Phases /\ shown \in SessionIds
    BY DEF Phases, IInv, Watch, WatchType
  <2>3. QED
    BY <2>1, <2>2, StoreKeeps DEF IInv
<1>5. CASE HideTab \/ ShowTab \/ LoseFocus \/ ForbiddenAction
  <2>1. UNCHANGED <<step, started, log, trail>>
    BY <1>5 DEF HideTab, ShowTab, LoseFocus, ForbiddenAction, ClipboardEvent, BlockedKey,
                DevTools, FullscreenExit, Record, Outside, server
  <2>2. \/ Still /\ UNCHANGED <<run, tripped>>
        \/ cur # 0 /\ \E k \in Kinds : RecordViolation(cur, k)
    BY <1>5 DEF HideTab, ShowTab, LoseFocus, ForbiddenAction, ClipboardEvent, BlockedKey,
                DevTools, FullscreenExit, Record, Kinds
  <2>3. CASE Still /\ UNCHANGED <<run, tripped>>
    <3>1. FrontType'
      BY <2>1, <2>3 DEF FrontType, IInv
    <3>2. QED
      BY <2>1, <2>3, <3>1, StillKeeps DEF IInv
  <2>4. CASE cur # 0 /\ \E k \in Kinds : RecordViolation(cur, k)
    <3>1. PICK k \in Kinds : RecordViolation(cur, k)
      BY <2>4
    <3>2. FrontType'
      BY <2>1, <3>1, WatchedType DEF IInv, Watch
    <3>3. Watch'
      BY <2>1, <2>4, <3>1, ViolationKeeps DEF IInv
    <3>4. QED
      BY <3>2, <3>3 DEF IInv
  <2>5. QED
    BY <2>2, <2>3, <2>4
<1>6. CASE AskScreens \/ \E m \in Mounts : ScreensKnown(m)
  <2>1. UNCHANGED <<step, started, run>>
    BY <1>6 DEF AskScreens, ScreensKnown, Outside, server
  <2>2. QED
    BY <1>6, <2>1, ScreensKeep DEF IInv, FrontType
<1>7. CASE \E r \in sent : ViolationArrives(r) \/ ViolationLost(r)
  <2>1. UNCHANGED <<step, started, run>>
    BY <1>7 DEF ViolationArrives, ViolationLost, server
  <2>2. QED
    BY <1>7, <2>1, ReportKeeps DEF IInv, FrontType
<1>8. CASE UNCHANGED vars
  <2>1. FrontType' /\ Still /\ UNCHANGED <<tripped, log, trail>>
    BY <1>8 DEF vars, Still, proctor, server, FrontType, IInv
  <2>2. QED
    BY <2>1, StillKeeps DEF IInv
<1>9. QED
  BY <1>1, <1>2, <1>3, <1>4, <1>5, <1>6, <1>7, <1>8 DEF Next, HandlerStep

\* The page, the proctor's instances, the reports and the server's log only
\* hold what the code writes there, whatever handlers overlap.
THEOREM ProctorTypeCorrect == Spec => []TypeOK
<1>1. IInv => TypeOK
  BY DEF IInv, Watch, TypeOK
<1>2. QED
  BY <1>1, InvInit, InvStep, PTL DEF Spec

\* The effect of ExamTerminal keeps a proctor mounted for the session that is
\* shown, and for none else, whatever answers come late.
THEOREM ShownIsWatched == Spec => []WatchedWhileShown
<1>1. IInv => WatchedWhileShown
  BY DEF IInv, Watch
<1>2. QED
  BY <1>1, InvInit, InvStep, PTL DEF Spec

\* No exam is shown past a limit of its proctor: recordViolation ends it once,
\* and a screen that comes back has a component, a guard and counts of its own.
THEOREM LimitsEndExams == Spec => []LimitEndsExam
<1>1. IInv => LimitEndsExam
  BY DEF IInv, Watch
<1>2. QED
  BY <1>1, InvInit, InvStep, PTL DEF Spec

\* Both together, in every state of the terminal.
THEOREM WatchedUntilTheLimit == Spec => []WatchedToTheLimit
BY ShownIsWatched, LimitsEndExams, PTL DEF WatchedToTheLimit

\* The server's log of a session has no entry of another session's proctor and
\* none twice, however reports and screens are delayed.
THEOREM LogsAreOwn == Spec => []LogIsOwn
<1>1. IInv => LogIsOwn
  BY DEF IInv, Watch, LogIsOwn, EntriesAreOwn, Own, TrailCounts
<1>2. QED
  BY <1>1, InvInit, InvStep, PTL DEF Spec


(***************************************************************************)
(* The collusion check: the invariant.                                     *)
(***************************************************************************)
MsgStates == {"queued", "leased", "dropped", "nodata", "answered"}
Stages == {"idle", "loading", "calibrating", "detecting", "writing", "clustering", "done"}
JobMsg == [center : Range(Centers), form : {"examId", "exam_id"}, state : MsgStates]
AllPairs == UNION {Pairs(c) : c \in Range(Centers)}
Detector == [pc : Stages, msg : Nat, limit : Int, pairs : Seq(AllPairs), next : Nat \ {0}]

CheckType ==
    /\ exam \in {"CREATED", "COLLECTING", "COLLUSION_CHECK"}
    /\ handler \in [Handlers -> {"idle", "publishing"}]
    /\ batch \in [Handlers -> Seq(Nat)] /\ jobs \in [Range(Centers) -> Nat]
    /\ msgs \in Seq(JobMsg) /\ ready \in BOOLEAN /\ null \in NullScores
    /\ threshold \subseteq Int /\ worker \in [Workers -> Detector]
    /\ results \subseteq [pair : AllPairs, limit : Int] /\ breaks \in 0 .. MaxBreaks

\* What a request has published and will list is its centres', too.
BatchesArePublished ==
    \A h \in Handlers :
        /\ Len(batch[h]) <= Len(Centers)
        /\ \A i \in DOMAIN batch[h] : batch[h][i] # None =>
              batch[h][i] \in DOMAIN msgs /\ msgs[batch[h][i]].center = Centers[i]

\* A job is with one worker at most.
LeasesAreOwn ==
    /\ \A w \in Workers : worker[w].pc # "idle" =>
          worker[w].msg \in DOMAIN msgs /\ msgs[worker[w].msg].state = "leased"
    /\ \A w, v \in Workers : w # v /\ worker[w].pc # "idle" /\ worker[v].pc # "idle" =>
          worker[w].msg # worker[v].msg

\* The seed decides the threshold, whoever stores it and however often.
WorkerAgrees(w) ==
    worker[w].pc \in {"detecting", "writing", "clustering", "done"} =>
        threshold = {Calibrated(null)} /\ worker[w].limit = Calibrated(null)
ResultsKeepLimit == \A r \in results : threshold = {Calibrated(null)} /\ r.limit = Calibrated(null)

SeedDecides ==
    /\ threshold \in {{}, {Calibrated(null)}}
    /\ \A w \in Workers : WorkerAgrees(w)
    /\ ResultsKeepLimit

Stored(p) == \E r \in results : r.pair = p
DueOf(c) == Flagged(c, Calibrated(null))

\* What is stored is due, what a worker has passed is stored, and what was
\* answered is stored whole.
ResultsAreDue ==
    \A r \in results : \A c \in Range(Centers) : r.pair \in Pairs(c) => r.pair \in DueOf(c)
WorkerIsDue(w) ==
    /\ worker[w].pc \in {"loading", "calibrating", "detecting"} => worker[w].next = 1
    /\ worker[w].pc \in {"writing", "clustering", "done"} =>
          Range(worker[w].pairs) = DueOf(CenterOf(w))
    /\ worker[w].pc = "writing" =>
          /\ worker[w].next = 1 \/ worker[w].next <= Len(worker[w].pairs)
          /\ \A i \in DOMAIN worker[w].pairs : i < worker[w].next => Stored(worker[w].pairs[i])
    /\ worker[w].pc \in {"clustering", "done"} => \A p \in DueOf(CenterOf(w)) : Stored(p)
JobIsStored(m) == threshold # {} /\ \A p \in DueOf(msgs[m].center) : Stored(p)

StoresAreDue ==
    /\ ResultsAreDue
    /\ \A w \in Workers : WorkerIsDue(w)
    /\ \A m \in DOMAIN msgs : msgs[m].state = "answered" => JobIsStored(m)

CheckInv ==
    /\ CheckType /\ JobsWerePublished /\ BatchesArePublished /\ LeasesAreOwn
    /\ SeedDecides /\ StoresAreDue

(***************************************************************************)
(* The threshold and its rate.                                             *)
(***************************************************************************)
LEMMA WholeQuotient ==
    ASSUME NEW a \in Nat, NEW b \in Nat \ {0}
    PROVE  a \div b \in Nat /\ b * (a \div b) <= a /\ a < b * (a \div b) + b
OBVIOUS

LEMMA TimesKeeps ==
    ASSUME NEW a \in Nat, NEW b \in Nat, NEW c \in Nat, a <= b
    PROVE  c * a <= c * b
OBVIOUS

\* The index is that of a score, and leaves the target share above it.
LEMMA IndexLeavesShare ==
    ASSUME NEW n \in Nat
    PROVE  /\ QuantileIndex(n) \in Nat /\ QuantileIndex(n) <= n
           /\ \A k \in Nat : k >= QuantileIndex(n) /\ k <= n => OneIn * (n - k) <= n
<1> DEFINE a == (OneIn - 1) * n + OneIn - 1
           q == a \div OneIn
<1>1. OneIn \in Nat \ {0} /\ OneIn - 1 \in Nat
  BY CollusionAssumption
<1>2. (OneIn - 1) * n \in Nat /\ (OneIn - 1) * n = OneIn * n - n /\ OneIn * n \in Nat
  BY <1>1
<1>3. a \in Nat /\ a = OneIn * n - n + OneIn - 1
  BY <1>1, <1>2
<1> HIDE DEF a
<1>4. q \in Nat /\ OneIn * q <= a /\ a < OneIn * q + OneIn
  BY <1>1, <1>3, WholeQuotient
<1>5. QuantileIndex(n) = q
  BY DEF QuantileIndex, a
<1> HIDE DEF q
<1>6. q <= n
  <2> SUFFICES ASSUME q >= n + 1 PROVE FALSE
    BY <1>4
  <2>1. OneIn * q >= OneIn * (n + 1)
    BY <1>1, <1>4
  <2>2. OneIn * (n + 1) = OneIn * n + OneIn
    BY <1>1
  <2>3. QED
    BY <1>1, <1>2, <1>3, <1>4, <2>1, <2>2
<1>7. ASSUME NEW k \in Nat, k >= q, k <= n PROVE OneIn * (n - k) <= n
  <2>1. OneIn * k >= OneIn * q /\ OneIn * k \in Nat /\ OneIn * q \in Nat
    BY <1>1, <1>4, <1>7
  <2>2. OneIn * (n - k) = OneIn * n - OneIn * k
    BY <1>1, <1>7
  <2>3. OneIn * q >= OneIn * n - n
    BY <1>1, <1>2, <1>3, <1>4, <2>1
  <2>4. QED
    BY <1>2, <2>1, <2>2, <2>3
<1>8. QED
  BY <1>4, <1>5, <1>6, <1>7

\* Of some of the scores one is least: the one that the fewest are not above.
LEMMA LeastScore ==
    ASSUME NEW N \in Seq(Int), NEW P \in SUBSET Range(N), P # {}
    PROVE  \E l \in P : \A m \in P : l <= m
<1> DEFINE upTo(l) == {i \in DOMAIN N : N[i] <= l}
           counts == {NotAbove(N, l) : l \in P}
<1>1. /\ Len(N) \in Nat /\ DOMAIN N = 1 .. Len(N) /\ \A i \in DOMAIN N : N[i] \in Int
      /\ IsFiniteSet(1 .. Len(N))
  BY FS_Interval
<1>2. \A l \in P : l \in Int /\ \E i \in DOMAIN N : N[i] = l
  BY <1>1 DEF Range
<1>3. \A l : IsFiniteSet(upTo(l)) /\ NotAbove(N, l) = Cardinality(upTo(l))
              /\ NotAbove(N, l) \in Nat
  BY <1>1, FS_Subset, FS_CardinalityType DEF NotAbove
<1>4. counts \in SUBSET Nat /\ counts # {}
  BY <1>3
<1> HIDE DEF upTo
<1>5. PICK c \in counts : \A x \in counts : <<x, c>> \notin OpToRel(<, Nat)
  <2> HIDE DEF counts
  <2>1. QED
    BY <1>4, NatLessThanWellFounded, WFMin, Zenon
<1>6. PICK l \in P : NotAbove(N, l) = c
  OBVIOUS
<1>7. ASSUME NEW m \in P, m < l PROVE FALSE
  <2>1. upTo(m) \subseteq upTo(l)
    BY <1>1, <1>2, <1>7 DEF upTo
  <2>2. PICK j \in DOMAIN N : N[j] = l
    BY <1>2
  <2>3. j \in upTo(l) /\ j \notin upTo(m)
    BY <1>2, <1>7, <2>2 DEF upTo
  <2>4. Cardinality(upTo(m)) <= Cardinality(upTo(l)) /\ Cardinality(upTo(m)) # Cardinality(upTo(l))
    BY <1>3, <2>1, <2>3, FS_Subset
  <2>5. NotAbove(N, m) < c
    <3>1. NotAbove(N, m) <= c /\ NotAbove(N, m) # c
      BY <1>3, <1>6, <2>4
    <3>2. NotAbove(N, m) \in Nat /\ c \in Nat
      BY <1>3, <1>4
    <3>3. QED
      BY <3>1, <3>2
  <2>6. NotAbove(N, m) \in counts /\ NotAbove(N, m) \in Nat /\ c \in Nat
    BY <1>3, <1>6
  <2>7. <<NotAbove(N, m), c>> \in OpToRel(<, Nat)
    BY <2>5, <2>6, Zenon DEF OpToRel
  <2>8. QED
    BY <1>5, <2>6, <2>7
<1>8. QED
  BY <1>2, <1>7

\* There is a quantile, and it is one of the scores.
LEMMA QuantileIsScore ==
    ASSUME NEW N \in Seq(Int), Len(N) > 0
    PROVE  /\ Quantile(N) \in Int
           /\ NotAbove(N, Quantile(N)) >= QuantileIndex(Len(N))
<1> DEFINE n == Len(N)
           reached == {l \in Range(N) : NotAbove(N, l) >= QuantileIndex(n)}
<1>1. n \in Nat /\ DOMAIN N = 1 .. n /\ IsFiniteSet(1 .. n) /\ Cardinality(1 .. n) = n
  <2>1. n \in Nat /\ DOMAIN N = 1 .. n
    OBVIOUS
  <2>2. Cardinality(1 .. n) = IF 1 > n THEN 0 ELSE n - 1 + 1
    BY <2>1, FS_Interval
  <2>3. QED
    BY <2>1, <2>2, FS_Interval
<1>2. Range(N) \in SUBSET Int
  BY <1>1 DEF Range
<1>3. PICK top \in Range(N) : \A l \in Range(N) : l <= top
  <2> DEFINE M == [i \in 1 .. n |-> -N[i]]
  <2>0. \A i \in 1 .. n : N[i] \in Int /\ -N[i] \in Int
    BY <1>1
  <2>1. M \in Seq(Int) /\ DOMAIN M = 1 .. n /\ \A i \in 1 .. n : M[i] = -N[i]
    <3>1. M \in [1 .. n -> Int]
      BY <2>0
    <3>2. QED
      BY <1>1, <3>1
  <2> HIDE DEF M
  <2>2. Range(M) # {}
    BY <1>1, <2>1 DEF Range
  <2>3. PICK l \in Range(M) : \A m \in Range(M) : l <= m
    BY <2>1, <2>2, LeastScore
  <2>4. PICK i \in 1 .. n : l = -N[i]
    BY <2>1, <2>3 DEF Range
  <2>5. ASSUME NEW j \in 1 .. n PROVE N[j] <= N[i]
    <3>1. -N[j] \in Range(M)
      BY <2>1 DEF Range
    <3>2. -N[i] <= -N[j]
      BY <2>3, <2>4, <3>1
    <3>3. QED
      BY <2>0, <3>2
  <2>6. QED
    BY <1>1, <2>5 DEF Range
<1>4. {i \in DOMAIN N : N[i] <= top} = 1 .. n
  BY <1>1, <1>3 DEF Range
<1>5. top \in reached
  BY <1>1, <1>4, IndexLeavesShare DEF NotAbove
<1>6. PICK q \in reached : \A l \in reached : q <= l
  BY <1>5, LeastScore
<1>7. Quantile(N) \in reached
  BY <1>6 DEF Quantile
<1>8. QED
  BY <1>2, <1>7

LEMMA RateIsKept ==
    ASSUME NEW N \in Seq(Int), Len(N) > 0
    PROVE  /\ Calibrated(N) \in Int
           /\ OneIn * Cardinality({i \in DOMAIN N : 10 * N[i] > Calibrated(N)}) <= Len(N)
<1> DEFINE n == Len(N)
           below == {i \in DOMAIN N : N[i] <= Quantile(N)}
           above == {i \in DOMAIN N : 10 * N[i] > Calibrated(N)}
<1>1. n \in Nat /\ DOMAIN N = 1 .. n /\ \A i \in DOMAIN N : N[i] \in Int
  OBVIOUS
<1>2. Cardinality(1 .. n) = n /\ IsFiniteSet(1 .. n)
  <2>1. Cardinality(1 .. n) = IF 1 > n THEN 0 ELSE n - 1 + 1
    BY <1>1, FS_Interval
  <2>2. QED
    BY <1>1, <2>1, FS_Interval
<1>3. Quantile(N) \in Int /\ Cardinality(below) >= QuantileIndex(n)
  BY QuantileIsScore DEF NotAbove
<1>4. Calibrated(N) \in Int /\ Calibrated(N) >= 10 * Quantile(N)
  BY <1>3 DEF Calibrated
<1>5. above \subseteq (1 .. n) \ below
  BY <1>1, <1>3, <1>4
<1>6. below \subseteq 1 .. n
  BY <1>1
<1> HIDE DEF above, below
<1>7. /\ IsFiniteSet(below) /\ Cardinality(below) \in Nat /\ Cardinality(below) <= n
      /\ Cardinality((1 .. n) \ below) = n - Cardinality(below)
      /\ IsFiniteSet((1 .. n) \ below)
  <2>1. IsFiniteSet(below) /\ Cardinality(below) <= n
    BY <1>2, <1>6, FS_Subset
  <2>2. Cardinality((1 .. n) \ below) = Cardinality(1 .. n) - Cardinality((1 .. n) \cap below)
        /\ IsFiniteSet((1 .. n) \ below)
    BY <1>2, FS_Difference
  <2>3. (1 .. n) \cap below = below
    BY <1>6
  <2>4. QED
    BY <1>2, <2>1, <2>2, <2>3, FS_CardinalityType
<1>8. Cardinality(above) \in Nat /\ Cardinality(above) <= n - Cardinality(below)
  BY <1>5, <1>7, FS_Subset, FS_CardinalityType
<1>9. OneIn * (n - Cardinality(below)) <= n
  BY <1>1, <1>3, <1>7, IndexLeavesShare
<1>10. OneIn \in Nat
  BY CollusionAssumption
<1>11. OneIn * Cardinality(above) <= OneIn * (n - Cardinality(below))
  <2>1. n - Cardinality(below) \in Nat
    BY <1>1, <1>7
  <2>2. QED
    BY <1>8, <1>10, <2>1, TimesKeeps
<1>12. QED
  BY <1>1, <1>4, <1>7, <1>8, <1>9, <1>10, <1>11 DEF above

(***************************************************************************)
(* Pairs.                                                                  *)
(***************************************************************************)
LEMMA PairIsOfCenter ==
    ASSUME NEW c \in Range(Centers), NEW p \in Pairs(c)
    PROVE  p \in AllPairs /\ p[1] \in Range(CandidatesOf[c])
<1> DEFINE S == CandidatesOf[c]
<1>1. PICK i \in DOMAIN S : p \in {<<S[i], S[j]>> : j \in i + 1 .. Len(S)}
  BY DEF Pairs
<1>2. p[1] = S[i]
  BY <1>1
<1>3. p[1] \in Range(S)
  BY <1>1, <1>2 DEF Range
<1>4. QED
  BY <1>3 DEF AllPairs

LEMMA PairsApart ==
    ASSUME NEW c \in Range(Centers), NEW d \in Range(Centers), NEW p, p \in Pairs(c), p \in Pairs(d)
    PROVE  c = d
<1>1. p[1] \in Range(CandidatesOf[c]) /\ p[1] \in Range(CandidatesOf[d])
  BY PairIsOfCenter
<1>2. QED
  BY <1>1, CollusionAssumption

LEMMA PairsFinite ==
    ASSUME NEW c \in Range(Centers)
    PROVE  IsFiniteSet(Pairs(c))
<1> DEFINE S == CandidatesOf[c]
           n == Len(S)
           square == (1 .. n) \X (1 .. n)
           pair == [x \in square |-> <<S[x[1]], S[x[2]]>>]
           all == {pair[x] : x \in square}
<1>1. n \in Nat /\ DOMAIN S = 1 .. n
  BY CollusionAssumption
<1>2. IsFiniteSet(square)
  <2>1. IsFiniteSet(1 .. n)
    BY <1>1, FS_Interval
  <2>2. QED
    BY <2>1, FS_Product
<1>3. pair \in Surjection(square, all)
  BY DEF Surjection
<1>4. IsFiniteSet(all)
  BY <1>2, <1>3, FS_Surjection
<1>5. ASSUME NEW p \in Pairs(c) PROVE p \in all
  <2>1. PICK i \in DOMAIN S : p \in {<<S[i], S[j]>> : j \in i + 1 .. n}
    BY DEF Pairs
  <2>2. PICK j \in i + 1 .. n : p = <<S[i], S[j]>>
    BY <2>1
  <2>3. <<i, j>> \in square
    BY <1>1, <2>1, <2>2
  <2>4. p = pair[<<i, j>>]
    BY <2>2, <2>3
  <2>5. QED
    BY <2>3, <2>4
<1>6. QED
  BY <1>4, <1>5, FS_Subset

\* The worker's list of flagged pairs has each of them.
LEMMA FlaggedListed ==
    ASSUME NEW c \in Range(Centers), NEW limit
    PROVE  /\ SetToSeq(Flagged(c, limit)) \in Seq(AllPairs)
           /\ Range(SetToSeq(Flagged(c, limit))) = Flagged(c, limit)
<1> DEFINE S == Flagged(c, limit)
           list == SetToSeq(S)
           n == Cardinality(S)
<1>1. S \subseteq Pairs(c) /\ S \subseteq AllPairs
  BY DEF Flagged, AllPairs
<1>2. IsFiniteSet(S) /\ n \in Nat
  BY <1>1, PairsFinite, FS_Subset, FS_CardinalityType
<1> HIDE DEF S
<1>3. ExistsBijection(1 .. n, S)
  BY <1>2, FS_CardinalityType
<1>4. \E f \in [1 .. n -> S] : IsInjective(f)
  <2>1. PICK f \in Bijection(1 .. n, S) : TRUE
    BY <1>3 DEF ExistsBijection
  <2>2. f \in [1 .. n -> S] /\ \A a, b \in 1 .. n : f[a] = f[b] => a = b
    BY <2>1 DEF Bijection, Injection, IsInjective
  <2>3. QED
    BY <2>2 DEF IsInjective
<1>5. list \in [1 .. n -> S] /\ IsInjective(list)
  BY <1>4 DEF SetToSeq
<1> HIDE DEF list
<1>6. list \in Injection(1 .. n, S)
  BY <1>5 DEF Injection
<1>7. IsFiniteSet(1 .. n) /\ Cardinality(1 .. n) = n
  <2>1. Cardinality(1 .. n) = IF 1 > n THEN 0 ELSE n - 1 + 1
    BY <1>2, FS_Interval
  <2>2. QED
    BY <1>2, <2>1, FS_Interval
<1>8. list \in Surjection(1 .. n, S)
  BY <1>2, <1>6, <1>7, FS_Injection
<1>9. Range(list) = S
  BY <1>5, <1>8 DEF Surjection, Range
<1>10. list \in Seq(AllPairs)
  BY <1>1, <1>2, <1>5
<1>11. QED
  BY <1>9, <1>10 DEF list, S

(***************************************************************************)
(* What a step leaves alone.                                               *)
(***************************************************************************)
JobsKept ==
    /\ msgs' \in Seq(JobMsg) /\ DOMAIN msgs \subseteq DOMAIN msgs'
    /\ \A m \in DOMAIN msgs : msgs'[m].center = msgs[m].center
StoreGrows ==
    /\ null' = null /\ threshold' \in {threshold, {Calibrated(null)}}
    /\ \A r \in results : \E s \in results' : s.pair = r.pair

LEMMA PublishedStays ==
    ASSUME CheckInv, JobsKept, jobs' = jobs, batch' = batch
    PROVE  JobsWerePublished' /\ BatchesArePublished'
<1>1. JobsWerePublished'
  BY DEF CheckInv, JobsWerePublished, JobsKept
<1>2. BatchesArePublished'
  BY DEF CheckInv, BatchesArePublished, JobsKept
<1>3. QED
  BY <1>1, <1>2

LEMMA WorkerStays ==
    ASSUME CheckInv, JobsKept, StoreGrows, NEW v \in Workers, worker'[v] = worker[v]
    PROVE  WorkerAgrees(v)' /\ WorkerIsDue(v)'
<1>1. threshold \in {{}, {Calibrated(null)}} /\ WorkerAgrees(v) /\ WorkerIsDue(v)
  BY DEF CheckInv, SeedDecides, StoresAreDue
<1>2. WorkerAgrees(v)'
  BY <1>1 DEF WorkerAgrees, StoreGrows
<1>3. \A p : Stored(p) => Stored(p)'
  BY DEF StoreGrows, Stored
<1>4. \A c : DueOf(c)' = DueOf(c)
  BY DEF DueOf, StoreGrows
<1>5. worker[v].pc # "idle" => CenterOf(v)' = CenterOf(v)
  BY DEF CenterOf, JobsKept, CheckInv, LeasesAreOwn
<1>6. WorkerIsDue(v)'
  BY <1>1, <1>3, <1>4, <1>5 DEF WorkerIsDue
<1>7. QED
  BY <1>2, <1>6

LEMMA JobStays ==
    ASSUME CheckInv, JobsKept, StoreGrows, NEW m \in DOMAIN msgs, JobIsStored(m)
    PROVE  JobIsStored(m)'
<1>1. \A p : Stored(p) => Stored(p)'
  BY DEF StoreGrows, Stored
<1>2. DueOf(msgs[m].center)' = DueOf(msgs[m].center)
  BY DEF DueOf, StoreGrows, JobsKept
<1>3. QED
  BY <1>1, <1>2 DEF JobIsStored, StoreGrows

\* A worker goes on with its job.
LEMMA WorkKeeps ==
    ASSUME CheckInv, NEW w \in Workers, NEW b \in Detector,
           worker[w].pc # "idle", b.pc # "idle", b.msg = worker[w].msg,
           worker' = [worker EXCEPT ![w] = b],
           StoreGrows, results' \subseteq [pair : AllPairs, limit : Int],
           UNCHANGED <<exam, handler, batch, jobs, msgs, ready, breaks>>,
           (WorkerAgrees(w) /\ ResultsKeepLimit)', (WorkerIsDue(w) /\ ResultsAreDue)'
    PROVE  CheckInv'
<1>1. CheckType /\ LeasesAreOwn /\ worker \in [Workers -> Detector]
  BY DEF CheckInv, CheckType
<1>2. JobsKept
  BY <1>1 DEF JobsKept, CheckType
<1>3. worker'[w] = b /\ worker' \in [Workers -> Detector]
      /\ \A v \in Workers : v # w => worker'[v] = worker[v]
  BY <1>1
<1>4. Calibrated(null) \in Int
  BY <1>1, CollusionAssumption, RateIsKept DEF CheckType
<1>5. CheckType'
  BY <1>1, <1>3, <1>4 DEF CheckType, StoreGrows
<1>6. \A v \in Workers : WorkerAgrees(v)' /\ WorkerIsDue(v)'
  BY <1>2, <1>3, WorkerStays
<1>7. LeasesAreOwn'
  BY <1>1, <1>3 DEF LeasesAreOwn
<1>8. SeedDecides'
  BY <1>6 DEF SeedDecides, CheckInv, StoreGrows
<1>9. \A m \in DOMAIN msgs : msgs[m].state = "answered" => JobIsStored(m)'
  BY <1>2, JobStays DEF CheckInv, StoresAreDue
<1>10. StoresAreDue'
  BY <1>6, <1>9 DEF StoresAreDue
<1>11. QED
  BY <1>2, <1>5, <1>7, <1>8, <1>10, PublishedStays DEF CheckInv

LEMMA IdleIsDetector == Idle \in Detector /\ Idle.pc = "idle" /\ Idle.next = 1
<1>1. <<>> \in Seq(AllPairs)
  OBVIOUS
<1>2. QED
  BY <1>1 DEF Idle, Detector, Stages, None

LEMMA SameStore ==
    ASSUME CheckInv, UNCHANGED <<null, threshold, results>>
    PROVE  StoreGrows /\ ResultsKeepLimit' /\ ResultsAreDue'
BY DEF CheckInv, StoreGrows, SeedDecides, StoresAreDue, ResultsKeepLimit, ResultsAreDue, DueOf

\* A message's state changes, of a job that no worker has afterwards.
LEMMA SettleKeeps ==
    ASSUME CheckInv, NEW w \in Workers, worker[w].pc # "idle",
           NEW outcome \in {"queued", "nodata", "answered"}, Settle(w, outcome),
           outcome = "answered" => JobIsStored(worker[w].msg),
           UNCHANGED <<exam, handler, batch, jobs, ready, null, threshold, results>>,
           breaks' \in 0 .. MaxBreaks
    PROVE  CheckInv'
<1> DEFINE m == worker[w].msg
           new == [msgs[m] EXCEPT !.state = outcome]
<1>1. CheckType /\ LeasesAreOwn /\ worker \in [Workers -> Detector] /\ msgs \in Seq(JobMsg)
  BY DEF CheckInv, CheckType
<1>2. m \in DOMAIN msgs /\ msgs[m] \in JobMsg
  BY <1>1 DEF LeasesAreOwn
<1>3. new \in JobMsg /\ new.state = outcome /\ new.center = msgs[m].center
  BY <1>2 DEF JobMsg, MsgStates
<1>4. msgs' = [msgs EXCEPT ![m] = new] /\ worker' = [worker EXCEPT ![w] = Idle]
  BY DEF Settle
<1> HIDE DEF new
<1>5. /\ msgs' \in Seq(JobMsg) /\ DOMAIN msgs' = DOMAIN msgs /\ msgs'[m] = new
      /\ \A x \in DOMAIN msgs : x # m => msgs'[x] = msgs[x]
  BY <1>1, <1>2, <1>3, <1>4
<1>6. JobsKept /\ StoreGrows /\ ResultsKeepLimit' /\ ResultsAreDue'
  BY <1>3, <1>5, SameStore DEF JobsKept
<1>7. Idle \in Detector /\ Idle.pc = "idle"
  BY IdleIsDetector
<1>8. worker'[w] = Idle /\ worker' \in [Workers -> Detector]
      /\ \A v \in Workers : v # w => worker'[v] = worker[v]
  BY <1>1, <1>4, <1>7
<1>9. CheckType'
  BY <1>1, <1>5, <1>8 DEF CheckType
<1>10. LeasesAreOwn'
  <2>1. ASSUME NEW v \in Workers, worker'[v].pc # "idle"
        PROVE  v # w /\ worker'[v] = worker[v] /\ worker[v].msg # m
    BY <1>1, <1>7, <1>8, <2>1 DEF LeasesAreOwn
  <2>2. QED
    BY <1>1, <1>5, <2>1 DEF LeasesAreOwn
<1>11. WorkerAgrees(w)' /\ WorkerIsDue(w)'
  BY <1>7, <1>8 DEF WorkerAgrees, WorkerIsDue
<1>12. \A v \in Workers : WorkerAgrees(v)' /\ WorkerIsDue(v)'
  BY <1>6, <1>8, <1>11, WorkerStays
<1>13. SeedDecides'
  BY <1>6, <1>12 DEF SeedDecides, CheckInv, StoreGrows
<1>14. ASSUME NEW x \in DOMAIN msgs, msgs'[x].state = "answered" PROVE JobIsStored(x)'
  <2>1. JobIsStored(x)
    BY <1>3, <1>5, <1>14 DEF CheckInv, StoresAreDue
  <2>2. QED
    BY <1>6, <2>1, JobStays
<1>15. StoresAreDue'
  BY <1>5, <1>6, <1>12, <1>14 DEF StoresAreDue
<1>16. QED
  BY <1>6, <1>9, <1>10, <1>13, <1>15, PublishedStays DEF CheckInv

(***************************************************************************)
(* The workers' steps.                                                     *)
(***************************************************************************)
LEMMA DropKeeps ==
    ASSUME CheckInv, NEW w \in Workers, NEW m \in DOMAIN msgs, Drop(w, m)
    PROVE  CheckInv'
<1> DEFINE new == [msgs[m] EXCEPT !.state = "dropped"]
<1>1. CheckType /\ LeasesAreOwn /\ msgs \in Seq(JobMsg) /\ msgs[m] \in JobMsg
  BY DEF CheckInv, CheckType
<1>2. /\ msgs[m].state = "queued" /\ msgs' = [msgs EXCEPT ![m] = new]
      /\ UNCHANGED <<exam, handler, batch, jobs, ready, null, threshold, worker, results, breaks>>
  BY DEF Drop, Others, workerVars, triggerVars
<1>3. new \in JobMsg /\ new.state = "dropped" /\ new.center = msgs[m].center
  BY <1>1 DEF JobMsg, MsgStates
<1> HIDE DEF new
<1>4. /\ msgs' \in Seq(JobMsg) /\ DOMAIN msgs' = DOMAIN msgs /\ msgs'[m] = new
      /\ \A x \in DOMAIN msgs : x # m => msgs'[x] = msgs[x]
  BY <1>1, <1>2, <1>3
<1>5. JobsKept /\ StoreGrows /\ ResultsKeepLimit' /\ ResultsAreDue'
  BY <1>2, <1>3, <1>4, SameStore DEF JobsKept
<1>6. CheckType'
  BY <1>1, <1>2, <1>4 DEF CheckType
<1>7. LeasesAreOwn'
  BY <1>1, <1>2, <1>4 DEF LeasesAreOwn
<1>8. \A v \in Workers : WorkerAgrees(v)' /\ WorkerIsDue(v)'
  BY <1>2, <1>5, WorkerStays
<1>9. ASSUME NEW x \in DOMAIN msgs, msgs'[x].state = "answered" PROVE JobIsStored(x)'
  <2>1. JobIsStored(x)
    BY <1>3, <1>4, <1>9 DEF CheckInv, StoresAreDue
  <2>2. QED
    BY <1>5, <2>1, JobStays
<1>10. SeedDecides' /\ StoresAreDue'
  BY <1>4, <1>5, <1>8, <1>9 DEF SeedDecides, StoresAreDue, CheckInv, StoreGrows
<1>11. QED
  BY <1>2, <1>5, <1>6, <1>7, <1>10, PublishedStays DEF CheckInv

LEMMA TakeKeeps ==
    ASSUME CheckInv, NEW w \in Workers, NEW m \in DOMAIN msgs, Take(w, m)
    PROVE  CheckInv'
<1> DEFINE new == [msgs[m] EXCEPT !.state = "leased"]
           b == [Idle EXCEPT !.pc = "loading", !.msg = m]
<1>1. CheckType /\ LeasesAreOwn /\ worker \in [Workers -> Detector]
      /\ msgs \in Seq(JobMsg) /\ msgs[m] \in JobMsg /\ m \in Nat
  BY DEF CheckInv, CheckType
<1>2. /\ worker[w].pc = "idle" /\ msgs[m].state = "queued" /\ msgs' = [msgs EXCEPT ![m] = new]
      /\ worker' = [worker EXCEPT ![w] = b]
      /\ UNCHANGED <<exam, handler, batch, jobs, ready, null, threshold, results, breaks>>
  BY DEF Take, Free, At, Others, triggerVars
<1>3. new \in JobMsg /\ new.state = "leased" /\ new.center = msgs[m].center
  BY <1>1 DEF JobMsg, MsgStates
<1>4. b \in Detector /\ b.pc = "loading" /\ b.msg = m /\ b.next = 1
  BY <1>1, IdleIsDetector DEF Detector, Stages
<1> HIDE DEF new, b
<1>5. /\ msgs' \in Seq(JobMsg) /\ DOMAIN msgs' = DOMAIN msgs /\ msgs'[m] = new
      /\ \A x \in DOMAIN msgs : x # m => msgs'[x] = msgs[x]
  BY <1>1, <1>2, <1>3
<1>6. worker'[w] = b /\ worker' \in [Workers -> Detector]
      /\ \A v \in Workers : v # w => worker'[v] = worker[v]
  BY <1>1, <1>2, <1>4
<1>7. JobsKept /\ StoreGrows /\ ResultsKeepLimit' /\ ResultsAreDue'
  BY <1>2, <1>3, <1>5, SameStore DEF JobsKept
<1>8. CheckType'
  BY <1>1, <1>2, <1>5, <1>6 DEF CheckType
<1>9. LeasesAreOwn'
  <2>1. \A v \in Workers : v # w /\ worker[v].pc # "idle" => worker[v].msg # m
    BY <1>1, <1>2 DEF LeasesAreOwn
  <2>2. QED
    BY <1>1, <1>3, <1>4, <1>5, <1>6, <2>1 DEF LeasesAreOwn
<1>10. WorkerAgrees(w)' /\ WorkerIsDue(w)'
  BY <1>4, <1>6 DEF WorkerAgrees, WorkerIsDue
<1>11. \A v \in Workers : WorkerAgrees(v)' /\ WorkerIsDue(v)'
  BY <1>6, <1>7, <1>10, WorkerStays
<1>12. ASSUME NEW x \in DOMAIN msgs, msgs'[x].state = "answered" PROVE JobIsStored(x)'
  <2>1. JobIsStored(x)
    BY <1>3, <1>5, <1>12 DEF CheckInv, StoresAreDue
  <2>2. QED
    BY <1>7, <2>1, JobStays
<1>13. SeedDecides' /\ StoresAreDue'
  BY <1>5, <1>7, <1>11, <1>12 DEF SeedDecides, StoresAreDue, CheckInv, StoreGrows
<1>14. QED
  BY <1>2, <1>7, <1>8, <1>9, <1>13, PublishedStays DEF CheckInv

\* The threshold as a worker reads it.
LEMMA ReadThresholdKeeps ==
    ASSUME CheckInv, NEW w \in Workers, ReadThreshold(w)
    PROVE  CheckInv'
<1>1. /\ CheckType /\ worker \in [Workers -> Detector] /\ worker[w] \in Detector
      /\ worker[w].pc = "loading" /\ worker[w].next = 1
      /\ threshold \in {{}, {Calibrated(null)}} /\ threshold \subseteq Int
  BY DEF CheckInv, CheckType, ReadThreshold, At, StoresAreDue, WorkerIsDue, SeedDecides
<1>2. UNCHANGED <<exam, handler, batch, jobs, msgs, ready, null, threshold, results, breaks>>
  BY DEF ReadThreshold, Others, triggerVars
<1>3. StoreGrows /\ ResultsKeepLimit' /\ ResultsAreDue'
  BY <1>2, SameStore
<1>4. results' \subseteq [pair : AllPairs, limit : Int]
  BY <1>1, <1>2 DEF CheckType
<1>5. CASE threshold = {}
  <2> DEFINE b == [worker[w] EXCEPT !.pc = "calibrating"]
  <2>1. worker' = [worker EXCEPT ![w] = b]
    BY <1>5 DEF ReadThreshold, Advance
  <2>2. b \in Detector /\ b.pc = "calibrating" /\ b.msg = worker[w].msg /\ b.next = 1
    BY <1>1 DEF Detector, Stages
  <2> HIDE DEF b
  <2>3. worker'[w] = b
    BY <1>1, <2>1
  <2>4. WorkerAgrees(w)' /\ WorkerIsDue(w)'
    BY <2>2, <2>3 DEF WorkerAgrees, WorkerIsDue
  <2>5. QED
    BY <1>1, <1>2, <1>3, <1>4, <2>1, <2>2, <2>4, WorkKeeps
<1>6. CASE threshold # {}
  <2> DEFINE b == [worker[w] EXCEPT !.pc = "detecting", !.limit = Calibrated(null)]
  <2>1. worker' = [worker EXCEPT ![w] = b] /\ threshold = {Calibrated(null)}
    BY <1>1, <1>6 DEF ReadThreshold
  <2>2. b \in Detector /\ b.pc = "detecting" /\ b.msg = worker[w].msg /\ b.next = 1
        /\ b.limit = Calibrated(null)
    BY <1>1, <2>1 DEF Detector, Stages
  <2> HIDE DEF b
  <2>3. worker'[w] = b
    BY <1>1, <2>1
  <2>4. WorkerAgrees(w)' /\ WorkerIsDue(w)'
    BY <1>2, <2>1, <2>2, <2>3 DEF WorkerAgrees, WorkerIsDue
  <2>5. QED
    BY <1>1, <1>2, <1>3, <1>4, <2>1, <2>2, <2>4, WorkKeeps
<1>7. QED
  BY <1>5, <1>6

LEMMA StoreThresholdKeeps ==
    ASSUME CheckInv, NEW w \in Workers, StoreThreshold(w)
    PROVE  CheckInv'
<1> DEFINE b == [worker[w] EXCEPT !.pc = "detecting", !.limit = Calibrated(null)]
<1>1. /\ CheckType /\ worker \in [Workers -> Detector] /\ worker[w] \in Detector
      /\ worker[w].pc = "calibrating" /\ worker[w].next = 1
      /\ ResultsKeepLimit /\ ResultsAreDue
  BY DEF CheckInv, CheckType, StoreThreshold, At, StoresAreDue, WorkerIsDue, SeedDecides
<1>2. /\ UNCHANGED <<exam, handler, batch, jobs, msgs, ready, null, results, breaks>>
      /\ threshold' = {Calibrated(null)} /\ worker' = [worker EXCEPT ![w] = b]
  BY DEF StoreThreshold, Others, triggerVars
<1>3. Calibrated(null) \in Int
  BY <1>1, CollusionAssumption, RateIsKept DEF CheckType
<1>4. b \in Detector /\ b.pc = "detecting" /\ b.msg = worker[w].msg /\ b.next = 1
      /\ b.limit = Calibrated(null)
  BY <1>1, <1>3 DEF Detector, Stages
<1> HIDE DEF b
<1>5. worker'[w] = b
  BY <1>1, <1>2
<1>6. WorkerAgrees(w)' /\ WorkerIsDue(w)'
  BY <1>2, <1>4, <1>5 DEF WorkerAgrees, WorkerIsDue
<1>7. StoreGrows /\ ResultsKeepLimit' /\ ResultsAreDue'
  BY <1>1, <1>2 DEF StoreGrows, ResultsKeepLimit, ResultsAreDue, DueOf
<1>8. results' \subseteq [pair : AllPairs, limit : Int]
  BY <1>1, <1>2 DEF CheckType
<1>9. QED
  BY <1>1, <1>2, <1>4, <1>6, <1>7, <1>8, WorkKeeps

LEMMA DetectKeeps ==
    ASSUME CheckInv, NEW w \in Workers, Detect(w)
    PROVE  CheckInv'
<1> DEFINE found == SetToSeq(Flagged(CenterOf(w), worker[w].limit))
           b == [worker[w] EXCEPT !.pc = "writing", !.pairs = found]
<1>1. /\ CheckType /\ worker \in [Workers -> Detector] /\ worker[w] \in Detector
      /\ worker[w].pc = "detecting" /\ worker[w].next = 1
      /\ worker[w].limit = Calibrated(null) /\ threshold = {Calibrated(null)}
      /\ worker[w].msg \in DOMAIN msgs /\ CenterOf(w) \in Range(Centers)
  <2>1. CheckType /\ LeasesAreOwn /\ SeedDecides /\ StoresAreDue /\ worker[w].pc = "detecting"
    BY DEF CheckInv, Detect, At
  <2>2. worker[w].msg \in DOMAIN msgs /\ msgs[worker[w].msg] \in JobMsg
    BY <2>1 DEF LeasesAreOwn, CheckType
  <2>3. QED
    BY <2>1, <2>2 DEF CheckType, SeedDecides, WorkerAgrees, StoresAreDue, WorkerIsDue, CenterOf,
                      JobMsg
<1>2. /\ UNCHANGED <<exam, handler, batch, jobs, msgs, ready, null, threshold, results, breaks>>
      /\ worker' = [worker EXCEPT ![w] = b]
  BY DEF Detect, Others, triggerVars
<1>3. found \in Seq(AllPairs) /\ Range(found) = DueOf(CenterOf(w))
  BY <1>1, FlaggedListed DEF DueOf
<1> HIDE DEF found
<1>4. b \in Detector /\ b.pc = "writing" /\ b.msg = worker[w].msg /\ b.next = 1
      /\ b.limit = Calibrated(null) /\ b.pairs = found
  BY <1>1, <1>3 DEF Detector, Stages
<1> HIDE DEF b
<1>5. worker'[w] = b
  BY <1>1, <1>2
<1>6. CenterOf(w)' = CenterOf(w) /\ DueOf(CenterOf(w))' = DueOf(CenterOf(w))
  BY <1>2, <1>4, <1>5 DEF CenterOf, DueOf
<1>7. WorkerAgrees(w)'
  BY <1>1, <1>2, <1>4, <1>5 DEF WorkerAgrees
<1>8. \A i \in DOMAIN found : ~(i < 1)
  BY <1>3
<1>9. WorkerIsDue(w)'
  BY <1>3, <1>4, <1>5, <1>6, <1>8 DEF WorkerIsDue
<1>10. StoreGrows /\ ResultsKeepLimit' /\ ResultsAreDue'
  BY <1>2, SameStore
<1>11. results' \subseteq [pair : AllPairs, limit : Int]
  BY <1>1, <1>2 DEF CheckType
<1>12. QED
  BY <1>1, <1>2, <1>4, <1>7, <1>9, <1>10, <1>11, WorkKeeps

\* The next pair is stored, under the one threshold.
LEMMA WritePairKeeps ==
    ASSUME CheckInv, NEW w \in Workers, WritePair(w)
    PROVE  CheckInv'
<1> DEFINE S == worker[w].pairs
           k == worker[w].next
           due == DueOf(CenterOf(w))
           one == [pair |-> S[k], limit |-> worker[w].limit]
           next == IF k < Len(S) THEN k + 1 ELSE 1
           pc == IF k < Len(S) THEN "writing" ELSE "clustering"
           b == [worker[w] EXCEPT !.next = next, !.pc = pc]
<1>1. /\ CheckType /\ worker \in [Workers -> Detector] /\ worker[w] \in Detector
      /\ worker[w].pc = "writing" /\ Range(S) = due
      /\ worker[w].limit = Calibrated(null) /\ threshold = {Calibrated(null)}
      /\ CenterOf(w) \in Range(Centers) /\ ResultsAreDue /\ ResultsKeepLimit
      /\ k = 1 \/ k <= Len(S)
      /\ \A i \in DOMAIN S : i < k => Stored(S[i])
  <2>1. CheckType /\ LeasesAreOwn /\ SeedDecides /\ StoresAreDue /\ worker[w].pc = "writing"
    BY DEF CheckInv, WritePair, Loop, At
  <2>2. worker[w].msg \in DOMAIN msgs /\ msgs[worker[w].msg] \in JobMsg
    BY <2>1 DEF LeasesAreOwn, CheckType
  <2>3. CenterOf(w) \in Range(Centers)
    BY <2>2 DEF CenterOf, JobMsg
  <2>4. WorkerIsDue(w) /\ WorkerAgrees(w)
    BY <2>1 DEF SeedDecides, StoresAreDue
  <2>5. QED
    BY <2>1, <2>3, <2>4 DEF CheckType, SeedDecides, WorkerAgrees, StoresAreDue, WorkerIsDue
<1>2. S \in Seq(AllPairs) /\ k \in Nat \ {0} /\ Len(S) \in Nat /\ DOMAIN S = 1 .. Len(S)
  BY <1>1 DEF Detector
<1>3. /\ UNCHANGED <<exam, handler, batch, jobs, msgs, ready, null, threshold, breaks>>
      /\ worker' = [worker EXCEPT ![w].next = IF k < Len(S) THEN k + 1 ELSE 1,
                                  ![w].pc = IF k < Len(S) THEN worker[w].pc ELSE "clustering"]
      /\ results' = IF S = <<>> THEN results ELSE {r \in results : r.pair # S[k]} \union {one}
  <2>1. /\ Loop(w, S, "writing", "clustering") /\ Others /\ UNCHANGED <<threshold, msgs, rings>>
        /\ results' = IF S = <<>> THEN results ELSE {r \in results : r.pair # S[k]} \union {one}
    BY DEF WritePair
  <2>2. QED
    BY <1>1, <2>1 DEF Loop, Others, triggerVars
<1>4. worker' = [worker EXCEPT ![w] = b]
  BY <1>1, <1>3
<1>5. /\ b \in Detector /\ b.pc = pc /\ b.pc # "idle" /\ b.msg = worker[w].msg
      /\ b.limit = Calibrated(null) /\ b.pairs = S /\ b.next = next
  <2>1. next \in Nat \ {0} /\ pc \in Stages /\ pc # "idle"
    BY <1>2 DEF Stages
  <2> HIDE DEF next, pc
  <2>2. QED
    BY <1>1, <2>1 DEF Detector
<1>6. S # <<>> => k \in DOMAIN S /\ S[k] \in due /\ S[k] \in AllPairs
  <2>1. S # <<>> => Len(S) >= 1
    BY <1>2
  <2>2. S # <<>> => k \in DOMAIN S
    BY <1>1, <1>2, <2>1
  <2>3. QED
    BY <1>1, <1>2, <2>2 DEF Range
<1> DEFINE storedNow(p) == \E r \in results' : r.pair = p
<1> HIDE DEF b, S
<1>7. worker'[w] = b
  BY <1>1, <1>4
<1>8. CenterOf(w)' = CenterOf(w) /\ DueOf(CenterOf(w))' = due
  BY <1>3, <1>5, <1>7 DEF CenterOf, DueOf
<1>9. WorkerAgrees(w)'
  BY <1>1, <1>3, <1>5, <1>7 DEF WorkerAgrees
<1>10. S # <<>> => one \in results'
  BY <1>3
<1>11. \A p : Stored(p) => storedNow(p)
  BY <1>3, <1>10 DEF Stored
<1>12. \A i \in DOMAIN S : i <= k => storedNow(S[i])
  <2>1. ASSUME NEW i \in DOMAIN S, i <= k PROVE storedNow(S[i])
    <3>1. CASE i < k
      BY <1>1, <1>11, <3>1
    <3>2. CASE i = k
      <4>1. S # <<>>
        BY <1>2
      <4>2. one \in results' /\ one.pair = S[i]
        BY <1>10, <3>2, <4>1
      <4>3. QED
        BY <4>2
    <3>3. QED
      BY <1>2, <2>1, <3>1, <3>2
  <2>2. QED
    BY <2>1
<1>13. WorkerIsDue(w)'
  <2>1. CASE k < Len(S)
    <3>1. worker'[w].pc = "writing" /\ worker'[w].pairs = S /\ worker'[w].next = k + 1
      BY <1>5, <1>7, <2>1
    <3>2. \A i \in DOMAIN S : i < k + 1 => storedNow(S[i])
      BY <1>2, <1>12
    <3>3. k + 1 <= Len(S)
      BY <1>2, <2>1
    <3>4. QED
      BY <1>1, <1>8, <3>1, <3>2, <3>3 DEF WorkerIsDue, Stored
  <2>2. CASE ~(k < Len(S))
    <3>1. worker'[w].pc = "clustering" /\ worker'[w].pairs = S
      BY <1>5, <1>7, <2>2
    <3>2. \A i \in DOMAIN S : storedNow(S[i])
      BY <1>2, <1>12, <2>2
    <3>3. \A p \in due : storedNow(p)
      BY <1>1, <3>2 DEF Range
    <3>4. QED
      BY <1>1, <1>8, <3>1, <3>3 DEF WorkerIsDue, Stored
  <2>3. QED
    BY <2>1, <2>2
<1>14. ASSUME NEW r \in results' PROVE r \in results \/ (S # <<>> /\ r = one)
  BY <1>3, <1>14
<1>15. results' \subseteq [pair : AllPairs, limit : Int]
  BY <1>1, <1>6, <1>14 DEF CheckType, Detector
<1>16. ResultsKeepLimit'
  BY <1>1, <1>3, <1>14 DEF ResultsKeepLimit
<1>17. ResultsAreDue'
  <2> SUFFICES ASSUME NEW r \in results', NEW c \in Range(Centers), r.pair \in Pairs(c)
               PROVE  r.pair \in DueOf(c)
    BY <1>3 DEF ResultsAreDue, DueOf
  <2>1. CASE r \in results
    BY <1>1, <2>1 DEF ResultsAreDue
  <2>2. CASE S # <<>> /\ r = one
    <3>1. r.pair \in due /\ r.pair \in Pairs(CenterOf(w))
      BY <1>6, <2>2 DEF DueOf, Flagged
    <3>2. c = CenterOf(w)
      BY <1>1, <3>1, PairsApart
    <3>3. QED
      BY <3>1, <3>2
  <2>3. QED
    BY <1>14, <2>1, <2>2
<1>18. StoreGrows
  BY <1>3, <1>11 DEF StoreGrows, Stored
<1>19. QED
  BY <1>1, <1>3, <1>4, <1>5, <1>9, <1>13, <1>15, <1>16, <1>17, <1>18, WorkKeeps

LEMMA WriteRingKeeps ==
    ASSUME CheckInv, NEW w \in Workers, WriteRing(w)
    PROVE  CheckInv'
<1> DEFINE S == Rings(worker[w].pairs)
           k == worker[w].next
           next == IF k < Len(S) THEN k + 1 ELSE 1
           pc == IF k < Len(S) THEN "clustering" ELSE "done"
           b == [worker[w] EXCEPT !.next = next, !.pc = pc]
<1>1. /\ CheckType /\ worker \in [Workers -> Detector] /\ worker[w] \in Detector
      /\ worker[w].pc = "clustering" /\ WorkerIsDue(w) /\ WorkerAgrees(w)
  BY DEF CheckInv, CheckType, WriteRing, Loop, At, StoresAreDue, SeedDecides
<1>2. /\ UNCHANGED <<exam, handler, batch, jobs, msgs, ready, null, threshold, results, breaks>>
      /\ worker' = [worker EXCEPT ![w].next = IF k < Len(S) THEN k + 1 ELSE 1,
                                  ![w].pc = IF k < Len(S) THEN worker[w].pc ELSE "done"]
  <2>1. Loop(w, S, "clustering", "done") /\ Others /\ UNCHANGED <<threshold, msgs, results>>
    BY DEF WriteRing
  <2>2. QED
    BY <1>1, <2>1 DEF Loop, Others, triggerVars
<1> HIDE DEF S
<1>3. worker' = [worker EXCEPT ![w] = b]
  BY <1>1, <1>2
<1>4. /\ b \in Detector /\ b.pc \in {"clustering", "done"} /\ b.msg = worker[w].msg
      /\ b.limit = worker[w].limit /\ b.pairs = worker[w].pairs
  <2>1. k \in Nat \ {0}
    BY <1>1 DEF Detector
  <2>2. next \in Nat \ {0} /\ pc \in Stages /\ pc \in {"clustering", "done"}
    BY <2>1 DEF Stages
  <2> HIDE DEF next, pc
  <2>3. QED
    BY <1>1, <2>2 DEF Detector
<1> HIDE DEF b
<1>5. worker'[w] = b
  BY <1>1, <1>3
<1>6. CenterOf(w)' = CenterOf(w) /\ DueOf(CenterOf(w))' = DueOf(CenterOf(w))
  BY <1>2, <1>4, <1>5 DEF CenterOf, DueOf
<1>7. WorkerAgrees(w)'
  BY <1>1, <1>2, <1>4, <1>5 DEF WorkerAgrees
<1>8. \A p : Stored(p)' = Stored(p)
  BY <1>2 DEF Stored
<1>9. WorkerIsDue(w)'
  BY <1>1, <1>4, <1>5, <1>6, <1>8 DEF WorkerIsDue
<1>10. StoreGrows /\ ResultsKeepLimit' /\ ResultsAreDue'
  BY <1>2, SameStore
<1>11. results' \subseteq [pair : AllPairs, limit : Int]
  BY <1>1, <1>2 DEF CheckType
<1>12. QED
  BY <1>1, <1>2, <1>3, <1>4, <1>7, <1>9, <1>10, <1>11, WorkKeeps

\* A job is given back or acknowledged.
LEMMA LettingGoKeeps ==
    ASSUME CheckInv, NEW w \in Workers,
           NoResponses(w) \/ Acknowledge(w) \/ Refuse(w) \/ Abort(w)
    PROVE  CheckInv'
<1>1. CheckType /\ LeasesAreOwn /\ breaks \in 0 .. MaxBreaks /\ MaxBreaks \in Nat
  BY CollusionAssumption DEF CheckInv, CheckType
<1>2. CASE NoResponses(w)
  <2>1. /\ worker[w].pc # "idle" /\ Settle(w, "nodata")
        /\ UNCHANGED <<exam, handler, batch, jobs, ready, null, threshold, results, breaks>>
    BY <1>2 DEF NoResponses, At, Others, triggerVars
  <2>2. QED
    BY <1>1, <2>1, SettleKeeps
<1>3. CASE Acknowledge(w)
  <2>1. /\ worker[w].pc = "done" /\ Settle(w, "answered")
        /\ UNCHANGED <<exam, handler, batch, jobs, ready, null, threshold, results, breaks>>
    BY <1>3 DEF Acknowledge, At, Others, triggerVars
  <2>2. WorkerAgrees(w) /\ WorkerIsDue(w)
    BY DEF CheckInv, SeedDecides, StoresAreDue
  <2>3. JobIsStored(worker[w].msg)
    BY <2>1, <2>2 DEF WorkerAgrees, WorkerIsDue, JobIsStored, CenterOf
  <2>4. QED
    BY <1>1, <2>1, <2>3, SettleKeeps
<1>4. CASE Refuse(w)
  <2>1. /\ worker[w].pc # "idle" /\ Settle(w, "queued")
        /\ UNCHANGED <<exam, handler, batch, jobs, ready, null, threshold, results, breaks>>
    BY <1>4 DEF Refuse, At, Others, triggerVars
  <2>2. QED
    BY <1>1, <2>1, SettleKeeps
<1>5. CASE Abort(w)
  <2>1. /\ worker[w].pc # "idle" /\ Settle(w, "queued") /\ breaks < MaxBreaks /\ breaks' = breaks + 1
        /\ UNCHANGED <<exam, handler, batch, jobs, ready, null, threshold, results>>
    BY <1>5 DEF Abort, At, triggerVars
  <2>2. breaks' \in 0 .. MaxBreaks
    BY <1>1, <2>1
  <2>3. QED
    BY <1>1, <2>1, <2>2, SettleKeeps
<1>6. QED
  BY <1>2, <1>3, <1>4, <1>5

(***************************************************************************)
(* The requests' steps, and what is around the service.                    *)
(***************************************************************************)
\* The topic as it is, or with one more job.
TopicGrows ==
    /\ JobsKept
    /\ \A m \in DOMAIN msgs : msgs'[m] = msgs[m]
    /\ \A m \in DOMAIN msgs' \ DOMAIN msgs : msgs'[m].state = "queued"

LEMMA MessageIsNew ==
    ASSUME CheckInv, NEW c \in Range(Centers), NEW form \in {"examId", "exam_id"},
           msgs' = NewMsg(c, form)
    PROVE  /\ TopicGrows /\ Len(msgs) + 1 \in DOMAIN msgs' /\ Len(msgs) + 1 \in Nat
           /\ msgs'[Len(msgs) + 1].center = c
<1> DEFINE one == [center |-> c, form |-> form, state |-> "queued"]
<1>1. msgs \in Seq(JobMsg) /\ one \in JobMsg /\ one.center = c /\ one.state = "queued"
  BY DEF CheckInv, CheckType, JobMsg, MsgStates
<1>2. msgs' = Append(msgs, one)
  BY DEF NewMsg
<1> HIDE DEF one
<1>3. /\ msgs' \in Seq(JobMsg) /\ Len(msgs') = Len(msgs) + 1 /\ Len(msgs) \in Nat
      /\ DOMAIN msgs = 1 .. Len(msgs) /\ DOMAIN msgs' = 1 .. Len(msgs) + 1
      /\ \A m \in DOMAIN msgs : msgs'[m] = msgs[m]
      /\ msgs'[Len(msgs) + 1] = one
  BY <1>1, <1>2
<1>4. JobsKept
  BY <1>3 DEF JobsKept
<1>5. \A m \in DOMAIN msgs' \ DOMAIN msgs : m = Len(msgs) + 1
  BY <1>3
<1>6. QED
  BY <1>1, <1>3, <1>4, <1>5 DEF TopicGrows

LEMMA RequestKeeps ==
    ASSUME CheckInv, TopicGrows, UNCHANGED <<null, threshold, worker, results>>,
           CheckType', (JobsWerePublished /\ BatchesArePublished)'
    PROVE  CheckInv'
<1>1. JobsKept /\ StoreGrows /\ ResultsKeepLimit' /\ ResultsAreDue'
  BY SameStore DEF TopicGrows
<1>2. \A v \in Workers : WorkerAgrees(v)' /\ WorkerIsDue(v)'
  BY <1>1, WorkerStays
<1>3. LeasesAreOwn'
  BY DEF CheckInv, LeasesAreOwn, TopicGrows, JobsKept
<1>4. ASSUME NEW x \in DOMAIN msgs', msgs'[x].state = "answered" PROVE JobIsStored(x)'
  <2>1. x \in DOMAIN msgs /\ JobIsStored(x)
    BY <1>4 DEF TopicGrows, CheckInv, StoresAreDue
  <2>2. QED
    BY <1>1, <2>1, JobStays
<1>5. SeedDecides' /\ StoresAreDue'
  BY <1>1, <1>2, <1>4 DEF SeedDecides, StoresAreDue, CheckInv, StoreGrows
<1>6. QED
  BY <1>3, <1>5 DEF CheckInv

LEMMA SameTopic ==
    ASSUME CheckInv, msgs' = msgs
    PROVE  TopicGrows
BY DEF CheckInv, CheckType, TopicGrows, JobsKept

LEMMA StartTriggerKeeps ==
    ASSUME CheckInv, NEW h \in Handlers, StartTrigger(h)
    PROVE  CheckInv'
<1>1. /\ UNCHANGED <<exam, batch, jobs, msgs, ready, null, threshold, worker, results, breaks>>
      /\ handler' = [handler EXCEPT ![h] = "publishing"]
  BY DEF StartTrigger, workerVars
<1>2. CheckType'
  BY <1>1 DEF CheckInv, CheckType
<1>3. TopicGrows /\ JobsKept
  BY <1>1, SameTopic DEF TopicGrows
<1>4. QED
  BY <1>1, <1>2, <1>3, PublishedStays, RequestKeeps

\* A batch of a request grows by what it says of the next centre.
LEMMA BatchGrows ==
    ASSUME CheckInv, TopicGrows, NEW h \in Handlers, NEW n \in Nat,
           Len(batch[h]) < Len(Centers), batch' = [batch EXCEPT ![h] = Append(batch[h], n)],
           n # None => n \in DOMAIN msgs' /\ msgs'[n].center = Centers[Len(batch[h]) + 1]
    PROVE  BatchesArePublished' /\ batch' \in [Handlers -> Seq(Nat)]
<1>1. batch \in [Handlers -> Seq(Nat)] /\ batch[h] \in Seq(Nat) /\ Len(Centers) \in Nat
  BY CollusionAssumption DEF CheckInv, CheckType
<1>2. batch'[h] = Append(batch[h], n) /\ \A g \in Handlers : g # h => batch'[g] = batch[g]
  BY <1>1
<1>3. /\ batch'[h] \in Seq(Nat) /\ Len(batch'[h]) = Len(batch[h]) + 1
      /\ DOMAIN batch'[h] = 1 .. Len(batch[h]) + 1 /\ DOMAIN batch[h] = 1 .. Len(batch[h])
      /\ \A i \in DOMAIN batch[h] : batch'[h][i] = batch[h][i]
      /\ batch'[h][Len(batch[h]) + 1] = n /\ Len(batch[h]) \in Nat
  BY <1>1, <1>2
<1>4. batch' \in [Handlers -> Seq(Nat)]
  BY <1>1, <1>2, <1>3
<1>5. JobsKept
  BY DEF TopicGrows
<1>6. ASSUME NEW g \in Handlers
      PROVE  /\ Len(batch'[g]) <= Len(Centers)
             /\ \A i \in DOMAIN batch'[g] : batch'[g][i] # None =>
                   batch'[g][i] \in DOMAIN msgs' /\ msgs'[batch'[g][i]].center = Centers[i]
  <2>1. CASE g # h
    <3>1. /\ batch'[g] = batch[g] /\ Len(batch[g]) <= Len(Centers)
          /\ \A i \in DOMAIN batch[g] : batch[g][i] # None =>
                batch[g][i] \in DOMAIN msgs /\ msgs[batch[g][i]].center = Centers[i]
      BY <1>2, <2>1 DEF CheckInv, BatchesArePublished
    <3>2. QED
      BY <1>5, <3>1 DEF JobsKept
  <2>2. CASE g = h
    <3>1. Len(batch'[h]) <= Len(Centers)
      BY <1>1, <1>3
    <3>2. ASSUME NEW i \in DOMAIN batch'[h], batch'[h][i] # None
          PROVE  batch'[h][i] \in DOMAIN msgs' /\ msgs'[batch'[h][i]].center = Centers[i]
      <4>1. CASE i \in DOMAIN batch[h]
        <5>1. batch'[h][i] = batch[h][i] /\ batch[h][i] # None
          BY <1>3, <3>2, <4>1
        <5>2. batch[h][i] \in DOMAIN msgs /\ msgs[batch[h][i]].center = Centers[i]
          BY <4>1, <5>1 DEF CheckInv, BatchesArePublished
        <5>3. QED
          BY <1>5, <5>1, <5>2 DEF JobsKept
      <4>2. CASE i = Len(batch[h]) + 1
        BY <1>3, <3>2, <4>2
      <4>3. QED
        BY <1>3, <4>1, <4>2
    <3>3. QED
      BY <2>2, <3>1, <3>2
  <2>3. QED
    BY <2>1, <2>2
<1>7. QED
  BY <1>4, <1>6 DEF BatchesArePublished

LEMMA JobsListStays ==
    ASSUME CheckInv, JobsKept, jobs' = jobs
    PROVE  JobsWerePublished'
BY DEF CheckInv, JobsWerePublished, JobsKept

LEMMA NextCenterKeeps ==
    ASSUME CheckInv, NEW h \in Handlers, SkipCenter(h) \/ PublishJob(h)
    PROVE  CheckInv'
<1>1. /\ Len(batch[h]) < Len(Centers) /\ batch[h] \in Seq(Nat) /\ Len(batch[h]) \in Nat
      /\ UNCHANGED <<exam, handler, jobs, ready, null, threshold, worker, results, breaks>>
  BY DEF SkipCenter, PublishJob, workerVars, CheckInv, CheckType
<1>2. Centers[Len(batch[h]) + 1] \in Range(Centers)
  <2>1. Len(batch[h]) + 1 \in 1 .. Len(Centers) /\ DOMAIN Centers = 1 .. Len(Centers)
    BY <1>1, CollusionAssumption
  <2>2. QED
    BY <2>1 DEF Range
<1>3. TopicGrows /\ BatchesArePublished' /\ batch' \in [Handlers -> Seq(Nat)]
  <2>1. CASE SkipCenter(h)
    <3>1. TopicGrows
      BY <2>1, SameTopic DEF SkipCenter
    <3>2. batch' = [batch EXCEPT ![h] = Append(batch[h], None)] /\ None \in Nat
      BY <2>1 DEF SkipCenter, None
    <3>3. QED
      BY <1>1, <3>1, <3>2, BatchGrows
  <2>2. CASE PublishJob(h)
    <3>1. msgs' = NewMsg(Centers[Len(batch[h]) + 1], "examId")
          /\ batch' = [batch EXCEPT ![h] = Append(batch[h], Len(msgs) + 1)]
      BY <2>2 DEF PublishJob
    <3>2. /\ TopicGrows /\ Len(msgs) + 1 \in DOMAIN msgs' /\ Len(msgs) + 1 \in Nat
          /\ msgs'[Len(msgs) + 1].center = Centers[Len(batch[h]) + 1]
      BY <1>2, <3>1, MessageIsNew
    <3>3. QED
      BY <1>1, <3>1, <3>2, BatchGrows
  <2>3. QED
    BY <2>1, <2>2
<1>4. CheckType'
  BY <1>1, <1>3 DEF CheckInv, CheckType, TopicGrows, JobsKept
<1>5. JobsWerePublished'
  BY <1>1, <1>3, JobsListStays DEF TopicGrows
<1>6. QED
  BY <1>1, <1>3, <1>4, <1>5, RequestKeeps

\* A request ends; if it has committed, the list names what it has published.
LEMMA RequestEndsKeeps ==
    ASSUME CheckInv, NEW h \in Handlers, PublishFails(h) \/ CommitBatch(h)
    PROVE  CheckInv'
<1>1. /\ CheckType /\ BatchesArePublished /\ JobsWerePublished /\ MaxBreaks \in Nat
      /\ Len(Centers) \in Nat /\ DOMAIN Centers = 1 .. Len(Centers)
  BY CollusionAssumption DEF CheckInv
<1>2. /\ handler' = [handler EXCEPT ![h] = "idle"] /\ batch' = [batch EXCEPT ![h] = <<>>]
      /\ UNCHANGED <<msgs, ready, null, threshold, worker, results>>
  BY DEF PublishFails, CommitBatch, workerVars
<1>3. TopicGrows /\ JobsKept
  BY <1>2, SameTopic DEF TopicGrows
<1>4. batch'[h] = <<>> /\ batch' \in [Handlers -> Seq(Nat)]
      /\ \A g \in Handlers : g # h => batch'[g] = batch[g]
  <2>1. <<>> \in Seq(Nat)
    OBVIOUS
  <2>2. QED
    BY <1>1, <1>2, <2>1 DEF CheckType
<1>5. BatchesArePublished'
  BY <1>1, <1>2, <1>4 DEF BatchesArePublished
<1>6. CASE PublishFails(h)
  <2>1. UNCHANGED <<exam, jobs>> /\ breaks < MaxBreaks /\ breaks' = breaks + 1
    BY <1>6 DEF PublishFails
  <2>2. breaks' \in 0 .. MaxBreaks
    BY <1>1, <2>1 DEF CheckType
  <2>3. CheckType'
    BY <1>1, <1>2, <1>4, <2>1, <2>2 DEF CheckType
  <2>4. QED
    BY <1>2, <1>3, <1>5, <2>1, <2>3, JobsListStays, RequestKeeps
<1>7. CASE CommitBatch(h)
  <2> DEFINE at(c) == CHOOSE k \in DOMAIN Centers : Centers[k] = c
  <2>1. /\ exam' = "COLLUSION_CHECK" /\ breaks' = breaks /\ Len(batch[h]) = Len(Centers)
        /\ jobs' = [c \in DOMAIN jobs |-> IF batch[h][at(c)] # None THEN batch[h][at(c)] ELSE jobs[c]]
    BY <1>7 DEF CommitBatch, workerVars
  <2>2. DOMAIN jobs = Range(Centers) /\ batch[h] \in Seq(Nat) /\ DOMAIN batch[h] = DOMAIN Centers
    BY <1>1, <2>1 DEF CheckType
  <2>3. \A c \in Range(Centers) : at(c) \in DOMAIN Centers /\ Centers[at(c)] = c
    BY DEF Range
  <2> HIDE DEF at
  <2>4. \A c \in Range(Centers) : batch[h][at(c)] \in Nat
    BY <2>2, <2>3
  <2>5. jobs' \in [Range(Centers) -> Nat]
    BY <1>1, <2>1, <2>2, <2>4 DEF CheckType
  <2>6. CheckType'
    BY <1>1, <1>2, <1>4, <2>1, <2>5 DEF CheckType
  <2>7. ASSUME NEW c \in Range(Centers), jobs'[c] # None
        PROVE  jobs'[c] \in DOMAIN msgs /\ msgs[jobs'[c]].center = c
    <3>1. CASE batch[h][at(c)] # None
      <4>1. jobs'[c] = batch[h][at(c)]
        BY <2>1, <2>2, <3>1
      <4>2. QED
        BY <1>1, <2>2, <2>3, <3>1, <4>1 DEF BatchesArePublished
    <3>2. CASE batch[h][at(c)] = None
      <4>1. jobs'[c] = jobs[c]
        BY <2>1, <2>2, <3>2
      <4>2. QED
        BY <1>1, <2>7, <4>1 DEF JobsWerePublished
    <3>3. QED
      BY <3>1, <3>2
  <2>8. JobsWerePublished'
    BY <1>2, <2>7 DEF JobsWerePublished
  <2>9. QED
    BY <1>2, <1>3, <1>5, <2>6, <2>8, RequestKeeps
<1>8. QED
  BY <1>6, <1>7

LEMMA AroundKeeps ==
    ASSUME CheckInv, OpenExam \/ Export \/ \E c \in Range(Centers) : PublishByHand(c)
    PROVE  CheckInv'
<1>1. /\ UNCHANGED <<handler, batch, jobs, null, threshold, worker, results, breaks>>
      /\ exam' \in {exam, "COLLECTING"} /\ ready' \in {ready, TRUE}
  BY DEF OpenExam, Export, PublishByHand, triggerVars, workerVars
<1>2. TopicGrows
  <2>1. CASE OpenExam \/ Export
    BY <2>1, SameTopic DEF OpenExam, Export
  <2>2. ASSUME NEW c \in Range(Centers), PublishByHand(c) PROVE TopicGrows
    BY <2>2, MessageIsNew DEF PublishByHand
  <2>3. QED
    BY <2>1, <2>2
<1>3. CheckType'
  BY <1>1, <1>2 DEF CheckInv, CheckType, TopicGrows, JobsKept
<1>4. QED
  BY <1>1, <1>2, <1>3, PublishedStays, RequestKeeps DEF TopicGrows

(***************************************************************************)
(* The theorems.                                                           *)
(***************************************************************************)
LEMMA CheckStarts == CheckInit => CheckInv
<1> SUFFICES ASSUME CheckInit PROVE CheckInv
  OBVIOUS
<1>1. /\ handler = [h \in Handlers |-> "idle"] /\ batch = [h \in Handlers |-> <<>>]
      /\ jobs = [c \in Range(Centers) |-> None] /\ worker = [w \in Workers |-> Idle]
      /\ exam = "CREATED" /\ msgs = <<>> /\ ready = FALSE /\ null \in NullScores
      /\ threshold = {} /\ results = {} /\ breaks = 0
  BY DEF CheckInit
<1>2. CheckType
  <2>1. <<>> \in Seq(JobMsg) /\ <<>> \in Seq(Nat) /\ None \in Nat /\ 0 \in 0 .. MaxBreaks
    BY CollusionAssumption DEF None
  <2>2. QED
    BY <1>1, <2>1, IdleIsDetector DEF CheckType
<1>3. JobsWerePublished
  BY <1>1 DEF JobsWerePublished
<1>4. BatchesArePublished
  <2>1. Len(Centers) \in Nat
    BY CollusionAssumption
  <2>2. QED
    BY <1>1, <2>1 DEF BatchesArePublished
<1>5. \A w \in Workers : worker[w].pc = "idle"
  BY <1>1, IdleIsDetector
<1>6. LeasesAreOwn
  BY <1>5 DEF LeasesAreOwn
<1>7. SeedDecides
  BY <1>1, <1>5 DEF SeedDecides, WorkerAgrees, ResultsKeepLimit
<1>8. StoresAreDue
  BY <1>1, <1>5 DEF StoresAreDue, WorkerIsDue, ResultsAreDue
<1>9. QED
  BY <1>2, <1>3, <1>4, <1>6, <1>7, <1>8 DEF CheckInv

LEMMA CheckStep == CheckInv /\ [CheckNext]_check => CheckInv'
<1> SUFFICES ASSUME CheckInv, [CheckNext]_check PROVE CheckInv'
  OBVIOUS
<1>1. ASSUME NEW h \in Handlers, StartTrigger(h) PROVE CheckInv'
  BY <1>1, StartTriggerKeeps
<1>2. ASSUME NEW h \in Handlers, SkipCenter(h) \/ PublishJob(h) PROVE CheckInv'
  BY <1>2, NextCenterKeeps
<1>3. ASSUME NEW h \in Handlers, PublishFails(h) \/ CommitBatch(h) PROVE CheckInv'
  BY <1>3, RequestEndsKeeps
<1>4. CASE OpenExam \/ Export \/ \E c \in Range(Centers) : PublishByHand(c)
  BY <1>4, AroundKeeps
<1>5. ASSUME NEW w \in Workers, NEW m \in DOMAIN msgs, Drop(w, m) PROVE CheckInv'
  BY <1>5, DropKeeps
<1>6. ASSUME NEW w \in Workers, NEW m \in DOMAIN msgs, Take(w, m) PROVE CheckInv'
  BY <1>6, TakeKeeps
<1>7. ASSUME NEW w \in Workers, ReadThreshold(w) PROVE CheckInv'
  BY <1>7, ReadThresholdKeeps
<1>8. ASSUME NEW w \in Workers, StoreThreshold(w) PROVE CheckInv'
  BY <1>8, StoreThresholdKeeps
<1>9. ASSUME NEW w \in Workers, Detect(w) PROVE CheckInv'
  BY <1>9, DetectKeeps
<1>10. ASSUME NEW w \in Workers, WritePair(w) PROVE CheckInv'
  BY <1>10, WritePairKeeps
<1>11. ASSUME NEW w \in Workers, WriteRing(w) PROVE CheckInv'
  BY <1>11, WriteRingKeeps
<1>12. ASSUME NEW w \in Workers, NoResponses(w) \/ Acknowledge(w) \/ Refuse(w) \/ Abort(w)
       PROVE  CheckInv'
  BY <1>12, LettingGoKeeps
<1>13. CASE UNCHANGED check
  <2>1. UNCHANGED <<exam, handler, batch, jobs, msgs, ready, null, threshold, worker, results, breaks>>
    BY <1>13 DEF check
  <2>2. TopicGrows /\ CheckType'
    BY <2>1, SameTopic DEF CheckInv, CheckType
  <2>3. QED
    BY <2>1, <2>2, PublishedStays, RequestKeeps DEF TopicGrows
<1>14. QED
  BY <1>1, <1>2, <1>3, <1>4, <1>5, <1>6, <1>7, <1>8, <1>9, <1>10, <1>11, <1>12, <1>13
     DEF CheckNext, Work

\* The collusion check keeps its types: what requests batch, workers hold and
\* the exam stores (triggers.service.ts, main.py).
THEOREM CheckTypeCorrect == CheckSpec => []CheckType
<1>1. CheckInv => CheckType
  BY DEF CheckInv
<1>2. QED
  BY <1>1, CheckStarts, CheckStep, PTL DEF CheckSpec

\* However many workers calibrate at once, and whatever is delivered again or
\* breaks off, all stored pairs are flagged by the one threshold of the exam's
\* document, and of the simulated independent pairs no more than the target
\* share exceed it (_load_or_calibrate_threshold, calibrate_threshold).
THEOREM ThresholdIsOne == CheckSpec => []OneThreshold
<1>1. CheckInv => OneThreshold
  <2> SUFFICES ASSUME CheckInv PROVE OneThreshold
    OBVIOUS
  <2>1. /\ threshold \in {{}, {Calibrated(null)}} /\ null \in NullScores
        /\ \A r \in results : threshold = {Calibrated(null)} /\ r.limit = Calibrated(null)
    BY DEF CheckInv, SeedDecides, ResultsKeepLimit, CheckType
  <2>2. OneIn * Cardinality({i \in DOMAIN null : 10 * null[i] > Calibrated(null)}) <= Len(null)
    BY <2>1, CollusionAssumption, RateIsKept
  <2>3. QED
    BY <2>1, <2>2 DEF OneThreshold
<1>2. QED
  BY <1>1, CheckStarts, CheckStep, PTL DEF CheckSpec

\* The job list names messages that were published for their centres, and a job
\* that was answered has its centre's flagged pairs stored and no others
\* (runCollusionDetection, _handle_message).
THEOREM AnswersAreStored == CheckSpec => [](JobsWerePublished /\ AnsweredIsStored)
<1>1. CheckInv => JobsWerePublished /\ AnsweredIsStored
  <2> SUFFICES ASSUME CheckInv, NEW m \in DOMAIN msgs, msgs[m].state = "answered"
               PROVE  \E x \in threshold :
                         {r.pair : r \in results} \intersect Pairs(msgs[m].center)
                            = Flagged(msgs[m].center, x)
    BY DEF CheckInv, AnsweredIsStored
  <2>1. JobIsStored(m) /\ SeedDecides /\ ResultsAreDue /\ msgs[m] \in JobMsg
    BY DEF CheckInv, StoresAreDue, CheckType
  <2>2. threshold = {Calibrated(null)} /\ msgs[m].center \in Range(Centers)
    BY <2>1 DEF JobIsStored, SeedDecides, JobMsg
  <2>3. {r.pair : r \in results} \intersect Pairs(msgs[m].center)
           \subseteq DueOf(msgs[m].center)
    BY <2>1, <2>2 DEF ResultsAreDue
  <2>4. \A p \in DueOf(msgs[m].center) :
           p \in {r.pair : r \in results} /\ p \in Pairs(msgs[m].center)
    BY <2>1 DEF JobIsStored, Stored, DueOf, Flagged
  <2>5. QED
    BY <2>2, <2>3, <2>4 DEF DueOf
<1>2. QED
  BY <1>1, CheckStarts, CheckStep, PTL DEF CheckSpec
=============================================================================
