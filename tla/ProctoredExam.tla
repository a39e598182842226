--------------------------- MODULE ProctoredExam ---------------------------
(***************************************************************************)
(* How a candidate gets into the exam and is watched there:                *)
(*                                                                         *)
(*   packages/candidate-portal/src/app/exam/page.tsx   login, seat, effect *)
(*   packages/candidate-portal/src/lib/proctor.ts      ExamProctor         *)
(*   mvp-server.js                                     the endpoints       *)
(*                                                                         *)
(* A handler runs from one await to the next; several may be under way,    *)
(* because the Enter key does not look at isLoading.  React commits a      *)
(* change of the store, and runs the effects that mount and unmount the    *)
(* proctor, before the next event.                                         *)
(*                                                                         *)
(* Abstractions: one candidate, so that the token is left out; what only   *)
(* the status bar shows (focus, full screen, online), the watermark, and   *)
(* heartbeats, which nothing on the server reads, are left out.            *)
(***************************************************************************)
EXTENDS Naturals, FiniteSets, Functions, TLC

CONSTANTS
    Runs,           \* runs of the asynchronous handlers that overlap
    MaxTabSwitches, MaxFocusLoss,   \* the proctor's limits
    MaxSessions,    \* bound on sessions started on the server
    MaxMounts,      \* bound on instances of ExamProctor
    MaxRecorded,    \* bound on the violations an instance records
    MaxOnTheWay,    \* bound on reports that overtake each other
    MaxFaults       \* bound on requests that fail

ASSUME LimitsAssumption ==
    /\ {MaxTabSwitches, MaxFocusLoss} \subseteq Nat \ {0}
    /\ {MaxSessions, MaxMounts} \subseteq Nat

\* For TLC: a run of a handler is as good as another.
RunSymmetry == Permutations(Runs)

Sessions == 1..MaxSessions
Mounts == 1..MaxMounts
Kinds == {"tab_switch", "focus_loss", "multiple_monitors", "other"}

VARIABLES
    phase, shown,       \* exam-store: phase and sessionId (0: none yet)
    step,               \* AuthenticationFlow: "admit" or "otp"
    run,                \* what each run of a handler awaits, for which session
    cur,                \* the proctor that is mounted, 0: none
    mounts,             \* instances of ExamProctor made so far
    inst,               \* per instance: session, screen's component, counts
    tripped,            \* components whose violationAutoSubmitTriggered is set
    checks,             \* instances that await getScreenDetails
    hidden,             \* the exam's tab is hidden
    sent,               \* reports on their way
    started,            \* server: sessions
    log, trail,         \* server: proctorLogs, audit events of violations
    faults

server == <<started, log, trail>>
proctor == <<cur, mounts, inst, checks>>
vars == <<phase, shown, step, run, proctor, tripped, hidden, sent, server, faults>>

NoRun == [at |-> "idle", session |-> 0]
Unused == [session |-> 0, screen |-> 0, screens |-> 1, count |-> [k \in Kinds |-> 0]]

Init ==
    /\ phase = "idle" /\ shown = 0 /\ step = "admit"
    /\ run = [h \in Runs |-> NoRun]
    /\ cur = 0 /\ mounts = 0 /\ checks = {} /\ tripped = {}
    /\ inst = [m \in Mounts |-> Unused]
    /\ hidden = FALSE
    /\ sent = {} /\ started = 0
    /\ log = [s \in Sessions |-> {}] /\ trail = [s \in Sessions |-> 0]
    /\ faults = 0

----------------------------------------------------------------------------
(* The proctor's instances.                                                 *)

Entry(m, k, n) == [by |-> m, kind |-> k, count |-> n]

\* As if the report named the session the store has now.
ReportShown(i, m, k) == [entry |-> Entry(m, k, i[m].count[k]), session |-> shown]

\* reportViolationToServer: the session is that of the configuration.
Report(i, m, k) == [entry |-> Entry(m, k, i[m].count[k]), session |-> i[m].session]

\* The listeners of one kind of violation, and their count.
Counted(m, k) == [inst EXCEPT ![m].count[k] = @ + 1]

Bounded(i, q) ==
    /\ \A m \in Mounts : FoldFunction(+, 0, i[m].count) <= MaxRecorded
    /\ Cardinality(q) <= MaxOnTheWay

AtLimit(p) ==
    \/ p.count["tab_switch"] >= MaxTabSwitches
    \/ p.count["focus_loss"] >= MaxFocusLoss

\* As if the page had one violationAutoSubmitTriggered.
OneScreen(i) == 1

\* A component of the running exam keeps its refs when its session changes.
Screen(i) == IF cur = 0 THEN mounts + 1 ELSE i[cur].screen

\* What the effect makes: a proctor for the session, which may find that the
\* machine looks like a virtual one, and asks for the screens as it starts.
Started(i, m, s, screen, found) ==
    [i EXCEPT ![m] = [session |-> s, screen |-> screen, screens |-> 1,
                      count |-> [k \in Kinds |-> IF k = "other" THEN found ELSE 0]]]

\* As if the effect depended on the mount alone.
SameProctor(p, s, i) == p = "active" /\ cur # 0

\* The effect depends on the session as well.
Kept(p, s, i) == p = "active" /\ cur # 0 /\ i[cur].session = s

\* The store's phase and session change to p and s, with the instances i and
\* the reports q so far; the component of the running exam comes and goes
\* with the phase.
Commit(p, s, i, q) ==
    /\ phase' = p /\ shown' = s
    /\ IF p = "active" /\ ~Kept(p, s, i)
       THEN LET m == mounts + 1 IN
            /\ m \in Mounts
            /\ mounts' = m /\ cur' = m
            /\ \E found \in {0, 1} :
                   /\ inst' = Started(i, m, s, Screen(i), found)
                   /\ sent' = q \union (IF found = 1 THEN {Report(inst', m, "other")} ELSE {})
            /\ Cardinality(sent') <= MaxOnTheWay
            /\ checks' = checks \union {m}
       ELSE /\ cur' = IF p = "active" THEN cur ELSE 0
            /\ inst' = i /\ sent' = q
            /\ UNCHANGED <<mounts, checks>>

\* handleSubmit up to its first await.
SubmitFrom(i, q) ==
    \E h \in Runs :
        /\ run[h].at = "idle"
        /\ run' = [run EXCEPT ![h] = [at |-> "save", session |-> shown]]
        /\ Commit("submitting", shown, i, q)

\* recordViolation: count, report, and submit once if a limit is reached.
RecordViolation(m, k) ==
    LET i == Counted(m, k)
        q == sent \union {Report(i, m, k)}
    IN  /\ Bounded(i, q)
        /\ IF AtLimit(i[m]) /\ i[m].screen \notin tripped
           THEN tripped' = tripped \union {i[m].screen} /\ SubmitFrom(i, q)
           ELSE /\ inst' = i /\ sent' = q
                /\ UNCHANGED <<phase, shown, run, cur, mounts, checks, tripped>>

----------------------------------------------------------------------------
(* Login, seat and start.  A candidate acts while the page can be seen.     *)

Await(h, what, s) == run' = [run EXCEPT ![h] = [at |-> what, session |-> s]]
Store(p, s) == Commit(p, s, inst, sent)
Quiet == UNCHANGED <<tripped, hidden, log, trail>>
Still == UNCHANGED <<phase, shown, proctor, sent>>
Fault == faults < MaxFaults /\ faults' = faults + 1

RequestOtp(h) ==
    /\ phase = "idle" /\ step = "admit" /\ ~hidden /\ run[h].at = "idle"
    /\ Await(h, "otp", 0)
    /\ Quiet /\ Still /\ UNCHANGED <<step, started, faults>>

OtpSent(h) ==
    /\ run[h].at = "otp"
    /\ Await(h, "idle", 0)
    /\ \/ step' = "otp" /\ UNCHANGED faults
       \/ Fault /\ UNCHANGED step
    /\ Quiet /\ Still /\ UNCHANGED started

Back ==
    /\ phase = "idle" /\ step = "otp" /\ ~hidden
    /\ step' = "admit"
    /\ Quiet /\ Still /\ UNCHANGED <<run, started, faults>>

VerifyOtp(h) ==
    /\ phase = "idle" /\ step = "otp" /\ ~hidden /\ run[h].at = "idle"
    /\ Await(h, "login", 0)
    /\ Quiet /\ Still /\ UNCHANGED <<step, started, faults>>

\* The answer moves on to the seat from whatever the screen shows by then.
LoggedIn(h) ==
    /\ run[h].at = "login"
    /\ Await(h, "idle", 0)
    /\ \/ Store("center-verify", shown) /\ UNCHANGED faults
       \/ Fault /\ Still
    /\ Quiet /\ UNCHANGED <<step, started>>

VerifySeat(h) ==
    /\ phase = "center-verify" /\ ~hidden /\ run[h].at = "idle"
    /\ Await(h, "verify", 0)
    /\ Quiet /\ Still /\ UNCHANGED <<step, started, faults>>

SeatVerified(h) ==
    /\ run[h].at = "verify"
    /\ \/ Store("loading", shown) /\ Await(h, "start", 0)
       \/ Still /\ Await(h, "idle", 0)      \* another seat
    /\ Quiet /\ UNCHANGED <<step, started, faults>>

\* POST exam-session/start: a new session every time.
StartSession(h) ==
    /\ run[h].at = "start"
    /\ started < MaxSessions
    /\ started' = started + 1
    /\ Await(h, "started", started + 1)
    /\ Quiet /\ Still /\ UNCHANGED <<step, faults>>

\* The questions are cached, and initializeExam shows them.
InitializeExam(h) ==
    /\ run[h].at = "started"
    /\ Store("active", run[h].session)
    /\ Await(h, "idle", 0)
    /\ Quiet /\ UNCHANGED <<step, started, faults>>

\* The catch of handleVerify, wherever the candidate is by then.
StartFails(h) ==
    /\ run[h].at \in {"verify", "start", "started"}
    /\ Fault
    /\ Store("center-verify", shown)
    /\ Await(h, "idle", 0)
    /\ Quiet /\ UNCHANGED <<step, started>>

----------------------------------------------------------------------------
(* Submission.                                                              *)

\* The candidate confirms, or the time is up.
Submit ==
    /\ phase = "active"
    /\ SubmitFrom(inst, sent)
    /\ Quiet /\ UNCHANGED <<step, started, faults>>

\* finalCheckpoint has ended.  The screen is gone and its proctor with it, so
\* that there is nothing left to stop.
SendSubmission(h) ==
    /\ run[h].at = "save"
    /\ Await(h, "send", run[h].session)
    /\ Quiet /\ Still /\ UNCHANGED <<step, started, faults>>

Submitted(h) ==
    /\ run[h].at = "send"
    /\ Store("submitted", shown)
    /\ Await(h, "idle", 0)
    /\ Quiet /\ UNCHANGED <<step, started, faults>>

SubmissionFails(h) ==
    /\ run[h].at = "send"
    /\ Fault
    /\ Store("error", shown)
    /\ Await(h, "idle", 0)
    /\ Quiet /\ UNCHANGED <<step, started>>

ReturnToExam ==
    /\ phase = "error" /\ ~hidden
    /\ Store("active", shown)
    /\ Quiet /\ UNCHANGED <<run, step, started, faults>>

----------------------------------------------------------------------------
(* What the proctor watches.                                                *)

Outside == UNCHANGED <<step, server, faults>>

\* visibilitychange
HideTab ==
    /\ ~hidden /\ hidden' = TRUE
    /\ IF cur # 0 THEN RecordViolation(cur, "tab_switch")
       ELSE Still /\ UNCHANGED <<run, tripped>>
    /\ Outside

ShowTab ==
    /\ hidden /\ hidden' = FALSE
    /\ Still /\ UNCHANGED <<run, tripped>> /\ Outside

LoseFocus ==
    /\ cur # 0
    /\ RecordViolation(cur, "focus_loss")
    /\ UNCHANGED hidden /\ Outside

\* The other listeners and the DevTools poll only record.
Record(k) ==
    /\ cur # 0
    /\ RecordViolation(cur, k)
    /\ UNCHANGED hidden /\ Outside

ClipboardEvent == Record("other")
BlockedKey == Record("other")
DevTools == Record("other")
FullscreenExit == Record("other")

ForbiddenAction == ClipboardEvent \/ BlockedKey \/ DevTools \/ FullscreenExit

\* The interval of checkScreens.
AskScreens ==
    /\ cur # 0 /\ cur \notin checks
    /\ checks' = checks \union {cur}
    /\ UNCHANGED <<phase, shown, run, cur, mounts, inst, tripped, sent, hidden>> /\ Outside

\* The promise settles, perhaps after stop(): with another number of screens
\* than the last time, or denied, when the fallback sees them the first time.
\* An instance at a limit has tripped, so that the limit need not be looked at.
ScreensKnown(m) ==
    /\ m \in checks
    /\ \E n \in {1, 2} :
         LET news == n > 1 /\ inst[m].screens # n
             known == [inst EXCEPT ![m].screens = n]
             found == [known EXCEPT ![m].count["multiple_monitors"] = @ + 1]
         IN  /\ inst' = IF news THEN found ELSE known
             /\ sent' = IF news THEN sent \union {Report(found, m, "multiple_monitors")} ELSE sent
             /\ Bounded(inst', sent')
    /\ checks' = checks \ {m}
    /\ UNCHANGED <<phase, shown, run, cur, mounts, tripped, hidden>>
    /\ Outside

----------------------------------------------------------------------------
(* POST proctor/violation; the reports overtake each other or are lost.     *)

ViolationArrives(r) ==
    /\ r \in sent /\ sent' = sent \ {r}
    /\ log' = [log EXCEPT ![r.session] = @ \union {r.entry}]
    /\ trail' = [trail EXCEPT ![r.session] = @ + 1]
    /\ UNCHANGED <<phase, shown, step, run, proctor, tripped, hidden, started, faults>>

ViolationLost(r) ==
    /\ r \in sent /\ sent' = sent \ {r}
    /\ Fault
    /\ UNCHANGED <<phase, shown, step, run, proctor, tripped, hidden, server>>

Next ==
    \/ \E h \in Runs :
          \/ RequestOtp(h) \/ OtpSent(h) \/ VerifyOtp(h) \/ LoggedIn(h)
          \/ VerifySeat(h) \/ SeatVerified(h) \/ StartSession(h)
          \/ InitializeExam(h) \/ StartFails(h)
          \/ SendSubmission(h) \/ Submitted(h) \/ SubmissionFails(h)
    \/ Back \/ Submit \/ ReturnToExam
    \/ HideTab \/ ShowTab \/ LoseFocus \/ ForbiddenAction
    \/ AskScreens
    \/ \E m \in Mounts : ScreensKnown(m)
    \/ \E r \in sent : ViolationArrives(r) \/ ViolationLost(r)

Spec == Init /\ [][Next]_vars

----------------------------------------------------------------------------
(* Properties                                                               *)

\* While an exam is shown it is watched, and for the session that is shown,
\* although late answers of a second login or a second start replace the
\* session or the screen at any moment: page.tsx, the effect of ExamTerminal.
WatchedWhileShown ==
    IF phase = "active" THEN cur # 0 /\ inst[cur].session = shown ELSE cur = 0

\* An exam that is shown has not reached a limit on this screen: the limit
\* ends it at once, on the second screen after a failed submission too.
LimitEndsExam ==
    cur # 0 => /\ inst[cur].count["tab_switch"] < MaxTabSwitches
               /\ inst[cur].count["focus_loss"] < MaxFocusLoss

\* A shown exam is watched until a limit ends it, and by a proctor of its
\* own: neither a late answer nor a second screen leaves it without one, or
\* with one that has reached its limit.
WatchedToTheLimit == WatchedWhileShown /\ LimitEndsExam

\* What the server has in a session's log was recorded by a proctor of that
\* session, and the audit trail has one event for each: reports that overtake
\* each other, and screens that become known after the exam, are no one
\* else's.
LogIsOwn ==
    \A s \in Sessions :
        /\ \A e \in log[s] : inst[e.by].session = s /\ e.count <= inst[e.by].count[e.kind]
        /\ trail[s] = Cardinality(log[s])

============================================================================
