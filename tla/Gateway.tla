------------------------------ MODULE Gateway -------------------------------
(***************************************************************************)
(* The API gateway: every request passes three guards (token, role, rate), *)
(* is forwarded to a service over gRPC with a deadline, and is answered    *)
(* when the call ends or when the timeout interceptor gives up; a mutating *)
(* request that ends in its handler leaves an audit event.  The service    *)
(* goes on with its work whoever has given up on it.                       *)
(*                                                                         *)
(*   api-gateway/src/{app.module,auth,decorators,guards,interceptors,      *)
(*                    filters,proxy}                                       *)
(*                                                                         *)
(* The interceptors nest in the order of registration, so the timeout      *)
(* interceptor is outside the audit interceptor: when it gives up, the     *)
(* audit interceptor is unsubscribed and writes nothing.                   *)
(***************************************************************************)
EXTENDS Naturals, FiniteSets

CONSTANTS
    Calls,              \* the requests that are made, each once
    Users,              \* who makes them
    Addresses,          \* where unauthenticated ones come from
    Asked,              \* the routes asked for
    Served,             \* those that the service behind them knows
    Deadline,           \* of a gRPC call, whatever its route
    Timeout, LongTimeout,
    AdminExpiry, CandidateExpiry,
    CaptchaThreshold, CaptchaWindow,
    MaxTime             \* bound: the clock

ASSUME GatewayAssumption ==
    /\ {Deadline, Timeout, AdminExpiry, CandidateExpiry, CaptchaThreshold} \subseteq Nat \ {0}
    /\ {CaptchaWindow, MaxTime} \subseteq Nat
    /\ LongTimeout \in Nat /\ Deadline < LongTimeout

VARIABLES
    elapsed,
    token,      \* per user: role and expiry of the bearer token
    call,       \* per request: its route, when it came, its answer
    work,       \* what the service does about it
    trail,      \* the audit events
    captcha,    \* ipRequestCounts
    windows     \* ghost: the windows opened for every address, each with the
                \* number of checks that were let through without a CAPTCHA
gateway == <<elapsed, token, call, work, trail, captcha, windows>>

----------------------------------------------------------------------------
(* The routes.                                                              *)

SuperAdmin == "SUPER_ADMIN"
Controller == "EXAM_CONTROLLER"
Setter     == "QUESTION_SETTER"
Invigilator == "INVIGILATOR"
Candidate  == "CANDIDATE"
Auditor    == "AUDITOR"
Role == {SuperAdmin, Controller, Setter, Invigilator, Candidate, Auditor}

Admins  == {SuperAdmin, Controller}
Readers == {SuperAdmin, Controller, Auditor}

Get(path, roles)      == [path |-> path, roles |-> roles, mutates |-> FALSE, long |-> FALSE]
Post(path, roles)     == [path |-> path, roles |-> roles, mutates |-> TRUE, long |-> FALSE]
LongPost(path, roles) == [path |-> path, roles |-> roles, mutates |-> TRUE, long |-> TRUE]

\* Roles of a @Public() route are those its answer may grant.
AuthRoutes == {Post("login", Role), Post("verify-otp", {Candidate}),
               Post("verify-mfa", {SuperAdmin}), Get("google/callback", {SuperAdmin})}
VerifyRoutes == {Get("verify", {})}
ExamSessionRoutes ==
    {Post(path, {Candidate}) : path \in {"start", "checkpoint", "submit"}}
QuestionRoutes ==
    {Get("questions", {SuperAdmin, Controller, Setter})}
      \union {Post(path, {SuperAdmin, Setter}) : path \in {"questions", "questions/id"}}
      \union {LongPost("generate", {SuperAdmin, Setter})}
ExamRoutes ==
    {Post("exams", Admins), Post("blueprint", Admins), LongPost("equate", Admins),
     Get("results", Readers)}
PaperRoutes ==
    {LongPost("matrix", Admins), Get("matrix/status", Admins),
     Get("paper", {Candidate, Invigilator, SuperAdmin})}
CryptoRoutes ==
    {LongPost("encrypt", Admins), LongPost("distribute", Admins),
     Post("keys/release", {SuperAdmin}), Get("keys/status", Readers)}
CollusionRoutes == {LongPost("collusion/run", Admins), Get("collusion/results", Readers)}
AuditRoutes == {Get(path, Readers) : path \in {"events", "verify/event", "proof"}}

Public == AuthRoutes \union VerifyRoutes
Route == Public \union ExamSessionRoutes \union QuestionRoutes \union ExamRoutes
           \union PaperRoutes \union CryptoRoutes \union CollusionRoutes \union AuditRoutes

ASSUME RouteAssumption == Asked \subseteq Route /\ Served \subseteq Route

LimitOf(r) == IF r.long THEN LongTimeout ELSE Timeout

\* Mutant: the deadline of a call follows the limit of its route.
DeadlineOfLimit(r) == LimitOf(r)
DeadlineOf(r) == Deadline

----------------------------------------------------------------------------
(* State.                                                                   *)

Nobody == [role |-> "none", exp |-> 0]
Unasked == [route |-> Get("none", {}), at |-> 0, answer |-> "none"]
NoEntry == [count |-> 0, resetAt |-> 0]

Pending(c) == call[c].answer = "pending"
Answered(c, answers) == call[c].answer \in answers

GatewayInit ==
    /\ elapsed = 0
    /\ token = [u \in Users |-> Nobody]
    /\ call = [c \in Calls |-> Unasked]
    /\ work = [c \in Calls |-> "none"]
    /\ trail = {}
    /\ captcha = [a \in Addresses |-> NoEntry]
    /\ windows = [a \in Addresses |-> {}]

----------------------------------------------------------------------------
(* The guards, in their order, and what they let through.                   *)

Comes(c, r, answer) ==
    call' = [call EXCEPT ![c] = [route |-> r, at |-> elapsed, answer |-> answer]]

\* AllExceptionsFilter answers for a guard, outside every interceptor.
Refuse(c, r, answer) ==
    Comes(c, r, answer) /\ UNCHANGED <<elapsed, token, work, trail, captcha, windows>>

HasToken(u) == token[u].role # "none" /\ elapsed < token[u].exp
Allowed(u, r) == r \in Public \/ (HasToken(u) /\ token[u].role \in r.roles)

JwtAuthGuard(c, u, r) == r \notin Public /\ ~HasToken(u) /\ Refuse(c, r, "unauthorized")
RbacGuard(c, u, r) ==
    r \notin Public /\ HasToken(u) /\ token[u].role \notin r.roles /\ Refuse(c, r, "forbidden")

\* The throttler counts per route and user or address; it may be at its limit.
RateLimitGuard(c, u, r) == Allowed(u, r) /\ Refuse(c, r, "throttled")

Forward(c, u, r) ==
    /\ r \notin Public /\ Allowed(u, r)
    /\ Comes(c, r, "pending")
    /\ work' = [work EXCEPT ![c] = "sent"]
    /\ UNCHANGED <<elapsed, token, trail, captcha, windows>>

----------------------------------------------------------------------------
(* Tokens.                                                                  *)

Expiry(role) == IF role = Candidate THEN CandidateExpiry ELSE AdminExpiry
SignToken(role) == [role |-> role, exp |-> elapsed + Expiry(role)]

Event(c, r, failed) == IF r.mutates THEN {[call |-> c, failed |-> failed]} ELSE {}

\* The gateway does this work itself; the user store says whom it knows.
Login(c, u, r, role) ==
    /\ r \in AuthRoutes /\ role \in r.roles
    /\ Comes(c, r, "ok")
    /\ work' = [work EXCEPT ![c] = "done"]
    /\ token' = [token EXCEPT ![u] = SignToken(role)]
    /\ trail' = trail \union Event(c, r, FALSE)
    /\ UNCHANGED <<elapsed, captcha, windows>>

LoginFails(c, r) ==
    /\ r \in AuthRoutes
    /\ Comes(c, r, "rejected")
    /\ trail' = trail \union Event(c, r, TRUE)
    /\ UNCHANGED <<elapsed, token, work, captcha, windows>>

----------------------------------------------------------------------------
(* Public verification of a receipt.                                        *)

\* Mutant: an entry is over in its last millisecond.
ExpiredEarly(a) == elapsed >= captcha[a].resetAt
Expired(a) == elapsed > captcha[a].resetAt
NeedsCaptcha(a) ==
    captcha[a] # NoEntry /\ ~Expired(a) /\ captcha[a].count >= CaptchaThreshold

\* Over 10000 addresses the expired entries are dropped.
Count(a, evict) ==
    captcha' = [b \in Addresses |->
        CASE b = a /\ (captcha[a] = NoEntry \/ Expired(a)) ->
                   [count |-> 1, resetAt |-> elapsed + CaptchaWindow]
          [] b = a /\ captcha[a] # NoEntry /\ ~Expired(a) ->
                   [captcha[a] EXCEPT !.count = @ + 1]
          [] b # a -> IF evict /\ Expired(b) THEN NoEntry ELSE captcha[b]]

\* solved: a CAPTCHA was asked for and found good, perhaps in a window that is
\* over by the time the check is counted.
Verify(c, r, a, solved, evict) ==
    LET opens == captcha[a] = NoEntry \/ Expired(a)
        costs == IF solved THEN 0 ELSE 1
    IN  /\ r \in VerifyRoutes /\ (NeedsCaptcha(a) => solved)
        /\ Comes(c, r, "pending")
        /\ work' = [work EXCEPT ![c] = "sent"]
        /\ Count(a, evict)
        /\ windows' = [windows EXCEPT ![a] =
               IF opens THEN @ \union {[opened |-> elapsed, n |-> costs]}
                        ELSE {IF w.opened + CaptchaWindow = captcha[a].resetAt
                              THEN [w EXCEPT !.n = @ + costs] ELSE w : w \in @}]
        /\ UNCHANGED <<elapsed, token, trail>>

\* No hash, no CAPTCHA, or one that the provider refuses.
VerifyRejected(c, r) == r \in VerifyRoutes /\ Refuse(c, r, "rejected")

----------------------------------------------------------------------------
(* The service, and how a call ends.                                        *)

Serve(c) ==
    /\ work[c] = "sent"
    /\ work' = [work EXCEPT ![c] = IF call[c].route \in Served THEN "done" ELSE "refused"]
    /\ UNCHANGED <<elapsed, token, call, trail, captcha, windows>>

\* It cannot be reached, throws, or dies under the work.
ServiceFails(c) ==
    /\ work[c] = "sent"
    /\ work' = [work EXCEPT ![c] = "refused"]
    /\ UNCHANGED <<elapsed, token, call, trail, captcha, windows>>

Ends(c, answer, failed) ==
    /\ call' = [call EXCEPT ![c].answer = answer]
    /\ trail' = trail \union Event(c, call[c].route, failed)
    /\ UNCHANGED <<elapsed, token, work, captcha, windows>>

Return(c) == Pending(c) /\ work[c] = "done" /\ Ends(c, "ok", FALSE)

\* Every gRPC error becomes a 503, that of a lost answer too.
Unavailable(c) == Pending(c) /\ Ends(c, "unavailable", TRUE)

DeadlinePasses(c) ==
    Pending(c) /\ elapsed >= call[c].at + DeadlineOf(call[c].route) /\ Ends(c, "unavailable", TRUE)

TimesOut(c) ==
    /\ Pending(c) /\ elapsed >= call[c].at + LimitOf(call[c].route)
    /\ call' = [call EXCEPT ![c].answer = "timeout"]
    /\ UNCHANGED <<elapsed, token, work, trail, captcha, windows>>

\* Timers fire when they are due.
Due(c) == Pending(c) /\ \/ elapsed >= call[c].at + DeadlineOf(call[c].route)
                        \/ elapsed >= call[c].at + LimitOf(call[c].route)
TimePasses ==
    /\ elapsed < MaxTime /\ \A c \in Calls : ~Due(c)
    /\ elapsed' = elapsed + 1
    /\ UNCHANGED <<token, call, work, trail, captcha, windows>>

Ask(c) ==
    /\ call[c] = Unasked
    /\ \E r \in Asked :
          \/ \E u \in Users : \/ JwtAuthGuard(c, u, r) \/ RbacGuard(c, u, r)
                              \/ RateLimitGuard(c, u, r) \/ Forward(c, u, r)
                              \/ \E role \in Role : Login(c, u, r, role)
          \/ LoginFails(c, r)
          \/ \E a \in Addresses, solved, evict \in BOOLEAN : Verify(c, r, a, solved, evict)
          \/ VerifyRejected(c, r)

GatewayNext ==
    \/ TimePasses
    \/ \E c \in Calls : \/ Ask(c)
                        \/ Serve(c) \/ ServiceFails(c)
                        \/ Return(c) \/ Unavailable(c) \/ DeadlinePasses(c) \/ TimesOut(c)

GatewaySpec == GatewayInit /\ [][GatewayNext]_gateway

----------------------------------------------------------------------------
(* Properties.                                                              *)

GatewayTypeOK ==
    /\ elapsed \in 0 .. MaxTime
    /\ token \in [Users -> {Nobody} \union [role : Role, exp : Nat]]
    /\ call \in [Calls -> {Unasked} \union
           [route : Route, at : 0 .. MaxTime,
            answer : {"unauthorized", "forbidden", "throttled", "rejected", "pending",
                      "ok", "unavailable", "timeout"}]]
    /\ work \in [Calls -> {"none", "sent", "done", "refused"}]
    /\ trail \subseteq [call : Calls, failed : BOOLEAN]
    /\ captcha \in [Addresses -> {NoEntry} \union [count : Nat \ {0}, resetAt : Nat]]
    /\ windows \in [Addresses -> SUBSET [opened : 0 .. MaxTime, n : Nat]]

Told(c) == \E e \in trail : e.call = c

\* Work that was done for a mutating request and left no event.
Silent(c) ==
    work[c] = "done" /\ call[c].route.mutates /\ ~Pending(c) /\ ~Told(c)

\* What the audit trail tells (audit.interceptor.ts) when calls are answered,
\* given up and worked on in any order: an event of success is of work that
\* was done and of a request that was told so; a mutating request that got to
\* its handler and did not time out has one event and not two; and work stays
\* silent only when an ordinary request timed out, never a @LongRunning one,
\* whose call has ended long before its five minutes.
AuditTells ==
    /\ \A e \in trail : ~e.failed => work[e.call] = "done" /\ Answered(e.call, {"ok"})
    /\ \A c \in Calls :
          Answered(c, {"ok", "unavailable", "rejected"}) /\ call[c].route.mutates =>
              \E e \in trail : \A f \in trail : f.call = c <=> f = e
    /\ \A c \in Calls : Silent(c) => Answered(c, {"timeout"}) /\ ~call[c].route.long

\* Of the checks of one address that are let through without a CAPTCHA
\* (verify.proxy.ts) there are at most as many as the threshold in a window,
\* and no window is opened before the last one is over.
FreeChecksAreFew ==
    \A a \in Addresses : \A v, w \in windows[a] :
        /\ v.n <= CaptchaThreshold
        /\ v # w => v.opened > w.opened + CaptchaWindow \/ w.opened > v.opened + CaptchaWindow
=============================================================================
