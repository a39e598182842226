---------------------------- MODULE MCKeyRelease ----------------------------
(***************************************************************************)
(* The release of the keys, the gateway in front of the services, and the  *)
(* question pages of the dashboard, for TLC: they share no state, and a    *)
(* behaviour is one of the three, as `side` says.                          *)
(*                                                                         *)
(* Three requests come to the gateway, and the threshold of a CAPTCHA is   *)
(* one.  A service that does not know a route, as none of this repository  *)
(* knows the gateway's names, refuses it: of the routes asked for,         *)
(* "distribute" is such a one.  The pages make three requests.             *)
(***************************************************************************)
EXTENDS KeyRelease, Gateway, QuestionDesk, TLC

Encrypt == LongPost("encrypt", Admins)
Start   == Post("start", {Candidate})

MCAsked == {Encrypt, Start, LongPost("distribute", Admins), Post("login", Role),
            Get("verify", {})}
MCServed == {Encrypt, Start}

VARIABLE side
front == <<side, vars, gateway, desk>>

FrontSymmetry ==
    Permutations(Replicas) \union Permutations(Slots) \union Permutations(Fetches)

FrontInit == side \in {"release", "gateway", "desk"} /\ Init /\ GatewayInit /\ DeskInit

FrontNext ==
    \/ side = "release" /\ Next /\ UNCHANGED <<side, gateway, desk>>
    \/ side = "gateway" /\ GatewayNext /\ UNCHANGED <<side, vars, desk>>
    \/ side = "desk" /\ DeskNext /\ UNCHANGED <<side, vars, gateway>>

FrontSpec == FrontInit /\ [][FrontNext]_front

\* A release alone, in the usual order of an exam's life: the KEK exists
\* before the release is scheduled.
KekGeneratedInit ==
    /\ side = "release" /\ GatewayInit /\ DeskInit
    /\ kek = "generated" /\ emergency = FALSE /\ relDoc = "none"
    /\ kms = "enabled"
    /\ papers = "absent"
    /\ audit = [e \in Events |-> IF e = "key_generate" THEN "recorded" ELSE "unsent"]
    /\ job = FALSE
    /\ attempts = 0
    /\ timer = [r \in Replicas |-> FALSE]
    /\ step = [h \in Handlers |-> "idle"]
    /\ src = [h \in Handlers |-> "none"]
    /\ requests = 0 /\ schedules = 0 /\ firings = 0 /\ faults = 0

KekGeneratedFairSpec == KekGeneratedInit /\ [][FrontNext]_front /\ Fairness

\* A release that was scheduled happens although one call fails, one audit
\* event is lost or one replica crashes: Cloud Scheduler with its retries
\* and the backup timer cover for each other.
ScheduledIsReleased ==
    relDoc = "scheduled" ~>
        papers = "written" /\ kek \in {"released", "destroyed"}
=============================================================================
