----------------------------- MODULE KeyCustody -----------------------------
(***************************************************************************)
(* What the key schedule of one exam promises to a reader of its Firestore *)
(* documents (exams/{id}/keySchedule/kek and .../release) and of the Redis *)
(* paper cache, whatever handlers, timers and Cloud Scheduler deliveries   *)
(* run behind them.  KeyRelease is shown to implement it.                  *)
(***************************************************************************)
VARIABLES
    kek,        \* status of the kek document, "none" when it is missing
    emergency,  \* its emergencyRelease field
    papers,     \* whether the papers of the exam were written to Redis
    relDoc      \* status of the release document, "none" when missing

custodyVars == <<kek, emergency, papers, relDoc>>

CustodyInit ==
    /\ kek = "none"
    /\ emergency = FALSE
    /\ papers = "absent"
    /\ relDoc = "none"

\* A KEK is generated once in the life of the exam.
Generate ==
    /\ kek = "none"
    /\ kek' = "generated"
    /\ UNCHANGED <<emergency, papers, relDoc>>

Publish ==
    /\ papers' = "written"
    /\ UNCHANGED <<kek, emergency, relDoc>>

\* The ordinary release is announced only once the papers are out.  It may come
\* after the destruction, as it may in the code: releaseKeys looks for a KEK that
\* is released already, and opens the questions with a key that is not the KEK's.
Release ==
    /\ kek # "none"
    /\ papers = "written"
    /\ kek' = "released"
    /\ UNCHANGED <<emergency, papers, relDoc>>

\* The emergency release of the reconstructed KEK needs no papers.
EmergencyRelease ==
    /\ kek # "none"
    /\ kek' = "released"
    /\ emergency' = TRUE
    /\ UNCHANGED <<papers, relDoc>>

Destroy ==
    /\ kek # "none"
    /\ kek' = "destroyed"
    /\ UNCHANGED <<emergency, papers, relDoc>>

Schedule ==
    /\ relDoc' = "scheduled"
    /\ UNCHANGED <<kek, emergency, papers>>

Cancel ==
    /\ relDoc # "none"
    /\ relDoc' = "cancelled"
    /\ UNCHANGED <<kek, emergency, papers>>

\* A schedule is reported completed only for keys that were released.
Complete ==
    /\ relDoc # "none"
    /\ kek \in {"released", "destroyed"}
    /\ relDoc' = "completed"
    /\ UNCHANGED <<kek, emergency, papers>>

CustodyNext ==
    \/ Generate \/ Publish \/ Release \/ EmergencyRelease
    \/ Destroy \/ Schedule \/ Cancel \/ Complete

CustodySpec == CustodyInit /\ [][CustodyNext]_custodyVars
=============================================================================
