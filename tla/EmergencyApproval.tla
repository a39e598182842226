-------------------------- MODULE EmergencyApproval --------------------------
(***************************************************************************)
(* What the emergency release of one exam's KEK promises: the KEK document *)
(* is marked only while some replica has been given the fragments of       *)
(* Threshold different holders.  EmergencyRelease is shown to implement    *)
(* it.                                                                     *)
(***************************************************************************)
EXTENDS Naturals, FiniteSets

CONSTANTS
    Replicas,   \* pods of the service
    Holders,    \* the indices of the fragments, one for each holder
    Threshold   \* how many holders must approve

VARIABLES
    approvals,  \* per replica: who has handed in a fragment since it started
    kek,        \* status of the kek document, "none" when it is missing
    emergency   \* its emergencyRelease field

approvalVars == <<approvals, kek, emergency>>

ApprovalInit ==
    /\ approvals = [r \in Replicas |-> {}]
    /\ kek = "none"
    /\ emergency = FALSE

Generate ==
    /\ kek = "none"
    /\ kek' = "generated"
    /\ UNCHANGED <<approvals, emergency>>

Approve(r, i) ==
    /\ approvals' = [approvals EXCEPT ![r] = @ \union {i}]
    /\ UNCHANGED <<kek, emergency>>

\* A replica that restarts has no fragment.
Forget(r) ==
    /\ approvals' = [approvals EXCEPT ![r] = {}]
    /\ UNCHANGED <<kek, emergency>>

Release(r) ==
    /\ Cardinality(approvals[r]) >= Threshold
    /\ kek # "none"
    /\ kek' = "released"
    /\ emergency' = TRUE
    /\ UNCHANGED approvals

ApprovalNext ==
    \/ Generate
    \/ \E r \in Replicas :
          \/ \E i \in Holders : Approve(r, i)
          \/ Forget(r)
          \/ Release(r)

ApprovalSpec == ApprovalInit /\ [][ApprovalNext]_approvalVars
=============================================================================
