-------------------------- MODULE MCPaperDelivery --------------------------
(***************************************************************************)
(* Instance of PaperDelivery for TLC: two seats, two questions; and, in    *)
(* other behaviours, QuestionVault with two questions and two texts.  The  *)
(* two meet only in the key release, which opens the vault before it       *)
(* reads assignments; `side` says which of them a behaviour is.            *)
(***************************************************************************)
EXTENDS PaperDelivery, QuestionVault, TLC

CONSTANTS s1, s2, c1, q1, q2

VARIABLE side

MCCenterOf == (s1 :> c1) @@ (s2 :> c1)
MCPapers == {<<q1, q2>>, <<q2, q1>>}

DeliveryInit == side \in {"papers", "vault"} /\ Init /\ VaultInit

DeliveryNext ==
    \/ side = "papers" /\ Next /\ UNCHANGED <<side, vault>>
    \/ side = "vault" /\ VaultNext /\ UNCHANGED <<side, vars>>

DeliverySpec == DeliveryInit /\ [][DeliveryNext]_<<side, vars, vault>>
============================================================================
