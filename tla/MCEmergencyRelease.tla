------------------------- MODULE MCEmergencyRelease -------------------------
(***************************************************************************)
(* EmergencyRelease for TLC, and beside it KeySplit, on which its notion   *)
(* of a fragment rests: a behaviour is one or the other, as `side` says.   *)
(***************************************************************************)
EXTENDS EmergencyRelease, Gf256, TLC

CONSTANTS Shares

VARIABLES side, masterKey, shares, damaged, handed, restored
splitting == <<masterKey, shares, damaged, handed, restored>>

HolderSymmetry ==
    Permutations(Replicas) \union Permutations(Slots)
        \union Permutations(Holders \ (Wrong \union Short))

\* A byte with no bit, and others; the highest bit may change.
Split == INSTANCE KeySplit WITH
    Keys <- {{}, {0, 1, 4, 6}}, Randoms <- {{7}, {1, 3, 6, 7}}, Flips <- {7},
    key <- masterKey, fragments <- shares, rebuilt <- restored

ASSUME SplitAssumption == Split!SplitAssumption

EmergencyInit == side \in {"requests", "bytes"} /\ Init /\ Split!Init

EmergencyNext ==
    \/ side = "requests" /\ Next /\ UNCHANGED <<side, splitting>>
    \/ side = "bytes" /\ Split!Next /\ UNCHANGED <<side, vars>>

EmergencySpec == EmergencyInit /\ [][EmergencyNext]_<<side, vars, splitting>>

\* The property of KeySplit: any three fragments and no changed one give the
\* key.
KeyFromItsFragments == Split!KeyFromItsFragments
=============================================================================
