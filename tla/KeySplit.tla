------------------------------ MODULE KeySplit ------------------------------
(***************************************************************************)
(* Shamir's secret sharing of a key encryption key: what the fragments are *)
(* that the holders hand in, and what comes out of putting them together.  *)
(*                                                                         *)
(*   packages/crypto-lifecycle/src/shamir/shamir.service.ts  splitKey,     *)
(*                                                           reconstructKey *)
(*                                                                         *)
(* EmergencyRelease knows of a fragment only whether it is one of the key, *)
(* and says the key comes out of such fragments and no other; here is why. *)
(*                                                                         *)
(* The bytes of a key are split independently: the model has one.          *)
(* Fragments of other lengths are EmergencyRelease's.                      *)
(***************************************************************************)
EXTENDS Gf256, FiniteSets

CONSTANTS
    Keys,           \* bytes a key may have
    Randoms,        \* bytes the generator may draw for a coefficient
    Flips,          \* bits that may change in a fragment
    Threshold,
    Shares          \* number of holders

Indices == 1..Shares

SplitAssumption ==
    /\ Keys \subseteq Bytes /\ Randoms \subseteq Bytes /\ Flips \subseteq Bits
    /\ Threshold \in 2..Shares /\ Shares \in 2..255

VARIABLES
    key,            \* masterKey: the byte to be split
    fragments,      \* of every holder: [index, data], <<>> before the split
    damaged,        \* holders whose fragment has changed since
    handed,         \* pendingFragments: fragments in order of arrival
    rebuilt         \* the bytes reconstructKey has returned for them
vars == <<key, fragments, damaged, handed, rebuilt>>

Init ==
    /\ key \in Keys
    /\ fragments = <<>> /\ damaged = {} /\ handed = <<>> /\ rebuilt = {}

----------------------------------------------------------------------------
(* ShamirService.                                                           *)

Coefficients(secret, random) == <<secret>> \o random

\* A byte's polynomial at 1, 2, ... : never at 0, where the secret is.
Fragments(secret, random) ==
    [s \in Indices |-> [index |-> s, data |-> EvalPoly(Coefficients(secret, random), AsByte(s))]]

SplitKey ==
    /\ fragments = <<>>
    /\ \E random \in [1..(Threshold - 1) -> Randoms] : fragments' = Fragments(key, random)
    /\ UNCHANGED <<key, damaged, handed, rebuilt>>

\* A holder's copy changes: one bit of it (external).
Damage(s) ==
    /\ fragments # <<>> /\ damaged = {} /\ handed = <<>>
    /\ \E b \in Flips : fragments' = [fragments EXCEPT ![s].data = Add(@, {b})]
    /\ damaged' = {s}
    /\ UNCHANGED <<key, handed, rebuilt>>

\* collectFragment, every index once.
CollectFragment(s) ==
    /\ fragments # <<>>
    /\ \A k \in DOMAIN handed : handed[k].index # s
    /\ handed' = Append(handed, fragments[s])
    /\ UNCHANGED <<key, fragments, damaged, rebuilt>>

ReconstructKey(list) ==
    InterpolateAtZero([k \in DOMAIN list |-> AsByte(list[k].index)],
                      [k \in DOMAIN list |-> list[k].data])

\* attemptReconstruction, with the threshold or more.
Reconstruct ==
    /\ Len(handed) >= Threshold
    /\ rebuilt' = rebuilt \union {ReconstructKey(handed)}
    /\ rebuilt' # rebuilt
    /\ UNCHANGED <<key, fragments, damaged, handed>>

Next ==
    \/ SplitKey \/ Reconstruct
    \/ \E s \in Indices : Damage(s) \/ CollectFragment(s)

Spec == Init /\ [][Next]_vars

----------------------------------------------------------------------------
(* Property *)

\* Whichever holders hand in their fragments, in whatever order, and however
\* many above the threshold: every reconstruction returns the key, each time;
\* and when one fragment among them has changed, in any bit, never the key.
KeyFromItsFragments ==
    LET from(n) == {handed[k].index : k \in 1..n}
    IN  /\ damaged \intersect from(Len(handed)) = {} => rebuilt \subseteq {key}
        /\ rebuilt # {} /\ damaged \intersect from(Threshold) # {} => key \notin rebuilt

=============================================================================
