--------------------------- MODULE MCOpeningTimes ---------------------------
(***************************************************************************)
(* The two ways in which an exam opens at its time, for TLC: the triggers  *)
(* of the key release (ReleaseClock) and the time-lock puzzles that stand  *)
(* in for it (TimeLock).  They share no state, so a behaviour is one or    *)
(* the other, as `side` says.                                              *)
(*                                                                         *)
(* The moduli are of three safe primes, a base shares a factor with one of *)
(* them, and a second message may come for a question.                     *)
(***************************************************************************)
EXTENDS ReleaseClock, TLC

CONSTANTS q1, q2, Workers, Msgs, SafePrimes, Bases, Rates, Target, Margin,
          LockHorizon, MaxFaults, None

VARIABLES side, lockNow, topic, status, service, cached, calibration, pc, lease,
          rate, draft, puzzles, lockFaults
lockVars == <<lockNow, topic, status, service, cached, calibration, pc, lease,
              rate, draft, puzzles, lockFaults>>

MCKey == (q1 :> 42) @@ (q2 :> 0)
OpeningSymmetry == Permutations(Workers) \union Permutations(Pods)

Lock == INSTANCE TimeLock WITH
            Key <- MCKey, Horizon <- LockHorizon, now <- lockNow, faults <- lockFaults

ASSUME LockAssumption == Lock!TimeLockAssumption

OpeningInit == side \in {"triggers", "puzzles"} /\ ClockInit /\ Lock!Init

OpeningNext ==
    \/ side = "triggers" /\ ClockNext /\ UNCHANGED <<side, lockVars>>
    \/ side = "puzzles" /\ Lock!Next /\ UNCHANGED <<side, clock>>

OpeningSpec == OpeningInit /\ [][OpeningNext]_<<side, clock, lockVars>>

\* The property of TimeLock: every puzzle gives back its question's key, and
\* takes until the target less the margin.
PuzzleSealsKey == Lock!PuzzleSealsKey
=============================================================================
