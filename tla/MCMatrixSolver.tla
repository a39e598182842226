--------------------------- MODULE MCMatrixSolver ---------------------------
(***************************************************************************)
(* The matrix solver, for TLC: its worker (MatrixSolver) and, beside it,   *)
(* one annealing (Annealing).  They share no state, so a behaviour is one  *)
(* or the other, as `side` says.                                           *)
(*                                                                         *)
(* The worker stores three papers in three batches, the last of them under *)
(* a centre whose id has an underscore.  The annealing has two centres     *)
(* with a paper of two questions each and a bank of four: of the papers    *)
(* that can be drawn some converge at once, some after a swap, and some    *)
(* share a question and never do.                                          *)
(***************************************************************************)
EXTENDS MatrixSolver, Annealing, TLC

CONSTANTS c1, c2, a, b, q1, q2, q3, q4

VARIABLE side

MCSeatOrder   == <<<<c1, a>>, <<c1, b>>, <<c2, a>>>>
MCSeatsOf     == c1 :> <<a>> @@ c2 :> <<a>>
MCSeatsPerRow == c1 :> 1 @@ c2 :> 0
MCTopic       == q1 :> "algebra" @@ q2 :> "algebra" @@ q3 :> "optics" @@ q4 :> "optics"
MCDifficulty  == q1 :> 0 @@ q2 :> 1 @@ q3 :> 0 @@ q4 :> 1
MCBlueprint   == <<<<"algebra", 1>>, <<"optics", 1>>>>

MatrixInit == side \in {"worker", "annealing"} /\ SolverInit /\ AnnealInit

MatrixNext ==
    \/ side = "worker" /\ SolverNext /\ UNCHANGED <<side, anneal>>
    \/ side = "annealing" /\ AnnealNext /\ UNCHANGED <<side, solver>>

\* SolverFairness, as far as the behaviour is the worker's.
MatrixFairness ==
    \A w \in Callbacks :
        WF_<<side, solver, anneal>>(side = "worker" /\ WorkerStep(w) /\ UNCHANGED <<side, anneal>>)

MatrixSpec == MatrixInit /\ [][MatrixNext]_<<side, solver, anneal>> /\ MatrixFairness

-----------------------------------------------------------------------------
\* What the solver counts as satisfied is what the checkers nobody calls would
\* accept (no centre has more papers than the solver samples across centres),
\* whatever is drawn and for a paper with two questions of one topic; some
\* draws satisfy them and some do not.
ASSUME CheckersAgree ==
    LET Sheets == [Papers -> Drawn \union {<<q1, q2>>}]
    IN  /\ \A x \in Sheets : Satisfied(x) <=> CheckersPass(x)
        /\ \E x \in Sheets : Satisfied(x)
        /\ \E x \in Sheets : ~Satisfied(x)

\* A topic without a question contributes nothing.
ASSUME EmptyTopic == Sample("verse", 2) = {<<>>}
=============================================================================
