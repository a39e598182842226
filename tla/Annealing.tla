----------------------------- MODULE Annealing -----------------------------
(***************************************************************************)
(* The assignment matrix: the first draw of the papers, and the annealing  *)
(* that swaps their questions.  Which callback solves for which message,   *)
(* and how the result is stored, is MatrixSolver's subject.                *)
(*                                                                         *)
(*   workers/matrix-solver/src/{solver,constraints}.py                     *)
(*                                                                         *)
(* A paper is a pair <<centre, seat>>, a question a model value.  The      *)
(* code's numbers are multiplied by what makes them integers: difficulties *)
(* by Unit, shares of common questions by Parts, energies by Whole.        *)
(***************************************************************************)
EXTENDS Integers, FiniteSets, SequencesExt

CONSTANTS
    SeatsOf,        \* the seats of every centre, in the order of the layout
    SeatsPerRow,    \* the length of a row of every centre, 0 when unknown
    Topic,          \* the topic of every calibrated question
    Difficulty,     \* its IRT b parameter, times Unit
    Unit,           \* the parts of 1 in which difficulties are given
    Blueprint,      \* topics in blueprint order: sequence of <<topic, count>>
    MaxIterations   \* MAX_ITERATIONS

Centers == DOMAIN SeatsOf
Bank    == DOMAIN Topic
Papers  == UNION {{<<c, s>> : s \in Range(SeatsOf[c])} : c \in Centers}

\* The sums of the first numbers of a sequence, and of all of them.
Sums(s) == LET upTo[k \in 0 .. Len(s)] == IF k = 0 THEN 0 ELSE upTo[k - 1] + s[k] IN upTo
Total(s) == Sums(s)[Len(s)]

Products(n) == LET upTo[k \in 0 .. n] == IF k = 0 THEN 1 ELSE upTo[k - 1] * k IN upTo

\* A topic without a calibrated question contributes nothing to a paper.
Available(t) == {q \in Bank : Topic[q] = t}
PaperSize ==
    Total([i \in DOMAIN Blueprint |->
             IF Available(Blueprint[i][1]) = {} THEN 0 ELSE Blueprint[i][2]])

\* A multiple of every number of questions that a paper may have.
Parts == Products(PaperSize)[PaperSize]

\* The parts of 1 in a variance of mean difficulties, and in an energy.
Scale == (Cardinality(Papers) * PaperSize * Unit) * (Cardinality(Papers) * PaperSize * Unit)
Whole == Parts * Scale

ASSUME AnnealingAssumption ==
    /\ IsFiniteSet(Papers) /\ Cardinality(Papers) >= 2
    /\ MaxIterations \in Nat
    /\ Difficulty \in [Bank -> Int] /\ Unit \in Nat \ {0}
    /\ Blueprint \in Seq(Range(Blueprint))
    /\ \A i \in DOMAIN Blueprint : Blueprint[i][2] \in Nat
    /\ \E i \in DOMAIN Blueprint : Available(Blueprint[i][1]) # {} /\ Blueprint[i][2] > 0
    /\ \A c \in Centers : SeatsOf[c] \in Seq(Range(SeatsOf[c])) /\ SeatsPerRow[c] \in Nat

VARIABLES
    stage,                      \* "drawing", "annealing", "solved"
    papers, energy, first,      \* assignments, their energy, the first one
    best, bestEnergy,           \* best_assignments and best_energy
    iteration
anneal == <<stage, papers, energy, first, best, bestEnergy, iteration>>

PaperOrder == SetToSeq(Papers)
NoPapers == [p \in Papers |-> <<>>]

-----------------------------------------------------------------------------
(* The energy function and the first draw.                                 *)

\* adjacency_pairs: the next seat, and the seat behind when rows are known.
Beside(c, d) == {<<<<c, SeatsOf[c][i]>>, <<c, SeatsOf[c][i + d]>>>> :
                    i \in 1 .. Len(SeatsOf[c]) - d}
Adjacent ==
    (UNION {Beside(c, 1) : c \in Centers})
    \union (UNION {Beside(c, SeatsPerRow[c]) : c \in {d \in Centers : SeatsPerRow[d] > 0}})

\* The pairs of papers compared across centres: the first five of each.
Across ==
    LET sample == UNION {{<<c, SeatsOf[c][i]>> : i \in DOMAIN SeatsOf[c] \intersect 1 .. 5} :
                           c \in Centers}
    IN  {pair \in sample \X sample : pair[1][1] # pair[2][1]}

Copies(q, a) == Cardinality({x \in Papers \X (1 .. PaperSize) : a[x[1]][x[2]] = q})
TopicCount(t, paper)  == Cardinality({i \in DOMAIN paper : Topic[paper[i]] = t})
Hardness(paper) == Total([i \in DOMAIN paper |-> Difficulty[paper[i]]])
Abs(n) == IF n < 0 THEN -n ELSE n
OverPapers(f) == Total([k \in DOMAIN PaperOrder |-> f[PaperOrder[k]]])

\* Share of common questions; sets, so a repeated question counts once.
Overlap(a, b) ==
    LET A == Range(a)  B == Range(b)
    IN  (Parts * Cardinality(A \intersect B))
            \div (IF Cardinality(A) > Cardinality(B) THEN Cardinality(A) ELSE Cardinality(B))

Largest(S) == CHOOSE n \in S : \A m \in S : m <= n
WorstOverlap(a, pairs) == Largest({0} \union {Overlap(a[pr[1]], a[pr[2]]) : pr \in pairs})
PaperDeviation(paper) ==
    Total([i \in DOMAIN Blueprint |-> Abs(TopicCount(Blueprint[i][1], paper) - Blueprint[i][2])])
TopicDeviation(a) == OverPapers([p \in Papers |-> PaperDeviation(a[p])])

\* Variance of the papers' mean difficulty.
TotalHardness(a) == OverPapers([p \in Papers |-> Hardness(a[p])])
Square(n) == n * n
HardnessVariance(a) ==
    Cardinality(Papers) * OverPapers([p \in Papers |-> Square(Hardness(a[p]))])
        - Square(TotalHardness(a))

\* _compute_energy: weights 10, 5, 300 and 200, thresholds 1/10 and 3/20.
Energy[a \in [Papers -> [1 .. PaperSize -> Bank]]] ==
    LET near == 10 * WorstOverlap(a, Adjacent) - Parts
        far  == 20 * WorstOverlap(a, Across) - 3 * Parts
    IN  10 * Parts * HardnessVariance(a)
        + Scale * (5 * Parts * TopicDeviation(a) + 30 * Largest({0, near}) + 10 * Largest({0, far}))

\* Every paper's mean difficulty within 0.15 of the mean of all papers.
DifficultyBalanced(a) ==
    \A p \in Papers :
        100 * Abs(Cardinality(Papers) * Hardness(a[p]) - TotalHardness(a))
            <= 15 * (Cardinality(Papers) * PaperSize * Unit)

\* The four constraints the solver counts as satisfied.
Satisfied(a) ==
    /\ DifficultyBalanced(a)
    /\ TopicDeviation(a) = 0
    /\ 10 * WorstOverlap(a, Adjacent) <= Parts
    /\ 20 * WorstOverlap(a, Across) <= 3 * Parts

\* The checkers of constraints.py, which solver.py imports and never calls:
\* exact topic counts per paper, and at most a tenth (neighbours) or 15 in a
\* hundred (all papers of two centres) of the longer paper in common.
TopicsCovered(paper) ==
    \A i \in DOMAIN Blueprint : TopicCount(Blueprint[i][1], paper) = Blueprint[i][2]

Dissimilar(a, b, percent) ==
    LET A == Range(a)  B == Range(b)
    IN  \E S \in {A, B} : 100 * Cardinality(A \intersect B) <= percent * Cardinality(S)

CheckersPass(a) ==
    /\ DifficultyBalanced(a)
    /\ \A p \in Papers : TopicsCovered(a[p])
    /\ \A pr \in Adjacent : Dissimilar(a[pr[1]], a[pr[2]], 10)
    /\ \A p, r \in Papers : p[1] # r[1] => Dissimilar(a[p], a[r], 15)

\* One topic's part of a paper: random.sample when the bank is large enough,
\* random.choices (with repetition) when it is not, nothing when it is empty.
Sample(t, count) ==
    IF Available(t) = {} THEN {<<>>}
    ELSE IF Cardinality(Available(t)) < count THEN [1 .. count -> Available(t)]
    ELSE {f \in [1 .. count -> Available(t)] : IsInjective(f)}

\* The papers _initialize_assignments can draw, topic by topic.
Joined(S, T) == {a \o b : a \in S, b \in T}
Drafts ==
    LET upTo[k \in 0 .. Len(Blueprint)] ==
            IF k = 0 THEN {<<>>}
            ELSE Joined(upTo[k - 1], Sample(Blueprint[k][1], Blueprint[k][2]))
    IN  upTo
Drawn == Drafts[Len(Blueprint)]

-----------------------------------------------------------------------------
(* solve_assignment_matrix.                                                 *)

AnnealInit ==
    /\ stage = "drawing"
    /\ papers = NoPapers /\ energy = 0 /\ first = 0
    /\ best = NoPapers /\ bestEnergy = 0 /\ iteration = 0

\* The initial assignments.
Draw ==
    /\ stage = "drawing" /\ stage' = "annealing"
    /\ \E a \in [Papers -> Drawn] :
          LET cost == Energy[a]
          IN  /\ papers' = a /\ energy' = cost /\ first' = cost
              /\ best' = a /\ bestEnergy' = cost
    /\ iteration' = 0

Converged == Satisfied(papers) /\ 100 * energy < Whole

Swapped(a, p, i, r, j) ==
    [a EXCEPT ![p] = ReplaceAt(@, i, a[r][j]), ![r] = ReplaceAt(@, j, a[p][i])]

\* Mutant of Undone: only the first paper gets its question back.
UndoneHalf(a, p, i, qp, r, j, qr) == [a EXCEPT ![p] = ReplaceAt(@, i, qp)]

\* A rejected swap is undone from the two questions kept before it.
Undone(a, p, i, qp, r, j, qr) ==
    [a EXCEPT ![p] = ReplaceAt(@, i, qp), ![r] = ReplaceAt(@, j, qr)]

\* One iteration: two positions of two papers.  Equal questions skip it; a
\* swap that lowers or keeps the energy is accepted, one that raises it is
\* accepted or undone, and the best assignment seen is copied.
Anneal ==
    /\ stage = "annealing" /\ iteration < MaxIterations /\ ~Converged
    /\ \E k, n \in DOMAIN PaperOrder : k < n /\ \E i, j \in 1 .. PaperSize :
          LET p == PaperOrder[k]  r == PaperOrder[n]
              swapped == Swapped(papers, p, i, r, j)
              cost == Energy[swapped]
          IN  \/ /\ papers[p][i] = papers[r][j]
                 /\ UNCHANGED <<papers, energy, best, bestEnergy>>
              \/ /\ papers[p][i] # papers[r][j]
                 /\ \/ /\ papers' = swapped /\ energy' = cost
                       /\ best' = IF cost < bestEnergy THEN swapped ELSE best
                       /\ bestEnergy' = IF cost < bestEnergy THEN cost ELSE bestEnergy
                    \/ /\ cost > energy
                       /\ papers' = Undone(swapped, p, i, papers[p][i], r, j, papers[r][j])
                       /\ UNCHANGED <<energy, best, bestEnergy>>
    /\ iteration' = iteration + 1
    /\ UNCHANGED <<stage, first>>

\* The loop ends, converged or not, and the best assignment is the result.
Finish ==
    /\ stage = "annealing" /\ (iteration = MaxIterations \/ Converged)
    /\ stage' = "solved"
    /\ UNCHANGED <<papers, energy, first, best, bestEnergy, iteration>>

AnnealNext == Draw \/ Anneal \/ Finish

AnnealSpec == AnnealInit /\ [][AnnealNext]_anneal

-----------------------------------------------------------------------------
\* Swapping, undoing and skipping keep the energy true to the assignments,
\* the copy of the best one is not changed by later swaps, and no question is
\* lost or invented: what is stored is no worse than the first draw and is
\* made of the same questions as the current assignment.  And when the solver
\* stops early, the papers it stores (the best, not the ones it looked at)
\* satisfy the four constraints: below 23 papers an energy that small leaves no
\* room for a paper 0.15 harder than the others, and up to 1000 questions none
\* for one common question too many.  If no centre has more papers than are
\* sampled across centres, the checkers of constraints.py pass them.
BestIsKept ==
    stage # "drawing" =>
        /\ energy = Energy[papers]
        /\ bestEnergy = Energy[best]
        /\ bestEnergy <= first /\ bestEnergy <= energy
        /\ \A p \in Papers : Len(papers[p]) = PaperSize /\ Len(best[p]) = PaperSize
        /\ \A q \in Bank : Copies(q, papers) = Copies(q, best)
        /\ (stage = "solved" /\ iteration < MaxIterations /\ Cardinality(Papers) < 23 /\ PaperSize <= 1000)
              => /\ Satisfied(best)
                 /\ (\A c \in Centers : Len(SeatsOf[c]) <= 5) => CheckersPass(best)
=============================================================================
