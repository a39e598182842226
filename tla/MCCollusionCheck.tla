-------------------------- MODULE MCCollusionCheck --------------------------
(***************************************************************************)
(* A centre of three candidates two of whose pairs share a wrong or blank  *)
(* answer, a centre whose last question nobody answered, and a centre      *)
(* without candidates; null distributions of four simulated pairs.  *)
(***************************************************************************)
EXTENDS CollusionCheck, TLC

CONSTANTS cA, cB, cE, cand1, cand2, cand3, cand4, cand5

MCCenters      == <<cA, cE, cB>>
MCCandidatesOf == cA :> <<cand1, cand2, cand3>> @@ cB :> <<cand4, cand5>> @@ cE :> <<>>
MCAnswers      == cand1 :> <<1, 0>> @@ cand2 :> <<0, -1>> @@ cand3 :> <<1, -1>>
                  @@ cand4 :> <<1>> @@ cand5 :> <<1>>
MCCorrect      == <<0, 0>>
MCLikeness     == <<<<0, 2, 3, 3>>, <<0, 2, 2, 2>>>>
MCUnlikeness   == <<1, 1>>
MCNullScores   == {<<-3, 5, -3, 7>>, <<-1, -2, -1, -2>>}

\* The groups the worker and the engine make of any pairs of five candidates:
\* whole components, each candidate of a pair in one of them.
ASSUME ComponentsAreWhole ==
    LET five == <<cand1, cand2, cand3, cand4, cand5>>
        all  == {<<five[x[1]], five[x[2]]>> : x \in {y \in (1 .. 5) \X (1 .. 5) : y[1] < y[2]}}
        Cut(S, T, U) == \E u \in T, v \in U : <<u, v>> \in S \/ <<v, u>> \in S
    IN  \A S \in SUBSET all :
          LET nodes  == UNION {{p[1], p[2]} : p \in S}
              groups == Components(S, SelectSeq(five, LAMBDA u : u \in nodes))
          IN  /\ UNION Range(groups) = nodes
              /\ \A i, j \in DOMAIN groups : i # j => groups[i] \intersect groups[j] = {}
              /\ \A G \in Range(groups) :
                    /\ ~Cut(S, G, nodes \ G)
                    /\ \A T \in (SUBSET G) \ {{}, G} : Cut(S, T, G \ T)
=============================================================================
