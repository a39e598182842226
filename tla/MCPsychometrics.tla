--------------------------- MODULE MCPsychometrics --------------------------
(***************************************************************************)
(* The question bank with its calibrator, and the score equator, for TLC.  *)
(* They meet only in the table of item parameters, which is the output of  *)
(* the one and the input of the other: a behaviour is one of the bank or,  *)
(* with the plan {"equate"}, one of the equator.                           *)
(*                                                                         *)
(* Bank: two texts that read alike and a third, an answer formula that     *)
(* divides by the parameter, distractors that meet the other answer at a   *)
(* bound; and a template of three instantiations of which first one, then  *)
(* two, then all can be fitted.                                            *)
(*                                                                         *)
(* Equator: two variants of two candidates each, whose scores do not       *)
(* overlap, so that the doubled rows of a redelivery make the test         *)
(* significant; one question has parameters, a second fit may follow.      *)
(***************************************************************************)
EXTENDS QuestionBank, ScoreEquating, TLC

CONSTANTS ohm, ohm2, joule, t0, i1, i2, i3

Formula(a, b, c) == (0 :> a) @@ (1 :> b) @@ (2 :> c)
Inverse2 == Formula(None, 2, 1)
Double == Formula(0, 2, 4)
WrongA == <<Formula(3, 3, 3), Formula(5, 6, 7), Formula(9, 9, 9)>>
WrongB == <<Formula(1, 1, 4), Formula(5, 6, 7), Formula(9, None, 9)>>
Template(text, range, answer, distractors, topic) ==
    ("text" :> text) @@ ("range" :> range) @@ ("answer" :> answer)
        @@ ("distractors" :> distractors) @@ ("topic" :> topic)

MCNewTemplates == {Template(ohm, <<1, 2>>, Inverse2, WrongB, "physics"),
                   Template(ohm2, <<0, 2>>, Double, WrongA, "physics"),
                   Template(joule, <<0, 2>>, Double, WrongA, "energy")}
MCEdits == {"range" :> <<0, 2>>, "answer" :> Inverse2, "distractors" :> WrongB,
            ("text" :> ohm2) @@ ("topic" :> "energy"), "topic" :> "energy",
            "status" :> "review"}
MCSimilarTexts == {<<ohm, ohm2>>}
MCPlans == {{"create", "update", "delete"}, {"create", "fieldTest"}, {"calibrate"}, {"equate"}}

MCInsts == t0 :> {i1, i2, i3}
Fit(a, b, c) == (i1 :> a) @@ (i2 :> b) @@ (i3 :> c)
MCFits == <<Fit(<<1, 0>>, None, None), Fit(<<1, 0>>, <<2, 0>>, None),
            Fit(<<1, 0>>, <<4, 1>>, <<5, 0>>)>>
MCEpsilon == <<3, 2>>

----------------------------------------------------------------------------
(* The equator.                                                             *)

CONSTANTS a1, a2, b1, b2, easy, hard, iA, iB

MCRaw == (a1 :> 3) @@ (a2 :> 2) @@ (b1 :> 1) @@ (b2 :> 0)

\* A stand-in for true-score equating with one difficulty per item: the score
\* moves by the difference between the papers' difficulties.
MCTrueScore(c, own, reference) == MCRaw[c] + SumFunction(own) - SumFunction(reference)

MCCohorts  == <<<<a1, b1>>, <<a2, b2>>>>
MCVariant  == (a1 :> easy) @@ (a2 :> easy) @@ (b1 :> hard) @@ (b2 :> hard)
MCItems    == (easy :> {iA}) @@ (hard :> {iB})
MCCritical == <<185, 219, 239>>

PsychometricsInit == Init /\ EquatorInit

PsychometricsNext ==
    \/ Next /\ UNCHANGED equator
    \/ plan = {"equate"} /\ EquatorNext /\ UNCHANGED vars

PsychometricsSpec ==
    PsychometricsInit /\ [][PsychometricsNext]_<<vars, equator>> /\ Fairness
=============================================================================
