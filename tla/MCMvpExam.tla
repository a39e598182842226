----------------------------- MODULE MCMvpExam -----------------------------
(* MvpExam for TLC: two candidates, a bank of at most three questions and   *)
(* papers of two; each behaviour uses the endpoints of one plan, some of them  *)
(* with a page of the dashboard that watches a job.                          *)
EXTENDS AdminConsole, TLC

CONSTANTS alice, bob, s1, s2, qA, qB, qC

MCCandidates == {alice, bob}
MCSessions == {s1, s2}
MCQuestions == {qA, qB, qC}
MCInitialBank == <<qA, qB>>
MCSeed == (alice :> <<0, 2, 1, 1>>) @@ (bob :> <<1, 0, 2, 1>>)
MCKey == (qA :> "A") @@ (qB :> "B") @@ (qC :> "C")
MCSheets == {<<"A", "B">>, <<"B", "A">>}
MCPlans == {{"blueprint", "matrix", "encrypt", "activate"},
            {"activate", "collusion", "equate", "publish"},
            {"activate", "equate", "publish", "session"},
            {"activate", "bank", "session"},
            {"console", "matrix", "activate"},
            {"console", "encrypt"},
            {"console", "collusion"}}

============================================================================
