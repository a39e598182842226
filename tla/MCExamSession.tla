--------------------------- MODULE MCExamSession ---------------------------
(***************************************************************************)
(* ExamSession for TLC: a candidate makes the requests of one of several   *)
(* workloads, in any order and overlapping, on a clock of two instants.    *)
(* Beside it AuditTrail, what readers find on a ledger of the same kind: a *)
(* behaviour is one or the other, as `side` says.                          *)
(***************************************************************************)
EXTENDS ExamSession, AuditTrail, TLC

CONSTANTS start1, sub1, sub2, save1, save2, load1, sheetA, sheetB, kekA, kekB

VARIABLE side

MCStarts == {start1}
MCSubmits == {sub1, sub2}
MCSaves == {save1, save2}
MCLoads == {load1}
MCAnswers == {sheetA, sheetB}
MCKeks == {kekA, kekB}

(* A start that a submission overlaps; a double submission; checkpoints     *)
(* that a load reads; a submission that overlaps a checkpoint; and one      *)
(* whose event shares its block with those of other clients.                *)
MCWorkloads ==
    {[requests |-> requests, earlier |-> 0] :
        requests \in {{start1, sub1}, {sub1, sub2}, {save1, save2, load1}, {sub1, save1}}}
    \cup {[requests |-> {sub1}, earlier |-> earlier] : earlier \in 3..6}

MCSymmetry == Permutations(MCAnswers) \cup Permutations(MCKeks)

(* Three events, whose ids come in another order, and a type that is none.  *)
MCTypes == {"submission", "other"}
MCValidTypes == {"submission"}
MCHashRank == <<2, 3, 1>>

(* Beside the trail one workload is enough: it does not start. *)
SessionInit ==
    /\ side \in {"session", "trail"} /\ Init /\ ReadersInit
    /\ side = "trail" => TrailInit /\ kek = kekA /\ At(start1, "idle")

SessionNext ==
    \/ side = "session" /\ Next /\ UNCHANGED <<side, readers>>
    \/ side = "trail" /\ TrailNext
       /\ UNCHANGED <<side, clock, active, stores, process, req, slips>>

SessionSpec == SessionInit /\ [][SessionNext]_<<side, vars, readers>>

============================================================================
