--------------------------- MODULE MCExamTerminal ---------------------------
(***************************************************************************)
(* The exam terminal for TLC, and beside it the two parts of its screen    *)
(* that only meet it in an edit: the answer sheet and the calculator.  A   *)
(* behaviour is one of the three, as `side` says.                          *)
(*                                                                         *)
(* Sheet: two questions in two sections, the first with two options, a     *)
(* clock of one second, and a submission that fails once.                  *)
(*                                                                         *)
(* Calculator: all expressions of up to three operators in two levels over *)
(* a positive and a negative number, among them divisions by zero.         *)
(***************************************************************************)
EXTENDS ExamTerminal, AnswerSheet

CONSTANTS a, b, section1, section2

VARIABLES
    side,
    wanted, value, keys, expression, display, slipped, joined, slips
calculator == <<wanted, value, keys, expression, display, slipped, joined, slips>>

MCSections == <<section1, section2>>
MCOptions == <<{a, b}, {a}>>

Numbers == {<<"number", 2>>, <<"number", -10>>}
Over(left, right) == {<<op, l, r>> : op \in {"+", "-", "*", "/"}, l \in left, r \in right}
Simple == Numbers \union Over(Numbers, Numbers)

Calc == INSTANCE Calculator WITH
    Expressions <- Simple \union Over(Simple, Simple),
    Sequels <- {<<"*", 3>>, <<"-", 3>>}, Slips <- {"7", "/"},
    Places <- 2, MaxSlips <- 1, todo <- keys

ASSUME ScreenAssumption == Calc!CalculatorAssumption

\* The part that does not take part keeps one state.
ScreenInit ==
    /\ side \in {"terminal", "sheet", "calculator"}
    /\ Init /\ SheetInit /\ Calc!Init
    /\ side # "calculator" => wanted = <<"number", 2>>

ScreenNext ==
    \/ side = "terminal" /\ Next /\ UNCHANGED <<side, sheet, calculator>>
    \/ side = "sheet" /\ SheetNext /\ UNCHANGED <<side, vars, calculator>>
    \/ side = "calculator" /\ Calc!Next /\ UNCHANGED <<side, vars, sheet>>

ScreenSpec == ScreenInit /\ [][ScreenNext]_<<side, vars, sheet, calculator>> /\ Fairness

\* The property of Calculator: it agrees with the usual rules.
CalculatorComputes == Calc!CalculatorComputes
=============================================================================
