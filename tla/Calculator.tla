----------------------------- MODULE Calculator -----------------------------
(***************************************************************************)
(* The on-screen calculator of app/exam/page.tsx: its keys                 *)
(* (handleCalcPress) and the recursive descent parser behind them          *)
(* (safeCalculate, parseExpression), used by a candidate who wants the     *)
(* value of an expression, may slip once or start over, and may go on      *)
(* calculating with a result.                                              *)
(*                                                                         *)
(* Abstractions: floating point is exact rational arithmetic, with both    *)
(* infinities and NaN as fractions over zero, and one unsigned zero; a     *)
(* result is shown with Places decimals, ten in the code, and never small  *)
(* or large enough for the exponent form of a JavaScript number.           *)
(***************************************************************************)
EXTENDS Integers, Sequences, SequencesExt

CONSTANTS
    Expressions,  \* what the candidate may want: numbers <<"number", n>> and
                  \* <<op, left, right>>
    Sequels,      \* what follows a result: pairs of an operator and a number
    Slips,        \* character keys pressed by mistake
    Places,       \* decimals shown
    MaxSlips      \* bound on slips and new starts

\* What the constants are assumed to be; the instance for TLC states it.
CalculatorAssumption == Places \in Nat \ {0} /\ MaxSlips \in Nat

Digit == <<"0", "1", "2", "3", "4", "5", "6", "7", "8", "9">>
IsDigit(char) == \E d \in 1..10 : char = Digit[d]
DigitValue(char) == (CHOOSE d \in 1..10 : char = Digit[d]) - 1

(***************************************************************************)
(* Arithmetic.  <<1, 0>> and <<-1, 0>> are infinite, <<0, 0>> is NaN.      *)
(***************************************************************************)
NaN == <<0, 0>>

Fraction(n, d) ==
    CASE d < 0 -> <<-n, -d>>
      [] d > 0 -> <<n, d>>
      [] OTHER -> <<CASE n > 0 -> 1 [] n < 0 -> -1 [] OTHER -> 0, 0>>

Negative(x) == <<-x[1], x[2]>>
Reciprocal(x) == IF x[2] = 0 /\ x # NaN THEN <<0, 1>> ELSE Fraction(x[2], x[1])

Plus(x, y) ==
    IF x[2] = 0 /\ y[2] = 0
    THEN IF x = y THEN x ELSE NaN
    ELSE Fraction(x[1] * y[2] + y[1] * x[2], x[2] * y[2])

Times(x, y) == Fraction(x[1] * y[1], x[2] * y[2])

Apply(op, x, y) ==
    CASE op = "+" -> Plus(x, y)
      [] op = "-" -> Plus(x, Negative(y))
      [] op = "*" -> Times(x, y)
      [] op = "/" -> Times(x, Reciprocal(y))

(***************************************************************************)
(* Numbers as they are written: String(Number(result.toFixed(Places))),    *)
(* half away from zero, without trailing zeros or a negative zero.         *)
(***************************************************************************)
Rounded(x) ==
    LET magnitude == IF x[1] < 0 THEN -x[1] ELSE x[1]
        units == (2 * magnitude * 10^Places + x[2]) \div (2 * x[2])
    IN  <<IF x[1] < 0 THEN -units ELSE units, 10^Places>>

RECURSIVE Digits(_)
Digits(n) == IF n < 10 THEN <<Digit[n + 1]>> ELSE Append(Digits(n \div 10), Digit[(n % 10) + 1])

\* The decimals of a fraction of `unit`, up to the last that is not zero.
RECURSIVE Decimals(_, _)
Decimals(n, unit) ==
    IF n = 0 THEN <<>>
    ELSE <<Digit[((n * 10) \div unit) + 1]>> \o Decimals((n * 10) % unit, unit)

Error == <<"Error">>

Show(x) ==
    IF x[2] = 0 THEN Error
    ELSE LET rounded == Rounded(x)
             units == IF rounded[1] < 0 THEN -rounded[1] ELSE rounded[1]
             decimals == Decimals(units % 10^Places, 10^Places)
         IN  (IF rounded[1] < 0 THEN <<"-">> ELSE <<>>) \o Digits(units \div 10^Places)
                 \o (IF decimals = <<>> THEN <<>> ELSE <<".">> \o decimals)

\* parseFloat of an optional sign, digits and dots: it stops at a second dot
\* and is NaN without a digit.
ParseFloat(chars) ==
    LET signed == chars # <<>> /\ chars[1] \in {"-", "+"}
        body == IF signed THEN Tail(chars) ELSE chars
        dots == {i \in DOMAIN body : body[i] = "."}
        point == IF dots = {} THEN Len(body) + 1
                              ELSE CHOOSE i \in dots : \A j \in dots : i <= j
        end == IF dots \ {point} = {} THEN Len(body) + 1
               ELSE CHOOSE i \in dots \ {point} : \A j \in dots \ {point} : i <= j
        digits == SelectSeq(SubSeq(body, 1, end - 1), IsDigit)
        places == IF point < end THEN end - 1 - point ELSE 0
        value == FoldLeft(LAMBDA sum, char : 10 * sum + DigitValue(char), 0, digits)
    IN  IF digits = <<>> THEN NaN
        ELSE <<IF signed /\ chars[1] = "-" THEN -value ELSE value, 10^places>>

(***************************************************************************)
(* The parser.  Each function returns the value it read and the position   *)
(* it stopped at; the rest of a level's loop is a function of its own.     *)
(***************************************************************************)
At(str, pos, chars) == pos \in DOMAIN str /\ str[pos] \in chars

RECURSIVE ParseNum(_, _), ParseMulDiv(_, _), ParseAddSub(_, _)
RECURSIVE MoreFactors(_, _, _), MoreTerms(_, _, _)

ParseNum(str, pos) ==
    IF At(str, pos, {"("})
    THEN LET inner == ParseAddSub(str, pos + 1) IN <<inner[1], inner[2] + 1>>
    ELSE LET start == IF At(str, pos, {"-", "+"}) THEN pos + 1 ELSE pos
             stops == {i \in start..Len(str) : ~IsDigit(str[i]) /\ str[i] # "."}
             end == IF stops = {} THEN Len(str) + 1
                                  ELSE CHOOSE i \in stops : \A j \in stops : i <= j
         IN  <<ParseFloat(SubSeq(str, pos, end - 1)), end>>

MoreFactors(str, left, pos) ==
    IF ~At(str, pos, {"*", "/"}) THEN <<left, pos>>
    ELSE LET right == ParseNum(str, pos + 1)
         IN  MoreFactors(str, Apply(str[pos], left, right[1]), right[2])

ParseMulDiv(str, pos) ==
    LET left == ParseNum(str, pos) IN MoreFactors(str, left[1], left[2])

\* Mutant of MoreTerms: what follows a term is read before it is applied.
MoreTermsFirst(str, left, pos) ==
    IF ~At(str, pos, {"+", "-"}) THEN <<left, pos>>
    ELSE LET right == ParseAddSub(str, pos + 1)
         IN  <<Apply(str[pos], left, right[1]), right[2]>>

MoreTerms(str, left, pos) ==
    IF ~At(str, pos, {"+", "-"}) THEN <<left, pos>>
    ELSE LET right == ParseMulDiv(str, pos + 1)
         IN  MoreTerms(str, Apply(str[pos], left, right[1]), right[2])

ParseAddSub(str, pos) ==
    LET left == ParseMulDiv(str, pos) IN MoreTerms(str, left[1], left[2])

\* What follows a complete expression is ignored.
SafeCalculate(expression) ==
    IF expression = <<>> THEN <<"0">> ELSE Show(ParseAddSub(expression, 1)[1])

(***************************************************************************)
(* What the candidate wants, and how it is written: with the parentheses   *)
(* that the usual rules of precedence require and no others.               *)
(***************************************************************************)
RECURSIVE ValueOf(_)
ValueOf(e) ==
    IF e[1] = "number" THEN <<e[2], 1>> ELSE Apply(e[1], ValueOf(e[2]), ValueOf(e[3]))

Precedence(e) == CASE e[1] = "number" -> 3 [] e[1] \in {"*", "/"} -> 2 [] OTHER -> 1

RECURSIVE Text(_)
Text(e) ==
    LET Part(sub, least) ==
            IF Precedence(sub) < least THEN <<"(">> \o Text(sub) \o <<")">> ELSE Text(sub)
    IN  IF e[1] = "number" THEN Show(<<e[2], 1>>)
        ELSE Part(e[2], Precedence(e)) \o <<e[1]>> \o Part(e[3], Precedence(e) + 1)

----------------------------------------------------------------------------
VARIABLES
    wanted,      \* the expression the candidate types
    value,       \* its exact value, or that of the sequel
    todo,        \* keys left to press
    expression,  \* calcExpression
    display,     \* calcDisplay
    slipped,     \* a wrong key was pressed, DEL comes next
    joined,      \* a parenthesis is typed behind the 0 that DEL left
    slips        \* what MaxSlips bounds

vars == <<wanted, value, todo, expression, display, slipped, joined, slips>>

Init ==
    /\ wanted \in Expressions
    /\ value = ValueOf(wanted)
    /\ todo = Append(Text(wanted), "=")
    /\ expression = <<>> /\ display = <<"0">>
    /\ slipped = FALSE /\ joined = FALSE
    /\ slips = 0

\* handleCalcPress
Becomes(new) == expression' = new /\ display' = new

HandleCalcPress(key) ==
    CASE key = "C" -> expression' = <<>> /\ display' = <<"0">>
      [] key = "=" -> /\ display' = SafeCalculate(expression)
                      /\ expression' = IF display' = Error THEN <<>> ELSE display'
      [] key = "DEL" -> Becomes(IF Len(expression) > 1 THEN Front(expression) ELSE <<"0">>)
      [] OTHER -> Becomes(IF expression = <<"0">> /\ IsDigit(key) THEN <<key>>
                                                                  ELSE Append(expression, key))

Type ==
    /\ todo # <<>> /\ ~slipped
    /\ HandleCalcPress(Head(todo))
    /\ todo' = Tail(todo)
    /\ UNCHANGED <<wanted, value, slipped, joined, slips>>

Slip(key) ==
    /\ todo # <<>> /\ ~slipped
    /\ slips < MaxSlips
    /\ slips' = slips + 1
    /\ HandleCalcPress(key)
    /\ slipped' = TRUE
    /\ UNCHANGED <<wanted, value, todo, joined>>

Correct ==
    /\ slipped
    /\ HandleCalcPress("DEL")
    /\ slipped' = FALSE
    /\ joined' = (joined \/ (expression' = <<"0">> /\ Head(todo) = "("))
    /\ UNCHANGED <<wanted, value, todo, slips>>

StartOver ==
    /\ todo # <<>> /\ ~slipped /\ display # <<"0">>
    /\ value = ValueOf(wanted)
    /\ slips < MaxSlips
    /\ slips' = slips + 1
    /\ HandleCalcPress("C")
    /\ todo' = Append(Text(wanted), "=")
    /\ joined' = FALSE
    /\ UNCHANGED <<wanted, value, slipped>>

\* The result, as it was rounded for the display, is calculated with.
GoOn(op, n) ==
    /\ todo = <<>> /\ ~joined /\ display # Error
    /\ value = ValueOf(wanted)
    /\ value' = Apply(op, Rounded(value), <<n, 1>>)
    /\ todo' = <<op>> \o Show(<<n, 1>>) \o <<"=">>
    /\ UNCHANGED <<wanted, expression, display, slipped, joined, slips>>

Next ==
    \/ Type
    \/ \E key \in Slips : Slip(key)
    \/ Correct
    \/ StartOver
    \/ \E sequel \in Sequels : GoOn(sequel[1], sequel[2])

Spec == Init /\ [][Next]_vars
----------------------------------------------------------------------------
\* The calculator shows the value of what was typed: the parser of page.tsx
\* agrees with the usual rules of precedence and association for every
\* expression written with the parentheses they require, after corrections
\* and new starts, and when a rounded result is calculated with.  The one
\* exception is an opening parenthesis behind the 0 that DEL leaves when it
\* empties the expression.
CalculatorComputes == todo = <<>> => joined \/ display = Show(value)
=============================================================================
