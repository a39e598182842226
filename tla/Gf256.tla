------------------------------- MODULE Gf256 -------------------------------
(***************************************************************************)
(* The field of 256 elements of packages/crypto-lifecycle/src/shamir/      *)
(* gf256.ts.  A byte is the set of its bits, so that exclusive or is the   *)
(* symmetric difference and a shift adds one to every member.              *)
(***************************************************************************)
EXTENDS Naturals, Sequences, SequencesExt

Bits == 0..7
Bytes == SUBSET Bits
Zero == {}
One == {0}
Generator == {0, 1}                     \* 0x03
Polynomial == {0, 1, 3, 4, 8}           \* x^8 + x^4 + x^3 + x + 1

Add(a, b) == (a \ b) \union (b \ a)

Doubled(a) == LET shifted == {i + 1 : i \in a}
              IN  IF 8 \in shifted THEN Add(shifted, Polynomial) ELSE shifted

\* gf256MultSlow: a times every power of two in b.
MultSlow(a, b) ==
    LET power[i \in 0..8] == IF i = 0 THEN a ELSE Doubled(power[i - 1])
    IN  FoldLeft(LAMBDA sum, i : IF i \in b THEN Add(sum, power[i]) ELSE sum,
                 Zero, <<0, 1, 2, 3, 4, 5, 6, 7>>)

\* initTables: EXP_TABLE from 0 to 511 (here from 1), LOG_TABLE its inverse.
Powers == FoldLeft(LAMBDA table, i : Append(table, MultSlow(table[i], Generator)),
                   <<One>>, [i \in 1..254 |-> i])
ExpTable == [i \in 0..511 |-> Powers[(i % 255) + 1]]
LogTable == [a \in Bytes \ {Zero} |-> (CHOOSE i \in 1..255 : Powers[i] = a) - 1]

\* As if the sum of the logarithms were kept in a byte.
MulWrapped(a, b) ==
    IF a = Zero \/ b = Zero THEN Zero ELSE ExpTable[(LogTable[a] + LogTable[b]) % 256]

Mul(a, b) == IF a = Zero \/ b = Zero THEN Zero ELSE ExpTable[LogTable[a] + LogTable[b]]

Div(a, b) == IF a = Zero THEN Zero ELSE ExpTable[LogTable[a] - LogTable[b] + 255]

\* Horner's method.
EvalPoly(coefficients, x) ==
    FoldRight(LAMBDA c, sum : Add(Mul(sum, x), c), coefficients, Zero)

\* A fragment's index as a byte.
AsByte(n) == {i \in Bits : (n \div 2 ^ i) % 2 = 1}

\* gf256LagrangeInterpolateAtZero.
Basis(xs, i) ==
    LET others == SelectSeq([j \in DOMAIN xs |-> j], LAMBDA j : j # i)
        product(factor(_)) == FoldLeft(LAMBDA p, j : Mul(p, factor(j)), One, others)
    IN  Div(product(LAMBDA j : xs[j]), product(LAMBDA j : Add(xs[i], xs[j])))

InterpolateAtZero(xs, ys) ==
    FoldLeft(LAMBDA sum, i : Add(sum, Mul(ys[i], Basis(xs, i))),
             Zero, [i \in DOMAIN xs |-> i])
============================================================================
