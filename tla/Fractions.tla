----------------------------- MODULE Fractions -----------------------------
(***************************************************************************)
(* Exact shares of money and time.  The program divides in floating point; *)
(* the models divide exactly, so that what they say of sums is about the   *)
(* accounting and not about rounding.                                      *)
(***************************************************************************)
EXTENDS Integers, FiniteSetsExt

Frac(n, d) == [n |-> n, d |-> d]
Whole(n) == Frac(n, 1)

Plus(a, b) ==
    IF a.d = b.d THEN Frac(a.n + b.n, a.d) ELSE Frac(a.n * b.d + b.n * a.d, a.d * b.d)
Minus(a, b) == Plus(a, Frac(-b.n, b.d))
Times(a, b) == Frac(a.n * b.n, a.d * b.d)
Over(a, b) == IF b.n > 0 THEN Frac(a.n * b.d, a.d * b.n) ELSE Frac(-a.n * b.d, -a.d * b.n)
Magnitude(a) == IF a.n < 0 THEN Frac(-a.n, a.d) ELSE a
SumFrac(f(_), S) == MapThenFoldSet(Plus, Whole(0), f, LAMBDA T : CHOOSE x \in T : TRUE, S)

Same(a, b) == a.n * b.d = b.n * a.d
Below(a, b) == a.n * b.d < b.n * a.d
=============================================================================
