----------------------------- MODULE Fractions ------------------------------
(***************************************************************************)
(* Exact money: a number is a fraction <<n, d>> in lowest terms with a     *)
(* positive denominator, where the code computes in floats and compares up *)
(* to a relative 1e-10.                                                    *)
(***************************************************************************)
EXTENDS Integers

\* The greatest common divisor of p[1] and p[2].
Gcd[p \in Nat \X Nat] == IF p[2] = 0 THEN p[1] ELSE Gcd[<<p[2], p[1] % p[2]>>]
Abs(n) == IF n < 0 THEN -n ELSE n

Frac(n, d) == LET g == Gcd[<<Abs(n), d>>] IN <<n \div g, d \div g>>
x ** y     == Frac(x[1] * y[1], x[2] * y[2])
x // y     == Frac(x[1] * y[2], x[2] * y[1])
x ++ y     == Frac(x[1] * y[2] + y[1] * x[2], x[2] * y[2])
x -- y     == Frac(x[1] * y[2] - y[1] * x[2], x[2] * y[2])
x \succ y  == x[1] * y[2] > y[1] * x[2]

One  == <<1, 1>>
Zero == <<0, 1>>

\* _validate_rate: a rate is below one and not negative.
IsRate(f) ==
    /\ f \in Nat \X (Nat \ {0}) /\ f = Frac(f[1], f[2])
    /\ One \succ f
=============================================================================
