--------------------------- MODULE ScaledDecimals ---------------------------
(***************************************************************************)
(* DecimalScaled (packages/rujira-rs/src/decimal_scaled.rs): numbers kept  *)
(* as digits and scale, in which the bid pools count. Products and sums    *)
(* are exact as long as their digits fit; then digits are cut off, one at  *)
(* a time. Quotients have Places digits after the point.                   *)
(***************************************************************************)
EXTENDS Integers, FiniteSets, FiniteSetsExt

CONSTANTS
    Base,     \* 10 in the code
    Places,   \* DECIMAL_PLACES: 24 in the code
    Digits    \* what fits: 77 decimal digits in the code (256 bits)

ASSUME ScaledAssumptions ==
    /\ Base \in Nat \ {0, 1}
    /\ Places \in Nat \ {0}
    /\ Digits \in Nat /\ Digits > Places

\* Uint256::pow
Power(b, n) ==
    LET power[i \in 0 .. n] == IF i = 0 THEN 1 ELSE b * power[i - 1]
    IN  power[n]

\* The powers by which digits are cut or raised, computed once.
Powers == [n \in 0 .. Digits |-> Power(Base, n)]

Shift(n) == IF n \in 0 .. Digits THEN Powers[n] ELSE Power(Base, n)

Limit == Shift(Digits)

\* The turns of a loop that goes on as long as a condition holds which, once
\* it fails, fails ever after: the steps at which it holds.
Turns(steps) == Cardinality(steps)

\* DecimalScaled((n, k)) stands for n / Shift(k).
Scaled(n, k) == [n |-> n, k |-> k]

Zero == Scaled(0, 0)
Unit == Scaled(1, 0)

\* normalize: no trailing zeros.
Zeros(n) == Turns({i \in 1 .. Digits : n % Shift(i) = 0})

Normal(x) ==
    IF x.n = 0 THEN Zero ELSE Scaled(x.n \div Shift(Zeros(x.n)), x.k - Zeros(x.n))

Truncate(x, t) == Scaled(IF t >= Digits THEN 0 ELSE x.n \div Shift(t), x.k - t)

\* from_ratio
Ratio(a, b) == Normal(Scaled((a * Shift(Places)) \div b, Places))

\* Mul: both factors lose digits until the product fits.
Times(x, y) ==
    LET Product(t) == (x.n \div Shift(t)) * (y.n \div Shift(t))
        t          == Turns({i \in 0 .. Digits : Product(i) >= Limit})
    IN  Normal(Scaled(Product(t), x.k + y.k - 2 * t))

\* Mul<Uint256>: the number alone loses digits.
TimesInt(x, m) ==
    LET t == Turns({i \in 0 .. Digits : (x.n \div Shift(i)) * m >= Limit})
    IN  Normal(Scaled((x.n \div Shift(t)) * m, x.k - t))

\* The scale by which a number can be raised.
Room(n) == Turns({j \in 1 .. Digits - 1 : n * Shift(j) < Limit})

\* map_equalised: the number of the larger scale loses digits until the other
\* can be raised to its scale.
Cut(x, y) ==
    IF x.k <= y.k
    THEN <<x, Truncate(y, Max({0, y.k - x.k - Room(x.n)}))>>
    ELSE <<Truncate(x, Max({0, x.k - y.k - Room(y.n)})), y>>

\* Two numbers at their common scale.
Same(p) ==
    LET k == IF p[1].k > p[2].k THEN p[1].k ELSE p[2].k
    IN  [a |-> p[1].n * Shift(k - p[1].k), b |-> p[2].n * Shift(k - p[2].k), k |-> k]

\* Add: when the sum does not fit, both lose one more digit.
Add(x, y) ==
    LET p == Cut(x, y)
        e == Same(p)
        f == Same(<<Truncate(p[1], 1), Truncate(p[2], 1)>>)
    IN  IF e.a + e.b < Limit THEN Normal(Scaled(e.a + e.b, e.k))
                             ELSE Normal(Scaled(f.a + f.b, f.k))

\* Sub panics below zero.
CanSub(x, y) == LET e == Same(Cut(x, y)) IN e.a >= e.b
Sub(x, y)    == LET e == Same(Cut(x, y)) IN Normal(Scaled(e.a - e.b, e.k))

\* Div panics when the divisor has lost its last digit, or the quotient does
\* not fit.
CanDiv(x, y) ==
    \/ x.n = 0
    \/ x = y
    \/ LET e == Same(Cut(x, y)) IN e.b > 0 /\ (Shift(Places) * e.a) \div e.b < Limit
Quotient(x, y) ==
    IF x.n = 0 THEN Zero
    ELSE IF x = y THEN Unit
    ELSE LET e == Same(Cut(x, y)) IN Normal(Scaled((Shift(Places) * e.a) \div e.b, Places))

\* to_uint_floor
Floor(x) == IF x.k < 0 THEN x.n * Shift(-x.k)
            ELSE IF x.k >= Digits THEN 0 ELSE x.n \div Shift(x.k)

=============================================================================
