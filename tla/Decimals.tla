------------------------------ MODULE Decimals ------------------------------
(***************************************************************************)
(* Fixed-point arithmetic as the contracts use it: cosmwasm_std's Decimal  *)
(* keeps a number as an integer count of atomics, One of them making 1.    *)
(* Only the roundings the contracts rely on are defined here.              *)
(***************************************************************************)
EXTENDS Integers

CONSTANT One    \* atomics of Decimal::one(): 10^18 in the code, small in TLC

ASSUME OneAssumption == One \in Nat \ {0}

\* Decimal::from_ratio(a, b), rounded down; the call panics when b = 0, so
\* every user of it carries the guard b > 0.
FromRatio(a, b) == (a * One) \div b

\* Decimal::checked_mul and Decimal::checked_div, both rounded down.
DecMul(x, y) == (x * y) \div One
DecDiv(x, y) == (x * One) \div y

\* to_uint_floor and to_uint_ceil: the units of a Decimal.
ToFloor(x) == x \div One
ToCeil(x)  == (x + One - 1) \div One

=============================================================================
