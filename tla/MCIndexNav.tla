----------------------------- MODULE MCIndexNav -----------------------------
EXTENDS IndexNav, TLC

CONSTANTS alice, dao

\* One = 4 atomics: weights, thresholds and slippages are quarters.
Target(d, w, t) == [denom |-> d, weight |-> w, threshold |-> t, slippage |-> 1]

Balanced == <<Target(0, 1, 0), Target(1, 2, 0), Target(2, 1, 2)>>
Even     == <<Target(0, 2, 0), Target(1, 1, 0), Target(2, 1, 0)>>
AllQuote == <<Target(0, 4, 0)>>
Repeated == <<Target(0, 2, 0), Target(1, 1, 0), Target(1, 1, 0)>>
TooMuch  == <<Target(0, 3, 0), Target(1, 2, 0)>>            \* refused
NoQuote  == <<Target(1, 4, 0)>>                             \* refused
JustEven == {Even}
MCLists  == {Balanced, AllQuote, Repeated, TooMuch, NoQuote}

\* The quote denom is a stable coin; the others double and halve.
StableQuote   == [c \in Coins |-> IF c = Quote THEN {4} ELSE {4, 8}]
FlatPrices    == [c \in Coins |-> {4}]

NoFees    == [management |-> 0, transaction |-> 0]
SomeFees  == [management |-> 2, transaction |-> 1]
NoRates   == {NoFees}
MCRates   == {NoFees, SomeFees}

=============================================================================
