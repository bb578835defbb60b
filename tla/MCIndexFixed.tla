---------------------------- MODULE MCIndexFixed ----------------------------
EXTENDS IndexFixed, TLC

CONSTANTS a, b, q, alice, bob, dao

\* One = 4 atomics and a Year of 2 seconds: a rate of 2 is one half.
NoFees     == [management |-> 0, transaction |-> 0]
SomeFees   == [management |-> 2, transaction |-> 1]
WildFees   == [management |-> 5, transaction |-> 0]   \* refused by validate
MCRates    == {NoFees, SomeFees, WildFees}
SudoRates  == {SomeFees, WildFees}

\* The two denoms play the same part, whatever the weights.
SwapDenoms == Permutations({a, b})

=============================================================================
