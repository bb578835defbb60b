------------------------ MODULE MCIndexFixedMessages ------------------------
EXTENDS IndexFixedMessages

CONSTANTS a, b, q, alice, dao

NoFees   == [management |-> 0, transaction |-> 0]
SomeFees == [management |-> 2, transaction |-> 1]
MCRates  == {NoFees, SomeFees}

=============================================================================
