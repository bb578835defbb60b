CONSTANTS
    alice = alice  bob = bob
    One = 2
    Base = 10
    Places = 2
    Digits = 4
    Owners = {alice, bob}
    Rates = {1}
    Amounts = {0, 7}
    Offers = {1, 5, 13, 28}
    MaxSwaps = 4
    MaxVisits = 2
SPECIFICATION Spec
INVARIANT BidsBacked
INVARIANT ClaimsBacked
PROPERTY NotLocked
PROPERTY PaidInFull
CHECK_DEADLOCK FALSE
