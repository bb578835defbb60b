CONSTANTS
    alice = alice  bob = bob
    One = 2
    Base = 10
    Places = 2
    Digits = 4
    Owners = {alice, bob}
    Rates = {1}
    Amounts = {0, 7}
    Offers = {5, 13, 28}
    MaxSwaps = 4
    MaxVisits = 2
SPECIFICATION Spec
PROPERTY Incremented
CHECK_DEADLOCK FALSE
