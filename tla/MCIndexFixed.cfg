CONSTANTS
    a = a  b = b  q = q  alice = alice  bob = bob  dao = dao
    One = 4
    Year = 2
    Denoms = {a, b}
    Quote = q
    Accounts = {alice, dao}
    Collectors = {dao}
    Weights = {0, 1, 2}
    Amounts = {0, 2, 3}
    Returns = {0, 1, 2}
    Leftovers = {0, 1}
    MinReturns = {0}
    MaxElapsed = 1
    MaxSupply = 3
    MaxBalance = 4
CONSTANT RateChoices <- SudoRates
SYMMETRY SwapDenoms
SPECIFICATION Spec
INVARIANT TypeOK
INVARIANT Covered
INVARIANT Redeemable
 
PROPERTY PaysProRata
