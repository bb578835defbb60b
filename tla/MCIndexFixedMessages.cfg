CONSTANTS
    a = a  b = b  q = q  alice = alice  dao = dao
    One = 4
    Year = 2
    Denoms = {a, b}
    Quote = q
    Accounts = {dao}
    Collectors = {dao}
    Weights = {0, 1}
    Amounts = {0, 1}
    Returns = {0, 1}
    Leftovers = {0, 1}
    MinReturns = {0}
    MaxElapsed = 1
    MaxSupply = 2
    MaxBalance = 2
CONSTANT RateChoices <- MCRates
SPECIFICATION TxSpec
INVARIANT OnlySwapsFail
INVARIANT NothingHeld
PROPERTY Settles
PROPERTY ImplementsTransactions
