CONSTANTS
    a = a  b = b  q = q  alice = alice  adapter = adapter
    One = 4
    Year = 2
    Denoms = {a, b}
    Quote = q
    Accounts = {alice, adapter}
    Collectors = {alice}
    Adapter = adapter
    Weights = {0, 1}
    Amounts = {0, 1}
    Returns = {0, 1, 2}
    Leftovers = {0, 1}
    MinReturns = {0, 1}
    MaxElapsed = 1
    MaxSupply = 2
    MaxBalance = 2
CONSTANT RateChoices <- MCRates
CONSTANT SwapLists <- MCSwapLists
SPECIFICATION AdapterSpec
INVARIANT NothingKept
INVARIANT Affordable
INVARIANT ExactDeposit
PROPERTY Settles
