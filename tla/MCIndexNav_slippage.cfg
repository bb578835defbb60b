CONSTANTS
    alice = alice  dao = dao
    One = 4
    Year = 2
    N = 2
    Accounts = {dao}
    Collectors = {dao}
    Amounts = {32}
    Slippages = {0}
    Returns = {4, 8}
    Leftovers = {0}
    MaxElapsed = 0
    MaxSupply = 32
    MaxBalance = 32
CONSTANT Prices <- FlatPrices
CONSTANT RateChoices <- NoRates
CONSTANT TargetLists <- JustEven
SPECIFICATION Spec
PROPERTY ExitWithinSlippage
