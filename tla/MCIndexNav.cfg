CONSTANTS
    alice = alice  dao = dao
    One = 4
    Year = 2
    N = 2
    Accounts = {alice, dao}
    Collectors = {dao}

    Amounts = {2, 3}
    Slippages = {1, 4}
    Returns = {0, 1, 2}
    Leftovers = {0}
    MaxElapsed = 1
    MaxSupply = 3
    MaxBalance = 3
CONSTANT RateChoices <- MCRates
CONSTANT TargetLists <- MCLists
CONSTANT Prices <- StableQuote
SPECIFICATION Spec
INVARIANT TypeOK
INVARIANT TargetsAffordable
INVARIANT ExitFromQuote
PROPERTY KeepsValue
PROPERTY RunsTowardsTarget
