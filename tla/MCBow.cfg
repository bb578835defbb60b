CONSTANTS
    One = 1000
    Amounts = {0, 9, 30}
    Offers = {5, 11}
    MinStep = 1
    MaxStep = 400
    MaxFee = 300
    MinMinQuote = 2
    MaxMoves = 4
    MaxQuotes = 3
    MaxCoins = 50
    MaxShares = 50
CONSTANT Strategies <- MCStrategies
SPECIFICATION Spec
INVARIANT TypeOK
INVARIANT Backed
INVARIANT QuotesHonoured
PROPERTY SharesUndiluted
