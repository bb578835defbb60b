CONSTANTS
    ann = ann
    One = 1000
    Base = 10
    Places = 3
    Digits = 4
    Owners = {ann}
    Fixed = {1400}
    Premiums = {0}
    OraclePrices = {1400, 3400}
    Targets = {0, 7}
    Offers = {3, 9}
    MinReturns = {0, 4}
    PriceDigits = 9
    MaxTxs = 3
    MaxItems = 2
    MaxQuotes = 4
CONSTANT Configs <- MCConfigs
CONSTANT Strategy <- MCStrategy
CONSTANT Provisions <- MCProvisions
SPECIFICATION MCSpec
INVARIANT TypeOK
INVARIANT Backed
INVARIANT Honoured
PROPERTY AtItsPrice
PROPERTY Settles
