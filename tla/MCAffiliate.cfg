CONSTANTS
    q = q  r = r  alice = alice  bob = bob  index = index  contract = contract
    Coins = {q, r}
    Holders = {alice, bob, index, contract}
    Contract = contract
    Targets = {index}
    Callers = {alice}
    Payees = {bob}
    Rates = {2, 4, 5}
    Full = 4
    MaxCalls = 3
CONSTANT Gifts <- MCGifts
CONSTANT Supply <- MCSupply
SPECIFICATION Spec
INVARIANT TypeOK
INVARIANT Covered
INVARIANT FairFees
PROPERTY Emptied
