CONSTANTS
    One = 4
    Probe = 1000
    KeptOf100 = 99
    Vault = vault
    vault = vault  l1 = l1  b1 = b1
    Lenders = {l1}
    Borrowers = {b1}
    Amounts = {1, 2, 4}
    Limits = {1, 4}
    Year = 2
    MaxElapsed = 1
    MaxCoins = 4
    MaxSize = 5
CONSTANT Curves <- MCCurves
SPECIFICATION Spec
INVARIANT TypeOK
INVARIANT Solvent
INVARIANT TokensCovered
INVARIANT NotBelowPar
PROPERTY SharesKeepWorth
