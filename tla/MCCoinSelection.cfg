\* Two payments from up to four coins, both kinds of wallet, three fee rates.
SPECIFICATION Spec
CONSTANTS
    Kinds = {"wpkh", "ms"}
    Values = {6000, 7500, 20000}
    Amounts = {1000, 9000}
    Outputs = {"pkh", "wpkh"}
    Estimates <- MCEstimates
    PublicKeys = 3
    MinSigners = 2
    MaxCoins = 4
    MaxPayments = 2
CHECK_DEADLOCK FALSE
INVARIANTS
    TypeOK
    FewestCoins
    GivesUpRightly
    FeeMeetsRate
