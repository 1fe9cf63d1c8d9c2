\* Replacement bids, gas and fees past their caps included, and the settling of transactions.
CONSTANTS
    a1 = a1  c1 = c1  k1 = k1  i1 = i1  i2 = i2
    NoKey = NoKey
    Accounts <- OneAccount
    Callers <- OneCaller
    Keys <- NoKeys
    Intents <- OneIntent
    Gas = {1, 2}
    Fees = {0, 1, 2}
    MaxGas = 1
    MaxFeePerGas = 1
    Lease = 1
    MaxAdvance = 1
    MaxAttempts = 3
    MaxNonce = 2
    MaxTxs = 2
    MaxTime = 0
SPECIFICATION FairSpec
INVARIANT TypeOK
INVARIANT AttemptsEscalate
PROPERTY EveryReservationSettles
