\* The life of nonces: one account, one caller, no idempotency keys, fixed fees.
CONSTANTS
    a1 = a1  c1 = c1  k1 = k1  i1 = i1  i2 = i2
    NoKey = NoKey
    Accounts <- OneAccount
    Callers <- OneCaller
    Keys <- NoKeys
    Intents <- OneIntent
    Gas = {1}
    Fees = {1}
    MaxGas = 1
    MaxFeePerGas = 1
    Lease = 1
    MaxAdvance = 2
    MaxAttempts = 1
    MaxNonce = 2
    MaxTxs = 3
    MaxTime = 0
SPECIFICATION Spec
INVARIANT NonceUnique
INVARIANT InFlightBelowNext
INVARIANT ConfirmedBelowNext
INVARIANT ConfirmedNotLive
INVARIANT NoLeakedNonce
PROPERTY ConfirmedMonotone
PROPERTY ImplementsLedger
