\* A rejected broadcast below the tail leaves a gap that nonce/holes does not list.
CONSTANTS
    a1 = a1  c1 = c1  k1 = k1  i1 = i1  i2 = i2
    NoKey = NoKey
    Accounts <- OneAccount
    Callers <- OneCaller
    Keys <- NoKeys
    Intents <- OneIntent
    Gas = {1}
    Fees = {1}
    MaxGas = 1
    MaxFeePerGas = 1
    Lease = 1
    MaxAdvance = 2
    MaxAttempts = 1
    MaxNonce = 2
    MaxTxs = 2
    MaxTime = 2
SPECIFICATION Spec
INVARIANT UnreleasedSurfaced
