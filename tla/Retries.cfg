\* Retries with idempotency keys and reservations that outlive their lease.
CONSTANTS
    a1 = a1  c1 = c1  k1 = k1  i1 = i1  i2 = i2
    NoKey = NoKey
    Accounts <- OneAccount
    Callers <- OneCaller
    Keys <- OneKey
    Intents <- TwoIntents
    Gas = {1}
    Fees = {1}
    MaxGas = 1
    MaxFeePerGas = 1
    Lease = 1
    MaxAdvance = 1
    MaxAttempts = 1
    MaxNonce = 2
    MaxTxs = 2
    MaxTime = 2
SPECIFICATION Spec
INVARIANT OneTxPerKey
INVARIANT HoleNeverDeepened
SYMMETRY IntentSymmetry
