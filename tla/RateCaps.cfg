\* Two buckets and the wallet they share, over three days and restarts.
CONSTANTS
    b1 = b1  b2 = b2  n1 = n1  f1 = f1  w1 = w1  w2 = w2  w3 = w3
    NoRate = NoRate
    NoAggregate = NoAggregate
    NotDecimal = NotDecimal
    Abi <- TwoMethods
    Native <- Nobody
    Fsp <- Nobody
    Wallets <- OneWallet
    WalletOf <- BothOnW1
    CallerRate <- MethodRates
    Bound <- OneWallet
    WalletRate <- SharedRate
    AggregateCap <- Uncapped
    Values = {0}
    HoursPerDay = 2
    MaxOutstanding = 1
    MaxTime = 5
SPECIFICATION Spec
INVARIANT TypeOK
INVARIANT CapRespected
INVARIANT NothingLost
