\* Transactions signed before either is mined overrun the daily cap.
CONSTANTS
    b1 = b1  b2 = b2  n1 = n1  f1 = f1  w1 = w1  w2 = w2  w3 = w3
    NoRate = NoRate
    NoAggregate = NoAggregate
    NotDecimal = NotDecimal
    Abi <- TwoMethods
    Native <- OneTransfer
    Fsp <- OneMessage
    Wallets <- ThreeWallets
    WalletOf <- OwnWallets
    CallerRate <- KindRates
    Bound <- ThreeWallets
    WalletRate <- KindWalletRates
    AggregateCap <- KindCaps
    Values = {0, 1}
    HoursPerDay = 2
    MaxOutstanding = 2
    MaxTime = 1
SPECIFICATION Spec
INVARIANT DailyCapHolds
