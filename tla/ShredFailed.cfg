\* An import whose shred fails is rolled back.
CONSTANTS
    x1 = x1  x2 = x2  n1 = n1  n2 = n2  k1 = k1  g1 = g1
    NoSession = NoSession
    NoKey = NoKey
    Sessions <- TwoSessions
    Names <- TwoNames
    SourceKeys <- OneSource
    FreshKeys <- OneFresh
SPECIFICATION Spec
INVARIANT ShredFailureKeepsWallet
SYMMETRY Symmetric
