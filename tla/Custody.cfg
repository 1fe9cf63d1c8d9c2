\* Keys come into custody: concurrent creations and imports, failures at every point.
CONSTANTS
    x1 = x1  x2 = x2  n1 = n1  n2 = n2  k1 = k1  g1 = g1
    NoSession = NoSession
    NoKey = NoKey
    Sessions <- TwoSessions
    Names <- TwoNames
    SourceKeys <- OneSource
    FreshKeys <- OneFresh
SPECIFICATION Spec
INVARIANT TypeOK
INVARIANT WalletsKept
INVARIANT SourceCovered
INVARIANT AuditMatches
SYMMETRY Symmetric
