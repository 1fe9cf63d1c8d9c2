\* Two sessions, crashes, and one row damaged behind the program's back.
CONSTANTS
    x1 = x1  x2 = x2  m1 = m1  m2 = m2
    NoSession = NoSession
    Sessions <- TwoSessions
    Bodies <- TwoBodies
    Digests <- ShortHashes
    MaxRows = 4
SPECIFICATION Spec
INVARIANT TypeOK
INVARIANT ChainIntact
INVARIANT AnsweredIsLogged
INVARIANT DamageLocated
SYMMETRY Symmetric
