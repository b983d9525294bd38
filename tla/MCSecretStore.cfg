\* Four overlapping requests of any kind, on a secret that exists and on one
\* that may be created under the same name or another.
CONSTANTS
    Requests = {r1, r2, r3, r4}
    Secrets = {s1, s2}
    Keys = {k1, k2}
    Values = {v1, v2}
    Seeded = {s1}
    Null = Null
SYMMETRY Symmetry
SPECIFICATION Spec
INVARIANTS
    TypeOK
    HistoryIntact
    NoAcknowledgedWriteLost
    RollbackRestores
    RevealAnswersItsVersion
    DeletionSticks
PROPERTY ImplementsVersionedSecrets
\* Every request may have been answered.
CHECK_DEADLOCK FALSE
