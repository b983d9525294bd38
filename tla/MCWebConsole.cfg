\* Five numbers are drawn: up to five events.
CONSTANTS
    Keys = {"DATABASE_URL", "REDIS_URL"}
    Spellings = {plain, padded}
    TypedValues = {3}
    Environments = {"production", "staging"}
    ProfileNames = {"Alex Rivera"}
    InitialSecrets <- MCInitialSecrets
    InitialProfiles <- MCInitialProfiles
    Copies = {c}
    None = None
    MaxId = 1005
SPECIFICATION Spec
INVARIANTS
    TypeOK
    HistoryTruthful
    LedgerBalances
    EveryEventNamesItsUser
    SnapshotCurrent
PROPERTY TrailKept
CHECK_DEADLOCK FALSE
