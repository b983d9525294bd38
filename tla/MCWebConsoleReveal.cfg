\* A revealed secret is deleted, and its name used again.
CONSTANTS
    Keys = {"DATABASE_URL", "REDIS_URL"}
    Spellings = {plain, padded}
    TypedValues = {3}
    Environments = {"production", "staging"}
    ProfileNames = {"Alex Rivera"}
    InitialSecrets <- MCInitialSecrets
    InitialProfiles <- MCInitialProfiles
    Copies = {c}
    None = None
    MaxId = 1005
SPECIFICATION Spec
INVARIANT ShownValuesWereRevealed
CHECK_DEADLOCK FALSE
