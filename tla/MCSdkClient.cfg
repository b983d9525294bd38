\* Two calls of get at once, for one name in two environments.
CONSTANTS
    Calls = {g1, g2}
    Scopes = {dev, prod}
    Names = {n}
    Spellings = {plain, padded}
    NoKey = NoKey
    Ttl = 1
    Timeout = 1
    MaxTime = 3
    MaxChanges = 1
SPECIFICATION Spec
SYMMETRY Symmetry
INVARIANTS
    TypeOK
    BoundedStaleness
    InvalidationHeeded
    MissingMeansMissing
\* Time may be up.
CHECK_DEADLOCK FALSE
