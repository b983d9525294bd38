\* One change request, three calls on it and one request to the secret
\* endpoints, overlapping in every way.
CONSTANTS
    Requests = {r1, r2, r3, w}
    Calls = {r1, r2, r3}
    Secrets = {s1, s2}
    Keys = {k1}
    Values = {v1}
    Seeded = {s1}
    Null = Null
    Changes = {c1}
    Users = {u1, u2}
SYMMETRY Symmetry
SPECIFICATION Spec
INVARIANTS
    TypeOK
    FourEyes
    AppliedTookEffect
PROPERTIES
    UncontendedStateMachine
    ImplementsSecretStore
\* Every request may have been answered.
CHECK_DEADLOCK FALSE
