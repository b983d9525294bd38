\* Three transactions of up to two events each, overlapping in every way;
\* three fair requests to the store; four calls on one account.
CONSTANTS
    Txns = {t1, t2, t3}
    Contents = {a, b}
    Genesis = Genesis
    MaxEvents = 2
    Requests = {r1, r2, r3}
    Secrets = {s1, s2}
    Keys = {k1}
    Values = {v1}
    Seeded = {s1}
    Null = Null
    Calls = {c1, c2, c3, c4}
    Emails = {e1}
SYMMETRY Symmetry
SPECIFICATION SidesSpec
INVARIANTS
    TypeOK
    EveryLinkResolves
    SerialChainVerifies
    AccountsKept
PROPERTIES
    TamperingDetected
    EveryRequestAnswered
\* Every transaction may have ended, and every request and call been answered.
CHECK_DEADLOCK FALSE
