\* Two creates of one name in a scope that has none.
CONSTANTS
    Requests = {r1, r2}
    Secrets = {s1, s2}
    Keys = {k1}
    Values = {v1}
    Seeded = {}
    Null = Null
SPECIFICATION Spec
INVARIANT UniqueLiveKey
CHECK_DEADLOCK FALSE
