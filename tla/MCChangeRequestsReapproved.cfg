\* Three calls on one change request.
CONSTANTS
    Requests = {r1, r2, r3}
    Calls = {r1, r2, r3}
    Secrets = {s1, s2}
    Keys = {k1}
    Values = {v1}
    Seeded = {s1}
    Null = Null
    Changes = {c1}
    Users = {u1, u2}
SPECIFICATION Spec
PROPERTY NeverReapproved
CHECK_DEADLOCK FALSE
