\* One service at a time; each within its own bounds.
CONSTANTS
    \* One crash, failure of Redis, update or deletion.
    Workers = {w1, w2}
    Rotations = {r1, r2}
    None = None
    Lost = Lost
    MaxPeriods = 2
    MaxFaults = 1
    Requests = {q1, q2, q3, q4}
    Keys = {k1}
    Versions = {v1, v2}
    MasterIds = {m1, m2, m3}
    MaxMaterial = 4
    Reviews = {e1, e2, e3}
    Users = {u1, u2}
    Certificates = {n1, n2}
    Processes = {p1}
    max_requests = 2
    window_seconds = 3
    MaxTime = 4
    MaxRequests = 6
    Calls = {c1}
    Secrets = {s1, s2}
    MaxVersion = 2
SPECIFICATION ServicesSpec
INVARIANTS
    ServiceTypes
    RotationsAccounted
    LockKept
    EverythingOpens
    DecisionsStand
    CallsAccounted
    LimitKept
PROPERTIES
    DueSettled
\* A service may have nothing left to do.
CHECK_DEADLOCK FALSE
