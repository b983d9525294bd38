\* Two calls of one approver, or a review and a revocation, at once.
CONSTANTS
    Calls = {e1, e2}
    Users = {u1, u2}
SPECIFICATION Spec
INVARIANT ApprovedWhilePending
\* A call is used once.
CHECK_DEADLOCK FALSE
