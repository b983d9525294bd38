\* Two transactions of one event each.
CONSTANTS
    Txns = {t1, t2}
    Contents = {a}
    Genesis = Genesis
    MaxEvents = 1
SPECIFICATION Spec
INVARIANT ChainContiguous
CHECK_DEADLOCK FALSE
