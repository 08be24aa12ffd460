\* Two callers on one order and one subscription: patches interleaved with each
\* other and with failures, callbacks repeated and reordered, charges.
SPECIFICATION Spec
CONSTANTS
    Callers = {c1, c2}
    Orders = {order}
    Subs = {sub}
    Interval = 1
    Listeners <- MCListeners
    NoRow = NoRow
    Idle = Idle
    MaxCalls = 4
    MaxClock = 2
SYMMETRY CallerSymmetry
INVARIANTS
    AcknowledgedIsAnnounced
PROPERTIES
    OnlyPatchedFieldsChange
CHECK_DEADLOCK FALSE
