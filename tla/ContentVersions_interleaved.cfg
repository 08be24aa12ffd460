\* Two requests at a time, up to five on one item.
SPECIFICATION Spec
SYMMETRY Symmetric
CONSTANTS
    Clients = {c1, c2}
    Ids = {i1}
    Bodies = {a, b}
    Absent = Absent
    MaxVersion = 4
    MaxRequests = 5
INVARIANTS
    SnapshotsWereLive
    SuccessIsRecorded
PROPERTIES
    RollbackRestoresHistory
CHECK_DEADLOCK FALSE
