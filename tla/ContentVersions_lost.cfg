\* Overlapping requests, none of which fails half way.
SPECIFICATION ReliableSpec
CONSTANTS
    Clients = {c1, c2}
    Ids = {i1}
    Bodies = {a, b}
    Absent = Absent
    MaxVersion = 4
    MaxRequests = 4
INVARIANTS
    LiveDataRecorded
CHECK_DEADLOCK FALSE
