\* One editor and two writers, every pair of their statements interleaved.
SPECIFICATION ContentSpec
CONSTANTS
    t1 = t1
    t2 = t2
    plain = plain
    link = link
    Types <- MCTypes
    Shapes <- MCShapes
    Malformed = {}
    Targets <- MCTargets
    Undeclared = Undeclared
    NoEdit = NoEdit
    Clients = {c1}
    MaxCASAttempts = 2
    MaxRequests = 3
    Writers = {w1, w2}
    Ids = {i1, i2}
    None = None
    MaxWrites = 3
INVARIANTS
    OrphansOnlyByRace
CHECK_DEADLOCK FALSE
