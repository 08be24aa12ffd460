\* Two concurrent requests over every edit and document of two types.  Four requests
\* and saves: one that creates the row, the victim, and two that overtake it.
SPECIFICATION Spec
CONSTANTS
    t1 = t1
    t2 = t2
    link = link
    bad = bad
    Types <- MCTypes
    Shapes <- MCShapes
    Malformed <- MCMalformed
    Targets <- MCTargets
    Undeclared = Undeclared
    NoEdit = NoEdit
    Clients = {c1, c2}
    MaxCASAttempts = 2
    MaxRequests = 4
INVARIANTS
    ContentionIsReal
PROPERTIES
    NoLostUpdate
    ImplementsAtomic
CHECK_DEADLOCK FALSE
