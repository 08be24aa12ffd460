\* Two requests at a time on two accounts, through passwords, challenges and a
\* provider with two identities.
SPECIFICATION Spec
CONSTANTS
    Users = {a1, a2}
    Subjects = {s1, s2}
    Procs = {p1, p2}
    CodeCount = 2
    NoUser = NoUser
    NoSubject = NoSubject
    MaxRequests = 3
    MaxMinted = 3
    MaxOpened = 4
    MaxMoves = 1
SYMMETRY LoginSymmetry
INVARIANTS
    RecoveryCodesOnce
    DeactivationHolds
    EnabledSecretWasProved
    LinkedAccountIsStable
CHECK_DEADLOCK FALSE
