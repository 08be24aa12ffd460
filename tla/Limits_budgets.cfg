\* Three login attempts, two AI calls, two browsers; windows of two ticks.
SPECIFICATION Spec
CONSTANTS
    Addresses = {k1, k2}
    Attempts = {a1, a2, a3}
    LoginMax = 2
    LoginWindow = 2
    NoAddress = NoAddress
    MaxFailures = 4
    shop = shop
    ungranted = ungranted
    Callers = {shop, ungranted, Compose}
    Compose = Compose
    Gated = {ungranted}
    Calls = {c1, c2}
    AiMax <- MCAiMax
    AiWindow = 2
    NoRecord = NoRecord
    NoCaller = NoCaller
    MaxCharged = 4
    Browsers = {b1, b2}
    StateTTL = 2
    NoBrowser = NoBrowser
    MaxStates = 3
    MaxClock = 3
    MaxRestarts = 1
SYMMETRY MCSymmetry
INVARIANTS
    LockoutHolds
    BudgetHolds
    CallbackWasStarted
CHECK_DEADLOCK FALSE
