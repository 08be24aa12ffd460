\* Launch and two callers of Close beside a subprocess that may print, emit, exit or
\* hang; or two calls of a guest and a kernel event; and the guest that listens.
SPECIFICATION PluginSpec
CONSTANTS
    Callers = {k1, k2}
    Launcher = Launcher
    PipeCapacity = 1
    MaxLines = 2
    Threads = {t1, t2}
    Emitters = {t1}
    Budgets <- MCBudgets
    Payloads <- MCPayloads
    Fitting = {"short"}
    Never = Never
INVARIANTS
    ClosedIsReleased
    ServedWhileAlive
    DeliveredIntact
PROPERTIES
    LimitsToldApart
    CloseReturns
    NobodyIsHeld
CHECK_DEADLOCK FALSE
