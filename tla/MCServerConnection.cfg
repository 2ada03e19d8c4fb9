\* The base loop and one thread take the connections in turn; each is also closed
\* by its user, sent on by its own loop and by the other one.
CONSTANTS
    Conns = {a, b}
    None = None
    N = 1
    Shutdown = {a, b}
    Senders = {a, b}
    Asserts = TRUE
    MaxReports = 2
SPECIFICATION Spec
INVARIANTS
    PolledAlive
    FailureTakesARace
    CallbackOrder
PROPERTIES
    ClosedIsDestructed
\* Every peer may have come and gone, and a failed process has stopped.
CHECK_DEADLOCK FALSE
