\* Attempts that come to anything, a second connect, a user and a peer that
\* close, and another thread that posts.
CONSTANTS
    Backends = {"epoll", "iocp"}
    Outcomes = {"refused", "refusedLater", "unreachable", "accepted"}
    PeerMayClose = TRUE
    MaxStarts = 2
    MaxDisconnects = 2
    MaxOthers = 1
    MaxAttempts = 3
SPECIFICATION Spec
INVARIANTS
    PolledAlive
    OneAttempt
    FailureTakesARace
PROPERTIES
    TriesOn
    ClosedIsDestructed
\* A failed process has stopped.
CHECK_DEADLOCK FALSE
