\* Fewer numbers than connections: they are used again.
CONSTANTS
    c1 = c1
    c2 = c2
    c3 = c3
    None = None
    Listener = Listener
    Conns = {c1, c2, c3}
    Numbers = {1, 2}
    Accepts = 1
    Bytes <- MCBytes
    Sends <- MCSends
    Ends <- MCEnds
    Closers = {c1}
    Room = 2
SPECIFICATION Spec
INVARIANTS
    PendingIsFound
    StalePacketTakesPool
    ReadsInOrder
PROPERTIES
    SentIsRead
\* The peers may all be done, and a failed process has stopped.
CHECK_DEADLOCK FALSE
