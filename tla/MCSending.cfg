\* Two calls, of two bytes or of none, from each of two threads, in both builds.
CONSTANTS
    Threads = {p, loop}
    Loop = loop
    Freed = Freed
    MaxSends = 2
SPECIFICATION Spec
INVARIANTS
    StreamIntact
    StallTakesEmptySend
PROPERTIES
    AllArrives
\* The connection ends, or everything has been sent.
CHECK_DEADLOCK FALSE
