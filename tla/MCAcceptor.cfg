\* Four numbers are the loops' and the acceptor's; two are left for two connections
\* and two files of other threads.
CONSTANTS
    Conns = {a, b}
    Others = {f, g}
    None = None
    Listen = Listen
    Spare = Spare
    Objects <- MCObjects
    Limit = 6
    Slots = 2
    Events = 1
    MaxReports = 2
SPECIFICATION Spec
INVARIANTS
    DescriptorsMatch
    TableMatchesEpoll
    SpareTakesARace
PROPERTIES
    WaitingIsServed
\* The peers may all be done, and a failed process has stopped.
CHECK_DEADLOCK FALSE
