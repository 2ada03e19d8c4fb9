\* Threads 1 and 2 are the pool's; 3 is stopped by its own task, and by its owner.
CONSTANTS
    N = 2
    Alone = {3}
    SelfStop = {3}
SPECIFICATION Spec
INVARIANTS
    PublishedLoopAlive
    DestructorFindsStopped
PROPERTIES
    SpinReturns
    StopEndsRunningLoop
\* The objects may all be destroyed, and nothing is left to do.
CHECK_DEADLOCK FALSE
