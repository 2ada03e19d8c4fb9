\* stop() races run().
CONSTANTS
    Workers = {w1}
    SelfStop = {}
    OwnerStop = {w1}
SPECIFICATION Spec
PROPERTIES
    StopReturns
\* The objects may all be destroyed, and nothing is left to do.
CHECK_DEADLOCK FALSE
