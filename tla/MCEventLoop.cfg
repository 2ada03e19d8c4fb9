\* A thread that posts and stops, and the loop's own posts and stop.
CONSTANTS
    Threads = {p, loop}
    Loop = loop
    NoThread = NoThread
    MaxPosts = 2
SPECIFICATION Spec
INVARIANTS
    WakeupNotLost
    StopNotSleptThrough
    Accounting
PROPERTIES
    NoTaskForgotten
    StopObeyed
\* The loop may have stopped, with nobody left to post a task.
CHECK_DEADLOCK FALSE
