\* Two outside threads and the loop's own thread, two tasks each.
CONSTANTS
    Threads = {p, q, loop}
    Loop = loop
    NoThread = NoThread
    MaxPosts = 2
SPECIFICATION Spec
PROPERTIES
    ImplementsTaskExecutor
\* The model stops once every thread has posted its MaxPosts tasks.
CHECK_DEADLOCK FALSE
