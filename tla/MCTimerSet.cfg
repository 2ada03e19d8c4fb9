\* Three timers of runAfter, and one of runEvery with two repeats.
CONSTANTS
    Once = {a, b, c}
    Every = {r}
    Delays = {0, 1, 3}
    Interval = 1
    Repeat = 2
    End = End
    Late = 2
    MaxNow = 4
SPECIFICATION TimerSpec
INVARIANTS
    IteratorValid
PROPERTIES
    PassFiresDue
