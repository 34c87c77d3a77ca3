\* A small instance: two workers, as in the code, two callers and three tasks.
SPECIFICATION Spec
CONSTANTS
    c1 = c1
    c2 = c2
    NumWorkers = 2
    Callers = {c1, c2}
    MaxTasks = 3
INVARIANTS
    NoSleepOnWork
PROPERTIES
    StopEndsWorkers
    QueuedTasksAreExecuted
\* Everything may have come to its end, or a worker may sleep for good.
CHECK_DEADLOCK FALSE
