\* A small instance: three threads, at most three live identifiers.
SPECIFICATION Spec
CONSTANTS
    t1 = t1
    t2 = t2
    t3 = t3
    Threads = {t1, t2, t3}
    MaxCalls = 8
INVARIANTS
    UniqueOwner
    NoLeak
    GrowthByDemand
    UsageExactWithoutOverlap
PROPERTIES
    ImplementsPool
\* The clients stop calling after MaxCalls calls.
CHECK_DEADLOCK FALSE
