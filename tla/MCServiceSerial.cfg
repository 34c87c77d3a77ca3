SPECIFICATION FairSpec
CONSTANTS
    c1 = c1
    c2 = c2
    Callers = {c1}
    plain = plain
    ticking = ticking
    Names = {plain, ticking}
    UpdatingNames = {ticking}
    CoreNames <- RepeatedCore
    MaxAgents = 3
INVARIANTS
    MapsAgreeBetweenCalls
PROPERTIES
    RemovedServiceIsCleanedUp
\* The module may be stopped and the callers done.
CHECK_DEADLOCK FALSE
