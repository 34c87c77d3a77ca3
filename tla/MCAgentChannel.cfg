SPECIFICATION Spec
CONSTANTS
    s1 = s1
    s2 = s2
    Senders = {s1, s2}
    Capacity = 1
    MaxPushes = 2
    Faulty <- OneFaulty
INVARIANTS
    InOnePlace
    OvertakenOnlyByOverflow
    IdleOnlyIfEmpty
PROPERTIES
    ImplementsMailbox
    CloseLeadsToCleanUp
    EveryNodeExecuted
\* An agent that is cleaned up, or whose handler threw, stops.
CHECK_DEADLOCK FALSE
