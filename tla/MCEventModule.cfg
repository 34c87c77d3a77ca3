SPECIFICATION Spec
CONSTANTS
    old = old
    new = new
    event1 = event1
    event2 = event2
    Agents = {old, new}
    Ids <- OneId
    IdOf <- SharedId
    Events = {event1, event2}
    None = None
    MaxSweeps = 2
INVARIANTS
    FlagMeansSweep
PROPERTIES
    LiveListenersStay
    GoneListenersLeave
\* Agents may all be gone.
CHECK_DEADLOCK FALSE
