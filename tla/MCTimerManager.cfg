SPECIFICATION AgentSpec
CONSTANTS
    MaxTimers = 2
    MaxRuns = 2
INVARIANTS
    IdLeadsToTimer
    LeavesTheMap
PROPERTIES
    CancelledWaitNeverRuns
    TimersEndWithTheirAgent
\* A repeating timer stops at the bound MaxRuns, and an agent may be gone.
CHECK_DEADLOCK FALSE
