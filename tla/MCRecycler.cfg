SPECIFICATION Spec
CONSTANTS
    h1 = h1
    h2 = h2
    h3 = h3
    h4 = h4
    Handles = {h1, h2, h3, h4}
    Capacity = 2
    MaxNodes = 8
SYMMETRY HandleSymmetry
INVARIANTS
    ElementsFollowHandles
    ControlGoesLast
    UsageIsExact
\* A thread may block for ever, and the process may crash.
CHECK_DEADLOCK FALSE
