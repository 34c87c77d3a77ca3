SPECIFICATION Spec
CONSTANTS
    c1 = c1
    c2 = c2
    Callers = {c1, c2}
    plain = plain
    ticking = ticking
    Names = {plain, ticking}
    UpdatingNames = {ticking}
    CoreNames <- OneCore
    MaxAgents = 3
CONSTRAINT UntilStop
SYMMETRY CallerSymmetry
INVARIANTS
    SidOwnedOnce
    NoOrphanService
    TicksOnlyOnRequest
PROPERTIES
    UsesSidsAsAgreed
\* The module may be stopped and the callers done.
CHECK_DEADLOCK FALSE
