SPECIFICATION ServerSpec
CONSTANTS
    CoreFiles = {core, broken}
    ExtendFiles = {extend, bare}
    Broken = {broken}
    NoSymbols = {bare}
    Agents = {a1, a2}
    MayFail = TRUE
    None = None
    b1 = b1
    b2 = b2
    x = x
    y = y
    z = z
    temp = temp
INVARIANTS
    RunsOnWhatRuns
    ServicesHaveTheirLibrary
PROPERTIES
    ServerEnds
\* The process ends.
CHECK_DEADLOCK FALSE
