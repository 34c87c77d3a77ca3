SPECIFICATION RoutingSpec
CONSTANTS
    twin1 = twin1
    twin2 = twin2
    other = other
    here = here
    there = there
    Agents = {twin1, twin2, other}
    Names = {here, there}
    NameOf <- SharedName
    MaxId = 2
    Packages = {p1, p2}
    Tasks = {t}
    MaxPosts = 2
    MaxShutdowns = 2
    MaxUnderWay = 1
    None = None
SYMMETRY Symmetry
INVARIANTS
    HandledByItsTarget
    AnswersComeBack
\* Everybody may be gone.
CHECK_DEADLOCK FALSE
