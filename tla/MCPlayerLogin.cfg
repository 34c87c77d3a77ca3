SPECIFICATION Spec
CONSTANTS
    twin1 = twin1
    twin2 = twin2
    single = single
    here = here
    there = there
    Agents = {twin1, twin2, single}
    Keys = {here, there}
    KeyOf <- SharedKey
    Pids = {p1, p2}
    None = None
INVARIANTS
    LoginMovesTheCaller
    OneHome
\* Connections end, and the process may stop or crash.
CHECK_DEADLOCK FALSE
