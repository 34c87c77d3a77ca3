------------------------------- MODULE Mailbox -------------------------------
(***************************************************************************)
(* What an agent promises those who push nodes to it: every node is        *)
(* handled at most once, one node at a time; a node is taken up only while *)
(* the mailbox is open, and dropped only once it is closed; after the end  *)
(* nothing is handled.  The order of the nodes is left open.               *)
(***************************************************************************)
VARIABLES
    open,       \* nodes are taken up only while the mailbox is open
    waiting,    \* nodes accepted and not taken up yet
    handling,   \* the nodes being handled: none or one
    handled,    \* nodes handled
    phase       \* "idle", "serving" or "ended"

vars == <<open, waiting, handling, handled, phase>>

Init ==
    /\ open = TRUE
    /\ waiting = {} /\ handling = {} /\ handled = {}
    /\ phase = "idle"

Start ==
    /\ phase = "idle"
    /\ phase' = "serving"
    /\ UNCHANGED <<open, waiting, handling, handled>>

Accept ==
    \E node \in waiting' :
        /\ node \notin waiting \cup handling \cup handled
        /\ waiting' = waiting \cup {node}
        /\ UNCHANGED <<open, handling, handled, phase>>

Take ==
    /\ open
    /\ phase = "serving"
    /\ handling = {}
    /\ \E node \in waiting :
        /\ waiting' = waiting \ {node}
        /\ handling' = {node}
    /\ UNCHANGED <<open, handled, phase>>

\* The handler returns, or throws and ends the service of the mailbox.
Handle ==
    /\ handling # {}
    /\ handled' = handled \cup handling
    /\ handling' = {}
    /\ phase' \in {"serving", "ended"}
    /\ UNCHANGED <<open, waiting>>

Close ==
    /\ open' = FALSE
    /\ UNCHANGED <<waiting, handling, handled, phase>>

Drop ==
    /\ ~open
    /\ \E node \in waiting : waiting' = waiting \ {node}
    /\ UNCHANGED <<open, handling, handled, phase>>

Finish ==
    /\ ~open
    /\ phase = "serving"
    /\ handling = {}
    /\ phase' = "ended"
    /\ UNCHANGED <<open, waiting, handling, handled>>

Next == Start \/ Accept \/ Take \/ Handle \/ Close \/ Drop \/ Finish

Spec == Init /\ [][Next]_vars
=============================================================================
