---------------------------- MODULE Subscriptions ----------------------------
(***************************************************************************)
(* What UEventModule (src/event/EventModule.cpp) promises those who listen *)
(* to events: a table with room for one listener to each event under each  *)
(* id, in which only calls of agents of that id change anything as long as *)
(* the listener lives, and from which the dead are taken all at once.      *)
(***************************************************************************)
CONSTANTS
    Agents,     \* those who listen
    Ids,        \* service ids or player ids
    IdOf,       \* the id of an agent
    Events,     \* event types
    None        \* no listener

VARIABLES
    listener,   \* who listens to an event under an id
    dead        \* agents that have gone

vars == <<listener, dead>>

Init ==
    /\ listener = [e \in Events |-> [i \in Ids |-> None]]
    /\ dead = {}

Set(a, e, l) ==
    /\ a \notin dead
    /\ listener' = [listener EXCEPT ![e] = [@ EXCEPT ![IdOf[a]] = l]]
    /\ UNCHANGED dead

Listen(a, e) == Set(a, e, a)
Forget(a, e) == Set(a, e, None)

Die(a) ==
    /\ a \notin dead
    /\ dead' = dead \cup {a}
    /\ UNCHANGED listener

Purge ==
    /\ listener' = [e \in Events |-> [i \in Ids |->
            IF listener[e][i] \in dead THEN None ELSE listener[e][i]]]
    /\ UNCHANGED dead

Next ==
    \/ \E a \in Agents, e \in Events : Listen(a, e) \/ Forget(a, e)
    \/ \E a \in Agents : Die(a)
    \/ Purge

Spec == Init /\ [][Next]_vars
=============================================================================
