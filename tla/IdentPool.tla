------------------------------ MODULE IdentPool ------------------------------
(***************************************************************************)
(* What TIdentAllocator (src/base/IdentAllocator.h) promises its clients,  *)
(* the service module and the timer managers: an identifier that is handed *)
(* out belongs to nobody else until it is recycled.  Each call is one      *)
(* step; which identifier is chosen is left open.                           *)
(***************************************************************************)
EXTENDS Naturals

CONSTANT Threads   \* the threads that allocate and recycle identifiers

VARIABLE held      \* held[t]: the live identifiers that thread t allocated

Live == UNION {held[t] : t \in Threads}

Init == held = [t \in Threads |-> {}]

\* Some identifier that nobody holds is added to t's.
Allocate(t) ==
    \E id \in held'[t] \ Live :
        /\ id \in Nat \ {0}
        /\ held' = [held EXCEPT ![t] = @ \cup {id}]

Recycle(u) ==
    \E id \in held[u] : held' = [held EXCEPT ![u] = @ \ {id}]

Next == \E t \in Threads : Allocate(t) \/ Recycle(t)

Spec == Init /\ [][Next]_held
=============================================================================
