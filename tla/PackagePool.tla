----------------------------- MODULE PackagePool -----------------------------
(***************************************************************************)
(* What the package pool (IRecyclerBase and FRecycleHandle,                *)
(* src/base/Recycler.h) promises those who pass packages between agents,   *)
(* each operation being one step: an element handed out is nobody else's,  *)
(* belongs to the holder and those it is copied to until the last of them  *)
(* lets go, and is destroyed only after that and after the pool has closed *)
(* down; the control block they share goes when all of them have gone, and *)
(* once.                                                                   *)
(***************************************************************************)
CONSTANTS
    Handles,    \* handles of packages
    Elements,   \* every element that may ever be made
    None        \* in place of an element

VARIABLES
    holds,      \* the element each handle holds
    made,       \* the elements that have been made
    destroyed,  \* and destroyed
    open,       \* the pool still hands elements out
    ended       \* the control block has been deleted

vars == <<holds, made, destroyed, open, ended>>

Init ==
    /\ holds = [h \in Handles |-> None]
    /\ made \subseteq Elements
    /\ destroyed = {}
    /\ open = TRUE
    /\ ended = FALSE

Idle == {e \in made \ destroyed : \A h \in Handles : holds[h] # e}

Make ==
    /\ open
    /\ \E E \in SUBSET (Elements \ made) : made' = made \cup E
    /\ UNCHANGED <<holds, destroyed, open, ended>>

Acquire(h) ==
    /\ open /\ holds[h] = None
    /\ \E e \in Idle : holds' = [holds EXCEPT ![h] = e]
    /\ UNCHANGED <<made, destroyed, open, ended>>

Copy(h, g) ==
    /\ holds[h] # None /\ holds[g] = None
    /\ holds' = [holds EXCEPT ![g] = holds[h]]
    /\ UNCHANGED <<made, destroyed, open, ended>>

Release(h) ==
    /\ holds[h] # None
    /\ holds' = [holds EXCEPT ![h] = None]
    /\ UNCHANGED <<made, destroyed, open, ended>>

\* What the pool has to itself goes with it.
Close ==
    /\ open
    /\ open' = FALSE
    /\ \E E \in SUBSET Idle : destroyed' = destroyed \cup E
    /\ UNCHANGED <<holds, made, ended>>

Destroy ==
    /\ ~open
    /\ \E e \in Idle : destroyed' = destroyed \cup {e}
    /\ UNCHANGED <<holds, made, open, ended>>

End ==
    /\ ~open /\ ~ended /\ destroyed = made
    /\ ended' = TRUE
    /\ UNCHANGED <<holds, made, destroyed, open>>

Next ==
    \/ \E h \in Handles : Acquire(h) \/ Release(h)
    \/ \E h, g \in Handles : Copy(h, g)
    \/ Make \/ Close \/ Destroy \/ End

Spec == Init /\ [][Next]_vars
=============================================================================
