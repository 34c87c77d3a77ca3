----------------------------- MODULE OwningHandle -----------------------------
(***************************************************************************)
(* FServiceHandle (src/factory/ServiceHandle.cpp) and FPlayerHandle        *)
(* (src/factory/PlayerHandle.cpp): the one owner of a service or a player, *)
(* which can be moved and has it destroyed where it was made.  A handle is *)
(* what it owns, the factory with it; a service's handle has also the path *)
(* that the factory destroys it by.  Operations map the handles and the    *)
(* number of times each instance was destroyed to what they are afterwards.*)
(***************************************************************************)
EXTENDS Naturals, FiniteSets

CONSTANTS
    Handles,
    Instances,
    Nothing     \* not one of them

NoHandles ==
    [owned |-> [h \in Handles |-> Nothing],
     destroyed |-> [x \in Instances |-> 0]]

Owns(s, h) == s.owned[h] # Nothing

\* The constructor with an instance.
Construct(s, h, x) == [s EXCEPT !.owned[h] = x]

Release(s, h) ==
    IF Owns(s, h)
    THEN [s EXCEPT !.owned[h] = Nothing, !.destroyed[s.owned[h]] = @ + 1]
    ELSE s

\* The move constructor, of a handle that h is not yet.
Move(s, h, g) == [s EXCEPT !.owned[h] = s.owned[g], !.owned[g] = Nothing]

MoveAssign(s, h, g) == IF h = g THEN s ELSE Move(Release(s, h), h, g)

Operations(s) ==
    {Construct(s, x[1], x[2]) : x \in {y \in Handles \X Instances :
        ~Owns(s, y[1]) /\ s.destroyed[y[2]] = 0
        /\ \A h \in Handles : s.owned[h] # y[2]}}
    \cup {Move(s, x[1], x[2]) : x \in {y \in Handles \X Handles :
        ~Owns(s, y[1]) /\ y[1] # y[2]}}
    \cup {MoveAssign(s, x[1], x[2]) : x \in Handles \X Handles}
    \cup {Release(s, h) : h \in Handles}

\* An instance has one owner, or none and has been destroyed once.
OneOwner(s) ==
    \A x \in Instances :
        Cardinality({h \in Handles : s.owned[h] = x}) + s.destroyed[x] <= 1
=============================================================================
