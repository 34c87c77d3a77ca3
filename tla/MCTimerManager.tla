---------------------------- MODULE MCTimerManager ----------------------------
(***************************************************************************)
(* A small instance of AgentTimers: each timer may run its task twice;     *)
(* and the operators of its handles, with an int of four bits.             *)
(***************************************************************************)
EXTENDS AgentTimers, Integers

Handle == INSTANCE TimerHandle WITH Expired <- {"null", "gone"}, IntMax <- 7

HandleIds == -1 .. 9
HandlesOf == {Handle!NoHandle("null")} \cup
    [id : HandleIds, timer : {"null", "gone", "alive"}]

ASSUME HandlesOrdered == Handle!Ordered(HandlesOf)
ASSUME HandlesMirror ==
    \A h \in HandlesOf : \A i \in HandleIds : Handle!Mirrors(h, i)
\* The comparison of an int with a handle by > is that of <.
ASSUME OneDoesNot ==
    \A h \in HandlesOf : \A i \in HandleIds :
        Handle!MirrorsGreater(h, i) <=> h.id = i
\* A handle is valid only if its timer can be got, and -1 is not an id.
ASSUME HandlesLead == \A h \in HandlesOf :
    /\ Handle!IsValid(h) => Handle!Get(h, "null") = h.timer
    /\ Handle!ToInt(h) = h.id <=> h.id <= 7
=============================================================================
