--------------------------- MODULE ServiceRegistry ---------------------------
(***************************************************************************)
(* What UServiceModule (src/service/ServiceModule.cpp) promises of a       *)
(* service, each operation being one step: its id belongs to no other      *)
(* service from its creation to its end, it enters the registry at most    *)
(* once and never comes back, and a lookup answers with a service that is  *)
(* registered when it answers.  Which of the registered services a lookup  *)
(* by name finds is left open: the module looks the name up first, and the *)
(* id under another lock.                                                  *)
(***************************************************************************)
CONSTANTS
    Services,   \* every service that may ever be created
    Sids,       \* service ids
    Callers,    \* threads that look services up
    Nobody      \* in place of an id or a service

VARIABLES
    life,       \* "unborn", "booting", "registered", "leaving" or "gone"
    sid,        \* the id each service was created with
    answer      \* the service each caller was answered with and still uses

vars == <<life, sid, answer>>

Init ==
    /\ life = [a \in Services |-> "unborn"]
    /\ sid = [a \in Services |-> Nobody]
    /\ answer = [t \in Callers |-> Nobody]

Owners == {a \in Services : life[a] \in {"booting", "registered", "leaving"}}

\* A service is created with an id that nobody owns.  A core service is
\* registered, or refused, in the same step.
Create(a) ==
    /\ life[a] = "unborn"
    /\ \E s \in Sids \ {sid[b] : b \in Owners} : sid' = [sid EXCEPT ![a] = s]
    /\ \E stage \in {"booting", "registered", "gone"} :
        life' = [life EXCEPT ![a] = stage]
    /\ UNCHANGED answer

Passes(a, from, to) ==
    /\ life[a] = from
    /\ life' = [life EXCEPT ![a] = to]
    /\ UNCHANGED <<sid, answer>>

Refuse(a) == Passes(a, "booting", "gone")
Register(a) == Passes(a, "booting", "registered")
Remove(a) == Passes(a, "registered", "leaving")
End(a) == Passes(a, "leaving", "gone")

\* The registry is cleared when the module stops.
Clear ==
    /\ life' = [a \in Services |-> IF life[a] = "registered" THEN "gone"
                                                             ELSE life[a]]
    /\ UNCHANGED <<sid, answer>>

Find(t) ==
    /\ \E a \in Services : /\ life[a] = "registered"
                           /\ answer' = [answer EXCEPT ![t] = a]
    /\ UNCHANGED <<life, sid>>

Forget(t) ==
    /\ answer' = [answer EXCEPT ![t] = Nobody]
    /\ UNCHANGED <<life, sid>>

Next ==
    \/ \E a \in Services : Create(a) \/ Refuse(a) \/ Register(a) \/ Remove(a)
                           \/ End(a)
    \/ Clear
    \/ \E t \in Callers : Find(t) \/ Forget(t)

Spec == Init /\ [][Next]_vars
=============================================================================
