---------------------------- MODULE MCEventModule ----------------------------
(***************************************************************************)
(* A small instance of EventModule: an agent and its successor under the   *)
(* same id, and two events.                                                *)
(***************************************************************************)
EXTENDS EventModule

CONSTANTS old, new, event1, event2

OneId == {1}
SharedId == [a \in Agents |-> 1]
=============================================================================
