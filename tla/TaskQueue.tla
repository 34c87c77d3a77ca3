------------------------------ MODULE TaskQueue ------------------------------
(***************************************************************************)
(* What UDataAccess (src/database/DataAccess.cpp) promises those who push  *)
(* tasks to it: a task that is asked for while the module runs is put into *)
(* at most one queue, though perhaps after the module has closed; a worker *)
(* executes its tasks one at a time, takes at most one more after the      *)
(* module has closed, and drops what is left when it leaves, which it      *)
(* decides to do only while the module does not run.                       *)
(***************************************************************************)
EXTENDS Naturals

CONSTANTS
    Workers,
    Callers     \* those who push tasks

VARIABLES
    phase,      \* "new", "open" or "closed"
    asking,     \* callers whose task is on its way to a queue
    waiting,    \* number of tasks queued for each worker
    status      \* "free", "due" to take a task, "busy" with one, "leaving",
                \* or "left"

vars == <<phase, asking, waiting, status>>

Init ==
    /\ phase = "new"
    /\ asking = {}
    /\ waiting = [w \in Workers |-> 0]
    /\ status = [w \in Workers |-> "free"]

Open ==
    /\ phase = "new"
    /\ phase' = "open"
    /\ UNCHANGED <<asking, waiting, status>>

Close ==
    /\ phase \in {"new", "open"}
    /\ phase' = "closed"
    /\ UNCHANGED <<asking, waiting, status>>

Ask(c) ==
    /\ phase = "open" /\ c \notin asking
    /\ asking' = asking \cup {c}
    /\ UNCHANGED <<phase, waiting, status>>

Put(c, w) ==
    /\ c \in asking
    /\ asking' = asking \ {c}
    /\ waiting' = [waiting EXCEPT ![w] = @ + 1]
    /\ UNCHANGED <<phase, status>>

Becomes(w, from, to) ==
    /\ status[w] = from
    /\ status' = [status EXCEPT ![w] = to]
    /\ UNCHANGED <<phase, asking>>

Commit(w) ==
    /\ phase = "open" /\ waiting[w] > 0
    /\ Becomes(w, "free", "due") /\ UNCHANGED waiting

Take(w) ==
    /\ waiting[w] > 0
    /\ Becomes(w, "due", "busy")
    /\ waiting' = [waiting EXCEPT ![w] = @ - 1]

Finish(w) == Becomes(w, "busy", "free") /\ UNCHANGED waiting

Resign(w) == phase # "open" /\ Becomes(w, "free", "leaving") /\ UNCHANGED waiting

Leave(w) ==
    /\ Becomes(w, "leaving", "left")
    /\ waiting' = [waiting EXCEPT ![w] = 0]

Next ==
    \/ Open \/ Close
    \/ \E c \in Callers : Ask(c) \/ \E w \in Workers : Put(c, w)
    \/ \E w \in Workers : Commit(w) \/ Take(w) \/ Finish(w) \/ Resign(w) \/ Leave(w)

Spec == Init /\ [][Next]_vars
=============================================================================
