----------------------------- MODULE AgentTimers -----------------------------
(***************************************************************************)
(* The timers of TimerManager with the agent that has them                 *)
(* (src/AgentBase.cpp, src/service/ServiceAgent.cpp): its service creates, *)
(* starts and cancels timers from its handlers and from their tasks; the   *)
(* tasks run on the threads of the pool beside the handlers; CleanUp       *)
(* releases the service and leaves the timers to the destructor of the     *)
(* agent, which cancels them and leaves their coroutines behind.           *)
(*                                                                         *)
(* The mailbox is AgentChannel's: here a handler begins at any time while  *)
(* the channel is open.  A coroutine that has tested mManager goes on to a *)
(* manager that may be gone; it is followed up to there.                   *)
(***************************************************************************)
EXTENDS TimerManager

VARIABLES
    open,       \* the agent's channel
    actor,      \* what ProcessChannel, and the service with it, is at
    gone,       \* the agent is destroyed
    escaped,    \* timers that the destructor's cancel did not find waiting
    late        \* history: timers whose task began behind the destructor

agentVars == <<open, actor, gone, escaped, late>>

\* The service is in its Start, which whoever boots it calls.
AgentInit ==
    /\ Init
    /\ open = TRUE /\ actor = "handling" /\ gone = FALSE
    /\ escaped = {} /\ late = {}

----------------------------------------------------------------------------
\* The service runs: Start, a handler, Stop, or the task of a timer.
Entered ==
    \/ actor \in {"handling", "stopping"}
    \/ actor # "released" /\ \E t \in Timers : phase[t] = "running"

\* IAgentBase::CreateTimer, and Start of the handle.
ServiceCreates ==
    /\ Entered /\ open
    /\ CreateTimer
    /\ UNCHANGED agentVars

ServiceStarts(t) ==
    /\ Entered
    /\ Start(t)
    /\ UNCHANGED agentVars

ServiceCancels ==
    /\ Entered
    /\ CancelAll \/ \E id \in Ids : CancelTimer(id)
    /\ UNCHANGED agentVars

\* The coroutine of a timer; its UTimer keeps itself alive.
Coroutines(t) ==
    /\ ~(gone /\ phase[t] = "removing")
    /\ Coroutine(t)
    /\ late' = IF gone /\ runs'[t] # runs[t] THEN late \cup {t} ELSE late
    /\ UNCHANGED <<open, actor, gone, escaped>>

----------------------------------------------------------------------------
Becomes(from, to) ==
    /\ actor = from
    /\ actor' = to
    /\ UNCHANGED <<vars, open, gone, escaped, late>>

\* UServiceAgent::Stop, by whoever shuts the service down.
Stop ==
    /\ open
    /\ open' = FALSE
    /\ UNCHANGED <<vars, actor, gone, escaped, late>>

\* ProcessChannel: a node is executed, and its handler returns or throws.
Execute == open /\ Becomes("serving", "handling")
Executed == Becomes("handling", "serving")
Throws == Becomes("handling", "failed")

\* CleanUp: Stop of the service, then its release.
CleanUp == ~open /\ Becomes("serving", "stopping")
Release == Becomes("stopping", "released")

\* ~UServiceAgent releases a service that CleanUp did not.
Drop == ~open /\ Becomes("failed", "released")

\* Mutant: the timers are not cancelled.
TimersLeft ==
    /\ actor = "released" /\ ~gone
    /\ gone' = TRUE
    /\ escaped' = {t \in Timers : \/ phase[t] \in {"starting", "removing"}
                                  \/ phase[t] = "running" /\ repeats[t]}
    /\ managed' = [t \in Timers |-> FALSE]
    /\ UNCHANGED <<registry, created, shape, progress, cancelled, hit, open, actor, late>>

\* ~IAgentBase, and ~UTimerManager in it, once nobody holds the agent.
Destroy ==
    /\ actor = "released" /\ ~gone
    /\ gone' = TRUE
    /\ escaped' = {t \in Timers : \/ phase[t] \in {"starting", "removing"}
                                  \/ phase[t] = "running" /\ repeats[t]}
    /\ CancelAll
    /\ UNCHANGED <<open, actor, late>>

AgentNext ==
    \/ ServiceCreates \/ ServiceCancels
    \/ \E t \in Timers : ServiceStarts(t) \/ Coroutines(t)
    \/ Stop \/ Execute \/ Executed \/ Throws \/ CleanUp \/ Release \/ Drop
    \/ Destroy

\* As in TimerManager; nobody has to stop the service or drop its agent.
AgentSpec ==
    /\ AgentInit /\ [][AgentNext]_<<vars, agentVars>>
    /\ \A t \in Timers : WF_<<vars, agentVars>>(Coroutines(t))

----------------------------------------------------------------------------
AgentTypeOK ==
    /\ TypeOK
    /\ open \in BOOLEAN /\ gone \in BOOLEAN
    /\ actor \in {"serving", "handling", "failed", "stopping", "released"}
    /\ escaped \subseteq Timers /\ late \subseteq Timers

\* No task begins without its agent but that of a timer whose coroutine was
\* on its way to its first wait or at its task when the destructor cancelled.
\* (One that is at its task and repeats goes on for good, with no agent and
\* with a service that is gone.)
OnlyEscapedRunOn == late \subseteq escaped

\* No timer outlives its agent, unless it has escaped so, or was past its test
\* of the manager: the coroutines of all others end, started or not, cancelled
\* before or not.
TimersEndWithTheirAgent ==
    \A t \in Timers :
        gone ~> phase[t] \in {"none", "created", "ended"} \/ t \in escaped
=============================================================================
