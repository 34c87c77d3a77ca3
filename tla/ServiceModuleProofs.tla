------------------------- MODULE ServiceModuleProofs -------------------------
(***************************************************************************)
(* For any number of callers and services: the registry of ServiceModule   *)
(* is well typed, a service id has one owner at a time, no service runs    *)
(* beyond the reach of the registry, and an id is ticked on request of its *)
(* present owner only.  The first invariant carries the others: since the  *)
(* id of a service that is being booted belongs to nobody else, its        *)
(* registration replaces nothing.  For a single caller the two maps agree  *)
(* between calls; AgreeInv says what is left of that in the middle of one. *)
(* The registry implements ServiceRegistry: the stages of a service's life *)
(* follow from the same invariant, and so does that each caller recycles   *)
(* no id but the one it alone holds.                                       *)
(***************************************************************************)
EXTENDS ServiceModule, TLAPS

WithName == {"bootAllocate", "bootInitial", "bootName", "bootStart",
             "bootRegister", "nameErase", "findSid"}
WithSid == {"bootInitial", "bootName", "bootStart", "bootRegister", "sidErase",
            "eraseOwnName", "eraseById", "eraseTicker", "recycle", "findAgent"}
WithAgent == {"bootInitial", "bootName", "bootStart", "bootRegister",
              "eraseOwnName", "eraseTicker", "recycle", "stopAgent"}

\* What a caller works on is known at each of its labels.
TargetsKnown ==
    \A t \in Callers :
        /\ pc[t] \in WithName => target[t].name \in Names
        /\ pc[t] \in WithSid => target[t].sid \in Sids
        /\ pc[t] \in WithAgent => target[t].agent \in 1 .. created

\* Owners of an id work on, or register, the agent that was given the id.
SidsMatch ==
    /\ \A t \in Holders : agents[target[t].agent].sid = target[t].sid
    /\ \A s \in Sids :
        mServiceMap[s] # None => agents[mServiceMap[s]].sid = s

\* The state of the module follows the main thread.
StateOfMain ==
    /\ main = "initial" => mState = "CREATED"
    /\ main = "start" => mState = "INITIALIZED"
    /\ main = "run" => mState = "RUNNING"
    /\ main \in {"stopAgents", "stopPool", "clear", "stopped"}
        => mState = "STOPPED"

\* Nothing is ticked before the module is RUNNING.
NoEarlyTicker == mState \in {"CREATED", "INITIALIZED"} => mTickerSet = {}

IInv ==
    /\ TypeOK
    /\ TargetsKnown
    /\ SidsMatch
    /\ SidOwnedOnce
    /\ StateOfMain
    /\ NoEarlyTicker
    /\ NoOrphanService
    /\ TicksOnlyOnRequest

----------------------------------------------------------------------------
\* Constructing an agent adds one with the given id and leaves the others.
LEMMA NewAgentAdds ==
    ASSUME TypeOK, NEW sid \in Sids, NEW name \in Names, NEW isOpen \in BOOLEAN,
           NewAgent(sid, name, isOpen)
    PROVE  /\ created' = created + 1 /\ created' \in 0 .. MaxAgents
           /\ agents' \in [1 .. created' -> [sid : Sids, name : Names,
                                             phase : Phases, open : BOOLEAN]]
           /\ \A b \in 1 .. created : agents'[b] = agents[b]
           /\ agents'[created + 1] = [sid |-> sid, name |-> name,
                                      phase |-> "created", open |-> isOpen]
<1> DEFINE A == [sid : Sids, name : Names, phase : Phases, open : BOOLEAN]
           new == [sid |-> sid, name |-> name, phase |-> "created", open |-> isOpen]
<1>1. /\ created \in Nat /\ created + 1 \in 0 .. MaxAgents
      /\ agents \in [1 .. created -> A]
  BY MaxAgentsAssumption DEF NewAgent, TypeOK
<1>3. new \in A
  BY DEF Phases
<1>4. agents' = Append(agents, new) /\ created' = created + 1
  BY DEF NewAgent
<1> HIDE DEF A, new
<1>2. agents \in Seq(A) /\ Len(agents) = created
  BY <1>1
<1>5. /\ agents' \in Seq(A) /\ Len(agents') = created + 1
      /\ \A b \in 1 .. created : agents'[b] = agents[b]
      /\ agents'[created + 1] = new
  BY <1>1, <1>2, <1>3, <1>4
<1>6. agents' \in [1 .. created + 1 -> A]
  BY <1>5
<1> QED BY <1>1, <1>4, <1>5, <1>6 DEF A, new

\* A change of one field of an agent other than its id.
LEMMA AgentChanges ==
    ASSUME TypeOK, NEW a \in 1 .. created,
           ServeAgent(a) \/ RefuseAgent(a) \/ StopAgent(a)
    PROVE  /\ agents' \in [1 .. created -> [sid : Sids, name : Names,
                                            phase : Phases, open : BOOLEAN]]
           /\ \A b \in 1 .. created : agents'[b].sid = agents[b].sid
                                      /\ agents'[b].name = agents[b].name
           /\ \A b \in 1 .. created : b # a => agents'[b] = agents[b]
<1> DEFINE A == [sid : Sids, name : Names, phase : Phases, open : BOOLEAN]
<1>1. agents \in [1 .. created -> A] /\ agents[a] \in A
  BY DEF TypeOK
<1>2. PICK r \in A : /\ agents' = [agents EXCEPT ![a] = r]
                      /\ r.sid = agents[a].sid /\ r.name = agents[a].name
  <2>1. CASE ServeAgent(a)
    <3> DEFINE r == [agents[a] EXCEPT !.phase = "serving"]
    <3>1. r \in A /\ r.sid = agents[a].sid /\ r.name = agents[a].name
      BY <1>1 DEF Phases
    <3>2. agents' = [agents EXCEPT ![a] = r]
      BY <2>1 DEF ServeAgent
    <3> QED BY <3>1, <3>2
  <2>2. CASE RefuseAgent(a)
    <3> DEFINE r == [agents[a] EXCEPT !.phase = "refused"]
    <3>1. r \in A /\ r.sid = agents[a].sid /\ r.name = agents[a].name
      BY <1>1 DEF Phases
    <3>2. agents' = [agents EXCEPT ![a] = r]
      BY <2>2 DEF RefuseAgent
    <3> QED BY <3>1, <3>2
  <2>3. CASE StopAgent(a)
    <3> DEFINE r == [agents[a] EXCEPT !.open = FALSE]
    <3>1. r \in A /\ r.sid = agents[a].sid /\ r.name = agents[a].name
      BY <1>1 DEF Phases
    <3>2. agents' = [agents EXCEPT ![a] = r]
      BY <2>3 DEF StopAgent
    <3> QED BY <3>1, <3>2
  <2> QED BY <2>1, <2>2, <2>3
<1> HIDE DEF A
<1>3. agents' \in [1 .. created -> A]
  BY <1>1, <1>2
<1>4. /\ \A b \in 1 .. created : b # a => agents'[b] = agents[b]
      /\ agents'[a] = r
  BY <1>1, <1>2
<1> QED BY <1>2, <1>3, <1>4 DEF A

----------------------------------------------------------------------------
\* Steps that touch nothing but the main thread, the pool, the loop or the
\* ticker ids that are dropped.
LEMMA MainKeeps ==
    ASSUME IInv, InitialDone \/ StartDone \/ StopBegin \/ StopPool \/ PoolAbort
                 \/ UpdateCheck \/ UpdateTick
    PROVE  IInv'
<1> USE DEF IInv, InitialDone, StartDone, StopBegin, StopPool, PoolAbort,
            UpdateCheck, UpdateTick, maps, allocator, callVars, mainVars
<1>1. TypeOK'
  BY DEF TypeOK
<1>2. TargetsKnown'
  BY DEF TargetsKnown
<1>3. SidsMatch' /\ SidOwnedOnce'
  BY DEF SidsMatch, SidOwnedOnce, Holders, Booting, Removing
<1>4. StateOfMain' /\ NoEarlyTicker'
  BY DEF StateOfMain, NoEarlyTicker, TypeOK
<1>5. NoOrphanService'
  BY DEF NoOrphanService, Handled, Registered, StateOfMain, TypeOK
<1>6. TicksOnlyOnRequest'
  <2>1. mTickerSet' \subseteq mTickerSet /\ UNCHANGED <<mServiceMap, agents,
                                                       created, pc, target>>
    OBVIOUS
  <2>2. mState' = "RUNNING" => mState = "RUNNING" \/ mTickerSet = {}
    BY DEF StateOfMain, NoEarlyTicker
  <2> QED BY ONLY <2>1, <2>2, IInv DEF TicksOnlyOnRequest, Registered, IInv
<1> QED BY <1>1, <1>2, <1>3, <1>4, <1>5, <1>6

LEMMA InitialCoreKeeps == IInv /\ InitialCore => IInv'
<1> SUFFICES ASSUME IInv, InitialCore PROVE IInv'
  OBVIOUS
<1>1. PICK sid \in Sids, ok \in BOOLEAN, name \in Names, joined \in BOOLEAN :
        /\ joined => ok
        /\ IsFree(sid)
        /\ Issue(sid)
        /\ mHashSet' = IF ok THEN mHashSet \ {sid} ELSE mHashSet \cup {sid}
        /\ NewAgent(sid, name, joined)
        /\ IF joined
           THEN /\ mServiceMap' = [mServiceMap EXCEPT ![sid] = created + 1]
                /\ mServiceNameMap' = [mServiceNameMap EXCEPT ![name] = sid]
           ELSE UNCHANGED maps
  <2>1. CoreNames[created + 1] \in Names
    BY NamesAssumption DEF InitialCore, IInv, TypeOK
  <2> QED BY <2>1 DEF InitialCore
<1>2. UNCHANGED <<mState, main, pool, loop, mTickerSet, pc, target>>
  BY DEF InitialCore, mainVars, callVars
<1>3. /\ created' = created + 1 /\ created' \in 0 .. MaxAgents
      /\ agents' \in [1 .. created' -> [sid : Sids, name : Names,
                                        phase : Phases, open : BOOLEAN]]
      /\ \A b \in 1 .. created : agents'[b] = agents[b]
      /\ agents'[created + 1] = [sid |-> sid, name |-> name,
                                 phase |-> "created", open |-> joined]
  BY <1>1, NewAgentAdds DEF IInv
<1>4. sid \notin 1 .. mNext \ mHashSet
      /\ mNext' \in 0 .. created' /\ mHashSet' \subseteq 1 .. mNext'
      /\ 1 .. mNext \ mHashSet \subseteq 1 .. mNext' \ mHashSet'
      /\ (ok => sid \in 1 .. mNext' \ mHashSet')
  <2>1. /\ created \in Nat /\ mNext \in 0 .. created
        /\ mHashSet \subseteq 1 .. mNext
    BY DEF IInv, TypeOK
  <2>2. CASE mHashSet = {}
    <3>1. sid = mNext + 1 /\ mNext' = sid
      BY <1>1, <2>2 DEF IsFree, Issue
    <3>2. mHashSet' = IF ok THEN {} ELSE {sid}
      BY <1>1, <2>2
    <3> QED BY <1>3, <2>1, <2>2, <3>1, <3>2
  <2>3. CASE mHashSet # {}
    <3>1. sid \in mHashSet /\ mNext' = mNext
      BY <1>1, <2>3 DEF IsFree, Issue
    <3>2. mHashSet' = IF ok THEN mHashSet \ {sid} ELSE mHashSet
      BY <1>1, <3>1
    <3>3. mHashSet' \subseteq 1 .. mNext' /\ (ok => sid \in 1 .. mNext' \ mHashSet')
      BY <2>1, <3>1, <3>2
    <3>4. 1 .. mNext \ mHashSet \subseteq 1 .. mNext' \ mHashSet'
      BY <3>1, <3>2
    <3> QED BY <1>3, <2>1, <3>1, <3>3, <3>4
  <2> QED BY <2>2, <2>3
<1>5. mServiceMap[sid] = None
  BY <1>4 DEF IInv, SidOwnedOnce
<1>6. TypeOK'
  <2>1. /\ mServiceMap' \in [Sids -> 0 .. created']
        /\ mServiceNameMap' \in [Names -> Sids \cup {None}]
    <3>1. CASE joined
      <4>1. created + 1 \in 0 .. created' /\ 0 .. created \subseteq 0 .. created'
        BY <1>3 DEF IInv, TypeOK
      <4> QED BY <1>1, <3>1, <4>1 DEF IInv, TypeOK
    <3>2. CASE ~joined
      BY <1>1, <1>3, <3>2 DEF IInv, TypeOK, maps
    <3> QED BY <3>1, <3>2
  <2>2. target' \in [Callers -> [sid : Sids \cup {None}, agent : 0 .. created',
                                 name : Names \cup {None}]]
    <3>1. 0 .. created \subseteq 0 .. created'
      BY <1>3 DEF IInv, TypeOK
    <3> QED BY <1>2, <3>1 DEF IInv, TypeOK
  <2> QED BY <1>2, <1>3, <1>4, <2>1, <2>2 DEF IInv, TypeOK
<1>7. TargetsKnown'
  BY <1>2, <1>3 DEF IInv, TypeOK, TargetsKnown
<1>8. SidsMatch'
  <2>1. \A t \in Holders : target[t].agent \in 1 .. created
    BY DEF IInv, TargetsKnown, WithAgent, Holders, Booting, Removing
  <2>2. Holders' = Holders
    BY <1>2 DEF Holders, Booting, Removing
  <2>3. \A t \in Holders' : agents'[target'[t].agent].sid = target'[t].sid
    BY <1>2, <1>3, <2>1, <2>2 DEF IInv, SidsMatch
  <2>4. ASSUME NEW s \in Sids, mServiceMap'[s] # None
        PROVE  agents'[mServiceMap'[s]].sid = s
    <3>1. CASE joined /\ s = sid
      BY <1>1, <1>3, <3>1 DEF IInv, TypeOK
    <3>2. CASE ~(joined /\ s = sid)
      <4>1. mServiceMap'[s] = mServiceMap[s]
        BY <1>1, <3>2 DEF maps, IInv, TypeOK
      <4>2. mServiceMap[s] \in 1 .. created
        BY <2>4, <4>1 DEF IInv, TypeOK, None
      <4> QED BY <1>3, <2>4, <4>1, <4>2 DEF IInv, SidsMatch
    <3> QED BY <3>1, <3>2
  <2> QED BY <2>3, <2>4 DEF SidsMatch
<1>9. SidOwnedOnce'
  <2>1. \A t \in Holders : target[t].sid # sid
    BY <1>4 DEF IInv, SidOwnedOnce
  <2>2. Holders' = Holders
    BY <1>2 DEF Holders, Booting, Removing
  <2>3. \A s \in Sids : s # sid => mServiceMap'[s] = mServiceMap[s]
    BY <1>1 DEF IInv, TypeOK, maps
  <2>4. mServiceMap'[sid] # None => sid \in 1 .. mNext' \ mHashSet'
    BY <1>1, <1>4, <1>5 DEF maps
  <2>5. \A t \in Holders : target[t].sid \in Sids
    BY DEF IInv, TargetsKnown, WithSid, Holders, Booting, Removing
  <2> QED BY <1>2, <1>4, <2>1, <2>2, <2>3, <2>4, <2>5 DEF IInv, SidOwnedOnce
<1>10. StateOfMain' /\ NoEarlyTicker'
  BY <1>2 DEF IInv, StateOfMain, NoEarlyTicker
<1>11. NoOrphanService'
  <2> SUFFICES ASSUME NEW a \in 1 .. created',
                      agents'[a].phase = "serving", agents'[a].open
               PROVE  Registered(a)' \/ a \in Handled'
    BY DEF NoOrphanService
  <2>1. a \in 1 .. created /\ agents'[a] = agents[a]
    BY <1>3 DEF IInv, TypeOK
  <2>2. Registered(a) \/ a \in Handled
    BY <1>2, <2>1 DEF IInv, NoOrphanService, InitialCore, StateOfMain
  <2>3. agents[a].sid # sid \/ a \in Handled
    BY <1>5, <2>1, <2>2 DEF Registered, None
  <2>4. Handled' = Handled
    BY <1>2 DEF Handled
  <2> QED BY <1>1, <2>1, <2>2, <2>3, <2>4 DEF Registered, IInv, TypeOK, maps
<1>12. TicksOnlyOnRequest'
  BY <1>2 DEF InitialCore, IInv, StateOfMain, TicksOnlyOnRequest
<1> QED BY <1>6, <1>7, <1>8, <1>9, <1>10, <1>11, <1>12 DEF IInv

----------------------------------------------------------------------------
\* A step of caller t that changes nothing but where t is and what it works
\* on, between labels at which it owns nothing and has removed nothing.
LEMMA LookupKeeps ==
    ASSUME IInv, NEW t \in Callers, NEW label \in Labels,
           NEW what \in [sid : Sids \cup {None}, agent : 0 .. created,
                         name : Names \cup {None}],
           pc' = [pc EXCEPT ![t] = label], target' = [target EXCEPT ![t] = what],
           UNCHANGED <<mainVars, loop, maps, mTickerSet, allocator, created,
                       agents>>,
           pc[t] \notin {"bootRegister", "eraseOwnName", "eraseTicker",
                         "recycle", "stopAgent"},
           label \notin WithAgent,
           label \in WithName => what.name \in Names,
           label \in WithSid => what.sid \in Sids
    PROVE  IInv'
<1> USE DEF mainVars, maps, allocator
<1>1. TypeOK'
  BY DEF IInv, TypeOK
<1>2. \A u \in Callers : u # t => pc'[u] = pc[u] /\ target'[u] = target[u]
  BY DEF IInv, TypeOK
<1>3. pc'[t] = label /\ target'[t] = what
  BY DEF IInv, TypeOK
<1>4. TargetsKnown'
  BY <1>2, <1>3 DEF IInv, TargetsKnown
<1>5. Holders' \subseteq Holders /\ t \notin Holders'
  BY <1>2, <1>3 DEF Holders, Booting, Removing, WithAgent
<1>6. SidsMatch' /\ SidOwnedOnce'
  BY <1>2, <1>5 DEF IInv, SidsMatch, SidOwnedOnce, Holders, Booting, Removing
<1>7. StateOfMain' /\ NoEarlyTicker'
  BY DEF IInv, StateOfMain, NoEarlyTicker
<1>8. Handled \subseteq Handled'
  BY <1>2 DEF Handled
<1>9. NoOrphanService'
  BY <1>8 DEF IInv, NoOrphanService, Registered
<1>10. TicksOnlyOnRequest'
  BY <1>2 DEF IInv, TicksOnlyOnRequest, Registered
<1> QED BY <1>1, <1>4, <1>6, <1>7, <1>9, <1>10 DEF IInv

LEMMA CallsKeep ==
    ASSUME IInv, NEW t \in Callers,
           BootCall(t) \/ ShutdownCall(t) \/ FindCall(t) \/ Find(t)
    PROVE  IInv'
<1> DEFINE T == [sid : Sids \cup {None}, agent : 0 .. created,
                 name : Names \cup {None}]
<1>0. NoTarget \in T /\ target[t] \in T
  BY DEF NoTarget, None, IInv, TypeOK
<1>1. CASE BootCall(t)
  <2>1. PICK n \in Names : Call(t, "bootAllocate", [NoTarget EXCEPT !.name = n])
    BY <1>1 DEF BootCall
  <2>2. [NoTarget EXCEPT !.name = n] \in T /\ [NoTarget EXCEPT !.name = n].name = n
    BY <1>0 DEF NoTarget
  <2> QED BY <2>1, <2>2, LookupKeeps DEF Call, Goto, Labels, WithSid, WithAgent
<1>2. CASE ShutdownCall(t)
  <2>1. CASE \E s \in Sids : Call(t, "sidErase", [NoTarget EXCEPT !.sid = s])
    <3>1. PICK s \in Sids : Call(t, "sidErase", [NoTarget EXCEPT !.sid = s])
      BY <2>1
    <3>2. [NoTarget EXCEPT !.sid = s] \in T /\ [NoTarget EXCEPT !.sid = s].sid = s
      BY <1>0 DEF NoTarget
    <3> QED BY <3>1, <3>2, LookupKeeps
            DEF Call, Goto, Labels, WithName, WithAgent
  <2>2. CASE \E n \in Names : Call(t, "nameErase", [NoTarget EXCEPT !.name = n])
    <3>1. PICK n \in Names : Call(t, "nameErase", [NoTarget EXCEPT !.name = n])
      BY <2>2
    <3>2. [NoTarget EXCEPT !.name = n] \in T /\ [NoTarget EXCEPT !.name = n].name = n
      BY <1>0 DEF NoTarget
    <3> QED BY <3>1, <3>2, LookupKeeps DEF Call, Goto, Labels, WithSid, WithAgent
  <2> QED BY <1>2, <2>1, <2>2 DEF ShutdownCall
<1>3. CASE FindCall(t)
  <2>1. PICK n \in Names : Call(t, "findSid", [NoTarget EXCEPT !.name = n])
    BY <1>3 DEF FindCall
  <2>2. [NoTarget EXCEPT !.name = n] \in T /\ [NoTarget EXCEPT !.name = n].name = n
    BY <1>0 DEF NoTarget
  <2> QED BY <2>1, <2>2, LookupKeeps DEF Call, Goto, Labels, WithSid, WithAgent
<1>4. ASSUME Return(t), pc[t] \in {"findSid", "findAgent", "found"},
             UNCHANGED <<mainVars, loop, maps, mTickerSet, allocator, created,
                         agents>>
      PROVE  IInv'
  BY <1>0, <1>4, LookupKeeps
     DEF Return, Goto, Labels, WithName, WithSid, WithAgent
<1>5. CASE FindSid(t)
  <2>1. CASE mServiceNameMap[target[t].name] = None
    BY <1>4, <1>5, <2>1 DEF FindSid
  <2>2. CASE mServiceNameMap[target[t].name] # None
    <3> DEFINE s    == mServiceNameMap[target[t].name]
               what == [target[t] EXCEPT !.sid = s]
    <3>1. target[t].name \in Names
      BY <1>5 DEF FindSid, IInv, TargetsKnown, WithName
    <3>2. s \in Sids
      BY <2>2, <3>1 DEF IInv, TypeOK
    <3>3. what \in T /\ what.sid = s
      BY <1>0, <3>2
    <3>4. target' = [target EXCEPT ![t] = what] /\ Goto(t, "findAgent")
      BY <1>5, <2>2 DEF FindSid
    <3> HIDE DEF what, s
    <3> QED BY <1>5, <3>2, <3>3, <3>4, LookupKeeps, ZenonT(60)
            DEF FindSid, Goto, Labels, WithName, WithAgent
  <2> QED BY <2>1, <2>2
<1>6. CASE FindAgent(t)
  <2>1. CASE mState = "RUNNING" /\ mServiceMap[target[t].sid] # None
    <3> DEFINE a    == mServiceMap[target[t].sid]
               what == [target[t] EXCEPT !.agent = a]
    <3>1. a \in 0 .. created
      BY <1>6 DEF FindAgent, IInv, TargetsKnown, WithSid, TypeOK
    <3>2. what \in T
      BY <1>0, <3>1
    <3>3. target' = [target EXCEPT ![t] = what] /\ Goto(t, "found")
      BY <1>6, <2>1 DEF FindAgent
    <3> HIDE DEF what, a
    <3> QED BY <1>6, <3>2, <3>3, LookupKeeps, ZenonT(60)
            DEF FindAgent, Goto, Labels, WithName, WithSid, WithAgent
  <2>2. CASE ~(mState = "RUNNING" /\ mServiceMap[target[t].sid] # None)
    BY <1>4, <1>6, <2>2 DEF FindAgent
  <2> QED BY <2>1, <2>2
<1>7. CASE FindReturn(t)
  BY <1>4, <1>7 DEF FindReturn
<1> QED BY <1>1, <1>2, <1>3, <1>5, <1>6, <1>7 DEF Find

----------------------------------------------------------------------------
\* BootService.
LEMMA BootAllocateKeeps ==
    ASSUME IInv, NEW t \in Callers, BootAllocate(t)
    PROVE  IInv'
<1>0. pc[t] = "bootAllocate" /\ target[t].name \in Names
      /\ target[t] \in [sid : Sids \cup {None}, agent : 0 .. created,
                        name : Names \cup {None}]
  BY DEF BootAllocate, IInv, TargetsKnown, WithName, TypeOK
<1>1. CASE Return(t) /\ UNCHANGED <<allocator, created, agents>>
  <2>1. NoTarget \in [sid : Sids \cup {None}, agent : 0 .. created,
                      name : Names \cup {None}]
    BY DEF NoTarget, None, IInv, TypeOK
  <2> QED BY <1>0, <1>1, <2>1, LookupKeeps
          DEF BootAllocate, Return, Goto, Labels, WithName, WithSid, WithAgent
<1>2. CASE \E sid \in Sids :
            /\ Allocate(sid)
            /\ NewAgent(sid, target[t].name, TRUE)
            /\ target' = [target EXCEPT ![t].sid = sid, ![t].agent = created + 1]
            /\ Goto(t, "bootInitial")
  <2>1. PICK sid \in Sids :
            /\ Allocate(sid)
            /\ NewAgent(sid, target[t].name, TRUE)
            /\ target' = [target EXCEPT ![t].sid = sid, ![t].agent = created + 1]
            /\ Goto(t, "bootInitial")
    BY <1>2
  <2>2. UNCHANGED <<mState, main, pool, loop, mServiceMap, mServiceNameMap,
                    mTickerSet>>
    BY DEF BootAllocate, mainVars, maps
  <2>3. /\ created' = created + 1 /\ created' \in 0 .. MaxAgents
        /\ agents' \in [1 .. created' -> [sid : Sids, name : Names,
                                          phase : Phases, open : BOOLEAN]]
        /\ \A b \in 1 .. created : agents'[b] = agents[b]
        /\ agents'[created + 1] = [sid |-> sid, name |-> target[t].name,
                                   phase |-> "created", open |-> TRUE]
    BY <1>0, <2>1, NewAgentAdds DEF IInv
  <2>4. created \in Nat /\ 0 .. created \subseteq 0 .. created'
        /\ created' \in 1 .. created'
    BY <2>3 DEF IInv, TypeOK
  <2>5. /\ sid \notin 1 .. mNext \ mHashSet
        /\ mNext' \in 0 .. created' /\ mHashSet' \subseteq 1 .. mNext'
        /\ 1 .. mNext \ mHashSet \subseteq 1 .. mNext' \ mHashSet'
        /\ sid \in 1 .. mNext' \ mHashSet'
    <3>1. mNext \in 0 .. created /\ mHashSet \subseteq 1 .. mNext
      BY DEF IInv, TypeOK
    <3>2. CASE mHashSet = {}
      <4>1. sid = mNext + 1 /\ mNext' = sid /\ mHashSet' = {}
        BY <2>1, <3>2 DEF Allocate, IsFree, Issue
      <4> QED BY <2>3, <2>4, <3>1, <3>2, <4>1
    <3>3. CASE mHashSet # {}
      <4>1. sid \in mHashSet /\ mNext' = mNext /\ mHashSet' = mHashSet \ {sid}
        BY <2>1, <3>3 DEF Allocate, IsFree, Issue
      <4>2. sid \in 1 .. mNext' \ mHashSet' /\ mHashSet' \subseteq 1 .. mNext'
        BY <3>1, <4>1
      <4>3. 1 .. mNext \ mHashSet \subseteq 1 .. mNext' \ mHashSet'
        BY <4>1
      <4> QED BY <2>3, <2>4, <3>1, <4>1, <4>2, <4>3
    <3> QED BY <3>2, <3>3
  <2>6. /\ pc' = [pc EXCEPT ![t] = "bootInitial"] /\ pc'[t] = "bootInitial"
        /\ target'[t] = [sid |-> sid, agent |-> created + 1,
                         name |-> target[t].name]
        /\ \A u \in Callers : u # t => pc'[u] = pc[u] /\ target'[u] = target[u]
    <3>1. target' = [target EXCEPT ![t] = [[@ EXCEPT !.sid = sid]
                                             EXCEPT !.agent = created + 1]]
      BY <2>1
    <3> QED BY <1>0, <2>1, <3>1 DEF Goto, IInv, TypeOK
  <2>7. target' \in [Callers -> [sid : Sids \cup {None}, agent : 0 .. created',
                                 name : Names \cup {None}]]
    <3> DEFINE T == [sid : Sids \cup {None}, agent : 0 .. created',
                     name : Names \cup {None}]
    <3>1. target \in [Callers -> T]
      BY <2>4 DEF IInv, TypeOK
    <3>2. target'[t] \in T
      BY <1>0, <2>4, <2>6, <2>3
    <3>3. target' = [target EXCEPT ![t] = target'[t]]
      BY <2>1, <3>1
    <3> HIDE DEF T
    <3>4. target' \in [Callers -> T]
      BY <3>1, <3>2, <3>3
    <3> QED BY <3>4 DEF T
  <2>8. TypeOK'
    <3>1. mServiceMap' \in [Sids -> 0 .. created']
      BY <2>2, <2>4 DEF IInv, TypeOK
    <3> QED BY <2>2, <2>3, <2>5, <2>6, <2>7, <3>1 DEF IInv, TypeOK, Labels
  <2>9. TargetsKnown'
    BY <1>0, <2>3, <2>4, <2>6
       DEF IInv, TypeOK, TargetsKnown, WithName, WithSid, WithAgent
  <2>10. Holders' = Holders \cup {t} /\ t \notin Holders
    BY <1>0, <2>6 DEF Holders, Booting, Removing, IInv, TypeOK
  <2>11. \A u \in Holders : /\ target[u].agent \in 1 .. created
                            /\ target[u].sid \in Sids /\ target[u].sid # sid
    BY <2>5 DEF IInv, SidOwnedOnce, TargetsKnown, WithSid, WithAgent, Holders,
                Booting, Removing
  <2>12. SidsMatch'
    <3>1. \A u \in Holders' : agents'[target'[u].agent].sid = target'[u].sid
      BY <2>3, <2>6, <2>10, <2>11 DEF IInv, SidsMatch, Holders, Booting, Removing
    <3>2. \A s \in Sids : mServiceMap[s] # None => mServiceMap[s] \in 1 .. created
      BY DEF IInv, TypeOK, None
    <3> QED BY <2>2, <2>3, <3>1, <3>2 DEF IInv, SidsMatch
  <2>13. SidOwnedOnce'
    BY <2>2, <2>5, <2>6, <2>10, <2>11
       DEF IInv, SidOwnedOnce, Holders, Booting, Removing
  <2>14. StateOfMain' /\ NoEarlyTicker'
    BY <2>2 DEF IInv, StateOfMain, NoEarlyTicker
  <2>15. Handled' = Handled
    <3> DEFINE L == {"bootRegister", "eraseOwnName", "eraseTicker", "recycle",
                     "stopAgent"}
    <3>1. \A u \in Callers : /\ pc'[u] \in L <=> pc[u] \in L
                             /\ pc[u] \in L => target'[u] = target[u]
      BY <1>0, <2>6
    <3> QED BY <3>1 DEF Handled
  <2>16. NoOrphanService'
    BY <2>2, <2>3, <2>15 DEF IInv, TypeOK, NoOrphanService, Registered
  <2>17. TicksOnlyOnRequest'
    <3> SUFFICES ASSUME mState = "RUNNING", NEW s \in mTickerSet
                 PROVE  \E a \in 1 .. created' :
                            /\ agents'[a].sid = s
                            /\ agents'[a].name \in UpdatingNames
                            /\ \/ Registered(a)'
                               \/ \E u \in Callers :
                                    /\ target'[u].agent = a
                                    /\ pc'[u] \in {"bootRegister",
                                            "eraseOwnName", "eraseTicker"}
      BY <2>2 DEF TicksOnlyOnRequest
    <3>1. PICK a \in 1 .. created :
            /\ agents[a].sid = s
            /\ agents[a].name \in UpdatingNames
            /\ \/ Registered(a)
               \/ \E u \in Callers :
                    /\ target[u].agent = a
                    /\ pc[u] \in {"bootRegister", "eraseOwnName", "eraseTicker"}
      BY DEF IInv, TicksOnlyOnRequest
    <3>2. a \in 1 .. created' /\ agents'[a] = agents[a]
      BY <2>3, <2>4
    <3>3. Registered(a) => Registered(a)'
      BY <2>2, <3>2 DEF Registered
    <3> QED BY <1>0, <2>6, <3>1, <3>2, <3>3
  <2> QED BY <2>8, <2>9, <2>12, <2>13, <2>14, <2>16, <2>17 DEF IInv
<1> QED BY <1>1, <1>2 DEF BootAllocate

\* From one label of BootService to the next: nothing else happens.
LEMMA BootAdvances ==
    ASSUME IInv, NEW t \in Callers,
           \/ pc[t] = "bootInitial" /\ Goto(t, "bootName")
           \/ pc[t] = "bootName" /\ Goto(t, "bootStart"),
           UNCHANGED <<mainVars, loop, maps, mTickerSet, allocator, created,
                       agents, target>>
    PROVE  IInv'
<1> USE DEF mainVars, maps, allocator
<1>1. /\ \A u \in Callers : u # t => pc'[u] = pc[u]
      /\ pc[t] \in {"bootInitial", "bootName"}
      /\ pc'[t] \in {"bootName", "bootStart"}
  BY DEF IInv, TypeOK, Goto
<1>2. TypeOK'
  BY DEF IInv, TypeOK, Goto, Labels
<1>3. TargetsKnown'
  BY <1>1 DEF IInv, TargetsKnown, WithName, WithSid, WithAgent
<1>4. Holders' = Holders
  BY <1>1 DEF Holders, Booting, Removing
<1>5. SidsMatch' /\ SidOwnedOnce'
  BY <1>4 DEF IInv, SidsMatch, SidOwnedOnce
<1>6. StateOfMain' /\ NoEarlyTicker'
  BY DEF IInv, StateOfMain, NoEarlyTicker
<1>7. Handled' = Handled
  BY <1>1 DEF Handled
<1>8. NoOrphanService'
  BY <1>7 DEF IInv, NoOrphanService, Registered
<1>9. TicksOnlyOnRequest'
  BY <1>1 DEF IInv, TicksOnlyOnRequest, Registered
<1> QED BY <1>2, <1>3, <1>5, <1>6, <1>8, <1>9 DEF IInv

LEMMA BootFailKeeps ==
    ASSUME IInv, NEW t \in Callers,
           pc[t] \in {"bootInitial", "bootName", "bootStart"}, BootFail(t),
           UNCHANGED <<mainVars, loop, maps, mTickerSet, created>>
    PROVE  IInv'
<1> USE DEF mainVars, maps
<1> DEFINE a   == target[t].agent
           sid == target[t].sid
<1>1. a \in 1 .. created /\ sid \in Sids /\ t \in Holders
  BY DEF IInv, TargetsKnown, WithAgent, WithSid, Holders, Booting
<1>2. /\ agents' \in [1 .. created -> [sid : Sids, name : Names,
                                       phase : Phases, open : BOOLEAN]]
      /\ \A b \in 1 .. created : agents'[b].sid = agents[b].sid
                                 /\ agents'[b].name = agents[b].name
      /\ \A b \in 1 .. created : b # a => agents'[b] = agents[b]
      /\ agents'[a].open = FALSE
  <2>1. StopAgent(a)
    BY DEF BootFail
  <2>2. agents'[a].open = FALSE
    BY <1>1, <2>1 DEF StopAgent, IInv, TypeOK
  <2> HIDE DEF a
  <2> QED BY <1>1, <2>1, <2>2, AgentChanges DEF IInv
<1>3. /\ mHashSet' = mHashSet \cup {sid} /\ mNext' = mNext
      /\ sid \in 1 .. mNext /\ mHashSet' \subseteq 1 .. mNext
  BY <1>1 DEF BootFail, Recycle, IInv, TypeOK, SidOwnedOnce
<1>4. /\ pc' = [pc EXCEPT ![t] = "idle"]
      /\ target' = [target EXCEPT ![t] = NoTarget]
      /\ \A u \in Callers : u # t => pc'[u] = pc[u] /\ target'[u] = target[u]
      /\ pc'[t] = "idle"
  BY DEF BootFail, Return, Goto, IInv, TypeOK
<1>5. NoTarget \in [sid : Sids \cup {None}, agent : 0 .. created,
                    name : Names \cup {None}]
  BY DEF NoTarget, None, IInv, TypeOK
<1> HIDE DEF a, sid
<1>6. TypeOK'
  <2>1. target' \in [Callers -> [sid : Sids \cup {None}, agent : 0 .. created,
                                 name : Names \cup {None}]]
    BY <1>4, <1>5 DEF IInv, TypeOK
  <2> QED BY <1>2, <1>3, <1>4, <2>1 DEF IInv, TypeOK, Labels
<1>7. TargetsKnown'
  BY <1>4 DEF IInv, TargetsKnown, WithName, WithSid, WithAgent
<1>8. Holders' = Holders \ {t}
  BY <1>4 DEF Holders, Booting, Removing
<1>9. SidsMatch'
  <2>1. \A u \in Holders : target[u].agent \in 1 .. created
    BY DEF IInv, TargetsKnown, WithAgent, Holders, Booting, Removing
  <2>2. \A s \in Sids : mServiceMap[s] # None => mServiceMap[s] \in 1 .. created
    BY DEF IInv, TypeOK, None
  <2> QED BY <1>2, <1>4, <1>8, <2>1, <2>2
          DEF IInv, SidsMatch, Holders, Booting, Removing
<1>10. SidOwnedOnce'
  <2>1. \A u \in Holders \ {t} : target[u].sid # sid
    BY <1>1 DEF IInv, SidOwnedOnce, sid
  <2>2. mServiceMap[sid] = None
    BY <1>1 DEF IInv, SidOwnedOnce, sid
  <2> QED BY <1>3, <1>4, <1>8, <2>1, <2>2
          DEF IInv, SidOwnedOnce, Holders, Booting, Removing
<1>11. StateOfMain' /\ NoEarlyTicker'
  BY DEF IInv, StateOfMain, NoEarlyTicker
<1>12. Handled' = Handled
  BY <1>4 DEF Handled
<1>13. NoOrphanService'
  BY <1>2, <1>12 DEF IInv, NoOrphanService, Registered
<1>14. TicksOnlyOnRequest'
  BY <1>2, <1>4 DEF IInv, TicksOnlyOnRequest, Registered
<1> QED BY <1>6, <1>7, <1>9, <1>10, <1>11, <1>13, <1>14 DEF IInv

LEMMA BootStartKeeps ==
    ASSUME IInv, NEW t \in Callers, BootStart(t)
    PROVE  IInv'
<1> DEFINE a == target[t].agent
<1>0. pc[t] = "bootStart" /\ a \in 1 .. created /\ t \in Holders
  BY DEF BootStart, IInv, TargetsKnown, WithAgent, Holders, Booting
<1>1. CASE BootFail(t) /\ UNCHANGED mTickerSet
  BY <1>0, <1>1, BootFailKeeps DEF BootStart
<1>2. CASE ServeAgent(a) /\ InsertTicker(a) /\ Goto(t, "bootRegister")
           /\ UNCHANGED <<target, allocator>>
  <2>1. UNCHANGED <<mState, main, pool, loop, mServiceMap, mServiceNameMap,
                    mHashSet, mNext, created, target>>
    BY <1>2 DEF BootStart, mainVars, maps, allocator
  <2>2. /\ agents' \in [1 .. created -> [sid : Sids, name : Names,
                                         phase : Phases, open : BOOLEAN]]
        /\ \A b \in 1 .. created : agents'[b].sid = agents[b].sid
                                   /\ agents'[b].name = agents[b].name
        /\ \A b \in 1 .. created : b # a => agents'[b] = agents[b]
    <3> HIDE DEF a
    <3> QED BY <1>0, <1>2, AgentChanges DEF IInv
  <2>3. /\ \A u \in Callers : u # t => pc'[u] = pc[u]
        /\ pc'[t] = "bootRegister"
    BY <1>2 DEF IInv, TypeOK, Goto
  <2>4. /\ mTickerSet' \subseteq mTickerSet \cup {agents[a].sid}
        /\ mTickerSet' # mTickerSet => mState = "RUNNING"
                                       /\ agents[a].name \in UpdatingNames
        /\ agents[a].sid \in Sids
    BY <1>0, <1>2 DEF InsertTicker, IInv, TypeOK
  <2> HIDE DEF a
  <2>5. TypeOK'
    <3>1. mTickerSet' \subseteq Sids
      BY <2>4 DEF IInv, TypeOK
    <3>2. pc' \in [Callers -> Labels]
      BY <1>2 DEF IInv, TypeOK, Goto, Labels
    <3> QED BY <2>1, <2>2, <3>1, <3>2 DEF IInv, TypeOK
  <2>6. TargetsKnown'
    BY <1>0, <2>1, <2>3 DEF IInv, TargetsKnown, WithName, WithSid, WithAgent
  <2>7. Holders' = Holders
    BY <1>0, <2>3 DEF Holders, Booting, Removing
  <2>8. SidsMatch'
    <3>1. \A u \in Holders : target[u].agent \in 1 .. created
      BY DEF IInv, TargetsKnown, WithAgent, Holders, Booting, Removing
    <3>2. \A s \in Sids : mServiceMap[s] # None => mServiceMap[s] \in 1 .. created
      BY DEF IInv, TypeOK, None
    <3> QED BY <2>1, <2>2, <2>7, <3>1, <3>2 DEF IInv, SidsMatch
  <2>9. SidOwnedOnce'
    BY <2>1, <2>7 DEF IInv, SidOwnedOnce
  <2>10. StateOfMain' /\ NoEarlyTicker'
    BY <2>1, <2>4 DEF IInv, StateOfMain, NoEarlyTicker
  <2>11. Handled' = Handled \cup {a}
    BY <1>0, <2>1, <2>3 DEF Handled, a
  <2>12. NoOrphanService'
    BY <2>1, <2>2, <2>11 DEF IInv, NoOrphanService, Registered
  <2>13. TicksOnlyOnRequest'
    <3> SUFFICES ASSUME mState = "RUNNING", NEW s \in mTickerSet'
                 PROVE  \E b \in 1 .. created :
                            /\ agents'[b].sid = s
                            /\ agents'[b].name \in UpdatingNames
                            /\ \/ Registered(b)'
                               \/ \E u \in Callers :
                                    /\ target[u].agent = b
                                    /\ pc'[u] \in {"bootRegister",
                                            "eraseOwnName", "eraseTicker"}
      BY <2>1 DEF TicksOnlyOnRequest
    <3>1. CASE s \in mTickerSet
      <4>1. PICK b \in 1 .. created :
              /\ agents[b].sid = s
              /\ agents[b].name \in UpdatingNames
              /\ \/ Registered(b)
                 \/ \E u \in Callers :
                      /\ target[u].agent = b
                      /\ pc[u] \in {"bootRegister", "eraseOwnName", "eraseTicker"}
        BY <3>1 DEF IInv, TicksOnlyOnRequest
      <4>2. Registered(b) => Registered(b)'
        BY <2>1, <2>2 DEF Registered
      <4> QED BY <1>0, <2>2, <2>3, <4>1, <4>2
    <3>2. CASE s \notin mTickerSet
      <4>1. s = agents[a].sid /\ agents[a].name \in UpdatingNames
        BY <2>4, <3>2
      <4> QED BY <1>0, <2>2, <2>3, <4>1 DEF a
    <3> QED BY <3>1, <3>2
  <2> QED BY <2>5, <2>6, <2>8, <2>9, <2>10, <2>12, <2>13 DEF IInv
<1> QED BY <1>1, <1>2 DEF BootStart

LEMMA BootRegisterKeeps ==
    ASSUME IInv, NEW t \in Callers, BootRegister(t)
    PROVE  IInv'
<1> DEFINE a   == target[t].agent
           sid == target[t].sid
<1>0. /\ pc[t] = "bootRegister" /\ a \in 1 .. created /\ sid \in Sids
      /\ t \in Holders /\ agents[a].sid = sid /\ agents[a].name \in Names
      /\ mServiceMap[sid] = None
  BY DEF BootRegister, IInv, TypeOK, TargetsKnown, WithAgent, WithSid, Holders,
         Booting, SidsMatch, SidOwnedOnce
<1>1. UNCHANGED <<mState, main, pool, loop, mTickerSet, mHashSet, mNext,
                  created, agents>>
  BY DEF BootRegister, mainVars, allocator
<1>2. /\ mServiceMap' = [mServiceMap EXCEPT ![sid] = a]
      /\ mServiceNameMap' = [mServiceNameMap EXCEPT ![agents[a].name] = sid]
  BY <1>0 DEF BootRegister, Register
<1>3. /\ pc' = [pc EXCEPT ![t] = "idle"]
      /\ target' = [target EXCEPT ![t] = NoTarget]
      /\ \A u \in Callers : u # t => pc'[u] = pc[u] /\ target'[u] = target[u]
      /\ pc'[t] = "idle"
  BY DEF BootRegister, Return, Goto, IInv, TypeOK
<1>4. /\ mServiceMap' \in [Sids -> 0 .. created]
      /\ mServiceMap'[sid] = a
      /\ \A s \in Sids : s # sid => mServiceMap'[s] = mServiceMap[s]
  <2>1. a \in 0 .. created
    BY <1>0 DEF IInv, TypeOK
  <2> QED BY <1>0, <1>2, <2>1 DEF IInv, TypeOK
<1>5. Holders' = Holders \ {t}
  BY <1>3 DEF Holders, Booting, Removing
<1>6. TypeOK'
  <2>1. NoTarget \in [sid : Sids \cup {None}, agent : 0 .. created,
                      name : Names \cup {None}]
    BY DEF NoTarget, None, IInv, TypeOK
  <2>2. target' \in [Callers -> [sid : Sids \cup {None}, agent : 0 .. created,
                                 name : Names \cup {None}]]
    BY <1>3, <2>1 DEF IInv, TypeOK
  <2>3. mServiceNameMap' \in [Names -> Sids \cup {None}]
    BY <1>0, <1>2 DEF IInv, TypeOK
  <2>4. pc' \in [Callers -> Labels]
    BY <1>3 DEF IInv, TypeOK, Labels
  <2> QED BY <1>1, <1>4, <2>2, <2>3, <2>4 DEF IInv, TypeOK
<1>7. TargetsKnown'
  BY <1>1, <1>3 DEF IInv, TargetsKnown, WithName, WithSid, WithAgent
<1>8. SidsMatch'
  <2>1. \A u \in Holders' : agents'[target'[u].agent].sid = target'[u].sid
    BY <1>1, <1>3, <1>5 DEF IInv, SidsMatch, Holders, Booting, Removing
  <2>2. \A s \in Sids : mServiceMap'[s] # None => agents'[mServiceMap'[s]].sid = s
    BY <1>0, <1>1, <1>4 DEF IInv, SidsMatch
  <2> QED BY <2>1, <2>2 DEF SidsMatch
<1>9. SidOwnedOnce'
  <2>1. \A u \in Holders \ {t} : target[u].sid # sid /\ target[u].sid \in Sids
    BY <1>0 DEF IInv, SidOwnedOnce, TargetsKnown, WithSid, Holders, Booting,
                Removing
  <2>2. sid \in 1 .. mNext \ mHashSet
    BY <1>0 DEF IInv, SidOwnedOnce
  <2> HIDE DEF sid, a
  <2>3. \A s \in Sids : mServiceMap'[s] # None => s \in 1 .. mNext \ mHashSet
    BY <1>4, <2>2 DEF IInv, SidOwnedOnce
  <2>4. \A u \in Holders \ {t} : /\ mServiceMap'[target[u].sid] = None
                                 /\ target[u].sid \in 1 .. mNext \ mHashSet
    BY <1>4, <2>1 DEF IInv, SidOwnedOnce
  <2>5. \A u \in Holders \ {t} : target'[u] = target[u]
    BY <1>3 DEF Holders, Booting, Removing
  <2> QED BY <1>1, <1>5, <2>3, <2>4, <2>5 DEF IInv, SidOwnedOnce
<1>10. StateOfMain' /\ NoEarlyTicker'
  BY <1>1 DEF IInv, StateOfMain, NoEarlyTicker
<1>11. \A b \in 1 .. created : Registered(b) \/ b = a => Registered(b)'
  <2>1. \A b \in 1 .. created : agents[b].sid \in Sids /\ b # None
    BY DEF IInv, TypeOK, None
  <2> QED BY <1>0, <1>1, <1>4, <2>1 DEF Registered
<1>12. Handled \subseteq Handled' \cup {a}
  BY <1>3 DEF Handled
<1>13. NoOrphanService'
  BY <1>1, <1>11, <1>12 DEF IInv, NoOrphanService
<1>14. TicksOnlyOnRequest'
  BY <1>1, <1>3, <1>11 DEF IInv, TicksOnlyOnRequest
<1> QED BY <1>6, <1>7, <1>8, <1>9, <1>10, <1>13, <1>14 DEF IInv

----------------------------------------------------------------------------
\* ShutdownService.  A caller takes an agent out of mServiceMap, by id or by
\* name: from then on the id is its own.
LEMMA RemoveKeeps ==
    ASSUME IInv, NEW t \in Callers, NEW label \in {"eraseOwnName", "eraseTicker"},
           pc[t] \in {"sidErase", "eraseById"},
           NEW a, NEW what,
           a = mServiceMap[target[t].sid], a # None,
           what \in [sid : Sids \cup {None}, agent : 0 .. created,
                     name : Names \cup {None}],
           what.sid = target[t].sid, what.agent = a,
           mServiceMap' = [mServiceMap EXCEPT ![target[t].sid] = None],
           target' = [target EXCEPT ![t] = what],
           pc' = [pc EXCEPT ![t] = label],
           UNCHANGED <<mainVars, loop, mServiceNameMap, mTickerSet, allocator,
                       created, agents>>
    PROVE  IInv'
<1> DEFINE sid == target[t].sid
<1>0. /\ sid \in Sids /\ a \in 1 .. created /\ agents[a].sid = sid
      /\ t \notin Holders
  BY DEF IInv, TargetsKnown, WithSid, TypeOK, None, SidsMatch, Holders, Booting,
         Removing
<1>1. UNCHANGED <<mState, main, pool, loop, mServiceNameMap, mTickerSet,
                  mHashSet, mNext, created, agents>>
  BY DEF mainVars, allocator
<1>2. /\ \A u \in Callers : u # t => pc'[u] = pc[u] /\ target'[u] = target[u]
      /\ pc'[t] = label /\ target'[t] = what
  BY DEF IInv, TypeOK
<1>3. /\ mServiceMap' \in [Sids -> 0 .. created]
      /\ mServiceMap'[sid] = None
      /\ \A s \in Sids : s # sid => mServiceMap'[s] = mServiceMap[s]
  <2>1. None \in 0 .. created
    BY DEF None, IInv, TypeOK
  <2> QED BY <1>0, <2>1 DEF IInv, TypeOK
<1>4. Holders' = Holders \cup {t}
  BY <1>2 DEF Holders, Booting, Removing
<1>5. \A u \in Holders : target[u].sid \in Sids /\ target[u].sid # sid
  BY <1>0 DEF IInv, SidOwnedOnce, TargetsKnown, WithSid, Holders, Booting, Removing
<1> HIDE DEF sid
<1>6. TypeOK'
  <2>1. target' \in [Callers -> [sid : Sids \cup {None}, agent : 0 .. created,
                                 name : Names \cup {None}]]
    BY DEF IInv, TypeOK
  <2>2. pc' \in [Callers -> Labels]
    BY DEF IInv, TypeOK, Labels
  <2> QED BY <1>1, <1>3, <2>1, <2>2 DEF IInv, TypeOK
<1>7. TargetsKnown'
  BY <1>0, <1>1, <1>2 DEF sid, IInv, TargetsKnown, WithName, WithSid, WithAgent
<1>8. SidsMatch'
  <2>1. \A u \in Holders' : agents'[target'[u].agent].sid = target'[u].sid
    BY <1>0, <1>1, <1>2, <1>4 DEF sid, IInv, SidsMatch, Holders, Booting, Removing
  <2>2. \A s \in Sids : mServiceMap'[s] # None => agents'[mServiceMap'[s]].sid = s
    BY <1>1, <1>3 DEF IInv, SidsMatch
  <2> QED BY <2>1, <2>2 DEF SidsMatch
<1>9. SidOwnedOnce'
  <2>1. sid \in 1 .. mNext \ mHashSet
    BY <1>0 DEF sid, IInv, SidOwnedOnce
  <2>2. /\ target'[t].sid = sid
        /\ \A u \in Holders : target'[u] = target[u]
    BY <1>0, <1>2 DEF sid, Holders, Booting, Removing
  <2>3. \A u \in Holders' : /\ mServiceMap'[target'[u].sid] = None
                            /\ target'[u].sid \in 1 .. mNext \ mHashSet
    BY <1>3, <1>4, <1>5, <2>1, <2>2 DEF IInv, SidOwnedOnce
  <2>4. \A u, v \in Holders' : target'[u].sid = target'[v].sid => u = v
    BY <1>4, <1>5, <2>2 DEF IInv, SidOwnedOnce
  <2>5. \A s \in Sids : mServiceMap'[s] # None => s \in 1 .. mNext \ mHashSet
    BY <1>3 DEF IInv, SidOwnedOnce
  <2> QED BY <1>1, <2>3, <2>4, <2>5 DEF SidOwnedOnce
<1>10. StateOfMain' /\ NoEarlyTicker'
  BY <1>1 DEF IInv, StateOfMain, NoEarlyTicker
<1>11. \A b \in 1 .. created : Registered(b) => Registered(b)' \/ b = a
  <2>1. \A b \in 1 .. created : agents[b].sid \in Sids
    BY DEF IInv, TypeOK
  <2>2. \A b \in 1 .. created : Registered(b) /\ agents[b].sid = sid => b = a
    BY DEF Registered, sid
  <2> QED BY <1>1, <1>3, <2>1, <2>2 DEF Registered
<1>12. Handled \cup {a} \subseteq Handled'
  BY <1>2 DEF Handled
<1>13. NoOrphanService'
  BY <1>1, <1>11, <1>12 DEF IInv, NoOrphanService
<1>14. TicksOnlyOnRequest'
  BY <1>1, <1>2, <1>11 DEF IInv, TicksOnlyOnRequest
<1> QED BY <1>6, <1>7, <1>8, <1>9, <1>10, <1>13, <1>14 DEF IInv

LEMMA EraseKeeps ==
    ASSUME IInv, NEW t \in Callers, SidErase(t) \/ NameErase(t) \/ EraseById(t)
    PROVE  IInv'
<1> DEFINE T == [sid : Sids \cup {None}, agent : 0 .. created,
                 name : Names \cup {None}]
<1>0. NoTarget \in T /\ target[t] \in T
  BY DEF NoTarget, None, IInv, TypeOK
<1>1. ASSUME Return(t), pc[t] \in {"sidErase", "nameErase", "eraseById"},
             UNCHANGED <<mainVars, loop, maps, mTickerSet, allocator, created,
                         agents>>
      PROVE  IInv'
  BY <1>0, <1>1, LookupKeeps
     DEF Return, Goto, Labels, WithName, WithSid, WithAgent
<1> DEFINE a == mServiceMap[target[t].sid]
<1>2. pc[t] \in WithSid => a \in 0 .. created
  BY DEF IInv, TargetsKnown, TypeOK
<1>3. CASE SidErase(t)
  <2>1. CASE a = None
    BY <1>1, <1>3, <2>1 DEF SidErase, maps
  <2>2. CASE a # None
    <3> DEFINE what == [[target[t] EXCEPT !.agent = a]
                                   EXCEPT !.name = CurrentName(a)]
    <3>1. pc[t] = "sidErase" /\ a \in 1 .. created
      BY <1>2, <1>3, <2>2 DEF SidErase, WithSid, IInv, TypeOK, None
    <3>2. CurrentName(a) \in Names \cup {None}
      BY <3>1 DEF CurrentName, IInv, TypeOK
    <3>3. what \in T /\ what.sid = target[t].sid /\ what.agent = a
      BY <1>0, <1>2, <3>1, <3>2 DEF WithSid
    <3>4. target' = [target EXCEPT ![t] = what]
      BY <1>3, <2>2 DEF SidErase
    <3> HIDE DEF what
    <3>5. /\ mServiceMap' = [mServiceMap EXCEPT ![target[t].sid] = None]
          /\ pc' = [pc EXCEPT ![t] = "eraseOwnName"]
          /\ UNCHANGED <<mainVars, loop, mServiceNameMap, mTickerSet, allocator,
                         created, agents>>
      BY <1>3, <2>2 DEF SidErase, Goto
    <3> QED BY <2>2, <3>1, <3>3, <3>4, <3>5, RemoveKeeps
  <2> QED BY <2>1, <2>2
<1>4. CASE EraseById(t)
  <2>1. CASE a = None
    BY <1>1, <1>4, <2>1 DEF EraseById, maps
  <2>2. CASE a # None
    <3> DEFINE what == [target[t] EXCEPT !.agent = a]
    <3>1. pc[t] = "eraseById" /\ a \in 0 .. created
      BY <1>2, <1>4 DEF EraseById, WithSid
    <3>2. what \in T /\ what.sid = target[t].sid /\ what.agent = a
      BY <1>0, <3>1
    <3>3. target' = [target EXCEPT ![t] = what]
      BY <1>4, <2>2 DEF EraseById
    <3> HIDE DEF what
    <3>4. /\ mServiceMap' = [mServiceMap EXCEPT ![target[t].sid] = None]
          /\ pc' = [pc EXCEPT ![t] = "eraseTicker"]
          /\ UNCHANGED <<mainVars, loop, mServiceNameMap, mTickerSet, allocator,
                         created, agents>>
      BY <1>4, <2>2 DEF EraseById, Goto
    <3> QED BY <2>2, <3>1, <3>2, <3>3, <3>4, RemoveKeeps
  <2> QED BY <2>1, <2>2
<1>5. CASE NameErase(t)
  <2> DEFINE sid == mServiceNameMap[target[t].name]
  <2>1. CASE sid = None
    BY <1>1, <1>5, <2>1 DEF NameErase, maps
  <2>2. CASE sid # None
    <3> DEFINE what == [target[t] EXCEPT !.sid = sid]
    <3>1. pc[t] = "nameErase" /\ sid \in Sids
      BY <1>5, <2>2 DEF NameErase, IInv, TargetsKnown, WithName, TypeOK
    <3>2. what \in T /\ what.sid = sid
      BY <1>0, <3>1
    <3>3. /\ target' = [target EXCEPT ![t] = what]
          /\ pc' = [pc EXCEPT ![t] = "eraseById"]
          /\ mServiceNameMap' = [mServiceNameMap EXCEPT ![target[t].name] = None]
          /\ UNCHANGED <<mState, main, pool, loop, mServiceMap, mTickerSet,
                         mHashSet, mNext, created, agents>>
      BY <1>5, <2>2 DEF NameErase, Goto, mainVars, allocator
    <3> HIDE DEF what, sid
    <3>4. /\ \A u \in Callers : u # t => pc'[u] = pc[u] /\ target'[u] = target[u]
          /\ pc'[t] = "eraseById" /\ target'[t] = what
      BY <3>3 DEF IInv, TypeOK
    <3>5. TypeOK'
      <4>1. mServiceNameMap' \in [Names -> Sids \cup {None}]
        BY <3>3 DEF IInv, TypeOK
      <4>2. target' \in [Callers -> T]
        BY <3>2, <3>3 DEF IInv, TypeOK
      <4>3. pc' \in [Callers -> Labels]
        BY <3>3 DEF IInv, TypeOK, Labels
      <4> QED BY <3>3, <4>1, <4>2, <4>3 DEF IInv, TypeOK
    <3>6. TargetsKnown'
      BY <3>1, <3>2, <3>3, <3>4 DEF IInv, TargetsKnown, WithName, WithSid, WithAgent
    <3>7. Holders' = Holders /\ t \notin Holders
      BY <3>1, <3>4 DEF Holders, Booting, Removing
    <3>8. SidsMatch' /\ SidOwnedOnce'
      BY <3>3, <3>4, <3>7
         DEF IInv, SidsMatch, SidOwnedOnce, Holders, Booting, Removing
    <3>9. StateOfMain' /\ NoEarlyTicker'
      BY <3>3 DEF IInv, StateOfMain, NoEarlyTicker
    <3>10. Handled \subseteq Handled'
      BY <3>1, <3>4 DEF Handled
    <3>11. NoOrphanService'
      BY <3>3, <3>10 DEF IInv, NoOrphanService, Registered
    <3>12. TicksOnlyOnRequest'
      BY <3>1, <3>3, <3>4 DEF IInv, TicksOnlyOnRequest, Registered
    <3> QED BY <3>5, <3>6, <3>8, <3>9, <3>11, <3>12 DEF IInv
  <2> QED BY <2>1, <2>2
<1> QED BY <1>3, <1>4, <1>5

\* The caller erases the name, then the id from mTickerSet: nobody else works
\* on the id, so the ticks of others stay.
LEMMA ForgetKeeps ==
    ASSUME IInv, NEW t \in Callers, EraseOwnName(t) \/ EraseTicker(t)
    PROVE  IInv'
<1>0. /\ pc[t] \in {"eraseOwnName", "eraseTicker"}
      /\ pc'[t] \in {"eraseTicker", "recycle"}
      /\ pc' \in [Callers -> Labels]
      /\ \A u \in Callers : u # t => pc'[u] = pc[u]
  BY DEF EraseOwnName, EraseTicker, Goto, IInv, TypeOK, Labels
<1>1. /\ UNCHANGED <<mState, main, pool, loop, mServiceMap, mHashSet, mNext,
                     created, agents, target>>
      /\ mTickerSet' \subseteq mTickerSet
      /\ mServiceNameMap' \in [Names -> Sids \cup {None}]
  BY DEF EraseOwnName, EraseTicker, mainVars, allocator, maps, IInv, TypeOK
<1>2. TypeOK'
  BY <1>0, <1>1 DEF IInv, TypeOK
<1>3. TargetsKnown'
  BY <1>0, <1>1 DEF IInv, TargetsKnown, WithName, WithSid, WithAgent
<1>4. Holders' = Holders
  BY <1>0 DEF Holders, Booting, Removing
<1>5. SidsMatch' /\ SidOwnedOnce'
  BY <1>1, <1>4 DEF IInv, SidsMatch, SidOwnedOnce
<1>6. StateOfMain' /\ NoEarlyTicker'
  BY <1>1 DEF IInv, StateOfMain, NoEarlyTicker
<1>7. Handled' = Handled
  BY <1>0, <1>1 DEF Handled
<1>8. NoOrphanService'
  BY <1>1, <1>7 DEF IInv, NoOrphanService, Registered
<1>9. TicksOnlyOnRequest'
  <2>1. agents[target[t].agent].sid = target[t].sid
    BY <1>0 DEF IInv, SidsMatch, Holders, Removing
  <2>2. pc'[t] = "eraseTicker" \/ target[t].sid \notin mTickerSet'
    BY <1>0 DEF EraseOwnName, EraseTicker, Goto, IInv, TypeOK
  <2> SUFFICES ASSUME mState = "RUNNING", NEW s \in mTickerSet'
               PROVE  \E a \in 1 .. created :
                          /\ agents[a].sid = s
                          /\ agents[a].name \in UpdatingNames
                          /\ \/ Registered(a)
                             \/ \E u \in Callers :
                                  /\ target[u].agent = a
                                  /\ pc'[u] \in {"bootRegister", "eraseOwnName",
                                                 "eraseTicker"}
    BY <1>1 DEF TicksOnlyOnRequest, Registered
  <2>3. PICK a \in 1 .. created :
          /\ agents[a].sid = s
          /\ agents[a].name \in UpdatingNames
          /\ \/ Registered(a)
             \/ \E u \in Callers :
                  /\ target[u].agent = a
                  /\ pc[u] \in {"bootRegister", "eraseOwnName", "eraseTicker"}
    BY <1>1 DEF IInv, TicksOnlyOnRequest
  <2> QED BY <1>0, <2>1, <2>2, <2>3
<1> QED BY <1>2, <1>3, <1>5, <1>6, <1>8, <1>9 DEF IInv

LEMMA RecycleKeeps ==
    ASSUME IInv, NEW t \in Callers, RecycleSid(t)
    PROVE  IInv'
<1> DEFINE sid == target[t].sid
<1>0. /\ pc[t] = "recycle" /\ pc'[t] = "stopAgent" /\ sid \in Sids
      /\ pc' \in [Callers -> Labels] /\ t \in Holders
      /\ \A u \in Callers : u # t => pc'[u] = pc[u]
  BY DEF RecycleSid, Goto, IInv, TypeOK, Labels, TargetsKnown, WithSid, Holders,
         Removing
<1>1. UNCHANGED <<mState, main, pool, loop, mServiceMap, mServiceNameMap,
                  mTickerSet, created, agents, target>>
  BY DEF RecycleSid, mainVars, maps
<1>2. /\ mHashSet' = mHashSet \cup {sid} /\ mNext' = mNext
      /\ sid \in 1 .. mNext /\ mServiceMap[sid] = None
  BY <1>0 DEF RecycleSid, Recycle, IInv, SidOwnedOnce
<1>3. TypeOK'
  BY <1>0, <1>1, <1>2 DEF IInv, TypeOK
<1>4. TargetsKnown'
  BY <1>0, <1>1 DEF IInv, TargetsKnown, WithName, WithSid, WithAgent
<1>5. Holders' = Holders \ {t}
  BY <1>0 DEF Holders, Booting, Removing
<1>6. SidsMatch'
  BY <1>1, <1>5 DEF IInv, SidsMatch
<1>7. SidOwnedOnce'
  <2>1. \A u \in Holders \ {t} : target[u].sid # sid
    BY <1>0 DEF IInv, SidOwnedOnce
  <2> HIDE DEF sid
  <2> QED BY <1>1, <1>2, <1>5, <2>1 DEF IInv, SidOwnedOnce
<1>8. StateOfMain' /\ NoEarlyTicker'
  BY <1>1 DEF IInv, StateOfMain, NoEarlyTicker
<1>9. Handled' = Handled
  BY <1>0, <1>1 DEF Handled
<1>10. NoOrphanService'
  BY <1>1, <1>9 DEF IInv, NoOrphanService, Registered
<1>11. TicksOnlyOnRequest'
  BY <1>0, <1>1 DEF IInv, TicksOnlyOnRequest, Registered
<1> QED BY <1>3, <1>4, <1>6, <1>7, <1>8, <1>10, <1>11 DEF IInv

LEMMA ShutdownStopKeeps ==
    ASSUME IInv, NEW t \in Callers, ShutdownStop(t)
    PROVE  IInv'
<1> DEFINE a == target[t].agent
<1>0. /\ pc[t] = "stopAgent" /\ pc'[t] = "idle" /\ a \in 1 .. created
      /\ pc' \in [Callers -> Labels] /\ t \notin Holders
      /\ \A u \in Callers : u # t => pc'[u] = pc[u] /\ target'[u] = target[u]
      /\ target' = [target EXCEPT ![t] = NoTarget]
  BY DEF ShutdownStop, Return, Goto, IInv, TypeOK, Labels, TargetsKnown, WithAgent,
         Holders, Booting, Removing
<1>1. UNCHANGED <<mState, main, pool, loop, mServiceMap, mServiceNameMap,
                  mTickerSet, mHashSet, mNext, created>>
  BY DEF ShutdownStop, mainVars, maps, allocator
<1>2. /\ agents' \in [1 .. created -> [sid : Sids, name : Names,
                                       phase : Phases, open : BOOLEAN]]
      /\ \A b \in 1 .. created : agents'[b].sid = agents[b].sid
                                 /\ agents'[b].name = agents[b].name
      /\ \A b \in 1 .. created : b # a => agents'[b] = agents[b]
      /\ agents'[a].open = FALSE
  <2>1. StopAgent(a)
    BY DEF ShutdownStop
  <2>2. agents'[a].open = FALSE
    BY <1>0, <2>1 DEF StopAgent, IInv, TypeOK
  <2> HIDE DEF a
  <2> QED BY <1>0, <2>1, <2>2, AgentChanges DEF IInv
<1>3. TypeOK'
  <2>1. NoTarget \in [sid : Sids \cup {None}, agent : 0 .. created,
                      name : Names \cup {None}]
    BY DEF NoTarget, None, IInv, TypeOK
  <2>2. target' \in [Callers -> [sid : Sids \cup {None}, agent : 0 .. created,
                                 name : Names \cup {None}]]
    BY <1>0, <2>1 DEF IInv, TypeOK
  <2> QED BY <1>0, <1>1, <1>2, <2>2 DEF IInv, TypeOK
<1>4. TargetsKnown'
  BY <1>0, <1>1 DEF IInv, TargetsKnown, WithName, WithSid, WithAgent
<1>5. Holders' = Holders /\ \A u \in Holders : target'[u] = target[u]
  BY <1>0 DEF Holders, Booting, Removing
<1>6. SidsMatch' /\ SidOwnedOnce'
  <2>1. \A u \in Holders : target[u].agent \in 1 .. created
    BY DEF IInv, TargetsKnown, WithAgent, Holders, Booting, Removing
  <2>2. \A s \in Sids : mServiceMap[s] # None => mServiceMap[s] \in 1 .. created
    BY DEF IInv, TypeOK, None
  <2>3. SidsMatch'
    BY <1>1, <1>2, <1>5, <2>1, <2>2 DEF IInv, SidsMatch
  <2>4. SidOwnedOnce'
    BY <1>1, <1>5 DEF IInv, SidOwnedOnce
  <2> QED BY <2>3, <2>4
<1>7. StateOfMain' /\ NoEarlyTicker'
  BY <1>1 DEF IInv, StateOfMain, NoEarlyTicker
<1>8. Handled \subseteq Handled' \cup {a}
  BY <1>0 DEF Handled
<1> HIDE DEF a
<1>9. NoOrphanService'
  BY <1>1, <1>2, <1>8 DEF IInv, NoOrphanService, Registered
<1>10. TicksOnlyOnRequest'
  BY <1>0, <1>1, <1>2 DEF IInv, TicksOnlyOnRequest, Registered
<1> QED BY <1>3, <1>4, <1>6, <1>7, <1>9, <1>10 DEF IInv

----------------------------------------------------------------------------
\* Steps that change the phase or the channel of agents that are registered
\* already, or no longer serving, or whose module is stopped.
LEMMA AgentStepKeeps ==
    ASSUME IInv,
           UNCHANGED <<mState, pool, loop, mServiceMap, mServiceNameMap,
                       mTickerSet, allocator, created, callVars>>,
           \/ UNCHANGED main
           \/ main' \in {"stopPool"} /\ mState = "STOPPED",
           agents' \in [1 .. created -> [sid : Sids, name : Names,
                                        phase : Phases, open : BOOLEAN]],
           \A b \in 1 .. created :
               /\ agents'[b].sid = agents[b].sid
               /\ agents'[b].name = agents[b].name
               /\ \/ Registered(b) \/ mState = "STOPPED"
                  \/ agents'[b].phase # "serving"
                  \/ agents'[b] = agents[b]
    PROVE  IInv'
<1> USE DEF allocator, callVars
<1>1. TypeOK'
  BY DEF IInv, TypeOK
<1>2. TargetsKnown'
  BY DEF IInv, TargetsKnown
<1>3. SidsMatch' /\ SidOwnedOnce'
  <2>1. \A u \in Holders : target[u].agent \in 1 .. created
    BY DEF IInv, TargetsKnown, WithAgent, Holders, Booting, Removing
  <2>2. \A s \in Sids : mServiceMap[s] # None => mServiceMap[s] \in 1 .. created
    BY DEF IInv, TypeOK, None
  <2>3. Holders' = Holders
    BY DEF Holders, Booting, Removing
  <2>4. SidsMatch'
    BY <2>1, <2>2, <2>3 DEF IInv, SidsMatch
  <2>5. SidOwnedOnce'
    BY <2>3 DEF IInv, SidOwnedOnce
  <2> QED BY <2>4, <2>5
<1>4. StateOfMain' /\ NoEarlyTicker'
  BY DEF IInv, StateOfMain, NoEarlyTicker
<1>5. NoOrphanService'
  BY DEF IInv, NoOrphanService, Handled, Registered
<1>6. TicksOnlyOnRequest'
  BY DEF IInv, TicksOnlyOnRequest, Registered
<1> QED BY <1>1, <1>2, <1>3, <1>4, <1>5, <1>6 DEF IInv

LEMMA MainAgentsKeep ==
    ASSUME IInv, \/ \E a \in 1 .. created : StartCore(a) \/ HandlerThrows(a) \/ CleanUp(a)
                 \/ StopAgents
    PROVE  IInv'
<1>1. ASSUME NEW a \in 1 .. created, StartCore(a) PROVE IInv'
  <2>1. UNCHANGED mTickerSet
    BY <1>1 DEF StartCore, InsertTicker, IInv, StateOfMain
  <2>2. ServeAgent(a) \/ RefuseAgent(a)
    BY <1>1 DEF StartCore
  <2> QED BY <1>1, <2>1, <2>2, AgentChanges, AgentStepKeeps
          DEF StartCore, IInv, mainVars, maps
<1>2. ASSUME NEW a \in 1 .. created, NEW p \in {"abandoned", "cleaned"},
             \/ HandlerThrows(a) /\ p = "abandoned"
             \/ CleanUp(a) /\ p = "cleaned"
      PROVE  IInv'
  <2> DEFINE A == [sid : Sids, name : Names, phase : Phases, open : BOOLEAN]
             r == [agents[a] EXCEPT !.phase = p]
  <2>1. agents \in [1 .. created -> A]
    BY DEF IInv, TypeOK
  <2>2. /\ r \in A /\ r.sid = agents[a].sid /\ r.name = agents[a].name
        /\ r.phase = p
    BY <2>1 DEF Phases
  <2>3. agents' = [agents EXCEPT ![a] = r]
    BY <1>2 DEF HandlerThrows, CleanUp
  <2> HIDE DEF r, A
  <2>4. agents' \in [1 .. created -> A]
    BY <2>1, <2>2, <2>3
  <2>5. \A b \in 1 .. created :
           /\ agents'[b].sid = agents[b].sid
           /\ agents'[b].name = agents[b].name
           /\ agents'[b].phase # "serving" \/ agents'[b] = agents[b]
    BY <2>1, <2>2, <2>3
  <2>6. UNCHANGED <<mState, pool, loop, mServiceMap, mServiceNameMap,
                    mTickerSet, allocator, created, callVars, main>>
    BY <1>2 DEF HandlerThrows, CleanUp, mainVars, maps
  <2> QED BY <2>4, <2>5, <2>6, AgentStepKeeps DEF A
<1>3. CASE StopAgents
  <2>1. mState = "STOPPED"
    BY <1>3 DEF StopAgents, IInv, StateOfMain
  <2>2. agents' \in [1 .. created -> [sid : Sids, name : Names,
                                     phase : Phases, open : BOOLEAN]]
    BY <1>3, ZenonT(60) DEF StopAgents, IInv, TypeOK
  <2>3. \A b \in 1 .. created : agents'[b].sid = agents[b].sid
                                /\ agents'[b].name = agents[b].name
    BY <1>3 DEF StopAgents, IInv, TypeOK
  <2> QED BY <1>3, <2>1, <2>2, <2>3, AgentStepKeeps DEF StopAgents, maps
<1> QED BY <1>1, <1>2, <1>3

LEMMA StopClearKeeps == IInv /\ StopClear => IInv'
<1> SUFFICES ASSUME IInv, StopClear PROVE IInv'
  OBVIOUS
<1> USE DEF StopClear, allocator, callVars
<1>1. mState = "STOPPED"
  BY DEF IInv, StateOfMain
<1>2. TypeOK'
  BY DEF IInv, TypeOK, None
<1>3. TargetsKnown' /\ StateOfMain' /\ NoEarlyTicker'
  BY <1>1 DEF IInv, TargetsKnown, StateOfMain, NoEarlyTicker
<1>4. \A s \in Sids : mServiceMap'[s] = None
  OBVIOUS
<1>5. \A u \in Holders : target[u].sid \in Sids
  BY DEF IInv, TargetsKnown, WithSid, Holders, Booting, Removing
<1>6. SidsMatch' /\ SidOwnedOnce'
  BY <1>4, <1>5 DEF IInv, SidsMatch, SidOwnedOnce, Holders, Booting, Removing
<1>7. NoOrphanService' /\ TicksOnlyOnRequest'
  BY <1>1 DEF NoOrphanService, TicksOnlyOnRequest
<1> QED BY <1>2, <1>3, <1>6, <1>7 DEF IInv

----------------------------------------------------------------------------
LEMMA InitIInv == Init => IInv
<1> SUFFICES ASSUME Init PROVE IInv
  OBVIOUS
<1> USE MaxAgentsAssumption DEF Init
<1>1. TypeOK
  BY DEF TypeOK, NoTarget, None, Labels
<1>2. TargetsKnown /\ SidsMatch /\ SidOwnedOnce
  BY DEF TargetsKnown, SidsMatch, SidOwnedOnce, Holders, Booting, Removing,
         WithName, WithSid, WithAgent
<1>3. StateOfMain /\ NoEarlyTicker /\ NoOrphanService /\ TicksOnlyOnRequest
  BY DEF StateOfMain, NoEarlyTicker, NoOrphanService, TicksOnlyOnRequest
<1> QED BY <1>1, <1>2, <1>3 DEF IInv

LEMMA NextKeeps == IInv /\ [Next]_vars => IInv'
<1> SUFFICES ASSUME IInv, [Next]_vars PROVE IInv'
  OBVIOUS
<1>1. CASE Main
  BY <1>1, InitialCoreKeeps, MainKeeps, MainAgentsKeep, StopClearKeeps DEF Main
<1>2. CASE PoolAbort \/ UpdateCheck \/ UpdateTick
  BY <1>2, MainKeeps
<1>3. ASSUME NEW a \in 1 .. created, HandlerThrows(a) \/ CleanUp(a) PROVE IInv'
  BY <1>3, MainAgentsKeep
<1>4. ASSUME NEW t \in Callers,
             BootCall(t) \/ ShutdownCall(t) \/ FindCall(t) \/ Find(t)
      PROVE  IInv'
  BY <1>4, CallsKeep
<1>5. ASSUME NEW t \in Callers, Boot(t) PROVE IInv'
  <2>1. CASE BootInitial(t)
    <3>1. NoTarget \in [sid : Sids \cup {None}, agent : 0 .. created,
                        name : Names \cup {None}]
      BY DEF NoTarget, None, IInv, TypeOK
    <3>2. CASE Return(t) /\ UNCHANGED <<allocator, agents>>
      BY <2>1, <3>1, <3>2, LookupKeeps
         DEF BootInitial, Return, Goto, Labels, WithName, WithSid, WithAgent
    <3>3. CASE Goto(t, "bootName") /\ UNCHANGED <<target, allocator, agents>>
      <4>1. /\ pc[t] = "bootInitial"
            /\ UNCHANGED <<mainVars, loop, maps, mTickerSet, created>>
        BY <2>1 DEF BootInitial
      <4> QED BY <3>3, <4>1, BootAdvances
    <3>4. CASE BootFail(t)
      BY <2>1, <3>4, BootFailKeeps DEF BootInitial
    <3> QED BY <2>1, <3>2, <3>3, <3>4 DEF BootInitial
  <2>2. CASE BootName(t)
    BY <2>2, BootAdvances, BootFailKeeps DEF BootName
  <2> QED BY <1>5, <2>1, <2>2, BootAllocateKeeps, BootStartKeeps,
             BootRegisterKeeps DEF Boot
<1>6. ASSUME NEW t \in Callers, Shutdown(t) PROVE IInv'
  BY <1>6, EraseKeeps, ForgetKeeps, RecycleKeeps, ShutdownStopKeeps DEF Shutdown
<1>7. CASE UNCHANGED vars
  <2> USE <1>7 DEF vars, mainVars, maps, allocator, callVars
  <2>1. TypeOK' /\ TargetsKnown' /\ StateOfMain' /\ NoEarlyTicker'
    BY DEF IInv, TypeOK, TargetsKnown, StateOfMain, NoEarlyTicker
  <2>2. SidsMatch' /\ SidOwnedOnce'
    BY DEF IInv, SidsMatch, SidOwnedOnce, Holders, Booting, Removing
  <2>3. NoOrphanService' /\ TicksOnlyOnRequest'
    BY DEF IInv, NoOrphanService, TicksOnlyOnRequest, Handled, Registered
  <2> QED BY <2>1, <2>2, <2>3 DEF IInv
<1> QED BY <1>1, <1>2, <1>3, <1>4, <1>5, <1>6, <1>7 DEF Next

\* The inductive invariant holds in every state of every behaviour.
THEOREM Invariance == Spec => []IInv
<1>1. Init => IInv
  BY InitIInv
<1>2. IInv /\ [Next]_vars => IInv'
  BY NextKeeps
<1> QED BY <1>1, <1>2, PTL DEF Spec

\* The registry, its agents and its callers are well typed.
THEOREM TypeCorrect == Spec => []TypeOK
<1>1. IInv => TypeOK
  BY DEF IInv
<1> QED BY <1>1, Invariance, PTL

\* Whatever boots and shutdowns race, a service id has one owner: it is never
\* handed out or recycled while somebody else works on it.
THEOREM SidsAreOwnedOnce == Spec => []SidOwnedOnce
<1>1. IInv => SidOwnedOnce
  BY DEF IInv
<1> QED BY <1>1, Invariance, PTL

\* Whatever boots and shutdowns race, a running service can be reached by its
\* id, or some caller is about to register or to stop it.
THEOREM ServicesAreReachable == Spec => []NoOrphanService
<1>1. IInv => NoOrphanService
  BY DEF IInv
<1> QED BY <1>1, Invariance, PTL

\* An id in mTickerSet belongs to a service that asked for it: no tick is
\* inherited with a recycled id.
THEOREM TicksAreRequested == Spec => []TicksOnlyOnRequest
<1>1. IInv => TicksOnlyOnRequest
  BY DEF IInv
<1> QED BY <1>1, Invariance, PTL
----------------------------------------------------------------------------
\* One caller: what MapsAgreeBetweenCalls becomes in the middle of its calls.
OneCaller == \A t, u \in Callers : t = u

\* An id is out of mServiceMap and its name not yet erased ...
NameLeft(t, n) ==
    /\ pc[t] = "eraseOwnName"
    /\ target[t].name = n /\ target[t].sid = mServiceNameMap[n]

\* ... or the name is erased, and the agent still in mServiceMap.
AgentLeft(t, a) ==
    /\ pc[t] = "eraseById"
    /\ target[t].name = agents[a].name /\ target[t].sid = agents[a].sid

NamesLead ==
    \A n \in Names :
        mServiceNameMap[n] # None =>
            \/ /\ mServiceMap[mServiceNameMap[n]] # None
               /\ agents[mServiceMap[mServiceNameMap[n]]].name = n
            \/ \E t \in Callers : NameLeft(t, n)

AgentsAreNamed ==
    \A a \in 1 .. created :
        Registered(a) =>
            /\ agents[a].open
            /\ \/ mServiceNameMap[agents[a].name] = agents[a].sid
               \/ \E t \in Callers : AgentLeft(t, a)

\* A service that is booted is open, has the name it was asked for, and nobody
\* else takes the name once it was found free; a name that is erased is that of
\* the agent that goes with it, and the agent that is stopped has gone.
CallAgrees(t) ==
    /\ t \in Booting => /\ agents[target[t].agent].open
                        /\ agents[target[t].agent].name = target[t].name
    /\ pc[t] \in {"bootStart", "bootRegister"} =>
            mServiceNameMap[target[t].name] = None
    /\ pc[t] = "eraseOwnName" =>
            /\ target[t].name \in Names
            /\ mServiceNameMap[target[t].name] = target[t].sid
    /\ pc[t] = "eraseById" =>
            \A n \in Names : mServiceNameMap[n] # target[t].sid
    /\ pc[t] = "stopAgent" => ~Registered(target[t].agent)

CleanedIsClosed ==
    \A a \in 1 .. created : agents[a].phase = "cleaned" => ~agents[a].open

QuietBefore ==
    mState \in {"CREATED", "INITIALIZED"} => \A t \in Callers : pc[t] = "idle"

AgreeInv ==
    /\ CleanedIsClosed
    /\ QuietBefore
    /\ mState # "STOPPED" =>
         /\ NamesLead
         /\ AgentsAreNamed
         /\ \A t \in Callers : CallAgrees(t)

\* Between the two erasures of a shutdown nothing else happens, and outside them
\* the maps agree.
MapsAgree ==
    /\ \A n \in Names :
        mServiceNameMap[n] # None =>
            /\ mServiceMap[mServiceNameMap[n]] # None
            /\ agents[mServiceMap[mServiceNameMap[n]]].name = n
    /\ \A a \in 1 .. created :
        Registered(a) => /\ agents[a].open
                         /\ mServiceNameMap[agents[a].name] = agents[a].sid

LEMMA AgreeOutside ==
    ASSUME OneCaller, AgreeInv, mState # "STOPPED", NEW t \in Callers,
           pc[t] \notin {"eraseOwnName", "eraseById"}
    PROVE  MapsAgree
  BY DEF OneCaller, AgreeInv, NamesLead, AgentsAreNamed, NameLeft, AgentLeft, MapsAgree

LEMMA AgreeBefore ==
    ASSUME AgreeInv, mState \in {"CREATED", "INITIALIZED"}
    PROVE  MapsAgree
  BY DEF AgreeInv, QuietBefore, NamesLead, AgentsAreNamed, NameLeft, AgentLeft, MapsAgree

LEMMA AgreeIsEnough ==
    ASSUME MapsAgree
    PROVE  NamesLead /\ AgentsAreNamed
  BY DEF MapsAgree, NamesLead, AgentsAreNamed

\* Agents keep their id, name and channel.
Kept == /\ UNCHANGED <<maps, created>>
        /\ \A b \in 1 .. created : /\ agents'[b].sid = agents[b].sid
                                   /\ agents'[b].name = agents[b].name

LEMMA AgreeStays ==
    ASSUME TypeOK, MapsAgree, Kept,
           \A b \in 1 .. created : Registered(b) => agents'[b].open
    PROVE  MapsAgree'
<1>1. \A b \in 1 .. created : Registered(b)' <=> Registered(b)
  BY DEF Kept, maps, Registered
<1>2. \A n \in Names : mServiceNameMap[n] # None =>
        mServiceNameMap[n] \in Sids /\ mServiceMap[mServiceNameMap[n]] \in 0 .. created
  BY DEF TypeOK
<1>3. \A n \in Names : mServiceNameMap'[n] # None =>
        /\ mServiceMap'[mServiceNameMap'[n]] # None
        /\ agents'[mServiceMap'[mServiceNameMap'[n]]].name = n
  BY <1>2 DEF Kept, maps, MapsAgree, None
<1> QED BY <1>1, <1>3 DEF Kept, maps, MapsAgree

\* Steps of the main thread, the pool and the agents leave the callers where
\* they are.
LEMMA OthersAgree ==
    ASSUME IInv, AgreeInv, Kept, UNCHANGED callVars,
           mState' # "STOPPED" => mState # "STOPPED",
           mState' \in {"CREATED", "INITIALIZED"} => mState \in {"CREATED", "INITIALIZED"},
           \A b \in 1 .. created : agents'[b].open = agents[b].open,
           CleanedIsClosed'
    PROVE  AgreeInv'
<1>1. QuietBefore'
  BY DEF AgreeInv, QuietBefore, callVars
<1> SUFFICES ASSUME mState' # "STOPPED"
             PROVE  NamesLead' /\ AgentsAreNamed' /\ \A t \in Callers : CallAgrees(t)'
  BY <1>1 DEF AgreeInv
<1>2. NamesLead /\ AgentsAreNamed /\ \A t \in Callers : CallAgrees(t)
  BY DEF AgreeInv
<1>3. \A n \in Names : mServiceNameMap[n] # None =>
        mServiceNameMap[n] \in Sids /\ mServiceMap[mServiceNameMap[n]] \in 0 .. created
  BY DEF IInv, TypeOK
<1>4. \A n \in Names, t \in Callers : NameLeft(t, n) => NameLeft(t, n)'
  BY DEF NameLeft, Kept, maps, callVars
<1>5. \A b \in 1 .. created, t \in Callers : AgentLeft(t, b) => AgentLeft(t, b)'
  BY DEF AgentLeft, Kept, callVars
<1>6. NamesLead'
  <2> SUFFICES ASSUME NEW n \in Names, mServiceNameMap'[n] # None
               PROVE  \/ /\ mServiceMap'[mServiceNameMap'[n]] # None
                         /\ agents'[mServiceMap'[mServiceNameMap'[n]]].name = n
                      \/ \E t \in Callers : NameLeft(t, n)'
    BY DEF NamesLead
  <2> QED BY <1>2, <1>3, <1>4 DEF NamesLead, Kept, maps, None
<1>7. AgentsAreNamed'
  <2> SUFFICES ASSUME NEW a \in 1 .. created, Registered(a)'
               PROVE  /\ agents'[a].open
                      /\ \/ mServiceNameMap'[agents'[a].name] = agents'[a].sid
                         \/ \E t \in Callers : AgentLeft(t, a)'
    BY DEF AgentsAreNamed, Kept
  <2>1. Registered(a)
    BY DEF Registered, Kept, maps
  <2> QED BY <1>2, <1>5, <2>1 DEF AgentsAreNamed, Kept, maps
<1>8. ASSUME NEW t \in Callers PROVE CallAgrees(t)'
  <2>1. t \in Booting \/ pc[t] = "stopAgent" => target[t].agent \in 1 .. created
    BY DEF Booting, IInv, TargetsKnown, WithAgent
  <2> QED BY <1>2, <2>1 DEF CallAgrees, Kept, maps, callVars, Booting, Registered
<1> QED BY <1>6, <1>7, <1>8

\* The caller's own steps: it is the only one.
LEMMA CallerAgrees ==
    ASSUME OneCaller, AgreeInv, NEW t \in Callers, mState' = mState,
           CleanedIsClosed', pc[t] # "idle" \/ mState = "RUNNING",
           mState # "STOPPED" => NamesLead' /\ AgentsAreNamed' /\ CallAgrees(t)'
    PROVE  AgreeInv'
<1>1. mState \notin {"CREATED", "INITIALIZED"}
  BY DEF AgreeInv, QuietBefore
<1> QED BY <1>1 DEF AgreeInv, QuietBefore, OneCaller

LEMMA MainAgrees ==
    ASSUME IInv, IInv', AgreeInv,
           \/ InitialDone \/ StartDone \/ StopBegin \/ StopPool \/ PoolAbort
           \/ UpdateCheck \/ UpdateTick \/ StopAgents \/ StopClear
    PROVE  AgreeInv'
<1>1. CASE \/ InitialDone \/ StartDone \/ StopBegin \/ StopPool \/ PoolAbort
           \/ UpdateCheck \/ UpdateTick
  <2>1. Kept /\ UNCHANGED <<agents, callVars>>
    BY <1>1 DEF InitialDone, StartDone, StopBegin, StopPool, PoolAbort, UpdateCheck,
       UpdateTick, Kept, maps, callVars
  <2>2. /\ mState' # "STOPPED" => mState # "STOPPED"
        /\ mState' \in {"CREATED", "INITIALIZED"} => mState \in {"CREATED", "INITIALIZED"}
    BY <1>1 DEF InitialDone, StartDone, StopBegin, StopPool, PoolAbort, UpdateCheck,
       UpdateTick, mainVars, IInv, StateOfMain
  <2>3. CleanedIsClosed'
    BY <2>1 DEF AgreeInv, CleanedIsClosed, Kept
  <2> QED BY <2>1, <2>2, <2>3, OthersAgree
<1>2. CASE StopAgents \/ StopClear
  <2>1. mState' = "STOPPED"
    BY <1>2 DEF StopAgents, StopClear, IInv, StateOfMain
  <2>2. CASE StopAgents
    <3>1. agents \in [1 .. created -> [sid : Sids, name : Names, phase : Phases,
                                       open : BOOLEAN]]
      BY DEF IInv, TypeOK
    <3>2. \A a \in 1 .. created : agents'[a].phase = agents[a].phase
                                  /\ (~agents[a].open => ~agents'[a].open)
      BY <2>2, <3>1 DEF StopAgents
    <3> QED BY <2>1, <2>2, <3>2 DEF StopAgents, AgreeInv, CleanedIsClosed, QuietBefore
  <2>3. CASE StopClear
    BY <2>1, <2>3 DEF StopClear, AgreeInv, CleanedIsClosed, QuietBefore
  <2> QED BY <1>2, <2>2, <2>3
<1> QED BY <1>1, <1>2

LEMMA AgentsAgree ==
    ASSUME IInv, AgreeInv, NEW a \in 1 .. created, StartCore(a) \/ HandlerThrows(a) \/ CleanUp(a)
    PROVE  AgreeInv'
<1>1. agents \in [1 .. created -> [sid : Sids, name : Names, phase : Phases,
                                   open : BOOLEAN]]
  BY DEF IInv, TypeOK
<1>2. PICK phase : /\ agents' = [agents EXCEPT ![a].phase = phase]
                   /\ phase = "cleaned" => ~agents[a].open
  BY DEF StartCore, HandlerThrows, CleanUp, ServeAgent, RefuseAgent
<1>3. /\ UNCHANGED <<maps, created, callVars, mState>>
      /\ \A b \in 1 .. created : /\ agents'[b].sid = agents[b].sid
                                 /\ agents'[b].name = agents[b].name
                                 /\ agents'[b].open = agents[b].open
                                 /\ agents'[b].phase = IF b = a THEN phase
                                                       ELSE agents[b].phase
  BY <1>1, <1>2 DEF StartCore, HandlerThrows, CleanUp, mainVars
<1>4. CleanedIsClosed'
  BY <1>2, <1>3 DEF AgreeInv, CleanedIsClosed
<1> QED BY <1>3, <1>4, OthersAgree DEF Kept

LEMMA InitialCoreAgrees ==
    ASSUME IInv, AgreeInv, InitialCore
    PROVE  AgreeInv'
<1>0. TypeOK /\ mState \in {"CREATED", "INITIALIZED"} /\ mState' = mState /\ UNCHANGED callVars
  BY DEF IInv, InitialCore, StateOfMain, mainVars
<1>1. MapsAgree
  BY <1>0, AgreeBefore
<1>2. PICK sid \in Sids, ok \in BOOLEAN :
        LET name   == CoreNames[created + 1]
            joined == ok /\ mServiceNameMap[name] = None
        IN  /\ IsFree(sid)
            /\ NewAgent(sid, name, joined)
            /\ IF joined
               THEN /\ mServiceMap' = [mServiceMap EXCEPT ![sid] = created + 1]
                    /\ mServiceNameMap' = [mServiceNameMap EXCEPT ![name] = sid]
               ELSE UNCHANGED maps
  BY DEF InitialCore
<1>3. PICK name : name = CoreNames[created + 1]
  OBVIOUS
<1>4. PICK joined \in BOOLEAN : joined = (ok /\ mServiceNameMap[name] = None)
  OBVIOUS
<1>5. /\ IsFree(sid) /\ NewAgent(sid, name, joined)
      /\ joined => /\ mServiceMap' = [mServiceMap EXCEPT ![sid] = created + 1]
                   /\ mServiceNameMap' = [mServiceNameMap EXCEPT ![name] = sid]
      /\ ~joined => UNCHANGED maps
  BY <1>2, <1>3, <1>4
<1>6. name \in Names
  BY <1>0, <1>3, NamesAssumption DEF InitialCore, TypeOK
<1>7. /\ created' = created + 1
      /\ \A b \in 1 .. created : agents'[b] = agents[b]
      /\ agents'[created + 1] = [sid |-> sid, name |-> name,
                                 phase |-> "created", open |-> joined]
  BY <1>0, <1>5, <1>6, NewAgentAdds
<1>8. mServiceMap[sid] = None /\ \A n \in Names : mServiceNameMap[n] # sid
  <2>1. sid \notin 1 .. mNext \ mHashSet
    BY <1>0, <1>5 DEF IsFree, TypeOK
  <2>2. mServiceMap[sid] = None
    BY <2>1 DEF IInv, SidOwnedOnce
  <2> QED BY <2>2, <1>1 DEF MapsAgree, None, Sids
<1>9. created \in Nat
  BY <1>0 DEF TypeOK
<1>10. CleanedIsClosed'
  BY <1>7, <1>9 DEF AgreeInv, CleanedIsClosed
<1>11. MapsAgree'
  <2>1. CASE joined
    <3>1. /\ \A s \in Sids : mServiceMap'[s] = IF s = sid THEN created + 1 ELSE mServiceMap[s]
          /\ \A n \in Names : mServiceNameMap'[n] = IF n = name THEN sid
                                                    ELSE mServiceNameMap[n]
      BY <1>0, <1>5, <2>1 DEF TypeOK
    <3>2. \A n \in Names : mServiceNameMap[n] \in Sids \cup {None}
      BY <1>0 DEF TypeOK
    <3>3. ASSUME NEW n \in Names, mServiceNameMap'[n] # None
          PROVE  /\ mServiceMap'[mServiceNameMap'[n]] # None
                 /\ agents'[mServiceMap'[mServiceNameMap'[n]]].name = n
      <4>1. CASE n = name
        BY <1>7, <1>9, <3>1, <4>1 DEF None
      <4>2. CASE n # name
        <5>1. mServiceNameMap'[n] = mServiceNameMap[n] /\ mServiceNameMap[n] \in Sids \ {sid}
          BY <1>8, <3>1, <3>2, <3>3, <4>2
        <5>2. mServiceMap[mServiceNameMap[n]] \in 1 .. created
          BY <1>0, <1>1, <3>3, <5>1 DEF MapsAgree, TypeOK, None
        <5> QED BY <1>1, <1>7, <3>1, <3>3, <5>1, <5>2 DEF MapsAgree
      <4> QED BY <4>1, <4>2
    <3>4. ASSUME NEW b \in 1 .. created + 1, mServiceMap'[agents'[b].sid] = b
          PROVE  agents'[b].open /\ mServiceNameMap'[agents'[b].name] = agents'[b].sid
      <4>1. CASE b = created + 1
        BY <1>6, <1>7, <2>1, <3>1, <4>1
      <4>2. CASE b \in 1 .. created
        <5>1. /\ agents'[b] = agents[b] /\ agents[b].sid \in Sids /\ agents[b].name \in Names
              /\ b # created + 1
          <6>1. agents[b] \in [sid : Sids, name : Names, phase : Phases, open : BOOLEAN]
            BY <1>0, <4>2 DEF TypeOK
          <6> QED BY <1>7, <1>9, <4>2, <6>1
        <5>2. agents[b].sid # sid /\ Registered(b)
          BY <3>1, <3>4, <5>1 DEF Registered
        <5>3. agents[b].name # name
          <6>1. mServiceNameMap[name] = None /\ None \notin Sids
            <7>1. mServiceNameMap[name] = None
              BY <1>4, <2>1
            <7> QED BY <7>1 DEF None, Sids
          <6> QED BY <1>1, <4>2, <5>1, <5>2, <6>1 DEF MapsAgree
        <5> QED BY <1>1, <3>1, <4>2, <5>1, <5>2, <5>3 DEF MapsAgree
      <4> QED BY <1>9, <3>4, <4>1, <4>2
    <3> QED BY <1>7, <3>3, <3>4 DEF MapsAgree, Registered
  <2>2. CASE ~joined
    <3>1. UNCHANGED <<mServiceMap, mServiceNameMap>>
      BY <1>5, <2>2 DEF maps
    <3>2. ASSUME NEW n \in Names, mServiceNameMap[n] # None
          PROVE  /\ mServiceMap[mServiceNameMap[n]] # None
                 /\ agents'[mServiceMap[mServiceNameMap[n]]].name = n
      <4>1. mServiceMap[mServiceNameMap[n]] \in 1 .. created
        BY <1>0, <1>1, <3>2 DEF MapsAgree, TypeOK, None
      <4> QED BY <1>1, <1>7, <3>2, <4>1 DEF MapsAgree
    <3>3. ASSUME NEW b \in 1 .. created + 1, mServiceMap[agents'[b].sid] = b
          PROVE  agents'[b].open /\ mServiceNameMap[agents'[b].name] = agents'[b].sid
      <4>1. b # created + 1
        BY <1>7, <1>8, <1>9, <3>3 DEF None
      <4>2. b \in 1 .. created /\ agents'[b] = agents[b]
        BY <1>7, <1>9, <4>1
      <4> QED BY <1>1, <3>3, <4>2 DEF MapsAgree, Registered
    <3> QED BY <1>7, <3>1, <3>2, <3>3 DEF MapsAgree, Registered
  <2> QED BY <2>1, <2>2
<1>12. NamesLead' /\ AgentsAreNamed'
  BY <1>11, AgreeIsEnough DEF MapsAgree, NamesLead, AgentsAreNamed
<1>13. \A t \in Callers : pc'[t] = "idle"
  BY <1>0 DEF AgreeInv, QuietBefore, callVars
<1> QED
  BY <1>10, <1>12, <1>13 DEF AgreeInv, QuietBefore, CallAgrees, Booting

LEMMA CallsAgree ==
    ASSUME OneCaller, IInv, AgreeInv, NEW t \in Callers,
           BootCall(t) \/ ShutdownCall(t) \/ FindCall(t) \/ Find(t)
    PROVE  AgreeInv'
<1>1. /\ UNCHANGED <<mState, maps, created, agents>>
      /\ pc[t] # "idle" \/ mState = "RUNNING"
      /\ pc[t] \notin {"eraseOwnName", "eraseById"}
      /\ pc'[t] \in {"idle", "bootAllocate", "sidErase", "nameErase", "findSid",
                     "findAgent", "found"}
  BY DEF BootCall, ShutdownCall, FindCall, Find, FindSid, FindAgent, FindReturn, Call,
     Goto, Return, mainVars, IInv, TypeOK
<1>2. CleanedIsClosed'
  BY <1>1 DEF AgreeInv, CleanedIsClosed
<1>3. ASSUME mState # "STOPPED" PROVE NamesLead' /\ AgentsAreNamed' /\ CallAgrees(t)'
  <2>1. MapsAgree
    BY <1>1, <1>3, AgreeOutside
  <2>2. MapsAgree'
    BY <1>1, <2>1 DEF MapsAgree, Registered, maps
  <2>3. CallAgrees(t)'
    BY <1>1 DEF CallAgrees, Booting
  <2> QED BY <2>2, <2>3, AgreeIsEnough DEF MapsAgree, NamesLead, AgentsAreNamed
<1> QED BY <1>1, <1>2, <1>3, CallerAgrees

LEMMA BootAllocateAgrees ==
    ASSUME OneCaller, IInv, AgreeInv, NEW t \in Callers, BootAllocate(t)
    PROVE  AgreeInv'
<1>0. /\ TypeOK /\ pc[t] = "bootAllocate" /\ UNCHANGED <<mState, mServiceMap, mServiceNameMap>>
      /\ created \in Nat
  BY DEF BootAllocate, mainVars, maps, IInv, TypeOK
<1>1. CASE Return(t) /\ UNCHANGED <<created, agents>>
  <2>1. CleanedIsClosed'
    BY <1>1 DEF AgreeInv, CleanedIsClosed
  <2>2. ASSUME mState # "STOPPED" PROVE NamesLead' /\ AgentsAreNamed' /\ CallAgrees(t)'
    <3>1. MapsAgree
      BY <1>0, <2>2, AgreeOutside
    <3>2. NamesLead' /\ AgentsAreNamed'
      BY <1>0, <1>1, <3>1 DEF MapsAgree, Registered, NamesLead, AgentsAreNamed
    <3>3. pc'[t] = "idle"
      BY <1>0, <1>1 DEF Return, Goto, TypeOK
    <3> QED BY <3>2, <3>3 DEF CallAgrees, Booting
  <2> QED BY <1>0, <2>1, <2>2, CallerAgrees
<1>2. ASSUME NEW sid \in Sids, Allocate(sid), NewAgent(sid, target[t].name, TRUE),
             target' = [target EXCEPT ![t].sid = sid, ![t].agent = created + 1],
             Goto(t, "bootInitial")
      PROVE  AgreeInv'
  <2>1. target[t].name \in Names
    BY <1>0 DEF IInv, TargetsKnown, WithName
  <2>2. /\ created' = created + 1
        /\ \A b \in 1 .. created : agents'[b] = agents[b]
        /\ agents'[created + 1] = [sid |-> sid, name |-> target[t].name,
                                   phase |-> "created", open |-> TRUE]
    BY <1>0, <1>2, <2>1, NewAgentAdds
  <2>3. CleanedIsClosed'
    BY <1>0, <2>2 DEF AgreeInv, CleanedIsClosed
  <2>4. mServiceMap[sid] = None
    <3>1. sid \notin 1 .. mNext \ mHashSet
      BY <1>0, <1>2 DEF Allocate, IsFree, TypeOK
    <3> QED BY <3>1 DEF IInv, SidOwnedOnce
  <2>5. pc'[t] = "bootInitial" /\ target'[t].agent = created + 1
        /\ target'[t].name = target[t].name
    BY <1>0, <1>2 DEF Goto, TypeOK
  <2>6. ASSUME mState # "STOPPED" PROVE NamesLead' /\ AgentsAreNamed' /\ CallAgrees(t)'
    <3>1. MapsAgree
      BY <1>0, <2>6, AgreeOutside
    <3>2. ASSUME NEW n \in Names, mServiceNameMap[n] # None
          PROVE  /\ mServiceMap[mServiceNameMap[n]] # None
                 /\ agents'[mServiceMap[mServiceNameMap[n]]].name = n
      <4>1. mServiceMap[mServiceNameMap[n]] \in 1 .. created
        BY <1>0, <3>1, <3>2 DEF MapsAgree, TypeOK, None
      <4> QED BY <2>2, <3>1, <3>2, <4>1 DEF MapsAgree
    <3>3. ASSUME NEW b \in 1 .. created + 1, mServiceMap[agents'[b].sid] = b
          PROVE  agents'[b].open /\ mServiceNameMap[agents'[b].name] = agents'[b].sid
      <4>1. b # created + 1
        BY <1>0, <2>2, <2>4, <3>3 DEF None
      <4>2. b \in 1 .. created /\ agents'[b] = agents[b]
        BY <1>0, <2>2, <4>1
      <4> QED BY <3>1, <3>3, <4>2 DEF MapsAgree, Registered
    <3>4. NamesLead' /\ AgentsAreNamed'
      BY <1>0, <2>2, <3>2, <3>3 DEF NamesLead, AgentsAreNamed, Registered
    <3>5. CallAgrees(t)'
      BY <2>2, <2>5 DEF CallAgrees
    <3> QED BY <3>4, <3>5
  <2> QED BY <1>0, <2>3, <2>6, CallerAgrees
<1> QED BY <1>1, <1>2 DEF BootAllocate

\* A boot that fails closes an agent that is not registered.
LEMMA BootFailAgrees ==
    ASSUME OneCaller, IInv, AgreeInv, NEW t \in Booting, BootFail(t),
           UNCHANGED <<mState, mServiceMap, mServiceNameMap, created>>
    PROVE  AgreeInv'
<1>0. /\ TypeOK /\ t \in Callers /\ target[t].agent \in 1 .. created
      /\ pc[t] \notin {"idle", "eraseOwnName", "eraseById"}
      /\ mServiceMap[target[t].sid] = None
      /\ agents[target[t].agent].sid = target[t].sid
  BY DEF IInv, TargetsKnown, WithAgent, Booting, SidOwnedOnce, Holders, SidsMatch
<1>1. agents' = [agents EXCEPT ![target[t].agent].open = FALSE] /\ pc'[t] = "idle"
  BY <1>0 DEF BootFail, StopAgent, Return, Goto, TypeOK
<1>2. agents \in [1 .. created -> [sid : Sids, name : Names, phase : Phases,
                                   open : BOOLEAN]]
  BY <1>0 DEF TypeOK
<1>3. \A b \in 1 .. created :
        /\ agents'[b].sid = agents[b].sid /\ agents'[b].name = agents[b].name
        /\ agents'[b].phase = agents[b].phase
        /\ b # target[t].agent => agents'[b].open = agents[b].open
        /\ ~agents[b].open => ~agents'[b].open
  BY <1>0, <1>1, <1>2
<1>4. CleanedIsClosed'
  BY <1>3 DEF AgreeInv, CleanedIsClosed
<1>5. ASSUME mState # "STOPPED" PROVE NamesLead' /\ AgentsAreNamed' /\ CallAgrees(t)'
  <2>1. MapsAgree
    BY <1>0, <1>5, AgreeOutside
  <2>2. \A b \in 1 .. created : Registered(b) => agents'[b].open
    BY <1>0, <1>3, <2>1 DEF MapsAgree, Registered, None
  <2>3. MapsAgree'
    BY <1>0, <1>3, <2>1, <2>2, AgreeStays DEF Kept, maps
  <2>4. NamesLead' /\ AgentsAreNamed'
    BY <2>3, AgreeIsEnough DEF MapsAgree, NamesLead, AgentsAreNamed
  <2> QED BY <1>1, <2>4 DEF CallAgrees, Booting
<1> QED BY <1>0, <1>4, <1>5, CallerAgrees

\* A step of a boot that finds what it asks for.
LEMMA BootGoesOn ==
    ASSUME OneCaller, IInv, AgreeInv, NEW t \in Booting, NEW label, Goto(t, label),
           UNCHANGED <<mState, mServiceMap, mServiceNameMap, created, target>>,
           \A b \in 1 .. created : /\ agents'[b].sid = agents[b].sid
                                   /\ agents'[b].name = agents[b].name
                                   /\ agents'[b].open = agents[b].open,
           label \in {"bootName", "bootStart", "bootRegister"},
           label # "bootName" => mServiceNameMap[target[t].name] = None,
           CleanedIsClosed'
    PROVE  AgreeInv'
<1>0. /\ TypeOK /\ t \in Callers /\ target[t].agent \in 1 .. created
      /\ pc[t] \notin {"idle", "eraseOwnName", "eraseById"} /\ pc'[t] = label
  BY DEF IInv, TargetsKnown, WithAgent, Booting, Goto, TypeOK
<1>1. ASSUME mState # "STOPPED" PROVE NamesLead' /\ AgentsAreNamed' /\ CallAgrees(t)'
  <2>1. MapsAgree /\ CallAgrees(t)
    BY <1>0, <1>1, AgreeOutside DEF AgreeInv
  <2>2. MapsAgree'
    <3>1. \A b \in 1 .. created : Registered(b) => agents'[b].open
      BY <2>1 DEF MapsAgree
    <3> QED BY <1>0, <2>1, <3>1, AgreeStays DEF Kept, maps
  <2>3. NamesLead' /\ AgentsAreNamed'
    BY <2>2, AgreeIsEnough DEF MapsAgree, NamesLead, AgentsAreNamed
  <2>4. CallAgrees(t)'
    BY <1>0, <2>1 DEF CallAgrees, Booting
  <2> QED BY <2>3, <2>4
<1> QED BY <1>0, <1>1, CallerAgrees

LEMMA BootAgrees ==
    ASSUME OneCaller, IInv, AgreeInv, NEW t \in Callers,
           BootInitial(t) \/ BootName(t) \/ BootStart(t)
    PROVE  AgreeInv'
<1>0. /\ t \in Booting /\ TypeOK /\ UNCHANGED <<mState, mServiceMap, mServiceNameMap, created>>
      /\ pc[t] \in {"bootInitial", "bootName", "bootStart"}
      /\ target[t].agent \in 1 .. created /\ mServiceMap[target[t].sid] = None
  BY DEF BootInitial, BootName, BootStart, Booting, mainVars, maps, IInv, TargetsKnown,
     WithAgent, SidOwnedOnce, Holders
<1>1. CASE BootFail(t)
  BY <1>0, <1>1, BootFailAgrees
<1>2. CASE BootInitial(t) /\ ~BootFail(t)
  <2>1. Goto(t, "bootName") /\ UNCHANGED <<target, agents>>
    BY <1>0, <1>2 DEF BootInitial
  <2>2. CleanedIsClosed'
    BY <1>0, <2>1 DEF AgreeInv, CleanedIsClosed
  <2> QED BY <1>0, <2>1, <2>2, BootGoesOn
<1>3. CASE BootName(t) /\ ~BootFail(t)
  <2>1. Goto(t, "bootStart") /\ UNCHANGED <<target, agents>>
        /\ mServiceNameMap[target[t].name] = None
    BY <1>0, <1>3 DEF BootName
  <2>2. CleanedIsClosed'
    BY <1>0, <2>1 DEF AgreeInv, CleanedIsClosed
  <2> QED BY <1>0, <2>1, <2>2, BootGoesOn
<1>4. CASE BootStart(t) /\ ~BootFail(t)
  <2>1. /\ Goto(t, "bootRegister") /\ UNCHANGED target /\ pc[t] = "bootStart"
        /\ agents' = [agents EXCEPT ![target[t].agent].phase = "serving"]
    BY <1>4 DEF BootStart, ServeAgent
  <2>2. agents \in [1 .. created -> [sid : Sids, name : Names, phase : Phases,
                                     open : BOOLEAN]]
    BY <1>0 DEF TypeOK
  <2>3. \A b \in 1 .. created :
          /\ agents'[b].sid = agents[b].sid /\ agents'[b].name = agents[b].name
          /\ agents'[b].open = agents[b].open
          /\ agents'[b].phase = agents[b].phase \/ agents'[b].phase = "serving"
    BY <1>0, <2>1, <2>2
  <2>4. CleanedIsClosed'
    BY <1>0, <2>3 DEF AgreeInv, CleanedIsClosed
  <2>5. CASE mState # "STOPPED"
    <3>1. mServiceNameMap[target[t].name] = None
      BY <2>1, <2>5 DEF AgreeInv, CallAgrees
    <3> QED BY <1>0, <2>1, <2>3, <2>4, <3>1, BootGoesOn
  <2>6. CASE mState = "STOPPED"
    BY <1>0, <2>4, <2>6, CallerAgrees
  <2> QED BY <2>5, <2>6
<1> QED BY <1>1, <1>2, <1>3, <1>4

LEMMA BootRegisterAgrees ==
    ASSUME OneCaller, IInv, AgreeInv, NEW t \in Callers, BootRegister(t)
    PROVE  AgreeInv'
<1>0. /\ TypeOK /\ t \in Booting /\ pc[t] = "bootRegister"
      /\ UNCHANGED <<mState, created, agents>>
      /\ target[t].agent \in 1 .. created /\ mServiceMap[target[t].sid] = None
      /\ agents[target[t].agent].sid = target[t].sid
  BY DEF BootRegister, Booting, mainVars, IInv, TargetsKnown, WithAgent, SidOwnedOnce,
     Holders, SidsMatch
<1>1. pc'[t] = "idle" /\ Register(target[t].agent)
  BY <1>0 DEF BootRegister, Return, Goto, TypeOK
<1>2. CleanedIsClosed'
  BY <1>0 DEF AgreeInv, CleanedIsClosed
<1>3. ASSUME mState # "STOPPED" PROVE NamesLead' /\ AgentsAreNamed' /\ CallAgrees(t)'
  <2>1. MapsAgree /\ CallAgrees(t)
    BY <1>0, <1>3, AgreeOutside DEF AgreeInv
  <2>2. PICK a \in 1 .. created : a = target[t].agent
    BY <1>0
  <2>3. agents[a] \in [sid : Sids, name : Names, phase : Phases, open : BOOLEAN]
    BY <1>0, <2>2 DEF TypeOK
  <2>4. PICK sid \in Sids, name \in Names :
          /\ sid = agents[a].sid /\ name = agents[a].name
    BY <2>3
  <2>5. /\ mServiceMap[sid] = None /\ mServiceNameMap[name] = None /\ agents[a].open
        /\ None \notin Sids /\ a # None
    BY <1>0, <2>1, <2>2, <2>4 DEF CallAgrees, None, Sids
  <2>6. /\ \A s \in Sids : mServiceMap'[s] = IF s = sid THEN a ELSE mServiceMap[s]
        /\ \A n \in Names : mServiceNameMap'[n] = IF n = name THEN sid
                                                  ELSE mServiceNameMap[n]
    BY <1>0, <1>1, <2>2, <2>4 DEF Register, TypeOK
  <2>7. ASSUME NEW n \in Names, mServiceNameMap'[n] # None
        PROVE  /\ mServiceMap'[mServiceNameMap'[n]] # None
               /\ agents'[mServiceMap'[mServiceNameMap'[n]]].name = n
    <3>1. CASE n = name
      BY <1>0, <2>4, <2>5, <2>6, <3>1
    <3>2. CASE n # name
      <4>1. mServiceNameMap'[n] = mServiceNameMap[n] /\ mServiceNameMap[n] \in Sids
        BY <1>0, <2>6, <2>7, <3>2 DEF TypeOK
      <4>2. mServiceNameMap[n] # sid
        BY <2>1, <2>5, <2>7, <4>1 DEF MapsAgree
      <4> QED BY <1>0, <2>1, <2>6, <2>7, <4>1, <4>2 DEF MapsAgree
    <3> QED BY <3>1, <3>2
  <2>8. ASSUME NEW b \in 1 .. created, Registered(b)'
        PROVE  agents'[b].open /\ mServiceNameMap'[agents'[b].name] = agents'[b].sid
    <3>1. agents[b] \in [sid : Sids, name : Names, phase : Phases, open : BOOLEAN]
      BY <1>0 DEF TypeOK
    <3>2. CASE b = a
      BY <1>0, <2>4, <2>5, <2>6, <3>2
    <3>3. CASE b # a
      <4>1. agents[b].sid # sid /\ Registered(b)
        BY <1>0, <2>6, <2>8, <3>1, <3>3 DEF Registered
      <4>2. agents[b].name # name
        BY <2>1, <2>5, <3>1, <4>1 DEF MapsAgree
      <4> QED BY <1>0, <2>1, <2>6, <3>1, <4>1, <4>2 DEF MapsAgree
    <3> QED BY <3>2, <3>3
  <2>9. NamesLead' /\ AgentsAreNamed'
    BY <1>0, <2>7, <2>8 DEF NamesLead, AgentsAreNamed
  <2> QED BY <1>1, <2>9 DEF CallAgrees, Booting
<1> QED BY <1>0, <1>2, <1>3, CallerAgrees DEF Booting


LEMMA SidEraseAgrees ==
    ASSUME OneCaller, IInv, AgreeInv, NEW t \in Callers, SidErase(t)
    PROVE  AgreeInv'
<1>0. /\ TypeOK /\ pc[t] = "sidErase" /\ target[t].sid \in Sids
      /\ UNCHANGED <<mState, mServiceNameMap, created, agents>>
  BY DEF SidErase, mainVars, IInv, TargetsKnown, WithSid
<1>1. CleanedIsClosed'
  BY <1>0 DEF AgreeInv, CleanedIsClosed
<1>2. PICK sid \in Sids : sid = target[t].sid
  BY <1>0
<1>3. ASSUME mState # "STOPPED" PROVE NamesLead' /\ AgentsAreNamed' /\ CallAgrees(t)'
  <2>1. MapsAgree
    BY <1>0, <1>3, AgreeOutside
  <2>2. CASE mServiceMap[sid] = None
    <3>1. pc'[t] = "idle" /\ UNCHANGED mServiceMap
      BY <1>0, <1>2, <2>2 DEF SidErase, Return, Goto, TypeOK
    <3>2. NamesLead' /\ AgentsAreNamed'
      BY <1>0, <2>1, <3>1 DEF MapsAgree, NamesLead, AgentsAreNamed, Registered
    <3> QED BY <3>1, <3>2 DEF CallAgrees, Booting
  <2>3. CASE mServiceMap[sid] # None
    <3>1. PICK a \in 1 .. created : a = mServiceMap[sid] /\ agents[a].sid = sid
      <4>1. mServiceMap[sid] \in 1 .. created
        BY <1>0, <2>3 DEF TypeOK, None
      <4>2. agents[mServiceMap[sid]].sid = sid
        BY <2>3 DEF IInv, SidsMatch
      <4> QED BY <4>1, <4>2
    <3>2. agents[a] \in [sid : Sids, name : Names, phase : Phases, open : BOOLEAN]
      BY <1>0 DEF TypeOK
    <3>3. Registered(a) /\ agents[a].open /\ mServiceNameMap[agents[a].name] = sid
      BY <2>1, <3>1 DEF MapsAgree, Registered
    <3>4. CurrentName(a) = agents[a].name
      BY <3>3 DEF AgreeInv, CleanedIsClosed, CurrentName
    <3>5. /\ pc'[t] = "eraseOwnName" /\ target'[t].sid = sid
          /\ target'[t].name = agents[a].name
          /\ \A s \in Sids : mServiceMap'[s] = IF s = sid THEN None ELSE mServiceMap[s]
      BY <1>0, <1>2, <2>3, <3>1, <3>4 DEF SidErase, Goto, TypeOK
    <3>6. NamesLead'
      <4> SUFFICES ASSUME NEW n \in Names, mServiceNameMap[n] # None
                   PROVE  \/ /\ mServiceMap'[mServiceNameMap[n]] # None
                             /\ agents[mServiceMap'[mServiceNameMap[n]]].name = n
                          \/ NameLeft(t, n)'
        BY <1>0 DEF NamesLead
      <4>1. mServiceNameMap[n] \in Sids
        BY <1>0 DEF TypeOK
      <4>2. CASE mServiceNameMap[n] = sid
        <5>1. agents[a].name = n
          BY <2>1, <3>1, <4>2 DEF MapsAgree
        <5> QED BY <1>0, <3>5, <4>2, <5>1 DEF NameLeft
      <4>3. CASE mServiceNameMap[n] # sid
        BY <2>1, <3>5, <4>1, <4>3 DEF MapsAgree
      <4> QED BY <4>2, <4>3
    <3>7. AgentsAreNamed'
      <4> SUFFICES ASSUME NEW b \in 1 .. created, mServiceMap'[agents[b].sid] = b
                   PROVE  agents[b].open /\ mServiceNameMap[agents[b].name] = agents[b].sid
        BY <1>0 DEF AgentsAreNamed, Registered
      <4>1. agents[b] \in [sid : Sids, name : Names, phase : Phases, open : BOOLEAN]
        BY <1>0 DEF TypeOK
      <4>2. Registered(b)
        BY <1>0, <3>5, <4>1 DEF Registered, None, TypeOK
      <4> QED BY <2>1, <4>2 DEF MapsAgree
    <3>8. CallAgrees(t)'
      BY <1>0, <3>2, <3>3, <3>5 DEF CallAgrees, Booting
    <3> QED BY <3>6, <3>7, <3>8
  <2> QED BY <2>2, <2>3
<1> QED BY <1>0, <1>1, <1>3, CallerAgrees

LEMMA EraseOwnNameAgrees ==
    ASSUME OneCaller, IInv, AgreeInv, NEW t \in Callers, EraseOwnName(t)
    PROVE  AgreeInv'
<1>0. /\ TypeOK /\ pc[t] = "eraseOwnName" /\ pc'[t] = "eraseTicker"
      /\ target[t].sid \in Sids /\ mServiceMap[target[t].sid] = None
      /\ UNCHANGED <<mState, mServiceMap, created, agents, target>>
  BY DEF EraseOwnName, Goto, mainVars, IInv, TypeOK, TargetsKnown, WithSid,
     SidOwnedOnce, Holders, Removing
<1>1. CleanedIsClosed'
  BY <1>0 DEF AgreeInv, CleanedIsClosed
<1>2. PICK name : name = target[t].name
  OBVIOUS
<1>3. \A n \in Names : mServiceNameMap'[n] = IF n = name THEN None ELSE mServiceNameMap[n]
  BY <1>2 DEF EraseOwnName
<1>4. ASSUME mState # "STOPPED" PROVE NamesLead' /\ AgentsAreNamed' /\ CallAgrees(t)'
  <2>1. /\ NamesLead /\ AgentsAreNamed
        /\ name \in Names /\ mServiceNameMap[name] = target[t].sid
    BY <1>0, <1>2, <1>4 DEF AgreeInv, CallAgrees
  <2>2. \A u \in Callers : u = t
    BY DEF OneCaller
  <2>3. NamesLead'
    <3> SUFFICES ASSUME NEW n \in Names, mServiceNameMap'[n] # None
                 PROVE  /\ mServiceMap[mServiceNameMap'[n]] # None
                        /\ agents[mServiceMap[mServiceNameMap'[n]]].name = n
      BY <1>0 DEF NamesLead
    <3>1. n # name /\ mServiceNameMap'[n] = mServiceNameMap[n]
      BY <1>3
    <3>2. ~\E u \in Callers : NameLeft(u, n)
      BY <1>2, <2>2, <3>1 DEF NameLeft
    <3> QED BY <2>1, <3>1, <3>2 DEF NamesLead
  <2>4. AgentsAreNamed'
    <3> SUFFICES ASSUME NEW b \in 1 .. created, Registered(b)
                 PROVE  /\ agents[b].open
                        /\ mServiceNameMap'[agents[b].name] = agents[b].sid
      BY <1>0 DEF AgentsAreNamed, Registered
    <3>1. agents[b] \in [sid : Sids, name : Names, phase : Phases, open : BOOLEAN]
      BY <1>0 DEF TypeOK
    <3>2. ~\E u \in Callers : AgentLeft(u, b)
      BY <1>0, <2>2 DEF AgentLeft
    <3>3. agents[b].open /\ mServiceNameMap[agents[b].name] = agents[b].sid
      BY <2>1, <3>2 DEF AgentsAreNamed
    <3>4. agents[b].sid # target[t].sid
      BY <1>0 DEF Registered, None
    <3>5. agents[b].name # name
      BY <2>1, <3>3, <3>4
    <3> QED BY <1>3, <3>1, <3>3, <3>5
  <2> QED BY <1>0, <2>3, <2>4 DEF CallAgrees, Booting
<1> QED BY <1>0, <1>1, <1>4, CallerAgrees

LEMMA NameEraseAgrees ==
    ASSUME OneCaller, IInv, AgreeInv, NEW t \in Callers, NameErase(t)
    PROVE  AgreeInv'
<1>0. /\ TypeOK /\ pc[t] = "nameErase" /\ target[t].name \in Names
      /\ UNCHANGED <<mState, mServiceMap, created, agents>>
  BY DEF NameErase, mainVars, IInv, TargetsKnown, WithName
<1>1. CleanedIsClosed'
  BY <1>0 DEF AgreeInv, CleanedIsClosed
<1>2. PICK name \in Names : name = target[t].name
  BY <1>0
<1>3. ASSUME mState # "STOPPED" PROVE NamesLead' /\ AgentsAreNamed' /\ CallAgrees(t)'
  <2>1. MapsAgree
    BY <1>0, <1>3, AgreeOutside
  <2>2. CASE mServiceNameMap[name] = None
    <3>1. pc'[t] = "idle" /\ UNCHANGED mServiceNameMap
      BY <1>0, <1>2, <2>2 DEF NameErase, Return, Goto, TypeOK
    <3>2. NamesLead' /\ AgentsAreNamed'
      BY <1>0, <2>1, <3>1 DEF MapsAgree, NamesLead, AgentsAreNamed, Registered
    <3> QED BY <3>1, <3>2 DEF CallAgrees, Booting
  <2>3. CASE mServiceNameMap[name] # None
    <3>1. PICK sid \in Sids : sid = mServiceNameMap[name]
      BY <1>0, <2>3 DEF TypeOK
    <3>2. /\ pc'[t] = "eraseById" /\ target'[t].sid = sid
          /\ target'[t].name = name
          /\ \A n \in Names : mServiceNameMap'[n] = IF n = name THEN None
                                                    ELSE mServiceNameMap[n]
      BY <1>0, <1>2, <2>3, <3>1 DEF NameErase, Goto, TypeOK
    <3>3. \A n \in Names : mServiceNameMap[n] = sid => n = name
      BY <2>1, <2>3, <3>1 DEF MapsAgree
    <3>4. NamesLead'
      BY <1>0, <2>1, <3>2 DEF MapsAgree, NamesLead
    <3>5. AgentsAreNamed'
      <4> SUFFICES ASSUME NEW b \in 1 .. created, Registered(b)
                   PROVE  /\ agents[b].open
                          /\ \/ mServiceNameMap'[agents[b].name] = agents[b].sid
                             \/ AgentLeft(t, b)'
        BY <1>0 DEF AgentsAreNamed, Registered
      <4>1. agents[b] \in [sid : Sids, name : Names, phase : Phases, open : BOOLEAN]
        BY <1>0 DEF TypeOK
      <4>2. agents[b].open /\ mServiceNameMap[agents[b].name] = agents[b].sid
        BY <2>1 DEF MapsAgree
      <4>3. CASE agents[b].name = name
        BY <1>0, <3>1, <3>2, <4>2, <4>3 DEF AgentLeft
      <4>4. CASE agents[b].name # name
        BY <3>2, <4>1, <4>2, <4>4
      <4> QED BY <4>3, <4>4
    <3>6. CallAgrees(t)'
      <4>1. None # sid
        BY <2>3, <3>1
      <4> QED BY <3>2, <3>3, <4>1 DEF CallAgrees, Booting
    <3> QED BY <3>4, <3>5, <3>6
  <2> QED BY <2>2, <2>3
<1> QED BY <1>0, <1>1, <1>3, CallerAgrees

LEMMA EraseByIdAgrees ==
    ASSUME OneCaller, IInv, AgreeInv, NEW t \in Callers, EraseById(t)
    PROVE  AgreeInv'
<1>0. /\ TypeOK /\ pc[t] = "eraseById" /\ target[t].sid \in Sids
      /\ UNCHANGED <<mState, mServiceNameMap, created, agents>>
  BY DEF EraseById, mainVars, IInv, TargetsKnown, WithSid
<1>1. CleanedIsClosed'
  BY <1>0 DEF AgreeInv, CleanedIsClosed
<1>2. PICK sid \in Sids : sid = target[t].sid
  BY <1>0
<1>3. /\ pc'[t] \in {"idle", "eraseTicker"}
      /\ \A s \in Sids : mServiceMap'[s] = IF s = sid THEN None ELSE mServiceMap[s]
  BY <1>0, <1>2 DEF EraseById, Return, Goto, TypeOK
<1>4. ASSUME mState # "STOPPED" PROVE NamesLead' /\ AgentsAreNamed' /\ CallAgrees(t)'
  <2>1. /\ NamesLead /\ AgentsAreNamed
        /\ \A n \in Names : mServiceNameMap[n] # sid
    BY <1>0, <1>2, <1>4 DEF AgreeInv, CallAgrees
  <2>2. \A u \in Callers : u = t
    BY DEF OneCaller
  <2>3. NamesLead'
    <3> SUFFICES ASSUME NEW n \in Names, mServiceNameMap[n] # None
                 PROVE  /\ mServiceMap'[mServiceNameMap[n]] # None
                        /\ agents[mServiceMap'[mServiceNameMap[n]]].name = n
      BY <1>0 DEF NamesLead
    <3>1. mServiceNameMap[n] \in Sids /\ mServiceNameMap[n] # sid
      BY <1>0, <2>1 DEF TypeOK
    <3>2. ~\E u \in Callers : NameLeft(u, n)
      BY <1>0, <2>2 DEF NameLeft
    <3> QED BY <1>3, <2>1, <3>1, <3>2 DEF NamesLead
  <2>4. AgentsAreNamed'
    <3> SUFFICES ASSUME NEW b \in 1 .. created, mServiceMap'[agents[b].sid] = b
                 PROVE  /\ agents[b].open
                        /\ mServiceNameMap[agents[b].name] = agents[b].sid
      BY <1>0 DEF AgentsAreNamed, Registered
    <3>1. agents[b] \in [sid : Sids, name : Names, phase : Phases, open : BOOLEAN]
          /\ b # None
      BY <1>0 DEF TypeOK, None
    <3>2. Registered(b) /\ agents[b].sid # sid
      BY <1>3, <3>1 DEF Registered
    <3>3. ~\E u \in Callers : AgentLeft(u, b)
      BY <1>2, <2>2, <3>2 DEF AgentLeft
    <3> QED BY <2>1, <3>2, <3>3 DEF AgentsAreNamed
  <2> QED BY <1>3, <2>3, <2>4 DEF CallAgrees, Booting
<1> QED BY <1>0, <1>1, <1>4, CallerAgrees

LEMMA LeavingAgrees ==
    ASSUME OneCaller, IInv, AgreeInv, NEW t \in Callers,
           EraseTicker(t) \/ RecycleSid(t) \/ ShutdownStop(t)
    PROVE  AgreeInv'
<1>0. /\ TypeOK /\ pc[t] \in {"eraseTicker", "recycle", "stopAgent"}
      /\ target[t].agent \in 1 .. created
      /\ UNCHANGED <<mState, mServiceMap, mServiceNameMap, created>>
  BY DEF EraseTicker, RecycleSid, ShutdownStop, mainVars, maps, IInv, TargetsKnown,
     WithAgent
<1>1. PICK a \in 1 .. created : a = target[t].agent
  BY <1>0
<1>2. \/ UNCHANGED agents
      \/ pc[t] = "stopAgent" /\ agents' = [agents EXCEPT ![a].open = FALSE]
  BY <1>1 DEF EraseTicker, RecycleSid, ShutdownStop, StopAgent
<1>3. agents \in [1 .. created -> [sid : Sids, name : Names, phase : Phases,
                                   open : BOOLEAN]]
  BY <1>0 DEF TypeOK
<1>4. \A b \in 1 .. created :
        /\ agents'[b].sid = agents[b].sid /\ agents'[b].name = agents[b].name
        /\ agents'[b].phase = agents[b].phase
        /\ b # a \/ pc[t] # "stopAgent" => agents'[b].open = agents[b].open
        /\ ~agents[b].open => ~agents'[b].open
  <2>1. CASE UNCHANGED agents
    BY <2>1
  <2>2. CASE pc[t] = "stopAgent" /\ agents' = [agents EXCEPT ![a].open = FALSE]
    BY <1>3, <2>2
  <2> QED BY <1>2, <2>1, <2>2
<1>5. CleanedIsClosed'
  BY <1>0, <1>4 DEF AgreeInv, CleanedIsClosed
<1>6. ASSUME mState # "STOPPED" PROVE NamesLead' /\ AgentsAreNamed' /\ CallAgrees(t)'
  <2>1. MapsAgree /\ (pc[t] = "stopAgent" => ~Registered(a))
    BY <1>0, <1>1, <1>6, AgreeOutside DEF AgreeInv, CallAgrees
  <2>2. \A b \in 1 .. created : Registered(b) => agents'[b].open
    BY <1>4, <2>1 DEF MapsAgree
  <2>3. MapsAgree'
    BY <1>0, <1>4, <2>1, <2>2, AgreeStays DEF Kept, maps
  <2>4. pc'[t] \in {"idle", "recycle", "stopAgent"}
    BY <1>0 DEF EraseTicker, RecycleSid, ShutdownStop, Return, Goto, TypeOK
  <2>5. pc'[t] = "stopAgent" => ~Registered(target[t].agent)'
    <3> SUFFICES ASSUME pc'[t] = "stopAgent" PROVE ~Registered(target[t].agent)'
      OBVIOUS
    <3>1. pc[t] = "recycle" /\ UNCHANGED <<target, agents>>
      BY <1>0 DEF EraseTicker, RecycleSid, ShutdownStop, Return, Goto, TypeOK
    <3>2. mServiceMap[agents[a].sid] = None
      BY <1>0, <1>1, <3>1 DEF IInv, SidOwnedOnce, SidsMatch, Holders, Removing
    <3> QED BY <1>0, <1>1, <3>1, <3>2 DEF Registered, None
  <2>6. CallAgrees(t)'
    BY <2>4, <2>5 DEF CallAgrees, Booting
  <2> QED BY <2>3, <2>6, AgreeIsEnough DEF MapsAgree, NamesLead, AgentsAreNamed
<1> QED BY <1>0, <1>5, <1>6, CallerAgrees

----------------------------------------------------------------------------
LEMMA AgreeInitially == Init => AgreeInv
  BY DEF Init, AgreeInv, CleanedIsClosed, QuietBefore, NamesLead, AgentsAreNamed,
     CallAgrees, Booting

LEMMA NextAgrees ==
    ASSUME OneCaller, IInv, IInv', AgreeInv, [Next]_vars
    PROVE  AgreeInv'
<1>1. CASE Main
  BY <1>1, InitialCoreAgrees, MainAgrees, AgentsAgree DEF Main
<1>2. CASE PoolAbort \/ UpdateCheck \/ UpdateTick
  BY <1>2, MainAgrees
<1>3. ASSUME NEW a \in 1 .. created, HandlerThrows(a) \/ CleanUp(a) PROVE AgreeInv'
  BY <1>3, AgentsAgree
<1>4. ASSUME NEW t \in Callers,
             BootCall(t) \/ ShutdownCall(t) \/ FindCall(t) \/ Find(t)
      PROVE  AgreeInv'
  BY <1>4, CallsAgree
<1>5. ASSUME NEW t \in Callers, Boot(t) PROVE AgreeInv'
  BY <1>5, BootAllocateAgrees, BootAgrees, BootRegisterAgrees DEF Boot
<1>6. ASSUME NEW t \in Callers, Shutdown(t) PROVE AgreeInv'
  BY <1>6, SidEraseAgrees, EraseOwnNameAgrees, NameEraseAgrees, EraseByIdAgrees,
     LeavingAgrees DEF Shutdown
<1>7. CASE UNCHANGED vars
  BY <1>7 DEF vars, mainVars, maps, allocator, callVars, AgreeInv, CleanedIsClosed,
     QuietBefore, NamesLead, AgentsAreNamed, CallAgrees, Booting, NameLeft, AgentLeft,
     Registered
<1> QED BY <1>1, <1>2, <1>3, <1>4, <1>5, <1>6, <1>7 DEF Next

\* As long as nobody boots and shuts down services at the same time, the two maps
\* agree between the calls: a name leads to the open agent of that name, and an
\* agent that has an id can be found by its name.
THEOREM MapsAgreeForOneCaller ==
    ASSUME OneCaller
    PROVE  Spec => []MapsAgreeBetweenCalls
<1>1. Init => AgreeInv
  BY AgreeInitially
<1>2. IInv /\ IInv' /\ AgreeInv /\ [Next]_vars => AgreeInv'
  BY NextAgrees
<1>3. AgreeInv => MapsAgreeBetweenCalls
  <2> SUFFICES ASSUME AgreeInv, mState = "RUNNING", \A t \in Callers : pc[t] = "idle"
               PROVE  MapsAgree
    BY DEF MapsAgree, MapsAgreeBetweenCalls
  <2> QED BY DEF AgreeInv, NamesLead, AgentsAreNamed, NameLeft, AgentLeft, MapsAgree
<1> QED BY <1>1, <1>2, <1>3, Invariance, PTL DEF Spec
----------------------------------------------------------------------------
\* The registry implements ServiceRegistry.  An agent is registered, booted or
\* removed by one, and a caller works on one that nobody else works on.
LEMMA StagesAreApart ==
    ASSUME IInv
    PROVE  /\ Entered \subseteq 1 .. created /\ Booted \subseteq 1 .. created
           /\ Leaving \subseteq 1 .. created /\ 1 .. created \subseteq Agents
           /\ Entered \cap Booted = {} /\ Entered \cap Leaving = {}
           /\ Booted \cap Leaving = {}
           /\ \A t, u \in Holders : target[t].agent = target[u].agent => t = u
<1>1. \A t \in Holders : /\ target[t].agent \in 1 .. created
                         /\ agents[target[t].agent].sid = target[t].sid
                         /\ mServiceMap[target[t].sid] = None
  BY DEF IInv, TargetsKnown, WithAgent, SidsMatch, SidOwnedOnce, Holders, Booting,
     Removing
<1>2. \A t, u \in Holders : target[t].agent = target[u].agent => t = u
  BY <1>1 DEF IInv, SidOwnedOnce
<1>3. Entered \subseteq 1 .. created /\ 1 .. created \subseteq Agents
  BY MaxAgentsAssumption DEF Entered, Agents, IInv, TypeOK
<1>4. Booted \subseteq 1 .. created /\ Leaving \subseteq 1 .. created
  BY <1>1 DEF Booted, Leaving, Holders
<1>5. Entered \cap Booted = {} /\ Entered \cap Leaving = {}
  BY <1>1 DEF Entered, Booted, Leaving, Holders, Registered, None
<1>6. Booted \cap Leaving = {}
  BY <1>2 DEF Booted, Leaving, Holders, Booting, Removing
<1> QED BY <1>2, <1>3, <1>4, <1>5, <1>6

LifeIsRead ==
    \A a \in Agents :
        /\ a \in Entered => Life[a] = "registered"
        /\ a \in Booted => Life[a] = "booting"
        /\ a \in Leaving => Life[a] = "leaving"
        /\ a \in 1 .. created \ (Entered \cup Booted \cup Leaving) => Life[a] = "gone"
        /\ a \notin 1 .. created => Life[a] = "unborn"

LEMMA LifeIs == IInv => LifeIsRead
<1> SUFFICES ASSUME IInv, NEW a \in Agents
             PROVE  /\ a \in Entered => Life[a] = "registered"
                    /\ a \in Booted => Life[a] = "booting"
                    /\ a \in Leaving => Life[a] = "leaving"
                    /\ a \in 1 .. created \ (Entered \cup Booted \cup Leaving)
                       => Life[a] = "gone"
                    /\ a \notin 1 .. created => Life[a] = "unborn"
  BY DEF LifeIsRead
<1>1. /\ Entered \subseteq 1 .. created /\ Booted \subseteq 1 .. created
      /\ Leaving \subseteq 1 .. created
      /\ Entered \cap Booted = {} /\ Entered \cap Leaving = {} /\ Booted \cap Leaving = {}
  BY StagesAreApart
<1> HIDE DEF Entered, Booted, Leaving
<1>2. CASE a \in Entered
  BY <1>1, <1>2 DEF Life
<1>3. CASE a \in Booted
  BY <1>1, <1>3 DEF Life
<1>4. CASE a \in Leaving
  BY <1>1, <1>4 DEF Life
<1>5. CASE a \in 1 .. created \ (Entered \cup Booted \cup Leaving)
  BY <1>5 DEF Life
<1>6. CASE a \notin 1 .. created
  BY <1>1, <1>6 DEF Life
<1> QED BY <1>1, <1>2, <1>3, <1>4, <1>5, <1>6

LEMMA SameLife ==
    ASSUME UNCHANGED <<created, Entered, Booted, Leaving>>
    PROVE  Life' = Life
  BY DEF Life

\* An agent that passes from one stage to another, while the others stay.
LEMMA LifePasses ==
    ASSUME IInv, IInv', NEW a \in Agents, NEW stage,
           (1 .. created') \ {a} = (1 .. created) \ {a},
           Entered' \ {a} = Entered \ {a}, Booted' \ {a} = Booted \ {a},
           Leaving' \ {a} = Leaving \ {a}, Life'[a] = stage
    PROVE  Life' = [Life EXCEPT ![a] = stage]
<1>0. LifeIsRead /\ LifeIsRead'
  BY LifeIs, PTL
<1>1. ASSUME NEW b \in Agents, b # a PROVE Life'[b] = Life[b]
  <2>1. (b \in Entered <=> b \in Entered') /\ (b \in Booted <=> b \in Booted')
        /\ (b \in Leaving <=> b \in Leaving') /\ (b \in 1 .. created <=> b \in 1 .. created')
    BY <1>1
  <2> HIDE DEF Entered, Booted, Leaving, Life
  <2> QED BY <1>0, <2>1 DEF LifeIsRead
<1>2. DOMAIN Life = Agents /\ DOMAIN Life' = Agents
  BY DEF Life, Agents
<1>3. Life = [b \in Agents |-> Life[b]] /\ Life' = [b \in Agents |-> Life'[b]]
  BY DEF Life, Agents
<1> HIDE DEF Life
<1> QED BY <1>1, <1>2, <1>3

\* What a step of caller t does to the agents that are booted and removed.
LEMMA HoldersMove ==
    ASSUME IInv, NEW t \in Callers,
           \A u \in Callers \ {t} : pc'[u] = pc[u] /\ target'[u] = target[u]
    PROVE  /\ t \notin Booting /\ t \notin Booting' => Booted' = Booted
           /\ t \notin Booting /\ t \in Booting'
              => Booted' = Booted \cup {target'[t].agent}
           /\ t \in Booting /\ t \notin Booting' => Booted' = Booted \ {target[t].agent}
           /\ t \in Booting /\ t \in Booting' /\ target'[t].agent = target[t].agent
              => Booted' = Booted
           /\ t \notin Removing /\ t \notin Removing' => Leaving' = Leaving
           /\ t \notin Removing /\ t \in Removing'
              => Leaving' = Leaving \cup {target'[t].agent}
           /\ t \in Removing /\ t \notin Removing'
              => Leaving' = Leaving \ {target[t].agent}
           /\ t \in Removing /\ t \in Removing' /\ target'[t].agent = target[t].agent
              => Leaving' = Leaving
<1>1. /\ \A u \in Callers \ {t} : (u \in Booting' <=> u \in Booting)
                                  /\ (u \in Removing' <=> u \in Removing)
      /\ Booting \subseteq Callers /\ Booting' \subseteq Callers
      /\ Removing \subseteq Callers /\ Removing' \subseteq Callers
  BY DEF Booting, Removing
<1>2. \A u, v \in Holders : target[u].agent = target[v].agent => u = v
  BY StagesAreApart
<1>3. /\ \A u, v \in Booting : target[u].agent = target[v].agent => u = v
      /\ \A u, v \in Removing : target[u].agent = target[v].agent => u = v
  BY <1>2 DEF Holders
<1> HIDE DEF Booting, Removing
<1>4. /\ t \notin Booting /\ t \notin Booting' => Booted' = Booted
      /\ t \notin Booting /\ t \in Booting' => Booted' = Booted \cup {target'[t].agent}
  BY <1>1 DEF Booted
<1>5. t \in Booting /\ t \notin Booting' => Booted' = Booted \ {target[t].agent}
  BY <1>1, <1>3 DEF Booted
<1>6. t \in Booting /\ t \in Booting' /\ target'[t].agent = target[t].agent
      => Booted' = Booted
  BY <1>1 DEF Booted
<1>7. /\ t \notin Removing /\ t \notin Removing' => Leaving' = Leaving
      /\ t \notin Removing /\ t \in Removing' => Leaving' = Leaving \cup {target'[t].agent}
  BY <1>1 DEF Leaving
<1>8. t \in Removing /\ t \notin Removing' => Leaving' = Leaving \ {target[t].agent}
  BY <1>1, <1>3 DEF Leaving
<1>9. t \in Removing /\ t \in Removing' /\ target'[t].agent = target[t].agent
      => Leaving' = Leaving
  BY <1>1 DEF Leaving
<1> QED BY <1>4, <1>5, <1>6, <1>7, <1>8, <1>9

LEMMA SameAnswers ==
    ASSUME \A t \in Callers : \/ pc'[t] = pc[t] /\ target'[t] = target[t]
                              \/ pc[t] # "found" /\ pc'[t] # "found"
    PROVE  UNCHANGED Answers
  BY DEF Answers

LEMMA SameSidsGiven ==
    ASSUME created' = created, \A b \in 1 .. created : agents'[b].sid = agents[b].sid
    PROVE  UNCHANGED SidsGiven
  BY DEF SidsGiven

LEMMA ServiceCreated ==
    ASSUME IInv, IInv', UNCHANGED Answers, created' = created + 1,
           NEW s \in Sids, s \notin 1 .. mNext \ mHashSet,
           agents'[created + 1].sid = s,
           \A b \in 1 .. created : agents'[b].sid = agents[b].sid,
           Entered' \ {created + 1} = Entered, Booted' \ {created + 1} = Booted,
           Leaving' = Leaving
    PROVE  Registry!Next
<1>1. PICK a : a = created + 1
  OBVIOUS
<1>2. created \in Nat /\ created' \in 0 .. MaxAgents /\ MaxAgents \in Nat
  BY MaxAgentsAssumption DEF IInv, TypeOK
<1>3. a \in Agents /\ a \notin 1 .. created /\ 1 .. created' = (1 .. created) \cup {a}
  BY <1>1, <1>2 DEF Agents
<1>4. /\ Entered \subseteq 1 .. created /\ Booted \subseteq 1 .. created
      /\ Leaving \subseteq 1 .. created
  BY StagesAreApart
<1>5. LifeIsRead /\ LifeIsRead'
  BY LifeIs, PTL
<1>6. PICK stage : stage = Life'[a]
  OBVIOUS
<1>7. Life[a] = "unborn" /\ stage \in {"booting", "registered", "gone"}
  BY <1>1, <1>3, <1>4, <1>5, <1>6 DEF LifeIsRead
<1>8. Life' = [Life EXCEPT ![a] = stage]
  <2>1. (1 .. created') \ {a} = (1 .. created) \ {a}
    BY <1>3
  <2> QED BY <1>1, <1>3, <1>4, <1>6, <2>1, LifePasses
<1>9. SidsGiven' = [SidsGiven EXCEPT ![a] = s]
  <2>1. \A b \in Agents : SidsGiven'[b] = IF b = a THEN s ELSE SidsGiven[b]
    BY <1>1, <1>3 DEF SidsGiven
  <2>2. SidsGiven = [b \in Agents |-> SidsGiven[b]] /\ SidsGiven' = [b \in Agents |-> SidsGiven'[b]]
    BY DEF SidsGiven, Agents
  <2> HIDE DEF SidsGiven
  <2> QED BY <2>1, <2>2
<1>10. ASSUME NEW b \in Registry!Owners PROVE SidsGiven[b] # s
  <2>1. b \in Agents /\ Life[b] \in {"booting", "registered", "leaving"}
    BY DEF Registry!Owners
  <2>2. b \in Entered \cup Booted \cup Leaving
    BY <1>5, <2>1 DEF LifeIsRead
  <2>3. b \in 1 .. created /\ SidsGiven[b] = agents[b].sid
    BY <1>4, <2>1, <2>2 DEF SidsGiven
  <2>4. CASE b \in Entered
    <3>1. agents[b] \in [sid : Sids, name : Names, phase : Phases, open : BOOLEAN]
      BY <2>3 DEF IInv, TypeOK
    <3>2. mServiceMap[agents[b].sid] # None
      BY <2>3, <2>4 DEF Entered, Registered, None
    <3>3. agents[b].sid \in 1 .. mNext \ mHashSet
      BY <3>1, <3>2 DEF IInv, SidOwnedOnce
    <3> QED BY <2>3, <3>3
  <2>5. CASE b \in Booted \cup Leaving
    <3>1. PICK t \in Holders : target[t].agent = b
      BY <2>5 DEF Booted, Leaving, Holders
    <3>2. agents[b].sid = target[t].sid /\ target[t].sid \in 1 .. mNext \ mHashSet
      BY <3>1 DEF IInv, SidsMatch, SidOwnedOnce
    <3> QED BY <2>3, <3>2
  <2> QED BY <2>2, <2>4, <2>5
<1>11. s \in Sids \ {SidsGiven[b] : b \in Registry!Owners}
  BY <1>10
<1>12. Registry!Create(a)
  BY <1>7, <1>8, <1>9, <1>11 DEF Registry!Create
<1> QED BY <1>3, <1>12 DEF Registry!Next

LEMMA ServicePasses ==
    ASSUME IInv, IInv', UNCHANGED <<Answers, created>>, NEW a \in 1 .. created,
           \A b \in 1 .. created : agents'[b].sid = agents[b].sid,
           Entered' \ {a} = Entered \ {a}, Booted' \ {a} = Booted \ {a},
           Leaving' \ {a} = Leaving \ {a},
           \/ a \in Booted /\ a \in Entered'
           \/ a \in Entered /\ a \in Leaving'
           \/ a \in Booted \cup Leaving /\ a \notin Entered' \cup Booted' \cup Leaving'
    PROVE  Registry!Next
<1>1. a \in Agents
  BY StagesAreApart
<1>2. LifeIsRead /\ LifeIsRead'
  BY LifeIs, PTL
<1>3. PICK stage : stage = Life'[a]
  OBVIOUS
<1>4. Life' = [Life EXCEPT ![a] = stage]
  BY <1>1, <1>3, LifePasses
<1>5. UNCHANGED <<SidsGiven, Answers>>
  BY SameSidsGiven
<1>6. CASE a \in Booted /\ a \in Entered'
  <2>1. Life[a] = "booting" /\ stage = "registered"
    BY <1>1, <1>2, <1>3, <1>6 DEF LifeIsRead
  <2> QED BY <1>1, <1>4, <1>5, <2>1 DEF Registry!Next, Registry!Register, Registry!Passes
<1>7. CASE a \in Entered /\ a \in Leaving'
  <2>1. Life[a] = "registered" /\ stage = "leaving"
    BY <1>1, <1>2, <1>3, <1>7 DEF LifeIsRead
  <2> QED BY <1>1, <1>4, <1>5, <2>1 DEF Registry!Next, Registry!Remove, Registry!Passes
<1>8. CASE a \in Booted /\ a \notin Entered' \cup Booted' \cup Leaving'
  <2>1. Life[a] = "booting" /\ stage = "gone"
    BY <1>1, <1>2, <1>3, <1>8 DEF LifeIsRead
  <2> QED BY <1>1, <1>4, <1>5, <2>1 DEF Registry!Next, Registry!Refuse, Registry!Passes
<1>9. CASE a \in Leaving /\ a \notin Entered' \cup Booted' \cup Leaving'
  <2>1. Life[a] = "leaving" /\ stage = "gone"
    BY <1>1, <1>2, <1>3, <1>9 DEF LifeIsRead
  <2> QED BY <1>1, <1>4, <1>5, <2>1 DEF Registry!Next, Registry!End, Registry!Passes
<1> QED BY <1>6, <1>7, <1>8, <1>9

LEMMA ServicesStay ==
    ASSUME UNCHANGED <<Answers, created, Entered, Booted, Leaving>>,
           \A b \in 1 .. created : agents'[b].sid = agents[b].sid
    PROVE  UNCHANGED Registry!vars
  BY SameLife, SameSidsGiven DEF Registry!vars

\* Initial registers a core service or refuses it, with an id nobody has.
LEMMA InitialCoreCreates ==
    ASSUME IInv, IInv', InitialCore
    PROVE  Registry!Next
<1>1. PICK sid \in Sids, ok \in BOOLEAN, name \in Names, joined \in BOOLEAN :
        /\ IsFree(sid)
        /\ NewAgent(sid, name, joined)
        /\ IF joined
           THEN mServiceMap' = [mServiceMap EXCEPT ![sid] = created + 1]
           ELSE UNCHANGED mServiceMap
  <2>1. CoreNames[created + 1] \in Names
    BY NamesAssumption DEF InitialCore, IInv, TypeOK
  <2> QED BY <2>1 DEF InitialCore, maps
<1>2. /\ created' = created + 1 /\ created \in Nat
      /\ \A b \in 1 .. created : agents'[b] = agents[b]
      /\ agents'[created + 1].sid = sid
  <2>1. TypeOK
    BY DEF IInv
  <2>2. agents'[created + 1] = [sid |-> sid, name |-> name,
                                phase |-> "created", open |-> joined]
        /\ created' = created + 1 /\ \A b \in 1 .. created : agents'[b] = agents[b]
    BY <1>1, <2>1, NewAgentAdds
  <2> QED BY <2>1, <2>2 DEF TypeOK
<1>3. sid \notin 1 .. mNext \ mHashSet
  BY <1>1 DEF IsFree, IInv, TypeOK
<1>4. mServiceMap[sid] = None
  BY <1>3 DEF IInv, SidOwnedOnce
<1>5. UNCHANGED <<Booted, Leaving, Answers>>
  BY DEF InitialCore, callVars, Booted, Leaving, Booting, Removing, Answers
<1>6. Entered' \ {created + 1} = Entered
  <2>1. ASSUME NEW b \in 1 .. created PROVE b \in Entered' <=> b \in Entered
    <3>1. agents[b] \in [sid : Sids, name : Names, phase : Phases, open : BOOLEAN]
          /\ b # created + 1 /\ b # None
      BY <1>2 DEF IInv, TypeOK, None
    <3>2. agents[b].sid = sid => mServiceMap[agents[b].sid] # b
                                 /\ mServiceMap'[agents[b].sid] # b
      BY <1>1, <1>4, <3>1 DEF IInv, TypeOK
    <3>3. agents[b].sid # sid => mServiceMap'[agents[b].sid] = mServiceMap[agents[b].sid]
      BY <1>1, <3>1 DEF IInv, TypeOK
    <3> QED BY <1>2, <3>2, <3>3 DEF Entered, Registered
  <2>2. Entered' \subseteq 1 .. created + 1 /\ Entered \subseteq 1 .. created
    BY <1>2 DEF Entered
  <2>3. (1 .. created + 1) \ {created + 1} = 1 .. created
    BY <1>2
  <2> HIDE DEF Entered
  <2> QED BY <2>1, <2>2, <2>3
<1>7. Booted' \ {created + 1} = Booted
  <2>1. Booted \subseteq 1 .. created
    BY StagesAreApart
  <2>2. created + 1 \notin 1 .. created
    BY <1>2
  <2> QED BY <1>5, <2>1, <2>2
<1> QED BY <1>2, <1>3, <1>5, <1>6, <1>7, ServiceCreated

\* Stop clears both maps.
LEMMA StopClearClears ==
    ASSUME IInv, IInv', StopClear
    PROVE  Registry!Next
<1>1. UNCHANGED <<created, agents, Booted, Leaving, Answers>>
  BY DEF StopClear, callVars, Booted, Leaving, Booting, Removing, Answers
<1>2. Entered' = {}
  <2>1. ASSUME NEW a \in 1 .. created PROVE a \notin Entered'
    <3>1. agents[a] \in [sid : Sids, name : Names, phase : Phases, open : BOOLEAN]
      BY DEF IInv, TypeOK
    <3> QED BY <1>1, <3>1 DEF StopClear, Entered, Registered, None
  <2> QED BY <1>1, <2>1 DEF Entered
<1>3. LifeIsRead /\ LifeIsRead'
  BY LifeIs, PTL
<1>4. /\ Entered \subseteq 1 .. created /\ Booted \subseteq 1 .. created
      /\ Leaving \subseteq 1 .. created
      /\ Entered \cap Booted = {} /\ Entered \cap Leaving = {}
  BY StagesAreApart
<1>5. \A a \in Agents : Life'[a] = IF Life[a] = "registered" THEN "gone" ELSE Life[a]
  <2> HIDE DEF Life, Entered, Booted, Leaving
  <2> SUFFICES ASSUME NEW a \in Agents
               PROVE  Life'[a] = IF Life[a] = "registered" THEN "gone" ELSE Life[a]
    OBVIOUS
  <2>1. CASE a \in Entered
    BY <1>1, <1>2, <1>3, <1>4, <2>1 DEF LifeIsRead
  <2>2. CASE a \notin Entered
    BY <1>1, <1>2, <1>3, <1>4, <2>2 DEF LifeIsRead
  <2> QED BY <2>1, <2>2
<1>6. Life' = [a \in Agents |-> Life'[a]]
  BY DEF Life, Agents
<1>7. UNCHANGED SidsGiven
  BY <1>1, SameSidsGiven
<1>8. Registry!Clear
  <2> HIDE DEF Life
  <2>1. Life' = [a \in Agents |-> IF Life[a] = "registered" THEN "gone" ELSE Life[a]]
    BY <1>5, <1>6
  <2> QED BY <1>1, <1>7, <2>1 DEF Registry!Clear
<1> QED BY <1>8 DEF Registry!Next

\* Whatever else runs moves no service.
LEMMA OthersStay ==
    ASSUME IInv,
           \/ InitialDone \/ StartDone \/ StopBegin \/ StopAgents \/ StopPool
           \/ PoolAbort \/ UpdateCheck \/ UpdateTick
           \/ \E a \in 1 .. created : StartCore(a) \/ HandlerThrows(a) \/ CleanUp(a)
    PROVE  UNCHANGED Registry!vars
<1>1. UNCHANGED <<created, mServiceMap, pc, target>>
  BY DEF InitialDone, StartDone, StopBegin, StopAgents, StopPool, PoolAbort,
     UpdateCheck, UpdateTick, StartCore, HandlerThrows, CleanUp, maps, callVars
<1>2. agents \in [1 .. created -> [sid : Sids, name : Names, phase : Phases,
                                   open : BOOLEAN]]
  BY DEF IInv, TypeOK
<1>3. \A b \in 1 .. created : agents'[b].sid = agents[b].sid
  <2>1. CASE StopAgents
    BY <1>2, <2>1 DEF StopAgents
  <2>2. ASSUME NEW a \in 1 .. created, StartCore(a) \/ HandlerThrows(a) \/ CleanUp(a)
        PROVE  \A b \in 1 .. created : agents'[b].sid = agents[b].sid
    <3>1. PICK phase : agents' = [agents EXCEPT ![a].phase = phase]
      BY <2>2 DEF StartCore, HandlerThrows, CleanUp, ServeAgent, RefuseAgent
    <3> QED BY <1>2, <3>1
  <2>3. CASE ~StopAgents /\ ~\E a \in 1 .. created : StartCore(a) \/ HandlerThrows(a) \/ CleanUp(a)
    <3>1. agents' = agents
      BY <2>3 DEF InitialDone, StartDone, StopBegin, StopPool, PoolAbort,
         UpdateCheck, UpdateTick
    <3> QED BY <3>1
  <2> QED BY <2>1, <2>2, <2>3
<1>4. UNCHANGED <<Entered, Booted, Leaving, Answers>>
  BY <1>1, <1>3 DEF Entered, Registered, Booted, Leaving, Booting, Removing, Answers
<1> QED BY <1>1, <1>3, <1>4, ServicesStay

\* A step of caller t between labels at which it works on the same agent, or on
\* none; it may take an agent out of the registry only by becoming its remover.
LEMMA CallerStays ==
    ASSUME IInv, NEW t \in Callers, UNCHANGED <<created, mServiceMap>>,
           \A b \in 1 .. created : agents'[b].sid = agents[b].sid,
           \A u \in Callers \ {t} : pc'[u] = pc[u] /\ target'[u] = target[u],
           pc[t] # "found", pc'[t] # "found",
           \/ t \notin Holders /\ t \notin Holders'
           \/ target'[t].agent = target[t].agent
              /\ \/ t \in Booting /\ t \in Booting'
                 \/ t \in Removing /\ t \in Removing'
    PROVE  UNCHANGED Registry!vars
<1>1. t \in Booting => t \notin Removing
  BY DEF Booting, Removing
<1>2. t \in Booting' => t \notin Removing'
  BY DEF Booting, Removing
<1>3. UNCHANGED <<Booted, Leaving>>
  <2> HIDE DEF Booting, Removing, Booted, Leaving
  <2> QED BY <1>1, <1>2, HoldersMove DEF Holders
<1>4. UNCHANGED Entered
  BY DEF Entered, Registered
<1>5. UNCHANGED Answers
  BY SameAnswers
<1> QED BY <1>3, <1>4, <1>5, ServicesStay

\* Where a caller's step leaves the others.
LEMMA OthersWait ==
    ASSUME IInv, NEW t \in Callers, Boot(t) \/ Shutdown(t) \/ Find(t) \/ BootCall(t)
                                    \/ ShutdownCall(t) \/ FindCall(t)
    PROVE  /\ \A u \in Callers \ {t} : pc'[u] = pc[u] /\ target'[u] = target[u]
           /\ created' = created \/ BootAllocate(t)
<1>1. pc \in [Callers -> Labels] /\ DOMAIN target = Callers
  BY DEF IInv, TypeOK
<1>2. CASE Boot(t)
  BY <1>1, <1>2 DEF Boot, BootAllocate, BootInitial, BootName, BootStart, BootRegister,
     BootFail, Return, Goto
<1>3. CASE Shutdown(t)
  BY <1>1, <1>3 DEF Shutdown, SidErase, EraseOwnName, NameErase, EraseById, EraseTicker,
     RecycleSid, ShutdownStop, Return, Goto
<1>4. CASE Find(t) \/ BootCall(t) \/ ShutdownCall(t) \/ FindCall(t)
  BY <1>1, <1>4 DEF Find, FindSid, FindAgent, FindReturn, Return, Goto, BootCall,
     ShutdownCall, FindCall, Call
<1> QED BY <1>2, <1>3, <1>4

LEMMA LookupsFind ==
    ASSUME IInv, NEW t \in Callers, FindAgent(t) \/ FindReturn(t)
    PROVE  Registry!Next \/ UNCHANGED Registry!vars
<1>0. /\ UNCHANGED <<created, mServiceMap, agents>>
      /\ \A u \in Callers \ {t} : pc'[u] = pc[u] /\ target'[u] = target[u]
      /\ pc[t] \in {"findAgent", "found"} /\ pc'[t] \in {"found", "idle"}
  <2>1. Find(t)
    BY DEF Find
  <2>2. \A u \in Callers \ {t} : pc'[u] = pc[u] /\ target'[u] = target[u]
    BY <2>1, OthersWait
  <2> QED BY <2>2 DEF FindAgent, FindReturn, maps, Return, Goto, IInv, TypeOK
<1>1. t \notin Booting /\ t \notin Booting' /\ t \notin Removing /\ t \notin Removing'
  BY <1>0 DEF Booting, Removing
<1>2. UNCHANGED <<Booted, Leaving, Entered, Life, SidsGiven>>
  <2>1. UNCHANGED <<Booted, Leaving>>
    <3> HIDE DEF Booting, Removing
    <3> QED BY <1>0, <1>1, HoldersMove
  <2>2. UNCHANGED Entered
    BY <1>0 DEF Entered, Registered
  <2> QED BY <1>0, <2>1, <2>2, SameLife, SameSidsGiven
<1>3. PICK a : a = Answers'[t]
  OBVIOUS
<1>4. Answers' = [Answers EXCEPT ![t] = a]
  <2>1. \A u \in Callers \ {t} : Answers'[u] = Answers[u]
    BY <1>0 DEF Answers
  <2>2. Answers = [u \in Callers |-> Answers[u]] /\ Answers' = [u \in Callers |-> Answers'[u]]
    BY DEF Answers
  <2> HIDE DEF Answers
  <2> QED BY <1>3, <2>1, <2>2
<1>5. CASE pc'[t] = "idle"
  <2>1. a = None
    BY <1>3, <1>5 DEF Answers
  <2> QED BY <1>2, <1>4, <2>1 DEF Registry!Next, Registry!Forget
<1>6. CASE pc'[t] = "found"
  <2>1. /\ FindAgent(t) /\ target[t].sid \in Sids
        /\ mServiceMap[target[t].sid] # None
        /\ target'[t].agent = mServiceMap[target[t].sid]
    BY <1>6 DEF FindAgent, FindReturn, Return, Goto, IInv, TypeOK, TargetsKnown, WithSid
  <2>2. a = mServiceMap[target[t].sid]
    BY <1>3, <1>6, <2>1 DEF Answers
  <2>3. a \in 1 .. created /\ agents[a].sid = target[t].sid
    <3>1. a \in 1 .. created
      BY <2>1, <2>2 DEF IInv, TypeOK, None
    <3> QED BY <2>1, <2>2, <3>1 DEF IInv, SidsMatch
  <2>4. a \in Entered
    BY <2>2, <2>3 DEF Entered, Registered
  <2>5. a \in Agents /\ Life[a] = "registered"
    BY <2>3, <2>4, LifeIs, StagesAreApart DEF LifeIsRead
  <2> QED BY <1>2, <1>4, <2>5 DEF Registry!Next, Registry!Find
<1> QED BY <1>0, <1>5, <1>6

\* The caller holds no agent before and after.
LEMMA CallsStay ==
    ASSUME IInv, NEW t \in Callers,
           BootCall(t) \/ ShutdownCall(t) \/ FindCall(t) \/ FindSid(t) \/ NameErase(t)
           \/ ShutdownStop(t)
    PROVE  UNCHANGED Registry!vars
<1>1. \A u \in Callers \ {t} : pc'[u] = pc[u] /\ target'[u] = target[u]
  BY OthersWait DEF Find, Shutdown
<1>2. /\ UNCHANGED <<created, mServiceMap>>
      /\ pc[t] \in {"idle", "findSid", "nameErase", "stopAgent"}
      /\ pc'[t] \in {"idle", "bootAllocate", "sidErase", "nameErase", "findSid",
                     "findAgent", "eraseById"}
  BY DEF BootCall, ShutdownCall, FindCall, Call, FindSid, NameErase, ShutdownStop,
     Return, Goto, maps, IInv, TypeOK
<1>3. \A b \in 1 .. created : agents'[b].sid = agents[b].sid
  <2>1. CASE ShutdownStop(t)
    <3>1. agents \in [1 .. created -> [sid : Sids, name : Names, phase : Phases,
                                       open : BOOLEAN]]
      BY DEF IInv, TypeOK
    <3>2. agents' = [agents EXCEPT ![target[t].agent].open = FALSE]
      BY <2>1 DEF ShutdownStop, StopAgent
    <3> QED BY <3>1, <3>2
  <2>2. CASE ~ShutdownStop(t)
    <3>1. agents' = agents
      BY <2>2 DEF BootCall, ShutdownCall, FindCall, Call, FindSid, NameErase
    <3> QED BY <3>1
  <2> QED BY <2>1, <2>2
<1>4. t \notin Holders /\ t \notin Holders'
  BY <1>2 DEF Holders, Booting, Removing
<1> QED BY <1>1, <1>2, <1>3, <1>4, CallerStays

LEMMA BootAllocateCreates ==
    ASSUME IInv, IInv', NEW t \in Callers, BootAllocate(t)
    PROVE  Registry!Next \/ UNCHANGED Registry!vars
<1>0. /\ pc[t] = "bootAllocate" /\ UNCHANGED mServiceMap
      /\ \A u \in Callers \ {t} : pc'[u] = pc[u] /\ target'[u] = target[u]
      /\ t \notin Holders /\ t \notin Booting /\ t \notin Removing
      /\ pc'[t] # "found"
  <2>1. \A u \in Callers \ {t} : pc'[u] = pc[u] /\ target'[u] = target[u]
    BY OthersWait DEF Boot
  <2> QED BY <2>1 DEF BootAllocate, maps, Holders, Booting, Removing, Return, Goto,
             IInv, TypeOK
<1>1. CASE Return(t) /\ UNCHANGED <<created, agents>>
  <2>1. t \notin Holders'
    BY <1>1 DEF Return, Goto, Holders, Booting, Removing, IInv, TypeOK
  <2> QED BY <1>0, <1>1, <2>1, CallerStays
<1>2. ASSUME NEW sid \in Sids, Allocate(sid), NewAgent(sid, target[t].name, TRUE),
             target' = [target EXCEPT ![t].sid = sid, ![t].agent = created + 1],
             Goto(t, "bootInitial")
      PROVE  Registry!Next
  <2>1. TypeOK /\ target[t].name \in Names /\ created \in Nat
    BY <1>0 DEF IInv, TypeOK, TargetsKnown, WithName
  <2>2. /\ created' = created + 1
        /\ \A b \in 1 .. created : agents'[b] = agents[b]
        /\ agents'[created + 1].sid = sid
    <3>1. /\ created' = created + 1
          /\ \A b \in 1 .. created : agents'[b] = agents[b]
          /\ agents'[created + 1] = [sid |-> sid, name |-> target[t].name,
                                     phase |-> "created", open |-> TRUE]
      BY <1>2, <2>1, NewAgentAdds
    <3> QED BY <3>1
  <2>3. sid \notin 1 .. mNext \ mHashSet
    BY <1>2, <2>1 DEF Allocate, IsFree, TypeOK
  <2>4. mServiceMap[sid] = None
    BY <2>3 DEF IInv, SidOwnedOnce
  <2>5. target'[t].agent = created + 1 /\ t \in Booting' /\ t \notin Removing'
    BY <1>2, <2>1 DEF Goto, Booting, Removing, TypeOK
  <2>6. Booted' = Booted \cup {created + 1} /\ Leaving' = Leaving
    <3> HIDE DEF Booting, Removing
    <3> QED BY <1>0, <2>5, HoldersMove
  <2>7. /\ Booted \subseteq 1 .. created /\ Entered \subseteq 1 .. created
        /\ created + 1 \notin 1 .. created
    BY <2>1, StagesAreApart
  <2>8. Entered' = Entered
    <3>1. created + 1 \notin Entered'
      BY <1>0, <2>1, <2>2, <2>4 DEF Entered, Registered, None
    <3>2. \A b \in 1 .. created : Registered(b)' <=> Registered(b)
      BY <1>0, <2>2 DEF Registered
    <3>3. Entered' = {b \in 1 .. created + 1 : Registered(b)'}
      BY <2>2 DEF Entered
    <3>4. 1 .. created + 1 = (1 .. created) \cup {created + 1}
      BY <2>1
    <3> QED BY <3>1, <3>2, <3>3, <3>4 DEF Entered
  <2>9. UNCHANGED Answers
    BY <1>0, SameAnswers
  <2> QED BY <2>2, <2>3, <2>6, <2>7, <2>8, <2>9, ServiceCreated
<1> QED BY <1>1, <1>2 DEF BootAllocate

\* A boot that fails ends the service; one that goes on keeps it.
LEMMA BootRefusesOrStays ==
    ASSUME IInv, IInv', NEW t \in Callers, BootInitial(t) \/ BootName(t) \/ BootStart(t)
    PROVE  Registry!Next \/ UNCHANGED Registry!vars
<1>0. /\ pc[t] \in {"bootInitial", "bootName", "bootStart"} /\ TypeOK
      /\ UNCHANGED <<mServiceMap, created>>
      /\ \A u \in Callers \ {t} : pc'[u] = pc[u] /\ target'[u] = target[u]
      /\ t \in Booting /\ t \notin Removing /\ target[t].agent \in 1 .. created
      /\ mServiceMap[target[t].sid] = None
  <2>1. \A u \in Callers \ {t} : pc'[u] = pc[u] /\ target'[u] = target[u]
    BY OthersWait DEF Boot
  <2>2. t \in Booting /\ t \notin Removing
    BY DEF BootInitial, BootName, BootStart, Booting, Removing
  <2> QED BY <2>1, <2>2 DEF BootInitial, BootName, BootStart, maps, IInv, TargetsKnown,
             WithAgent, SidOwnedOnce, Holders
<1>1. PICK a \in 1 .. created : a = target[t].agent
  BY <1>0
<1>2. agents \in [1 .. created -> [sid : Sids, name : Names, phase : Phases,
                                   open : BOOLEAN]]
  BY <1>0 DEF TypeOK
<1>3. \A b \in 1 .. created : agents'[b].sid = agents[b].sid
  <2>1. \/ agents' = agents \/ agents' = [agents EXCEPT ![a].open = FALSE]
        \/ agents' = [agents EXCEPT ![a].phase = "serving"]
    BY <1>0, <1>1 DEF BootInitial, BootName, BootStart, BootFail, StopAgent, ServeAgent
  <2>2. CASE agents' = [agents EXCEPT ![a].open = FALSE]
    BY <1>2, <2>2
  <2>3. CASE agents' = [agents EXCEPT ![a].phase = "serving"]
    BY <1>2, <2>3
  <2> QED BY <2>1, <2>2, <2>3
<1>4. Entered' = Entered
  BY <1>0, <1>3 DEF Entered, Registered
<1>5. CASE BootFail(t)
  <2>1. pc'[t] = "idle"
    BY <1>0, <1>5 DEF BootFail, Return, Goto, TypeOK
  <2>2. t \notin Booting' /\ t \notin Removing'
    BY <2>1 DEF Booting, Removing
  <2>3. Booted' = Booted \ {a} /\ Leaving' = Leaving /\ a \in Booted
    <3>1. a \in Booted
      BY <1>0, <1>1 DEF Booted
    <3> HIDE DEF Booting, Removing
    <3> QED BY <1>0, <1>1, <2>2, <3>1, HoldersMove
  <2>4. UNCHANGED Answers
    BY <1>0, <2>1, SameAnswers
  <2>5. a \notin Entered /\ a \notin Leaving
    BY <2>3, StagesAreApart
  <2> HIDE DEF Entered, Booted, Leaving
  <2> QED BY <1>0, <1>3, <1>4, <2>3, <2>4, <2>5, ServicePasses
<1>6. CASE ~BootFail(t)
  <2>1. pc'[t] \in {"bootName", "bootStart", "bootRegister"} /\ target' = target
    BY <1>0, <1>6 DEF BootInitial, BootName, BootStart, Goto, TypeOK
  <2>2. t \in Booting'
    BY <2>1 DEF Booting
  <2>3. target'[t].agent = target[t].agent /\ pc[t] # "found" /\ pc'[t] # "found"
    BY <1>0, <2>1
  <2> QED BY <1>0, <1>3, <2>2, <2>3, CallerStays
<1> QED BY <1>5, <1>6

LEMMA BootRegisterRegisters ==
    ASSUME IInv, IInv', NEW t \in Callers, BootRegister(t)
    PROVE  Registry!Next
<1>0. /\ pc[t] = "bootRegister" /\ TypeOK /\ UNCHANGED <<created, agents>>
      /\ \A u \in Callers \ {t} : pc'[u] = pc[u] /\ target'[u] = target[u]
      /\ t \in Booting /\ t \notin Removing /\ target[t].agent \in 1 .. created
      /\ mServiceMap[target[t].sid] = None /\ agents[target[t].agent].sid = target[t].sid
      /\ pc'[t] = "idle"
  <2>1. \A u \in Callers \ {t} : pc'[u] = pc[u] /\ target'[u] = target[u]
    BY OthersWait DEF Boot
  <2>2. t \in Booting /\ t \notin Removing /\ UNCHANGED <<created, agents>>
    BY DEF BootRegister, Booting, Removing
  <2> QED BY <2>1, <2>2 DEF BootRegister, IInv, TypeOK, TargetsKnown, SidsMatch,
             WithAgent, SidOwnedOnce, Holders, Return, Goto
<1>1. PICK a \in 1 .. created : a = target[t].agent
  BY <1>0
<1>2. PICK sid \in Sids : sid = agents[a].sid /\ mServiceMap[sid] = None
  <2>1. agents[a] \in [sid : Sids, name : Names, phase : Phases, open : BOOLEAN]
    BY <1>0 DEF TypeOK
  <2> QED BY <1>0, <1>1, <2>1
<1>3. mServiceMap' = [mServiceMap EXCEPT ![sid] = a]
  BY <1>1, <1>2 DEF BootRegister, Register
<1>4. Entered' = Entered \cup {a}
  <2>1. ASSUME NEW b \in 1 .. created PROVE b \in Entered' <=> b \in Entered \/ b = a
    <3>1. agents[b] \in [sid : Sids, name : Names, phase : Phases, open : BOOLEAN]
          /\ b # None
      BY <1>0 DEF TypeOK, None
    <3>2. CASE agents[b].sid = sid
      BY <1>0, <1>2, <1>3, <3>1, <3>2 DEF Entered, Registered, TypeOK
    <3>3. CASE agents[b].sid # sid
      BY <1>0, <1>2, <1>3, <3>1, <3>3 DEF Entered, Registered, TypeOK
    <3> QED BY <3>2, <3>3
  <2>2. Entered \subseteq 1 .. created /\ Entered' \subseteq 1 .. created
    BY <1>0 DEF Entered
  <2> HIDE DEF Entered
  <2> QED BY <2>1, <2>2
<1>5. t \notin Booting' /\ t \notin Removing'
  BY <1>0 DEF Booting, Removing
<1>6. Booted' = Booted \ {a} /\ Leaving' = Leaving /\ a \in Booted
  <2>1. a \in Booted
    BY <1>0, <1>1 DEF Booted
  <2> HIDE DEF Booting, Removing
  <2> QED BY <1>0, <1>1, <1>5, <2>1, HoldersMove
<1>7. UNCHANGED Answers
  BY <1>0, SameAnswers
<1> HIDE DEF Entered, Booted, Leaving
<1> QED BY <1>0, <1>4, <1>6, <1>7, ServicePasses

LEMMA ShutdownRemoves ==
    ASSUME IInv, IInv', NEW t \in Callers, SidErase(t) \/ EraseById(t)
    PROVE  Registry!Next \/ UNCHANGED Registry!vars
<1>0. /\ pc[t] \in {"sidErase", "eraseById"} /\ TypeOK /\ UNCHANGED <<created, agents>>
      /\ \A u \in Callers \ {t} : pc'[u] = pc[u] /\ target'[u] = target[u]
      /\ t \notin Booting /\ t \notin Removing /\ target[t].sid \in Sids
  <2>1. \A u \in Callers \ {t} : pc'[u] = pc[u] /\ target'[u] = target[u]
    BY OthersWait DEF Shutdown
  <2>2. t \notin Booting /\ t \notin Removing /\ UNCHANGED <<created, agents>>
    BY DEF SidErase, EraseById, Booting, Removing
  <2> QED BY <2>1, <2>2 DEF SidErase, EraseById, IInv, TargetsKnown, WithSid
<1>1. PICK sid \in Sids : sid = target[t].sid
  BY <1>0
<1>2. CASE mServiceMap[sid] = None
  <2>1. pc'[t] = "idle" /\ UNCHANGED mServiceMap
    BY <1>0, <1>1, <1>2 DEF SidErase, EraseById, Return, Goto, TypeOK
  <2>2. t \notin Holders /\ t \notin Holders'
    BY <1>0, <2>1 DEF Holders, Booting, Removing
  <2> QED BY <1>0, <2>1, <2>2, CallerStays
<1>3. CASE mServiceMap[sid] # None
  <2>1. PICK a \in 1 .. created : a = mServiceMap[sid] /\ agents[a].sid = sid
    <3>1. mServiceMap[sid] \in 1 .. created
      BY <1>0, <1>3 DEF TypeOK, None
    <3> QED BY <1>3, <3>1 DEF IInv, SidsMatch
  <2>2. /\ mServiceMap' = [mServiceMap EXCEPT ![sid] = None]
        /\ pc'[t] \in {"eraseOwnName", "eraseTicker"} /\ target'[t].agent = a
    BY <1>0, <1>1, <1>3, <2>1 DEF SidErase, EraseById, Goto, TypeOK
  <2>3. t \notin Booting' /\ t \in Removing'
    BY <2>2 DEF Booting, Removing
  <2>4. Booted' = Booted /\ Leaving' = Leaving \cup {a}
    <3> HIDE DEF Booting, Removing
    <3> QED BY <1>0, <2>2, <2>3, HoldersMove
  <2>5. Entered' = Entered \ {a} /\ a \in Entered
    <3>1. ASSUME NEW b \in 1 .. created PROVE b \in Entered' <=> b \in Entered /\ b # a
      <4>1. agents[b] \in [sid : Sids, name : Names, phase : Phases, open : BOOLEAN]
            /\ b # None
        BY <1>0 DEF TypeOK, None
      <4>2. CASE agents[b].sid = sid
        BY <1>0, <2>1, <2>2, <4>1, <4>2 DEF Entered, Registered, TypeOK
      <4>3. CASE agents[b].sid # sid
        BY <1>0, <2>1, <2>2, <4>1, <4>3 DEF Entered, Registered, TypeOK
      <4> QED BY <4>2, <4>3
    <3>2. Entered \subseteq 1 .. created /\ Entered' \subseteq 1 .. created
      BY <1>0 DEF Entered
    <3>3. a \in Entered
      BY <2>1 DEF Entered, Registered
    <3> HIDE DEF Entered
    <3> QED BY <3>1, <3>2, <3>3
  <2>6. UNCHANGED Answers
    BY <1>0, <2>2, SameAnswers
  <2> HIDE DEF Entered, Booted, Leaving
  <2> QED BY <1>0, <2>4, <2>5, <2>6, ServicePasses
<1> QED BY <1>2, <1>3

LEMMA ShutdownEnds ==
    ASSUME IInv, IInv', NEW t \in Callers, EraseOwnName(t) \/ EraseTicker(t) \/ RecycleSid(t)
    PROVE  Registry!Next \/ UNCHANGED Registry!vars
<1>0. /\ pc[t] \in {"eraseOwnName", "eraseTicker", "recycle"} /\ TypeOK
      /\ UNCHANGED <<created, agents, mServiceMap, target>>
      /\ \A u \in Callers \ {t} : pc'[u] = pc[u] /\ target'[u] = target[u]
      /\ t \notin Booting /\ t \in Removing /\ target[t].agent \in 1 .. created
      /\ pc'[t] = IF pc[t] = "eraseOwnName" THEN "eraseTicker"
                  ELSE IF pc[t] = "eraseTicker" THEN "recycle" ELSE "stopAgent"
  <2>1. \A u \in Callers \ {t} : pc'[u] = pc[u] /\ target'[u] = target[u]
    BY OthersWait DEF Shutdown
  <2>2. t \notin Booting /\ t \in Removing /\ UNCHANGED <<created, agents, mServiceMap, target>>
    BY DEF EraseOwnName, EraseTicker, RecycleSid, Booting, Removing, maps
  <2> QED BY <2>1, <2>2 DEF EraseOwnName, EraseTicker, RecycleSid, IInv, TargetsKnown,
             WithAgent, Goto, TypeOK
<1>1. CASE pc[t] # "recycle"
  <2>1. t \in Removing' /\ pc'[t] # "found"
    BY <1>0, <1>1 DEF Removing
  <2> QED BY <1>0, <2>1, CallerStays
<1>2. CASE pc[t] = "recycle"
  <2>1. PICK a \in 1 .. created : a = target[t].agent
    BY <1>0
  <2>2. pc'[t] = "stopAgent"
    BY <1>0, <1>2
  <2>3. t \notin Booting' /\ t \notin Removing'
    BY <2>2 DEF Booting, Removing
  <2>4. Booted' = Booted /\ Leaving' = Leaving \ {a} /\ a \in Leaving
    <3>1. a \in Leaving
      BY <1>0, <2>1 DEF Leaving
    <3> HIDE DEF Booting, Removing
    <3> QED BY <1>0, <2>1, <2>3, <3>1, HoldersMove
  <2>5. Entered' = Entered
    BY <1>0 DEF Entered, Registered
  <2>6. UNCHANGED Answers
    BY <1>0, <2>2, SameAnswers
  <2>7. a \notin Entered /\ a \notin Booted
    BY <2>4, StagesAreApart
  <2> HIDE DEF Entered, Booted, Leaving
  <2> QED BY <1>0, <2>4, <2>5, <2>6, <2>7, ServicePasses
<1> QED BY <1>1, <1>2

LEMMA RegistryStarts == Init => Registry!Init
<1> SUFFICES ASSUME Init PROVE Registry!Init
  OBVIOUS
<1>1. Entered = {} /\ Booted = {} /\ Leaving = {} /\ created = 0
  BY DEF Init, Entered, Booted, Leaving, Booting, Removing
<1>2. Life = [a \in Agents |-> "unborn"] /\ SidsGiven = [a \in Agents |-> None]
  <2> HIDE DEF Entered, Booted, Leaving
  <2>1. 1 .. created = {}
    BY <1>1
  <2> QED BY <1>1, <2>1 DEF Life, SidsGiven
<1>3. Answers = [t \in Callers |-> None]
  BY DEF Init, Answers
<1> QED BY <1>2, <1>3 DEF Registry!Init

LEMMA RegistryStep ==
    ASSUME IInv, IInv', [Next]_vars
    PROVE  [Registry!Next]_(Registry!vars)
<1>1. CASE Main
  BY <1>1, InitialCoreCreates, StopClearClears, OthersStay DEF Main
<1>2. CASE PoolAbort \/ UpdateCheck \/ UpdateTick \/ \E a \in 1 .. created : HandlerThrows(a) \/ CleanUp(a)
  BY <1>2, OthersStay
<1>3. ASSUME NEW t \in Callers, Boot(t) PROVE [Registry!Next]_(Registry!vars)
  BY <1>3, BootAllocateCreates, BootRefusesOrStays, BootRegisterRegisters DEF Boot
<1>4. ASSUME NEW t \in Callers, Shutdown(t) PROVE [Registry!Next]_(Registry!vars)
  BY <1>4, CallsStay, ShutdownRemoves, ShutdownEnds DEF Shutdown
<1>5. ASSUME NEW t \in Callers, Find(t) PROVE [Registry!Next]_(Registry!vars)
  BY <1>5, CallsStay, LookupsFind DEF Find
<1>6. ASSUME NEW t \in Callers, BootCall(t) \/ ShutdownCall(t) \/ FindCall(t)
      PROVE  [Registry!Next]_(Registry!vars)
  BY <1>6, CallsStay
<1>7. CASE UNCHANGED vars
  <2>1. UNCHANGED <<mServiceMap, created, agents, pc, target>>
    BY <1>7 DEF vars, maps, callVars
  <2>2. UNCHANGED <<Entered, Booted, Leaving, Answers>>
    BY <2>1 DEF Entered, Registered, Booted, Leaving, Booting, Removing, Answers
  <2> QED BY <2>1, <2>2, ServicesStay
<1> QED BY <1>1, <1>2, <1>3, <1>4, <1>5, <1>6, <1>7 DEF Next

\* Whatever calls race, each service passes through the registry once, with an id
\* that is its own from AllocateTS to RecycleTS, and a lookup answers with a
\* service that is registered at that moment.
THEOREM RegistryImplemented == Spec => ImplementsRegistry
<1>1. Init => Registry!Init
  BY RegistryStarts
<1>2. IInv /\ IInv' /\ [Next]_vars => [Registry!Next]_(Registry!vars)
  BY RegistryStep
<1> QED BY <1>1, <1>2, Invariance, PTL DEF Spec, ImplementsRegistry, Registry!Spec
----------------------------------------------------------------------------
\* The module is a client its allocator can serve.
LEMMA SidGivenBack ==
    ASSUME IInv, [Next]_vars, NEW t \in Callers, GivesBack(t)
    PROVE  /\ target[t].sid \in (1 .. mNext) \ mHashSet
           /\ target[t].sid \in SidsHeld \ SidsHeld'
<1> DEFINE sid == target[t].sid
<1>1. t \in Holders
  BY DEF GivesBack, RecycleSid, BootInitial, BootName, BootStart, Holders,
         Booting, Removing
<1>2. /\ sid \in (1 .. mNext) \ mHashSet
      /\ mServiceMap[sid] = None
      /\ \A u \in Holders : target[u].sid = sid => u = t
  BY <1>1 DEF IInv, SidOwnedOnce
<1>3. ASSUME \/ Return(t)
             \/ Goto(t, "stopAgent") /\ UNCHANGED target,
             UNCHANGED mServiceMap
      PROVE  sid \notin SidsHeld'
  <2>1. /\ t \notin Holders'
        /\ \A u \in Holders' : u \in Holders /\ u # t /\ target'[u] = target[u]
    BY <1>3 DEF Return, Goto, Holders, Booting, Removing, IInv, TypeOK
  <2> QED BY <1>2, <1>3, <2>1 DEF SidsHeld
<1>4. RecycleSid(t) => sid \notin SidsHeld'
  <2> SUFFICES ASSUME RecycleSid(t) PROVE sid \notin SidsHeld'
    OBVIOUS
  <2>1. UNCHANGED mServiceMap /\ Goto(t, "stopAgent") /\ UNCHANGED target
    BY DEF RecycleSid, maps
  <2> QED BY <1>3, <2>1
<1>5. /\ BootInitial(t) \/ BootName(t) \/ BootStart(t)
      /\ Recycle(sid)
      => sid \notin SidsHeld'
  <2> SUFFICES ASSUME Recycle(sid), BootInitial(t) \/ BootName(t) \/ BootStart(t)
               PROVE  sid \notin SidsHeld'
    OBVIOUS
  <2>1. ~UNCHANGED allocator
    BY <1>2 DEF Recycle, allocator
  <2>2. Return(t)
    BY <2>1 DEF BootInitial, BootName, BootStart, BootFail
  <2>3. UNCHANGED mServiceMap
    BY DEF BootInitial, BootName, BootStart, maps
  <2> QED BY <1>3, <2>2, <2>3
<1>6. sid \notin SidsHeld'
  BY <1>4, <1>5 DEF GivesBack
<1> QED BY <1>1, <1>2, <1>6 DEF SidsHeld

LEMMA FreeIsNotInUse ==
    ASSUME TypeOK, NEW s \in Sids, IsFree(s) PROVE s \notin (1 .. mNext) \ mHashSet
  BY MaxAgentsAssumption DEF TypeOK, IsFree, Sids

\* A step of caller t alone that takes no id from the allocator.
LEMMA HeldByCaller ==
    ASSUME NEW t \in Callers,
           \A u \in Callers \ {t} : pc'[u] = pc[u] /\ target'[u] = target[u],
           t \in Holders' => target'[t].sid \in SidsHeld,
           \A s \in Sids : mServiceMap'[s] # None => s \in SidsHeld
    PROVE  SidsHeld' \subseteq SidsHeld
<1>1. \A u \in Holders' \ {t} : u \in Holders /\ target'[u] = target[u]
  BY DEF Holders, Booting, Removing
<1> QED BY <1>1 DEF SidsHeld

LEMMA SidTaken ==
    ASSUME IInv, [Next]_vars, NEW s \in SidsHeld' \ SidsHeld
    PROVE  s \notin (1 .. mNext) \ mHashSet
<1>0. TypeOK /\ \A i \in Sids : mServiceMap[i] # None => i \in SidsHeld
  BY DEF IInv, SidsHeld
<1>1. ASSUME UNCHANGED callVars,
             \A i \in Sids : mServiceMap'[i] \in {mServiceMap[i], None}
      PROVE  FALSE
  <2>1. Holders' = Holders /\ target' = target
    BY <1>1 DEF callVars, Holders, Booting, Removing
  <2> QED BY <1>1, <2>1 DEF SidsHeld
<1>2. CASE InitialCore
  <2>1. PICK sid \in Sids : /\ IsFree(sid)
                            /\ \/ mServiceMap' = [mServiceMap EXCEPT ![sid] = created + 1]
                               \/ UNCHANGED mServiceMap
    BY <1>2 DEF InitialCore, maps
  <2>2. \A i \in Sids \ {sid} : mServiceMap'[i] = mServiceMap[i]
    BY <1>0, <2>1 DEF TypeOK
  <2>3. Holders' = Holders /\ target' = target
    BY <1>2 DEF InitialCore, callVars, Holders, Booting, Removing
  <2>4. s = sid
    BY <2>2, <2>3 DEF SidsHeld
  <2> QED BY <1>0, <2>1, <2>4, FreeIsNotInUse
<1>3. CASE \/ Main /\ ~InitialCore
           \/ PoolAbort \/ UpdateCheck \/ UpdateTick
           \/ \E a \in 1 .. created : HandlerThrows(a) \/ CleanUp(a)
  <2>1. UNCHANGED callVars
    BY <1>3 DEF Main, InitialDone, StartCore, StartDone, StopBegin, StopAgents, StopPool,
       StopClear, PoolAbort, UpdateCheck, UpdateTick, HandlerThrows, CleanUp
  <2>2. UNCHANGED mServiceMap \/ StopClear
    BY <1>3 DEF Main, InitialDone, StartCore, StartDone, StopBegin, StopAgents, StopPool,
       PoolAbort, UpdateCheck, UpdateTick, HandlerThrows, CleanUp, maps
  <2> QED BY <1>1, <2>1, <2>2 DEF StopClear
<1>4. ASSUME NEW t \in Callers,
             \/ BootCall(t) \/ ShutdownCall(t) \/ FindCall(t)
             \/ Boot(t) \/ Shutdown(t) \/ Find(t)
      PROVE  s \notin (1 .. mNext) \ mHashSet
  <2>1. \A u \in Callers \ {t} : pc'[u] = pc[u] /\ target'[u] = target[u]
    BY <1>4, OthersWait
  <2>2. t \in Holders => target[t].sid \in SidsHeld
    BY DEF SidsHeld
  <2>3. CASE BootAllocate(t)
    <3>1. CASE Return(t) /\ UNCHANGED mServiceMap
      BY <1>0, <2>1, <3>1, HeldByCaller DEF Return, Goto, Holders, Booting, Removing, TypeOK
    <3>2. CASE ~Return(t)
      <4>1. PICK sid \in Sids : IsFree(sid) /\ target'[t].sid = sid
        BY <1>0, <2>3, <3>2 DEF BootAllocate, Allocate, TypeOK
      <4>2. UNCHANGED mServiceMap
        BY <2>3 DEF BootAllocate, maps
      <4>3. s = sid
        <5>1. \A u \in Holders' \ {t} : u \in Holders /\ target'[u] = target[u]
          BY <2>1 DEF Holders, Booting, Removing
        <5> QED BY <4>1, <4>2, <5>1 DEF SidsHeld
      <4> QED BY <1>0, <4>1, <4>3, FreeIsNotInUse
    <3> QED BY <2>3, <3>1, <3>2 DEF BootAllocate, maps
  <2>4. CASE SidErase(t) \/ EraseById(t)
    <3>1. /\ t \in Holders' => mServiceMap[target[t].sid] # None
          /\ target'[t].sid = target[t].sid \/ t \notin Holders'
          /\ target[t].sid \in Sids
      BY <1>0, <2>4 DEF SidErase, EraseById, Return, Goto, Holders, Booting, Removing,
         TypeOK, IInv, TargetsKnown, WithSid
    <3>2. \A i \in Sids : mServiceMap'[i] \in {mServiceMap[i], None}
      BY <1>0, <2>4 DEF SidErase, EraseById, TypeOK
    <3> QED BY <1>0, <2>1, <3>1, <3>2, HeldByCaller
  <2>5. CASE BootRegister(t)
    <3>1. t \in Holders /\ agents[target[t].agent].sid = target[t].sid
      BY <2>5 DEF BootRegister, Holders, Booting, IInv, SidsMatch
    <3>2. t \notin Holders'
      BY <1>0, <2>5 DEF BootRegister, Return, Goto, Holders, Booting, Removing, TypeOK
    <3>3. \A i \in Sids : mServiceMap'[i] # None => i \in SidsHeld
      BY <1>0, <2>2, <2>5, <3>1 DEF BootRegister, Register, TypeOK
    <3> QED BY <2>1, <3>2, <3>3, HeldByCaller
  <2>6. CASE ~(BootAllocate(t) \/ SidErase(t) \/ EraseById(t) \/ BootRegister(t))
    <3>1. UNCHANGED mServiceMap
      BY <1>4, <2>6 DEF BootCall, ShutdownCall, FindCall, Call, Boot, BootInitial, BootName,
         BootStart, Shutdown, EraseOwnName, NameErase, EraseTicker, RecycleSid,
         ShutdownStop, Find, FindSid, FindAgent, FindReturn, maps
    <3>2. t \in Holders' => t \in Holders /\ target'[t].sid = target[t].sid
      BY <1>0, <1>4, <2>6 DEF BootCall, ShutdownCall, FindCall, Call, Boot, BootInitial,
         BootName, BootStart, BootFail, Shutdown, EraseOwnName, NameErase, EraseTicker,
         RecycleSid, ShutdownStop, Find, FindSid, FindAgent, FindReturn, Return, Goto,
         Holders, Booting, Removing, TypeOK
    <3> QED BY <1>0, <2>1, <2>2, <3>1, <3>2, HeldByCaller
  <2> QED BY <2>3, <2>4, <2>5, <2>6
<1>5. CASE UNCHANGED vars
  BY <1>1, <1>5 DEF vars, maps
<1> QED BY <1>2, <1>3, <1>4, <1>5 DEF Next

\* Whatever calls race, a caller recycles no service id but the one that it holds,
\* alone, and recycles it once: what IdentAllocator promises of ids that are used
\* so holds for the module's.
THEOREM SidsAreUsedAsAgreed == Spec => UsesSidsAsAgreed
<1>1. IInv /\ [Next]_vars => [SidsUsedWell]_vars
  BY SidGivenBack, SidTaken DEF SidsUsedWell
<1> QED BY <1>1, Invariance, PTL DEF Spec, UsesSidsAsAgreed
=============================================================================
