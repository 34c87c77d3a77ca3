-------------------------- MODULE EventModuleProofs --------------------------
(***************************************************************************)
(* Proofs about EventModule, for any agents, ids, events and number of     *)
(* sweep coroutines: type correctness, that the flag of the sweep is never *)
(* left set without a sweep on its way, that a live listener is taken out  *)
(* only by a call under its own id, and that the map implements the        *)
(* abstract table of subscriptions, in which only an owner withdraws its   *)
(* own.                                                                    *)
(***************************************************************************)
EXTENDS EventModule, TLAPS

\* Every entry of the map holds a listener or None for each id.
LEMMA EntriesAreTyped ==
    ASSUME TypeOK, NEW e \in DOMAIN mListenerMap
    PROVE  mListenerMap[e] \in [Ids -> Agents \cup {None}]
  BY DEF TypeOK

\* The type invariant holds at the start and is preserved by every step.
LEMMA TypeInit == Init => TypeOK
  BY ZenonT(60) DEF Init, TypeOK, moduleVars

LEMMA TypeStep == TypeOK /\ [Next]_vars => TypeOK'
<1> SUFFICES ASSUME TypeOK, [Next]_vars PROVE TypeOK'
  OBVIOUS
<1>1. CASE Start \/ Shutdown \/ Stop
  BY <1>1 DEF TypeOK, Start, Shutdown, Stop
<1>2. ASSUME NEW a \in Agents, Boot(a) \/ RecycleId(a) \/ Close(a) \/ Expire(a)
      PROVE  TypeOK'
  BY <1>2 DEF TypeOK, Boot, RecycleId, Close, Expire, Become, moduleVars
<1>3. ASSUME NEW a \in Agents, NEW e \in Events, ListenEvent(a, e)
      PROVE  TypeOK'
  <2> DEFINE ids == IF e \in DOMAIN mListenerMap THEN mListenerMap[e]
                                                 ELSE NoListeners
  <2>1. ids \in [Ids -> Agents \cup {None}]
    BY EntriesAreTyped DEF NoListeners
  <2>2. [ids EXCEPT ![IdOf[a]] = a] \in [Ids -> Agents \cup {None}]
    BY <2>1, IdOfAssumption
  <2>3. /\ DOMAIN mListenerMap' = DOMAIN mListenerMap \cup {e}
        /\ \A f \in DOMAIN mListenerMap' :
              mListenerMap'[f] \in [Ids -> Agents \cup {None}]
    <3> HIDE DEF ids
    <3>1. mListenerMap' = [f \in DOMAIN mListenerMap \cup {e} |->
            IF f = e THEN [ids EXCEPT ![IdOf[a]] = a] ELSE mListenerMap[f]]
      BY <1>3 DEF ListenEvent, ids
    <3> QED BY <3>1, <2>2, EntriesAreTyped
  <2>4. /\ DOMAIN mListenerMap' \subseteq Events
        /\ mListenerMap' \in [DOMAIN mListenerMap' -> [Ids -> Agents \cup {None}]]
    <3>1. mListenerMap' = [f \in DOMAIN mListenerMap' |-> mListenerMap'[f]]
      BY <1>3 DEF ListenEvent
    <3> QED BY <3>1, <2>3 DEF TypeOK
  <2>5. pc' \in [Agents -> {"idle", "test", "set"}]
    BY <1>3 DEF TypeOK, ListenEvent, Called
  <2> QED BY <1>3, <2>4, <2>5 DEF TypeOK, ListenEvent, moduleVars
<1>4. ASSUME NEW a \in Agents, NEW e \in Events, RemoveListener(a, e)
      PROVE  TypeOK'
  <2> DEFINE rest == [mListenerMap[e] EXCEPT ![IdOf[a]] = None]
  <2> DEFINE kept == IF rest = NoListeners THEN DOMAIN mListenerMap \ {e}
                                           ELSE DOMAIN mListenerMap
  <2>1. rest \in [Ids -> Agents \cup {None}]
    BY <1>4, EntriesAreTyped, IdOfAssumption DEF RemoveListener
  <2>2. kept \subseteq DOMAIN mListenerMap
    OBVIOUS
  <2>3. mListenerMap' = [f \in kept |-> IF f = e THEN rest ELSE mListenerMap[f]]
    BY <1>4 DEF RemoveListener
  <2>4. mListenerMap' \in [kept -> [Ids -> Agents \cup {None}]]
    <3> HIDE DEF rest, kept
    <3> QED BY <2>1, <2>2, <2>3, EntriesAreTyped
  <2>5. pc' \in [Agents -> {"idle", "test", "set"}]
    BY <1>4 DEF TypeOK, RemoveListener, Called
  <2> QED
    <3> HIDE DEF kept
    <3> QED BY <1>4, <2>2, <2>4, <2>5 DEF TypeOK, RemoveListener, moduleVars
<1>5. ASSUME NEW a \in Agents, Dispatch(a) \/ RemoveExpired(a)
      PROVE  TypeOK'
  BY <1>5 DEF TypeOK, Dispatch, Called, RemoveExpired, TestWaiting, SetWaiting,
              moduleVars
<1>6. ASSUME NEW c \in Sweeps, Arm(c) \/ WaitEnds(c) \/ WaitFailed(c)
                               \/ ResetWaiting(c)
      PROVE  TypeOK'
  BY <1>6 DEF TypeOK, Arm, WaitEnds, WaitFailed, ResetWaiting, moduleVars
<1>7. ASSUME NEW c \in Sweeps, SweepExpired(c) PROVE TypeOK'
  <2>1. mListenerMap' \in [DOMAIN mListenerMap -> [Ids -> Agents \cup {None}]]
    BY <1>7, EntriesAreTyped DEF SweepExpired
  <2> QED BY <1>7, <2>1 DEF TypeOK, SweepExpired, moduleVars
<1>8. CASE UNCHANGED vars
  BY <1>8 DEF TypeOK, vars, moduleVars
<1> QED
  BY <1>1, <1>2, <1>3, <1>4, <1>5, <1>6, <1>7, <1>8 DEF Next, Sweep

\* The state of the module is well typed in every behaviour.
THEOREM TypeCorrect == Spec => []TypeOK
  BY TypeInit, TypeStep, PTL DEF Spec

----------------------------------------------------------------------------
\* FlagMeansSweep is preserved: a coroutine gives up only because another one
\* armed the timer after it, or because the module is stopped.
LEMMA FlagStep ==
    ASSUME TypeOK, FlagMeansSweep, [Next]_vars
    PROVE  FlagMeansSweep'
<1> DEFINE Going(c) == sweep[c] \notin {"none", "failed"}
<1> SUFFICES ASSUME mState' # "STOPPED", bWaiting'
             PROVE  \E c \in Sweeps : Going(c)'
  BY DEF FlagMeansSweep
<1>1. CASE Start \/ Shutdown \/ Stop
  BY <1>1 DEF FlagMeansSweep, Start, Shutdown, Stop
<1>2. ASSUME NEW a \in Agents, Boot(a) \/ RecycleId(a) \/ Close(a) \/ Expire(a)
      PROVE  \E c \in Sweeps : Going(c)'
  BY <1>2 DEF FlagMeansSweep, Boot, RecycleId, Close, Expire, Become, moduleVars
<1>3. ASSUME NEW a \in Agents, NEW e \in Events,
             ListenEvent(a, e) \/ RemoveListener(a, e)
      PROVE  \E c \in Sweeps : Going(c)'
  BY <1>3 DEF FlagMeansSweep, ListenEvent, RemoveListener, moduleVars
<1>4. ASSUME NEW a \in Agents, Dispatch(a) \/ TestWaiting(a)
      PROVE  \E c \in Sweeps : Going(c)'
  BY <1>4 DEF FlagMeansSweep, Dispatch, TestWaiting, moduleVars
<1>5. ASSUME NEW a \in Agents, SetWaiting(a) PROVE \E c \in Sweeps : Going(c)'
  BY <1>5 DEF TypeOK, SetWaiting
<1>6. ASSUME NEW c \in Sweeps, Arm(c) \/ WaitEnds(c)
      PROVE  \E d \in Sweeps : Going(d)'
  <2>1. Going(c)'
    BY <1>6 DEF TypeOK, Arm, WaitEnds
  <2> QED BY <2>1
<1>7. ASSUME NEW c \in Sweeps, WaitFailed(c) PROVE \E d \in Sweeps : Going(d)'
  <2>1. PICK d \in Sweeps : Going(d)
    BY <1>7 DEF FlagMeansSweep, WaitFailed, moduleVars
  <2>2. d # c
    BY <1>7, <2>1 DEF WaitFailed
  <2>3. Going(d)'
    BY <1>7, <2>1, <2>2 DEF TypeOK, WaitFailed
  <2> QED BY <2>3
<1>8. ASSUME NEW c \in Sweeps, SweepExpired(c) PROVE \E d \in Sweeps : Going(d)'
  <2>1. Going(c)'
    BY <1>8 DEF TypeOK, SweepExpired
  <2> QED BY <2>1
<1>9. ASSUME NEW c \in Sweeps, ResetWaiting(c) PROVE FALSE
  BY <1>9 DEF ResetWaiting
<1>10. CASE UNCHANGED vars
  BY <1>10 DEF FlagMeansSweep, vars, moduleVars
<1> QED
  BY <1>1, <1>2, <1>3, <1>4, <1>5, <1>6, <1>7, <1>8, <1>9, <1>10
     DEF Next, Sweep, RemoveExpired

\* Whenever the flag of the sweep is set, a sweep is on its way that resets
\* it, although the flag is tested and set without a lock: RemoveExpired never
\* stops for good while the module runs.
THEOREM SweepIsOnItsWay == Spec => []FlagMeansSweep
<1>1. Init => FlagMeansSweep
  BY DEF Init, FlagMeansSweep
<1> QED BY <1>1, FlagStep, TypeCorrect, PTL DEF Spec

----------------------------------------------------------------------------
\* One step takes a live listener out only if it is a call under its id.
LEMMA LiveListenerStep ==
    ASSUME TypeOK, [Next]_vars,
           NEW a \in Agents, NEW e \in Events,
           Listens(a, e), ~Expired(a), ~Listens(a, e)'
    PROVE  \E b \in Agents : IdOf[b] = IdOf[a] /\ pc[b] = "idle" /\ pc'[b] = "test"
<1> USE IdOfAssumption
<1>1. e \in DOMAIN mListenerMap /\ mListenerMap[e][IdOf[a]] = a
  BY DEF Listens
<1>2. mListenerMap' # mListenerMap
  BY DEF Listens
<1>3. ASSUME NEW b \in Agents, NEW f \in Events,
             ListenEvent(b, f) \/ RemoveListener(b, f)
      PROVE  IdOf[b] = IdOf[a] /\ pc[b] = "idle" /\ pc'[b] = "test"
  <2>1. pc[b] = "idle" /\ pc'[b] = "test"
    BY <1>3 DEF TypeOK, ListenEvent, RemoveListener, Called
  <2>2. SUFFICES ASSUME IdOf[b] # IdOf[a] PROVE FALSE
    BY <2>1
  <2>3. IdOf[a] \in Ids /\ IdOf[b] \in Ids
    OBVIOUS
  <2>4. ASSUME NEW g \in DOMAIN mListenerMap, NEW v
        PROVE  [mListenerMap[g] EXCEPT ![IdOf[b]] = v][IdOf[a]]
               = mListenerMap[g][IdOf[a]]
    BY EntriesAreTyped, <2>2, <2>3
  <2>5. CASE ListenEvent(b, f)
    <3> DEFINE ids == IF f \in DOMAIN mListenerMap THEN mListenerMap[f]
                                                   ELSE NoListeners
    <3>1. mListenerMap' = [g \in DOMAIN mListenerMap \cup {f} |->
            IF g = f THEN [ids EXCEPT ![IdOf[b]] = b] ELSE mListenerMap[g]]
      BY <2>5 DEF ListenEvent
    <3>2. CASE f = e
      <4>1. ids = mListenerMap[e]
        BY <1>1, <3>2
      <4>2. mListenerMap'[e] = [mListenerMap[e] EXCEPT ![IdOf[b]] = b]
        BY <3>1, <3>2, <4>1
      <4> QED BY <1>1, <3>1, <3>2, <4>2, <2>4 DEF Listens
    <3>3. CASE f # e
      BY <1>1, <3>1, <3>3 DEF Listens
    <3> QED BY <3>2, <3>3
  <2>6. CASE RemoveListener(b, f)
    <3> DEFINE rest == [mListenerMap[f] EXCEPT ![IdOf[b]] = None]
    <3> DEFINE kept == IF rest = NoListeners THEN DOMAIN mListenerMap \ {f}
                                             ELSE DOMAIN mListenerMap
    <3>1. mListenerMap' = [g \in kept |-> IF g = f THEN rest ELSE mListenerMap[g]]
      BY <2>6 DEF RemoveListener
    <3>2. CASE f = e
      <4>1. rest[IdOf[a]] = a
        BY <1>1, <2>4, <3>2
      <4>2. rest # NoListeners
        BY <4>1, <2>3, NoneAssumption DEF NoListeners
      <4>3. e \in kept
        BY <4>2, <1>1
      <4> HIDE DEF kept, rest
      <4> QED BY <3>1, <3>2, <4>1, <4>3 DEF Listens
    <3>3. CASE f # e
      <4>1. e \in kept
        BY <1>1, <3>3
      <4> HIDE DEF kept, rest
      <4> QED BY <1>1, <3>1, <3>3, <4>1 DEF Listens
    <3> QED BY <3>2, <3>3
  <2> QED BY <1>3, <2>5, <2>6
<1>4. ASSUME NEW c \in Sweeps, SweepExpired(c) PROVE FALSE
  <2>1. mListenerMap[e][IdOf[a]] \notin {b \in Agents : Expired(b)}
    BY <1>1
  <2>2. mListenerMap'[e] = [i \in Ids |->
            IF mListenerMap[e][i] \in {b \in Agents : Expired(b)}
            THEN None ELSE mListenerMap[e][i]]
    BY <1>1, <1>4 DEF SweepExpired
  <2>3. e \in DOMAIN mListenerMap'
    BY <1>1, <1>4 DEF SweepExpired
  <2>4. mListenerMap'[e][IdOf[a]] = a
    BY <1>1, <2>1, <2>2
  <2> QED BY <2>3, <2>4 DEF Listens
<1>5. \/ \E b \in Agents, f \in Events : ListenEvent(b, f) \/ RemoveListener(b, f)
      \/ \E c \in Sweeps : SweepExpired(c)
  BY <1>2 DEF Next, vars, moduleVars, Start, Shutdown, Stop, Boot, RecycleId,
              Close, Expire, Become, Dispatch, RemoveExpired, TestWaiting,
              SetWaiting, Sweep, Arm, WaitEnds, WaitFailed, ResetWaiting
<1> QED BY <1>3, <1>4, <1>5

\* A listener whose agent lives loses its events only by a call under its own
\* id: no sweep, dispatch or call under another id takes it out.
THEOREM LiveListenersAreSafe == Spec => LiveListenersStay
<1> DEFINE Stays == \A a \in Agents, e \in Events :
        Listens(a, e) /\ ~Expired(a) /\ ~Listens(a, e)'
        => \E b \in Agents :
            IdOf[b] = IdOf[a] /\ pc[b] = "idle" /\ pc'[b] = "test"
<1>1. TypeOK /\ [Next]_vars => [Stays]_vars
  BY LiveListenerStep
<1>2. LiveListenersStay <=> [][Stays]_vars
  BY DEF LiveListenersStay
<1> HIDE DEF Stays
<1> QED BY <1>1, <1>2, TypeCorrect, PTL DEF Spec
----------------------------------------------------------------------------
\* The maps implement Subscriptions.
Listener == [e \in Events |-> IF e \in DOMAIN mListenerMap
                              THEN mListenerMap[e] ELSE NoListeners]
Dead == {a \in Agents : Expired(a)}

LEMMA TableInit == Init => Table!Init
<1> SUFFICES ASSUME Init PROVE Table!Init
  OBVIOUS
<1>1. Listener = [e \in Events |-> NoListeners]
  BY DEF Init, Listener
<1>2. {a \in Agents : Expired(a)} = {}
  BY DEF Init, Expired
<1> QED BY <1>1, <1>2 DEF Table!Init, Listener, NoListeners

\* A step that keeps the maps and the lives of agents.
LEMMA TableQuiet ==
    ASSUME UNCHANGED <<mListenerMap, phase>>
    PROVE  UNCHANGED Table!vars
BY DEF Table!vars, Expired

\* A step in an agent's life other than its end.
LEMMA LifeStep ==
    ASSUME TypeOK, NEW a \in Agents, NEW from, NEW to, Become(a, from, to)
    PROVE  /\ UNCHANGED <<mListenerMap, pc>>
           /\ from # "gone" /\ to # "gone" => Dead' = Dead
           /\ from # "gone" /\ to = "gone" => a \notin Dead /\ Dead' = Dead \cup {a}
<1>1. /\ phase[a] = from /\ phase' = [phase EXCEPT ![a] = to]
      /\ UNCHANGED <<mListenerMap, pc>>
  BY DEF Become
<1>2. phase'[a] = to /\ \A b \in Agents \ {a} : phase'[b] = phase[b]
  BY <1>1 DEF TypeOK
<1>3. /\ Dead = {b \in Agents : phase[b] = "gone"}
      /\ Dead' = {b \in Agents : phase'[b] = "gone"}
  BY DEF Dead, Expired
<1> QED BY <1>1, <1>2, <1>3

\* One listener is set or erased.
LEMMA TableSet ==
    ASSUME TypeOK, NEW a \in Agents, NEW e \in Events, NEW l,
           a \notin Dead, phase' = phase,
           Listener' = [Listener EXCEPT ![e] = [@ EXCEPT ![IdOf[a]] = l]]
    PROVE  Table!Set(a, e, l)
<1>1. UNCHANGED Dead
  BY DEF Dead, Expired
<1> QED BY <1>1 DEF Table!Set, Listener, Dead

LEMMA TableStep == TypeOK /\ [Next]_vars => [Table!Next]_(Table!vars)
<1> SUFFICES ASSUME TypeOK, [Next]_vars PROVE Table!Next \/ UNCHANGED Table!vars
  OBVIOUS
<1>1. ASSUME Start \/ Shutdown \/ Stop PROVE UNCHANGED Table!vars
  BY <1>1, TableQuiet DEF Start, Shutdown, Stop
<1>2. ASSUME NEW a \in Agents, Boot(a) \/ RecycleId(a) \/ Close(a)
      PROVE  UNCHANGED Table!vars
  <2>1. UNCHANGED mListenerMap /\ Dead' = Dead
    BY <1>2, LifeStep DEF Boot, RecycleId, Close
  <2> QED BY <2>1 DEF Table!vars, Dead
<1>3. ASSUME NEW a \in Agents, Expire(a) PROVE Table!Next
  <2>1. UNCHANGED mListenerMap /\ a \notin Dead /\ Dead' = Dead \cup {a}
    BY <1>3, LifeStep DEF Expire
  <2>2. Table!Die(a)
    BY <2>1 DEF Table!Die, Dead
  <2> QED BY <2>2 DEF Table!Next
<1>4. ASSUME NEW a \in Agents, NEW e \in Events, ListenEvent(a, e) PROVE Table!Next
  <2> DEFINE ids == IF e \in DOMAIN mListenerMap THEN mListenerMap[e]
                                                 ELSE NoListeners
  <2>1. /\ mListenerMap' = [f \in DOMAIN mListenerMap \cup {e} |->
             IF f = e THEN [ids EXCEPT ![IdOf[a]] = a] ELSE mListenerMap[f]]
        /\ phase' = phase /\ IsOpen(a)
    BY <1>4 DEF ListenEvent
  <2>2. Listener[e] = ids
    BY DEF Listener
  <2> HIDE DEF ids
  <2>3. ASSUME NEW f \in Events
        PROVE  Listener'[f] = IF f = e THEN [ids EXCEPT ![IdOf[a]] = a]
                                       ELSE Listener[f]
    BY <2>1 DEF Listener
  <2>4. Listener' = [Listener EXCEPT ![e] = [@ EXCEPT ![IdOf[a]] = a]]
    BY <2>2, <2>3 DEF Listener
  <2>5. a \notin Dead
    BY <2>1 DEF IsOpen, Dead, Expired
  <2>6. Table!Listen(a, e)
    BY <2>1, <2>4, <2>5, TableSet DEF Table!Listen
  <2> QED BY <2>6 DEF Table!Next
<1>5. ASSUME NEW a \in Agents, NEW e \in Events, RemoveListener(a, e) PROVE Table!Next
  <2> DEFINE rest == [mListenerMap[e] EXCEPT ![IdOf[a]] = None]
  <2> DEFINE kept == IF rest = NoListeners THEN DOMAIN mListenerMap \ {e}
                                           ELSE DOMAIN mListenerMap
  <2>1. /\ mListenerMap' = [f \in kept |-> IF f = e THEN rest ELSE mListenerMap[f]]
        /\ e \in DOMAIN mListenerMap /\ phase' = phase
        /\ IsOpen(a) \/ phase[a] = "closed"
    BY <1>5 DEF RemoveListener
  <2>2. /\ Listener[e] = mListenerMap[e]
        /\ [Listener[e] EXCEPT ![IdOf[a]] = None] = rest
    BY <2>1 DEF Listener
  <2>3. /\ \A f : f # e => (f \in kept <=> f \in DOMAIN mListenerMap)
        /\ e \in kept <=> rest # NoListeners
    BY <2>1
  <2> HIDE DEF rest, kept
  <2>4. ASSUME NEW f \in Events
        PROVE  Listener'[f] = IF f = e THEN rest ELSE Listener[f]
    <3>1. Listener'[f] = IF f \in kept THEN IF f = e THEN rest ELSE mListenerMap[f]
                                       ELSE NoListeners
      BY <2>1 DEF Listener, NoListeners
    <3>2. f # e => Listener[f] = IF f \in kept THEN mListenerMap[f] ELSE NoListeners
      BY <2>3 DEF Listener
    <3> QED BY <2>3, <3>1, <3>2
  <2>5. Listener' = [Listener EXCEPT ![e] = [@ EXCEPT ![IdOf[a]] = None]]
    BY <2>2, <2>4 DEF Listener
  <2>6. a \notin Dead
    BY <2>1 DEF IsOpen, Dead, Expired
  <2>7. Table!Forget(a, e)
    BY <2>1, <2>5, <2>6, TableSet DEF Table!Forget
  <2> QED BY <2>7 DEF Table!Next
<1>6. ASSUME NEW a \in Agents, Dispatch(a) \/ RemoveExpired(a)
      PROVE  UNCHANGED Table!vars
  BY <1>6, TableQuiet DEF Dispatch, RemoveExpired, TestWaiting, SetWaiting
<1>7. ASSUME NEW c \in Sweeps, Arm(c) \/ WaitEnds(c) \/ WaitFailed(c) \/ ResetWaiting(c)
      PROVE  UNCHANGED Table!vars
  BY <1>7, TableQuiet DEF Arm, WaitEnds, WaitFailed, ResetWaiting
<1>8. ASSUME NEW c \in Sweeps, SweepExpired(c) PROVE Table!Next
  <2>1. /\ mListenerMap' = [e \in DOMAIN mListenerMap |-> [i \in Ids |->
              IF mListenerMap[e][i] \in Dead THEN None ELSE mListenerMap[e][i]]]
        /\ phase' = phase
    BY <1>8 DEF SweepExpired, Dead
  <2>2. None \notin Dead
    BY NoneAssumption DEF Dead
  <2>3. NoListeners = [i \in Ids |-> IF NoListeners[i] \in Dead
                                     THEN None ELSE NoListeners[i]]
    BY <2>2 DEF NoListeners
  <2>4. ASSUME NEW e \in Events
        PROVE  Listener'[e] = [i \in Ids |-> IF Listener[e][i] \in Dead
                                             THEN None ELSE Listener[e][i]]
    <3>1. CASE e \in DOMAIN mListenerMap
      BY <2>1, <3>1 DEF Listener
    <3>2. CASE e \notin DOMAIN mListenerMap
      <4>1. Listener[e] = NoListeners /\ Listener'[e] = NoListeners
        BY <2>1, <3>2 DEF Listener, NoListeners
      <4> QED BY <2>3, <4>1
    <3> QED BY <3>1, <3>2
  <2>5. Listener' = [e \in Events |-> [i \in Ids |->
            IF Listener[e][i] \in Dead THEN None ELSE Listener[e][i]]]
    BY <2>4 DEF Listener
  <2>6. UNCHANGED Dead
    BY <2>1 DEF Dead, Expired
  <2>7. Table!Purge
    BY <2>5, <2>6 DEF Table!Purge, Listener, Dead
  <2> QED BY <2>7 DEF Table!Next
<1>9. ASSUME UNCHANGED vars PROVE UNCHANGED Table!vars
  BY <1>9, TableQuiet DEF vars
<1> QED BY <1>1, <1>2, <1>3, <1>4, <1>5, <1>6, <1>7, <1>8, <1>9 DEF Next, Sweep

\* The maps by event and id, from which an event's own map goes with its last
\* listener, and the sweeps that several coroutines may be at, amount to a
\* table that each call and each sweep changes in one step.
THEOREM SubscriptionsImplemented == Spec => ImplementsTable
<1>1. Init => Table!Init
  BY TableInit
<1>2. TypeOK /\ [Next]_vars => [Table!Next]_(Table!vars)
  BY TableStep
<1> QED BY <1>1, <1>2, TypeCorrect, PTL DEF Spec, ImplementsTable, Table!Spec
=============================================================================
