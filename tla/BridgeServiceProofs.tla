------------------------ MODULE BridgeServiceProofs ------------------------
(***************************************************************************)
(* Proofs about BridgeService, for any number of handlers, connections,    *)
(* bridges, sessions and frames.                                           *)
(*                                                                         *)
(* The order is that of the dependencies.  TypeOK is inductive.  SpawnInv  *)
(* (each bridge's loops are spawned once) is inductive under TypeOK.       *)
(* OwnershipInv is inductive under both and implies RunningConsistent and  *)
(* NothingClosedTwice.  DegradedHasStopper is inductive under TypeOK,      *)
(* WGCountsLoops under TypeOK and SpawnInv, and ConnInv, which implies     *)
(* ListedConnsAreOpen, under TypeOK; so is FrameInv, which holds           *)
(* NoFrameTwice.                                                           *)
(***************************************************************************)
EXTENDS BridgeService, FiniteSetTheorems, TLAPS

\* A service that NewService has just made has its types.
LEMMA TypeInit == Init => TypeOK
<1>. SUFFICES ASSUME Init PROVE TypeOK
  OBVIOUS
<1>1. received \in [Conns -> Seq(Nat)]
  <2>1. << >> \in Seq(Nat)
    OBVIOUS
  <2>. QED
    BY <2>1 DEF Init
<1>2. /\ pc \in [Threads -> ThreadPC] /\ accept \in [Gens -> AcceptPC]
      /\ tick \in [Gens -> TickPC]
  BY DEF Init, ThreadPC, AcceptPC, TickPC
<1>3. /\ conns \in [Threads -> SUBSET Conns] /\ hand \in [Gens -> SUBSET Conns]
      /\ todo \in [Gens -> SUBSET Conns]
  BY DEF Init
<1>4. /\ sess \in [Sessions -> {"none", "open", "down", "closed"}]
      /\ sock \in [Conns -> {"none", "open", "broken", "closed"}]
  BY DEF Init
<1>5. /\ ln \in [Threads -> Gens \cup {0}] /\ ch \in [Threads -> Gens \cup {0}]
      /\ dialed \in [Threads -> Sessions \cup {0}] /\ cl \in [Gens -> Sessions \cup {0}]
      /\ stop \in [Gens -> Gens \cup {0}] /\ payload \in [Gens -> Nat]
  BY DEF Init
<1>6. opcConnected \in BOOLEAN /\ bridgeRunning \in BOOLEAN
  BY Zenon DEF Init
<1>7. /\ wg \in Int /\ seq \in Nat /\ mu \in Gens \cup {0} /\ gen \in Gens \cup {0}
      /\ listener \in Gens \cup {0} /\ bridgeStop \in Gens \cup {0}
      /\ client \in Sessions \cup {0}
  BY DEF Init
<1>8. /\ clients \subseteq Conns /\ watched \subseteq Conns /\ stalled \subseteq StallingPeers
      /\ lnClosed \subseteq Gens /\ chClosed \subseteq Gens
  BY DEF Init
<1>. QED
  BY <1>1, <1>2, <1>3, <1>4, <1>5, <1>6, <1>7, <1>8, Zenon DEF TypeOK

\* Every critical section, unlocked call and event keeps the types.
LEMMA TypeNext == TypeOK /\ [Next]_vars => TypeOK'
<1>. SUFFICES ASSUME TypeOK, [Next]_vars PROVE TypeOK'
  OBVIOUS
<1>. USE BoundsAssumption, ThreadAssumption, PeersAssumption
     DEF Gens, Sessions, Threads, TypeOK, ThreadPC, AcceptPC, TickPC,
        At, AcceptAt, TickAt, Goto, TickGoto,
        opcVars, flagVars, endVars, connVars, loopVars, dataVars
<1>1. ASSUME NEW t \in Handlers, ConnectBegin(t) PROVE TypeOK'
  BY <1>1 DEF ConnectBegin, CloseSession
<1>2. ASSUME NEW t \in Handlers, ConnectFail(t) PROVE TypeOK'
  BY <1>2 DEF ConnectFail
<1>3. ASSUME NEW t \in Handlers, ConnectDial(t) PROVE TypeOK'
  BY <1>3 DEF ConnectDial
<1>4. ASSUME NEW t \in Handlers, ConnectNoNamespace(t) PROVE TypeOK'
  BY <1>4 DEF ConnectNoNamespace, CloseSession
<1>5. ASSUME NEW t \in Handlers, ConnectPublish(t) PROVE TypeOK'
  BY <1>5 DEF ConnectPublish
<1>6. ASSUME NEW t \in Handlers, Disconnect(t) PROVE TypeOK'
  BY <1>6 DEF Disconnect, CloseSession
<1>7. ASSUME NEW t \in Handlers, StartBegin(t) PROVE TypeOK'
  <2>1. gen' \in Gens
    BY <1>7 DEF StartBegin
  <2>. QED
    BY <1>7, <2>1 DEF StartBegin
<1>8. ASSUME NEW t \in Handlers, StartSpawn(t) PROVE TypeOK'
  <2>1. wg' \in Int
    BY <1>8 DEF StartSpawn
  <2>2. accept' \in [Gens -> AcceptPC]
    BY <1>8 DEF StartSpawn
  <2>3. tick' \in [Gens -> TickPC]
    BY <1>8 DEF StartSpawn
  <2>4. ln' \in [Threads -> Gens \cup {0}]
    BY <1>8 DEF StartSpawn
  <2>5. pc' \in [Threads -> ThreadPC]
    BY <1>8 DEF StartSpawn
  <2>. QED
    BY <1>8, <2>1, <2>2, <2>3, <2>4, <2>5 DEF StartSpawn
<1>9. ASSUME NEW t \in Handlers, StopRequest(t) PROVE TypeOK'
  BY <1>9 DEF StopRequest
<1>10. ASSUME NEW t \in Threads, StopNotRunning(t) PROVE TypeOK'
  BY <1>10 DEF StopNotRunning
<1>11. ASSUME NEW t \in Threads, StopBegin(t) PROVE TypeOK'
  BY <1>11 DEF StopBegin
<1>12. ASSUME NEW t \in Threads, StopCloseListener(t) PROVE TypeOK'
  BY <1>12 DEF StopCloseListener
<1>13. ASSUME NEW t \in Threads, StopCloseChan(t) PROVE TypeOK'
  BY <1>13 DEF StopCloseChan
<1>14. ASSUME NEW t \in Threads, StopCloseConns(t) PROVE TypeOK'
  BY <1>14 DEF StopCloseConns, CloseConns
<1>15. ASSUME NEW t \in Threads, StopWait(t) PROVE TypeOK'
  BY <1>15 DEF StopWait
<1>16. ASSUME NEW t \in Threads, StopWake(t) PROVE TypeOK'
  BY <1>16 DEF StopWake
<1>17. ASSUME NEW g \in Gens, NEW c \in Conns, Accept(g, c) PROVE TypeOK'
  BY <1>17 DEF Accept
<1>18. ASSUME NEW g \in Gens, AcceptError(g) PROVE TypeOK'
  BY <1>18 DEF AcceptError, WGDone
<1>19. ASSUME NEW g \in Gens, AcceptAppend(g) PROVE TypeOK'
  BY <1>19 DEF AcceptAppend
<1>20. ASSUME NEW g \in Gens, TickStop(g) PROVE TypeOK'
  BY <1>20 DEF TickStop
<1>21. ASSUME NEW g \in Gens, TickInit(g) PROVE TypeOK'
  BY <1>21 DEF TickInit
<1>22. ASSUME NEW g \in Gens, TickCheck(g) PROVE TypeOK'
  BY <1>22 DEF TickCheck
<1>23. ASSUME NEW g \in Gens, TickState(g) PROVE TypeOK'
  BY <1>23 DEF TickState
<1>24. ASSUME NEW g \in Gens, TickLost(g) PROVE TypeOK'
  BY <1>24 DEF TickLost
<1>25. ASSUME NEW g \in Gens, TickDone(g) PROVE TypeOK'
  BY <1>25 DEF TickDone, WGDone
<1>26. ASSUME NEW g \in Gens, TickRead(g) PROVE TypeOK'
  BY <1>26 DEF TickRead
<1>27. ASSUME NEW g \in Gens, TickNumber(g) PROVE TypeOK'
  BY <1>27 DEF TickNumber
<1>28. ASSUME NEW g \in Gens, TickReadFails(g) PROVE TypeOK'
  BY <1>28 DEF TickReadFails
<1>29. ASSUME NEW g \in Gens, BroadcastBegin(g) PROVE TypeOK'
  BY <1>29 DEF BroadcastBegin
<1>30. ASSUME NEW g \in Gens, BroadcastEnd(g) PROVE TypeOK'
  BY <1>30 DEF BroadcastEnd
<1>31. ASSUME NEW g \in Gens, NEW c \in Conns, BroadcastWrite(g, c) PROVE TypeOK'
  <2>1. received' \in [Conns -> Seq(Nat)]
    <3>1. received[c] \in Seq(Nat) /\ payload[g] \in Nat
      BY <1>31
    <3>2. Append(received[c], payload[g]) \in Seq(Nat)
      BY <3>1
    <3>. QED
      BY <1>31, <3>2 DEF BroadcastWrite
  <2>2. todo' \in [Gens -> SUBSET Conns]
    BY <1>31 DEF BroadcastWrite
  <2>. QED
    BY <1>31, <2>1, <2>2 DEF BroadcastWrite
<1>32. ASSUME NEW g \in Gens, NEW c \in Conns, BroadcastDrop(g, c) PROVE TypeOK'
  BY <1>32 DEF BroadcastDrop, CloseConns
<1>33. ASSUME NEW c \in Conns, WatchDisconnect(c) PROVE TypeOK'
  BY <1>33 DEF WatchDisconnect, CloseConns
<1>34. ASSUME NEW s \in Sessions, SessionDown(s) PROVE TypeOK'
  BY <1>34 DEF SessionDown
<1>35. ASSUME NEW s \in Sessions, SessionUp(s) PROVE TypeOK'
  BY <1>35 DEF SessionUp
<1>36. ASSUME NEW c \in Conns, PeerGone(c) PROVE TypeOK'
  BY <1>36 DEF PeerGone
<1>37. ASSUME NEW c \in Conns, PeerStall(c) PROVE TypeOK'
  BY <1>37 DEF PeerStall
<1>38. ASSUME NEW c \in Conns, PeerResume(c) PROVE TypeOK'
  BY <1>38 DEF PeerResume
<1>39. CASE UNCHANGED vars
  BY <1>39 DEF vars
<1>. QED
  BY <1>1, <1>2, <1>3, <1>4, <1>5, <1>6, <1>7, <1>8, <1>9, <1>10, <1>11, <1>12, <1>13, <1>14, <1>15, <1>16, <1>17, <1>18, <1>19, <1>20, <1>21, <1>22, <1>23, <1>24, <1>25, <1>26, <1>27, <1>28, <1>29, <1>30, <1>31, <1>32, <1>33, <1>34, <1>35, <1>36, <1>37, <1>38, <1>39
  DEF Next, Handler, Connect, StopBridge, AcceptLoop, TickLoop, TickWork, Broadcast, Environment

\* The state of the service, its goroutines, sessions and connections keeps
\* its types whatever the handlers, the loops and the peers do (service.go
\* throughout); in particular the lock is only ever held by a tick loop.
THEOREM TypeCorrect == Spec => []TypeOK
BY TypeInit, TypeNext, PTL DEF Spec

-----------------------------------------------------------------------------
\* Before the first StartBridge there is nothing to spawn.
LEMMA SpawnInit == Init => SpawnInv
BY DEF Init, SpawnInv

\* Between the unlock of StartBridge and its two go statements, no loop of
\* that bridge exists yet and no other StartBridge is to spawn it.
LEMMA SpawnNext == TypeOK /\ SpawnInv /\ [Next]_vars => SpawnInv'
<1>. SUFFICES ASSUME TypeOK, SpawnInv, [Next]_vars PROVE SpawnInv'
  OBVIOUS
<1>a. /\ gen \in Nat /\ pc \in [Threads -> ThreadPC] /\ ln \in [Threads -> Nat]
      /\ tick \in [Gens -> TickPC] /\ accept \in [Gens -> AcceptPC]
  BY BoundsAssumption DEF TypeOK, Gens
<1>b. Handlers \subseteq Threads /\ Gens \subseteq Threads /\ \A g \in 1..gen : g \in Gens
  BY BoundsAssumption DEF Threads, Gens, TypeOK
<1>c. \A g \in Gens : g \in Nat /\ g # 0
  BY DEF Gens
<1>d. gen < MaxGen => gen + 1 \in Gens
  BY <1>a, BoundsAssumption DEF Gens
<1>. USE <1>a, <1>b, <1>c DEF SpawnInv, At, AcceptAt, TickAt, Goto, TickGoto,
        opcVars, flagVars, endVars, connVars, loopVars, dataVars
<1>1. ASSUME NEW t \in Handlers, ConnectBegin(t) PROVE SpawnInv'
  BY <1>1 DEF ConnectBegin, CloseSession
<1>2. ASSUME NEW t \in Handlers, ConnectFail(t) PROVE SpawnInv'
  BY <1>2 DEF ConnectFail
<1>3. ASSUME NEW t \in Handlers, ConnectDial(t) PROVE SpawnInv'
  BY <1>3 DEF ConnectDial
<1>4. ASSUME NEW t \in Handlers, ConnectNoNamespace(t) PROVE SpawnInv'
  BY <1>4 DEF ConnectNoNamespace, CloseSession
<1>5. ASSUME NEW t \in Handlers, ConnectPublish(t) PROVE SpawnInv'
  BY <1>5 DEF ConnectPublish
<1>6. ASSUME NEW t \in Handlers, StartBegin(t) PROVE SpawnInv'
  BY <1>6, <1>d DEF StartBegin
<1>7. ASSUME NEW t \in Handlers, StartSpawn(t) PROVE SpawnInv'
  BY <1>7 DEF StartSpawn
<1>8. ASSUME NEW t \in Handlers, StopRequest(t) PROVE SpawnInv'
  BY <1>8 DEF StopRequest
<1>9. ASSUME NEW t \in Threads, StopNotRunning(t) PROVE SpawnInv'
  BY <1>9 DEF StopNotRunning
<1>10. ASSUME NEW t \in Threads, StopBegin(t) PROVE SpawnInv'
  BY <1>10 DEF StopBegin
<1>11. ASSUME NEW t \in Threads, StopCloseListener(t) PROVE SpawnInv'
  BY <1>11 DEF StopCloseListener
<1>12. ASSUME NEW t \in Threads, StopCloseChan(t) PROVE SpawnInv'
  BY <1>12 DEF StopCloseChan
<1>13. ASSUME NEW t \in Threads, StopCloseConns(t) PROVE SpawnInv'
  BY <1>13 DEF StopCloseConns, CloseConns
<1>14. ASSUME NEW t \in Threads, StopWait(t) PROVE SpawnInv'
  BY <1>14 DEF StopWait
<1>15. ASSUME NEW t \in Threads, StopWake(t) PROVE SpawnInv'
  BY <1>15 DEF StopWake
<1>16. ASSUME NEW g \in Gens, NEW c \in Conns, Accept(g, c) PROVE SpawnInv'
  BY <1>16 DEF Accept
<1>17. ASSUME NEW g \in Gens, AcceptError(g) PROVE SpawnInv'
  BY <1>17 DEF AcceptError, WGDone
<1>18. ASSUME NEW g \in Gens, AcceptAppend(g) PROVE SpawnInv'
  BY <1>18 DEF AcceptAppend
<1>19. ASSUME NEW g \in Gens, TickStop(g) PROVE SpawnInv'
  BY <1>19 DEF TickStop
<1>20. ASSUME NEW g \in Gens, TickInit(g) PROVE SpawnInv'
  BY <1>20 DEF TickInit
<1>21. ASSUME NEW g \in Gens, TickCheck(g) PROVE SpawnInv'
  BY <1>21 DEF TickCheck
<1>22. ASSUME NEW g \in Gens, TickState(g) PROVE SpawnInv'
  BY <1>22 DEF TickState
<1>23. ASSUME NEW g \in Gens, TickLost(g) PROVE SpawnInv'
  BY <1>23 DEF TickLost
<1>24. ASSUME NEW g \in Gens, TickDone(g) PROVE SpawnInv'
  BY <1>24 DEF TickDone, WGDone
<1>25. ASSUME NEW g \in Gens, TickRead(g) PROVE SpawnInv'
  BY <1>25 DEF TickRead
<1>26. ASSUME NEW g \in Gens, TickNumber(g) PROVE SpawnInv'
  BY <1>26 DEF TickNumber
<1>27. ASSUME NEW g \in Gens, TickReadFails(g) PROVE SpawnInv'
  BY <1>27 DEF TickReadFails
<1>28. ASSUME NEW g \in Gens, BroadcastBegin(g) PROVE SpawnInv'
  BY <1>28 DEF BroadcastBegin
<1>29. ASSUME NEW g \in Gens, BroadcastEnd(g) PROVE SpawnInv'
  BY <1>29 DEF BroadcastEnd
<1>30. CASE UNCHANGED <<gen, ln, pc, tick, accept>>
  BY <1>30
<1>. QED
  BY <1>1, <1>2, <1>3, <1>4, <1>5, <1>6, <1>7, <1>8, <1>9, <1>10, <1>11, <1>12, <1>13, <1>14, <1>15, <1>16, <1>17, <1>18, <1>19, <1>20, <1>21, <1>22, <1>23, <1>24, <1>25, <1>26, <1>27, <1>28, <1>29, <1>30
  DEF vars, Next, Handler, Connect, StopBridge, AcceptLoop, TickLoop, TickWork, Broadcast, Environment,
      Disconnect, BroadcastWrite, BroadcastDrop, WatchDisconnect, SessionDown, SessionUp, PeerGone, PeerStall, PeerResume, CloseSession, CloseConns

\* At first there is neither a listener nor a stop channel to own.
LEMMA OwnershipInit == Init => OwnershipInv
BY BoundsAssumption, ThreadAssumption
   DEF Init, OwnershipInv, RunningConsistent, NothingClosedTwice, Gens, Threads

\* Every step hands a listener and a stop channel on to one owner: StartBridge
\* to the service, StopBridge from the service to itself and then to nobody.
LEMMA OwnershipNext == TypeOK /\ SpawnInv /\ OwnershipInv /\ [Next]_vars => OwnershipInv'
<1>. SUFFICES ASSUME TypeOK, SpawnInv, OwnershipInv, [Next]_vars PROVE OwnershipInv'
  OBVIOUS
<1>a. /\ gen \in Nat /\ client \in Nat /\ listener \in Nat /\ bridgeStop \in Nat
      /\ pc \in [Threads -> ThreadPC] /\ tick \in [Gens -> TickPC]
      /\ ln \in [Threads -> Nat] /\ ch \in [Threads -> Nat] /\ dialed \in [Threads -> Nat]
      /\ bridgeRunning \in BOOLEAN
  BY BoundsAssumption DEF TypeOK, Gens, Sessions
<1>b. Handlers \subseteq Threads /\ Gens \subseteq Threads /\ \A s \in Sessions : s \in Nat /\ s # 0
  BY DEF Threads, Sessions
<1>c. Handlers \cap Gens = {}
  BY ThreadAssumption DEF Gens
<1>d. \A g \in 1..gen : g \in Gens
  BY BoundsAssumption DEF TypeOK, Gens
<1>. USE <1>a, <1>b, <1>c
     DEF OwnershipInv, RunningConsistent, NothingClosedTwice,
        At, AcceptAt, TickAt, Goto, TickGoto,
        opcVars, flagVars, endVars, connVars, loopVars, dataVars
<1>1. ASSUME NEW t \in Handlers, ConnectBegin(t) PROVE OwnershipInv'
  BY <1>1 DEF ConnectBegin, CloseSession
<1>2. ASSUME NEW t \in Handlers, ConnectFail(t) PROVE OwnershipInv'
  BY <1>2 DEF ConnectFail
<1>3. ASSUME NEW t \in Handlers, ConnectDial(t) PROVE OwnershipInv'
  BY <1>3 DEF ConnectDial
<1>4. ASSUME NEW t \in Handlers, ConnectNoNamespace(t) PROVE OwnershipInv'
  BY <1>4 DEF ConnectNoNamespace, CloseSession
<1>5. ASSUME NEW t \in Handlers, ConnectPublish(t) PROVE OwnershipInv'
  BY <1>5 DEF ConnectPublish
<1>6. ASSUME NEW t \in Handlers, Disconnect(t) PROVE OwnershipInv'
  BY <1>6 DEF Disconnect, CloseSession
<1>7. ASSUME NEW t \in Handlers, StartBegin(t) PROVE OwnershipInv'
  <2>1. /\ listener' = gen + 1 /\ bridgeStop' = gen + 1 /\ gen' = gen + 1
        /\ client # 0 /\ bridgeStop = 0 /\ listener = 0 /\ pc[t] = "idle"
        /\ UNCHANGED <<client, lnClosed, chClosed, ch, dialed, tick>>
    BY <1>7 DEF StartBegin
  <2>2. \A u \in Threads : /\ ln'[u] = IF u = t THEN gen + 1 ELSE ln[u]
                           /\ pc'[u] = IF u = t THEN "spawn" ELSE pc[u]
    BY <1>7 DEF StartBegin
  <2>3. RunningConsistent' /\ NothingClosedTwice'
    BY <1>7, <2>1, <2>2 DEF StartBegin
  <2>4. \A g \in chClosed' \cup lnClosed' : 0 < g /\ g <= gen'
    <3>1. \A g \in chClosed \cup lnClosed : g \in Nat
      BY BoundsAssumption DEF TypeOK, Gens
    <3>. QED
      BY <2>1, <3>1
  <2>5. \A u \in Threads : ch'[u] <= gen' /\ ln'[u] <= gen'
    BY <2>1, <2>2
  <2>6. \A g \in Gens : tick'[g] \notin {"exit", "done"} => pc'[g] = "idle"
    BY <1>7, <2>1, <2>2
  <2>. QED
    BY <1>7, <2>1, <2>2, <2>3, <2>4, <2>5, <2>6
<1>8. ASSUME NEW t \in Handlers, StartSpawn(t) PROVE OwnershipInv'
  <2>1. ln[t] \in Gens /\ pc[ln[t]] = "idle"
    <3>1. ln[t] \in 1..gen /\ tick[ln[t]] = "none"
      BY <1>8 DEF StartSpawn, SpawnInv
    <3>2. ln[t] \in Gens
      BY <3>1, <1>d
    <3>. QED
      BY <3>1, <3>2
  <2>2. \A g \in Gens : tick'[g] \notin {"exit", "done"} => pc'[g] = "idle"
    BY <1>8, <2>1 DEF StartSpawn
  <2>. QED
    BY <1>8, <2>2 DEF StartSpawn
<1>9. ASSUME NEW t \in Handlers, StopRequest(t) PROVE OwnershipInv'
  BY <1>9 DEF StopRequest
<1>10. ASSUME NEW t \in Threads, StopNotRunning(t) PROVE OwnershipInv'
  BY <1>10 DEF StopNotRunning
<1>11. ASSUME NEW t \in Threads, StopBegin(t) PROVE OwnershipInv'
  <2>1. /\ bridgeStop = gen /\ listener = gen /\ gen # 0
        /\ bridgeStop' = 0 /\ listener' = 0 /\ ~bridgeRunning' /\ gen' = gen
        /\ UNCHANGED <<chClosed, lnClosed, dialed, tick>>
    BY <1>11 DEF StopBegin
  <2>2. \A u \in Threads : /\ ch'[u] = IF u = t THEN gen ELSE ch[u]
                           /\ ln'[u] = IF u = t THEN gen ELSE ln[u]
                           /\ pc'[u] = IF u = t THEN "closeListener" ELSE pc[u]
    BY <1>11, <2>1 DEF StopBegin
  <2>3. NothingClosedTwice'
    BY <1>11, <2>1, <2>2
  <2>. QED
    BY <1>11, <2>1, <2>2, <2>3 DEF StopBegin
<1>12. ASSUME NEW t \in Threads, StopCloseListener(t) PROVE OwnershipInv'
  <2>1. /\ lnClosed' = lnClosed \cup {ln[t]} /\ pc[t] = "closeListener"
        /\ UNCHANGED <<bridgeStop, listener, bridgeRunning, client, gen, chClosed, ch, dialed, tick>>
    BY <1>12 DEF StopCloseListener
  <2>2. \A u \in Threads : /\ ln'[u] = IF u = t THEN 0 ELSE ln[u]
                           /\ pc'[u] = IF u = t THEN "closeChan" ELSE pc[u]
    BY <1>12 DEF StopCloseListener
  <2>3. NothingClosedTwice'
    BY <1>12, <2>1, <2>2
  <2>4. \A g \in chClosed' \cup lnClosed' : 0 < g /\ g <= gen'
    <3>1. ln[t] \in Nat /\ ln[t] # 0 /\ ln[t] <= gen
      BY <1>12, <2>1
    <3>. QED
      BY <2>1, <3>1
  <2>5. \A g \in Gens : tick'[g] \notin {"exit", "done"} => pc'[g] = "idle"
    BY <1>12, <2>1, <2>2
  <2>. QED
    BY <1>12, <2>1, <2>2, <2>3, <2>4, <2>5
<1>13. ASSUME NEW t \in Threads, StopCloseChan(t) PROVE OwnershipInv'
  <2>1. /\ chClosed' = chClosed \cup ({ch[t]} \ {0}) /\ pc[t] = "closeChan"
        /\ UNCHANGED <<bridgeStop, listener, bridgeRunning, client, gen, lnClosed, ln, dialed, tick>>
    BY <1>13 DEF StopCloseChan
  <2>2. \A u \in Threads : /\ ch'[u] = IF u = t THEN 0 ELSE ch[u]
                           /\ pc'[u] = IF u = t THEN "closeConns" ELSE pc[u]
    BY <1>13 DEF StopCloseChan
  <2>3. NothingClosedTwice'
    BY <1>13, <2>1, <2>2
  <2>4. \A g \in chClosed' \cup lnClosed' : 0 < g /\ g <= gen'
    <3>1. ch[t] \in Nat /\ ch[t] <= gen
      BY <1>13, <2>1
    <3>. QED
      BY <2>1, <3>1
  <2>5. \A g \in Gens : tick'[g] \notin {"exit", "done"} => pc'[g] = "idle"
    BY <1>13, <2>1, <2>2
  <2>. QED
    BY <1>13, <2>1, <2>2, <2>3, <2>4, <2>5
<1>14. ASSUME NEW t \in Threads, StopCloseConns(t) PROVE OwnershipInv'
  BY <1>14 DEF StopCloseConns, CloseConns
<1>15. ASSUME NEW t \in Threads, StopWait(t) PROVE OwnershipInv'
  BY <1>15 DEF StopWait
<1>16. ASSUME NEW t \in Threads, StopWake(t) PROVE OwnershipInv'
  BY <1>16 DEF StopWake
<1>17. ASSUME NEW g \in Gens, AcceptError(g) PROVE OwnershipInv'
  BY <1>17 DEF AcceptError, WGDone
<1>18. ASSUME NEW g \in Gens, TickStop(g) PROVE OwnershipInv'
  BY <1>18 DEF TickStop
<1>19. ASSUME NEW g \in Gens, TickInit(g) PROVE OwnershipInv'
  BY <1>19 DEF TickInit
<1>20. ASSUME NEW g \in Gens, TickCheck(g) PROVE OwnershipInv'
  BY <1>20 DEF TickCheck
<1>21. ASSUME NEW g \in Gens, TickState(g) PROVE OwnershipInv'
  BY <1>21 DEF TickState
<1>22. ASSUME NEW g \in Gens, TickLost(g) PROVE OwnershipInv'
  BY <1>22 DEF TickLost
<1>23. ASSUME NEW g \in Gens, TickDone(g) PROVE OwnershipInv'
  BY <1>23 DEF TickDone, WGDone
<1>24. ASSUME NEW g \in Gens, TickRead(g) PROVE OwnershipInv'
  BY <1>24 DEF TickRead
<1>25. ASSUME NEW g \in Gens, TickNumber(g) PROVE OwnershipInv'
  BY <1>25 DEF TickNumber
<1>26. ASSUME NEW g \in Gens, TickReadFails(g) PROVE OwnershipInv'
  BY <1>26 DEF TickReadFails
<1>27. ASSUME NEW g \in Gens, BroadcastBegin(g) PROVE OwnershipInv'
  BY <1>27 DEF BroadcastBegin
<1>28. ASSUME NEW g \in Gens, BroadcastEnd(g) PROVE OwnershipInv'
  BY <1>28 DEF BroadcastEnd
<1>29. CASE UNCHANGED <<client, dialed, bridgeRunning, listener, bridgeStop, gen, endVars, tick, pc>>
  BY <1>29
<1>. QED
  BY <1>1, <1>2, <1>3, <1>4, <1>5, <1>6, <1>7, <1>8, <1>9, <1>10, <1>11, <1>12, <1>13, <1>14, <1>15, <1>16, <1>17, <1>18, <1>19, <1>20, <1>21, <1>22, <1>23, <1>24, <1>25, <1>26, <1>27, <1>28, <1>29
  DEF vars, Next, Handler, Connect, StopBridge, AcceptLoop, TickLoop, TickWork, Broadcast, Environment,
      Accept, AcceptAppend, BroadcastWrite, BroadcastDrop, WatchDisconnect, SessionDown, SessionUp, PeerGone, PeerStall, PeerResume, CloseSession, CloseConns

\* StartBridge and StopBridge, called concurrently in any number, by handlers
\* and by the goroutines of tick loops, keep bridgeRunning, listener,
\* bridgeStop and client consistent, and never close a channel twice, which
\* would panic (close(ch) in StopBridge).
THEOREM Ownership == Spec => [](RunningConsistent /\ NothingClosedTwice)
<1>1. Init => SpawnInv /\ OwnershipInv
  BY SpawnInit, OwnershipInit
<1>2. OwnershipInv => RunningConsistent /\ NothingClosedTwice
  BY DEF OwnershipInv
<1>. QED
  BY <1>1, <1>2, TypeCorrect, SpawnNext, OwnershipNext, PTL DEF Spec


-----------------------------------------------------------------------------
\* A step that leaves a bridge running without a connection is the one that
\* spawns its StopBridge, or leaves that one where it is.
LEMMA DegradedNext == TypeOK /\ DegradedHasStopper /\ [Next]_vars => DegradedHasStopper'
<1>. SUFFICES ASSUME TypeOK, DegradedHasStopper, [Next]_vars PROVE DegradedHasStopper'
  OBVIOUS
<1>a. pc \in [Threads -> ThreadPC] /\ Gens \subseteq Threads /\ Handlers \cap Gens = {}
  BY ThreadAssumption DEF TypeOK, Threads, Gens
<1>. USE <1>a DEF DegradedHasStopper, At, AcceptAt, TickAt, Goto, TickGoto,
        opcVars, flagVars, endVars, connVars, loopVars, dataVars
<1>1. ASSUME NEW t \in Handlers, ConnectBegin(t) PROVE DegradedHasStopper'
  BY <1>1 DEF ConnectBegin, CloseSession
<1>2. ASSUME NEW t \in Handlers, ConnectFail(t) PROVE DegradedHasStopper'
  BY <1>2 DEF ConnectFail
<1>3. ASSUME NEW t \in Handlers, ConnectDial(t) PROVE DegradedHasStopper'
  BY <1>3 DEF ConnectDial
<1>4. ASSUME NEW t \in Handlers, ConnectNoNamespace(t) PROVE DegradedHasStopper'
  BY <1>4 DEF ConnectNoNamespace, CloseSession
<1>5. ASSUME NEW t \in Handlers, ConnectPublish(t) PROVE DegradedHasStopper'
  BY <1>5 DEF ConnectPublish
<1>6. ASSUME NEW t \in Handlers, Disconnect(t) PROVE DegradedHasStopper'
  BY <1>6 DEF Disconnect, CloseSession
<1>7. ASSUME NEW t \in Handlers, StartBegin(t) PROVE DegradedHasStopper'
  BY <1>7 DEF StartBegin
<1>8. ASSUME NEW t \in Handlers, StartSpawn(t) PROVE DegradedHasStopper'
  BY <1>8 DEF StartSpawn
<1>9. ASSUME NEW t \in Handlers, StopRequest(t) PROVE DegradedHasStopper'
  BY <1>9 DEF StopRequest
<1>10. ASSUME NEW t \in Threads, StopNotRunning(t) PROVE DegradedHasStopper'
  BY <1>10 DEF StopNotRunning
<1>11. ASSUME NEW t \in Threads, StopBegin(t) PROVE DegradedHasStopper'
  BY <1>11 DEF StopBegin
<1>12. ASSUME NEW t \in Threads, StopCloseListener(t) PROVE DegradedHasStopper'
  BY <1>12 DEF StopCloseListener
<1>13. ASSUME NEW t \in Threads, StopCloseChan(t) PROVE DegradedHasStopper'
  BY <1>13 DEF StopCloseChan
<1>14. ASSUME NEW t \in Threads, StopCloseConns(t) PROVE DegradedHasStopper'
  BY <1>14 DEF StopCloseConns, CloseConns
<1>15. ASSUME NEW t \in Threads, StopWait(t) PROVE DegradedHasStopper'
  BY <1>15 DEF StopWait
<1>16. ASSUME NEW t \in Threads, StopWake(t) PROVE DegradedHasStopper'
  BY <1>16 DEF StopWake
<1>17. ASSUME NEW g \in Gens, AcceptError(g) PROVE DegradedHasStopper'
  BY <1>17 DEF AcceptError, WGDone
<1>18. ASSUME NEW g \in Gens, TickLost(g) PROVE DegradedHasStopper'
  BY <1>18 DEF TickLost
<1>19. ASSUME NEW g \in Gens, TickDone(g) PROVE DegradedHasStopper'
  BY <1>19 DEF TickDone, WGDone
<1>20. CASE UNCHANGED <<bridgeRunning, opcConnected, pc>>
  BY <1>20
<1>. QED
  BY <1>1, <1>2, <1>3, <1>4, <1>5, <1>6, <1>7, <1>8, <1>9, <1>10, <1>11, <1>12, <1>13, <1>14, <1>15, <1>16, <1>17, <1>18, <1>19, <1>20
  DEF vars, Next, Handler, Connect, StopBridge, AcceptLoop, TickLoop, TickWork, Broadcast, Environment,
      Accept, AcceptAppend, TickStop, TickInit, TickCheck, TickState, TickRead, TickNumber, TickReadFails, BroadcastBegin, BroadcastEnd, BroadcastWrite, BroadcastDrop, WatchDisconnect, SessionDown, SessionUp, PeerGone, PeerStall, PeerResume, CloseSession, CloseConns

\* Whenever the bridge runs on a session known to be lost, some goroutine is
\* about to call StopBridge (go func in tickLoop): no interleaving of Connect,
\* StartBridge and StopBridge leaves a degraded bridge to itself.
THEOREM Degraded == Spec => []DegradedHasStopper
<1>1. Init => DegradedHasStopper
  BY DEF Init, DegradedHasStopper
<1>. QED
  BY <1>1, TypeCorrect, DegradedNext, PTL DEF Spec

-----------------------------------------------------------------------------
\* There are finitely many loops to count.
LEMMA LiveFinite == IsFiniteSet(LiveLoops) /\ IsFiniteSet(LiveTicks)
<1>1. IsFiniteSet(Gens)
  BY BoundsAssumption, FS_Interval DEF Gens
<1>2. LiveLoops \subseteq Gens /\ LiveTicks \subseteq Gens
  BY DEF LiveLoops, LiveTicks
<1>. QED
  BY <1>1, <1>2, FS_Subset

\* bridgeWG.Add(2) comes with two loops that did not run before, and every
\* bridgeWG.Done with the end of one that did.
LEMMA WGNext == TypeOK /\ SpawnInv /\ WGCountsLoops /\ [Next]_vars => WGCountsLoops'
<1>. SUFFICES ASSUME TypeOK, SpawnInv, WGCountsLoops, [Next]_vars PROVE WGCountsLoops'
  OBVIOUS
<1>a. /\ tick \in [Gens -> TickPC] /\ accept \in [Gens -> AcceptPC] /\ wg \in Int
      /\ Cardinality(LiveLoops) \in Nat /\ Cardinality(LiveTicks) \in Nat
  BY LiveFinite, FS_CardinalityType DEF TypeOK
<1>. USE <1>a DEF At, AcceptAt, TickAt, Goto, TickGoto,
        opcVars, flagVars, endVars, connVars, loopVars, dataVars
<1>b. ASSUME LiveLoops' = LiveLoops, LiveTicks' = LiveTicks, wg' = wg PROVE WGCountsLoops'
  BY <1>b DEF WGCountsLoops
<1>1. ASSUME NEW t \in Handlers, StartSpawn(t) PROVE WGCountsLoops'
  <2>1. ln[t] \in Gens /\ ln[t] \notin LiveLoops /\ ln[t] \notin LiveTicks
    BY <1>1, BoundsAssumption DEF StartSpawn, SpawnInv, LiveLoops, LiveTicks, Gens, TypeOK, Threads
  <2>2. LiveLoops' = LiveLoops \cup {ln[t]} /\ LiveTicks' = LiveTicks \cup {ln[t]}
    BY <1>1, <2>1 DEF StartSpawn, LiveLoops, LiveTicks
  <2>3. /\ Cardinality(LiveLoops') = Cardinality(LiveLoops) + 1
        /\ Cardinality(LiveTicks') = Cardinality(LiveTicks) + 1
    BY <2>1, <2>2, LiveFinite, FS_AddElement
  <2>4. wg' = wg + 2
    BY <1>1 DEF StartSpawn
  <2>. QED
    BY <2>3, <2>4 DEF WGCountsLoops
<1>2. ASSUME NEW g \in Gens, NEW c \in Conns, Accept(g, c) PROVE WGCountsLoops'
  <2>1. LiveLoops' = LiveLoops /\ LiveTicks' = LiveTicks /\ wg' = wg
    BY <1>2 DEF Accept, LiveLoops, LiveTicks
  <2>. QED
    BY <2>1, <1>b
<1>3. ASSUME NEW g \in Gens, AcceptError(g) PROVE WGCountsLoops'
  <2>1. g \in LiveLoops /\ LiveLoops' = LiveLoops \ {g} /\ LiveTicks' = LiveTicks
    BY <1>3 DEF AcceptError, LiveLoops, LiveTicks
  <2>2. Cardinality(LiveLoops') = Cardinality(LiveLoops) - 1
    BY <2>1, LiveFinite, FS_RemoveElement
  <2>3. wg' = wg - 1
    BY <1>3 DEF AcceptError, WGDone
  <2>. QED
    BY <2>1, <2>2, <2>3 DEF WGCountsLoops
<1>4. ASSUME NEW g \in Gens, AcceptAppend(g) PROVE WGCountsLoops'
  <2>1. LiveLoops' = LiveLoops /\ LiveTicks' = LiveTicks /\ wg' = wg
    BY <1>4 DEF AcceptAppend, LiveLoops, LiveTicks
  <2>. QED
    BY <2>1, <1>b
<1>5. ASSUME NEW g \in Gens, TickStop(g) PROVE WGCountsLoops'
  <2>1. LiveLoops' = LiveLoops /\ LiveTicks' = LiveTicks /\ wg' = wg
    BY <1>5 DEF TickStop, LiveLoops, LiveTicks
  <2>. QED
    BY <2>1, <1>b
<1>6. ASSUME NEW g \in Gens, TickInit(g) PROVE WGCountsLoops'
  <2>1. LiveLoops' = LiveLoops /\ LiveTicks' = LiveTicks /\ wg' = wg
    BY <1>6 DEF TickInit, LiveLoops, LiveTicks
  <2>. QED
    BY <2>1, <1>b
<1>7. ASSUME NEW g \in Gens, TickCheck(g) PROVE WGCountsLoops'
  <2>1. LiveLoops' = LiveLoops /\ LiveTicks' = LiveTicks /\ wg' = wg
    BY <1>7 DEF TickCheck, LiveLoops, LiveTicks
  <2>. QED
    BY <2>1, <1>b
<1>8. ASSUME NEW g \in Gens, TickState(g) PROVE WGCountsLoops'
  <2>1. LiveLoops' = LiveLoops /\ LiveTicks' = LiveTicks /\ wg' = wg
    BY <1>8 DEF TickState, LiveLoops, LiveTicks
  <2>. QED
    BY <2>1, <1>b
<1>9. ASSUME NEW g \in Gens, TickLost(g) PROVE WGCountsLoops'
  <2>1. LiveLoops' = LiveLoops /\ LiveTicks' = LiveTicks /\ wg' = wg
    BY <1>9 DEF TickLost, LiveLoops, LiveTicks
  <2>. QED
    BY <2>1, <1>b
<1>10. ASSUME NEW g \in Gens, TickDone(g) PROVE WGCountsLoops'
  <2>1. g \in LiveTicks /\ LiveTicks' = LiveTicks \ {g} /\ LiveLoops' = LiveLoops
    BY <1>10 DEF TickDone, LiveLoops, LiveTicks
  <2>2. Cardinality(LiveTicks') = Cardinality(LiveTicks) - 1
    BY <2>1, LiveFinite, FS_RemoveElement
  <2>3. wg' = wg - 1
    BY <1>10 DEF TickDone, WGDone
  <2>. QED
    BY <2>1, <2>2, <2>3 DEF WGCountsLoops
<1>11. ASSUME NEW g \in Gens, TickRead(g) PROVE WGCountsLoops'
  <2>1. LiveLoops' = LiveLoops /\ LiveTicks' = LiveTicks /\ wg' = wg
    BY <1>11 DEF TickRead, LiveLoops, LiveTicks
  <2>. QED
    BY <2>1, <1>b
<1>12. ASSUME NEW g \in Gens, TickNumber(g) PROVE WGCountsLoops'
  <2>1. LiveLoops' = LiveLoops /\ LiveTicks' = LiveTicks /\ wg' = wg
    BY <1>12 DEF TickNumber, LiveLoops, LiveTicks
  <2>. QED
    BY <2>1, <1>b
<1>13. ASSUME NEW g \in Gens, TickReadFails(g) PROVE WGCountsLoops'
  <2>1. LiveLoops' = LiveLoops /\ LiveTicks' = LiveTicks /\ wg' = wg
    BY <1>13 DEF TickReadFails, LiveLoops, LiveTicks
  <2>. QED
    BY <2>1, <1>b
<1>14. ASSUME NEW g \in Gens, BroadcastBegin(g) PROVE WGCountsLoops'
  <2>1. LiveLoops' = LiveLoops /\ LiveTicks' = LiveTicks /\ wg' = wg
    BY <1>14 DEF BroadcastBegin, LiveLoops, LiveTicks
  <2>. QED
    BY <2>1, <1>b
<1>15. ASSUME NEW g \in Gens, BroadcastEnd(g) PROVE WGCountsLoops'
  <2>1. LiveLoops' = LiveLoops /\ LiveTicks' = LiveTicks /\ wg' = wg
    BY <1>15 DEF BroadcastEnd, LiveLoops, LiveTicks
  <2>. QED
    BY <2>1, <1>b
<1>16. CASE UNCHANGED <<wg, accept, tick>>
  <2>1. LiveLoops' = LiveLoops /\ LiveTicks' = LiveTicks /\ wg' = wg
    BY <1>16 DEF LiveLoops, LiveTicks
  <2>. QED
    BY <2>1, <1>b
<1>. QED
  BY <1>1, <1>2, <1>3, <1>4, <1>5, <1>6, <1>7, <1>8, <1>9, <1>10, <1>11, <1>12, <1>13, <1>14, <1>15, <1>16
  DEF vars, Next, Handler, Connect, StopBridge, AcceptLoop, TickLoop, TickWork, Broadcast, Environment,
      ConnectBegin, ConnectFail, ConnectDial, ConnectNoNamespace, ConnectPublish, Disconnect, StartBegin, StopRequest, StopNotRunning, StopBegin, StopCloseListener, StopCloseChan, StopCloseConns, StopWait, StopWake, BroadcastWrite, BroadcastDrop, WatchDisconnect, SessionDown, SessionUp, PeerGone, PeerStall, PeerResume

\* The counter of bridgeWG is the number of accept and tick loops that run,
\* those of bridges already stopped included, so it never gets negative
\* (which would panic) and is zero only if no loop is left.
THEOREM LoopsCounted == Spec => []WGCountsLoops
<1>1. Init => WGCountsLoops
  <2>. SUFFICES ASSUME Init PROVE WGCountsLoops
    OBVIOUS
  <2>1. LiveLoops = {} /\ LiveTicks = {} /\ wg = 0
    BY DEF Init, LiveLoops, LiveTicks
  <2>. QED
    BY <2>1, FS_EmptySet DEF WGCountsLoops
<1>. QED
  BY <1>1, TypeCorrect, SpawnInit, SpawnNext, WGNext, PTL DEF Spec

-----------------------------------------------------------------------------
\* Every step keeps a connection in one pair of hands: the accept loop's, the
\* list's, or those of the StopBridge that closes it.
LEMMA ConnNext == TypeOK /\ ConnInv /\ [Next]_vars => ConnInv'
<1>. SUFFICES ASSUME TypeOK, ConnInv, [Next]_vars PROVE ConnInv'
  OBVIOUS
<1>a. /\ tick \in [Gens -> TickPC] /\ accept \in [Gens -> AcceptPC]
      /\ sock \in [Conns -> {"none", "open", "broken", "closed"}]
      /\ clients \subseteq Conns /\ watched \subseteq Conns
      /\ conns \in [Threads -> SUBSET Conns] /\ hand \in [Gens -> SUBSET Conns]
      /\ todo \in [Gens -> SUBSET Conns] /\ mu \in Gens \cup {0}
  BY DEF TypeOK
<1>b. 0 \notin Gens /\ Handlers \subseteq Threads
  BY DEF Gens, Threads
<1>. USE <1>a, <1>b DEF ConnInv, ListedConnsAreOpen, Locked,
        At, AcceptAt, TickAt, Goto, TickGoto,
        opcVars, flagVars, endVars, connVars, loopVars, dataVars
<1>1. ASSUME NEW t \in Handlers, StartBegin(t) PROVE ConnInv'
  BY <1>1 DEF StartBegin
<1>2. ASSUME NEW t \in Threads, StopBegin(t) PROVE ConnInv'
  BY <1>2 DEF StopBegin
<1>3. ASSUME NEW t \in Threads, StopCloseConns(t) PROVE ConnInv'
  BY <1>3 DEF StopCloseConns, CloseConns
<1>4. ASSUME NEW g \in Gens, NEW c \in Conns, Accept(g, c) PROVE ConnInv'
  BY <1>4 DEF Accept
<1>5. ASSUME NEW g \in Gens, AcceptAppend(g) PROVE ConnInv'
  BY <1>5 DEF AcceptAppend
<1>6. ASSUME NEW g \in Gens, TickStop(g) PROVE ConnInv'
  BY <1>6 DEF TickStop
<1>7. ASSUME NEW g \in Gens, TickInit(g) PROVE ConnInv'
  BY <1>7 DEF TickInit
<1>8. ASSUME NEW g \in Gens, TickCheck(g) PROVE ConnInv'
  BY <1>8 DEF TickCheck
<1>9. ASSUME NEW g \in Gens, TickState(g) PROVE ConnInv'
  BY <1>9 DEF TickState
<1>10. ASSUME NEW g \in Gens, TickLost(g) PROVE ConnInv'
  BY <1>10 DEF TickLost
<1>11. ASSUME NEW g \in Gens, TickDone(g) PROVE ConnInv'
  BY <1>11 DEF TickDone, WGDone
<1>12. ASSUME NEW g \in Gens, TickRead(g) PROVE ConnInv'
  BY <1>12 DEF TickRead
<1>13. ASSUME NEW g \in Gens, TickNumber(g) PROVE ConnInv'
  BY <1>13 DEF TickNumber
<1>14. ASSUME NEW g \in Gens, TickReadFails(g) PROVE ConnInv'
  BY <1>14 DEF TickReadFails
<1>15. ASSUME NEW g \in Gens, BroadcastBegin(g) PROVE ConnInv'
  BY <1>15 DEF BroadcastBegin
<1>16. ASSUME NEW g \in Gens, BroadcastEnd(g) PROVE ConnInv'
  BY <1>16 DEF BroadcastEnd
<1>17. ASSUME NEW g \in Gens, NEW c \in Conns, BroadcastWrite(g, c) PROVE ConnInv'
  BY <1>17 DEF BroadcastWrite
<1>18. ASSUME NEW g \in Gens, NEW c \in Conns, BroadcastDrop(g, c) PROVE ConnInv'
  BY <1>18 DEF BroadcastDrop, CloseConns
<1>19. ASSUME NEW c \in Conns, WatchDisconnect(c) PROVE ConnInv'
  BY <1>19 DEF WatchDisconnect, CloseConns
<1>20. ASSUME NEW c \in Conns, PeerGone(c) PROVE ConnInv'
  BY <1>20 DEF PeerGone
<1>21. CASE UNCHANGED <<mu, clients, sock, watched, conns, hand, tick, todo>>
  BY <1>21
<1>. QED
  BY <1>1, <1>2, <1>3, <1>4, <1>5, <1>6, <1>7, <1>8, <1>9, <1>10, <1>11, <1>12, <1>13, <1>14, <1>15, <1>16, <1>17, <1>18, <1>19, <1>20, <1>21
  DEF vars, Next, Handler, Connect, StopBridge, AcceptLoop, TickLoop, TickWork, Broadcast, Environment,
      ConnectBegin, ConnectFail, ConnectDial, ConnectNoNamespace, ConnectPublish, Disconnect, StartSpawn, StopRequest, StopNotRunning, StopCloseListener, StopCloseChan, StopWait, StopWake, AcceptError, SessionDown, SessionUp, PeerStall, PeerResume, CloseSession, CloseConns

\* A broadcast, which keeps the lock while it writes, only writes to
\* connections that are listed and that neither StopBridge nor
\* watchDisconnect has closed meanwhile.
THEOREM ListedOpen == Spec => []ListedConnsAreOpen
<1>1. Init => ConnInv
  BY DEF Init, ConnInv, ListedConnsAreOpen
<1>2. ConnInv => ListedConnsAreOpen
  BY DEF ConnInv
<1>. QED
  BY <1>1, <1>2, TypeCorrect, ConnNext, PTL DEF Spec

-----------------------------------------------------------------------------
\* A number that was drawn for a frame is new: no other loop has it, and no
\* subscriber that the loop has still to write to has been sent it.
FrameInv ==
    /\ \A g \in Gens : tick[g] \in {"bcast", "write"} => payload[g] <= seq
    /\ \A g, h \in Gens :
         tick[g] \in {"bcast", "write"} /\ tick[h] \in {"bcast", "write"}
         /\ payload[g] = payload[h] => g = h
    /\ \A c \in Conns : \A i \in 1..Len(received[c]) : received[c][i] <= seq
    /\ \A g \in Gens, c \in Conns :
         tick[g] = "bcast" \/ (tick[g] = "write" /\ c \in todo[g]) =>
           \A i \in 1..Len(received[c]) : received[c][i] # payload[g]
    /\ NoFrameTwice

\* A loop draws the next number, which nobody has.
LEMMA NumberFrames ==
    ASSUME TypeOK, FrameInv, NEW g \in Gens, TickNumber(g)
    PROVE  FrameInv'
<1>1. /\ seq \in Nat /\ payload \in [Gens -> Nat] /\ tick \in [Gens -> TickPC]
      /\ received \in [Conns -> Seq(Nat)]
    BY DEF TypeOK
<1>2. /\ seq' = seq + 1 /\ UNCHANGED <<todo, received>>
      /\ payload' = [payload EXCEPT ![g] = seq + 1]
      /\ tick' = [tick EXCEPT ![g] = "bcast"]
    BY DEF TickNumber, TickGoto
<1>3. /\ payload'[g] = seq + 1 /\ tick'[g] = "bcast"
      /\ \A h \in Gens : h # g => payload'[h] = payload[h] /\ tick'[h] = tick[h]
    BY <1>1, <1>2
<1>4. \A c \in Conns : \A i \in 1..Len(received[c]) :
        received[c][i] \in Nat /\ received[c][i] <= seq
    BY <1>1 DEF FrameInv
<1>5. \A c \in Conns : \A i \in 1..Len(received[c]) :
        received'[c][i] <= seq' /\ received'[c][i] # payload'[g]
    BY <1>1, <1>2, <1>3, <1>4
<1>6. \A h \in Gens : tick'[h] \in {"bcast", "write"} =>
        payload'[h] <= seq' /\ (payload'[h] = payload'[g] => h = g)
    BY <1>1, <1>2, <1>3 DEF FrameInv
<1>7. \A h, k \in Gens :
        tick'[h] \in {"bcast", "write"} /\ tick'[k] \in {"bcast", "write"}
        /\ payload'[h] = payload'[k] => h = k
    BY <1>3, <1>6 DEF FrameInv
<1>8. \A h \in Gens, c \in Conns :
         tick'[h] = "bcast" \/ (tick'[h] = "write" /\ c \in todo'[h]) =>
           \A i \in 1..Len(received'[c]) : received'[c][i] # payload'[h]
    BY <1>2, <1>3, <1>5 DEF FrameInv
<1> QED
    BY <1>2, <1>5, <1>6, <1>7, <1>8 DEF FrameInv, NoFrameTwice

\* It is written once to each of the subscribers listed at the time.
LEMMA WriteFrames ==
    ASSUME TypeOK, FrameInv, NEW g \in Gens, NEW c \in Conns, BroadcastWrite(g, c)
    PROVE  FrameInv'
<1>1. /\ seq \in Nat /\ payload \in [Gens -> Nat] /\ todo \in [Gens -> SUBSET Conns]
      /\ received \in [Conns -> Seq(Nat)]
    BY DEF TypeOK
<1>2. /\ tick[g] = "write" /\ c \in todo[g]
      /\ UNCHANGED <<seq, payload, tick>>
      /\ received' = [received EXCEPT ![c] = Append(received[c], payload[g])]
      /\ todo' = [todo EXCEPT ![g] = todo[g] \ {c}]
    BY DEF BroadcastWrite, TickAt
<1> DEFINE n == Len(received[c])
<1>3. /\ n \in Nat /\ Len(received'[c]) = n + 1
      /\ \A i \in 1..n : received'[c][i] = received[c][i]
      /\ received'[c][n + 1] = payload[g]
      /\ \A i \in 1..(n + 1) : i \in 1..n \/ i = n + 1
    BY <1>1, <1>2
<1>4. /\ \A d \in Conns : d # c => received'[d] = received[d]
      /\ \A h \in Gens : h # g => todo'[h] = todo[h]
      /\ todo'[g] = todo[g] \ {c}
    BY <1>1, <1>2
<1> HIDE DEF n
<1>5. \A d \in Conns : \A i \in 1..Len(received'[d]) : received'[d][i] <= seq'
    BY <1>2, <1>3, <1>4 DEF FrameInv, n
<1>6. \A h \in Gens, d \in Conns :
         tick'[h] = "bcast" \/ (tick'[h] = "write" /\ d \in todo'[h]) =>
           \A i \in 1..Len(received'[d]) : received'[d][i] # payload'[h]
  <2> SUFFICES ASSUME NEW h \in Gens, NEW d \in Conns,
                      tick[h] = "bcast" \/ (tick[h] = "write" /\ d \in todo'[h]),
                      NEW i \in 1..Len(received'[d])
               PROVE  received'[d][i] # payload[h]
      BY <1>2
  <2>1. CASE d # c
    <3>1. d \in todo'[h] => d \in todo[h]
        BY <1>4
    <3> QED
        BY <1>4, <2>1, <3>1 DEF FrameInv
  <2>2. CASE d = c /\ h # g
    <3>1. payload[g] # payload[h]
        BY <1>2, <2>2 DEF FrameInv
    <3>2. \A j \in 1..n : received[c][j] # payload[h]
        BY <1>4, <2>2 DEF FrameInv, n
    <3> QED
        BY <1>3, <2>2, <3>1, <3>2
  <2>3. CASE d = c /\ h = g
      BY <1>2, <1>4, <2>3
  <2> QED
      BY <2>1, <2>2, <2>3
<1>7. NoFrameTwice'
  <2>1. \A j \in 1..n : received[c][j] # payload[g]
      BY <1>2 DEF FrameInv, n
  <2>2. \A i, j \in 1..(n + 1) : received'[c][i] = received'[c][j] => i = j
      BY <1>3, <2>1 DEF FrameInv, NoFrameTwice, n
  <2> QED
      BY <1>3, <1>4, <2>2 DEF FrameInv, NoFrameTwice
<1> QED
    BY <1>2, <1>5, <1>6, <1>7 DEF FrameInv

\* No other step draws or writes a number.
LEMMA OtherFrames ==
    ASSUME TypeOK, FrameInv, UNCHANGED <<seq, received>>,
           \A h \in Gens : /\ tick'[h] \in {"bcast", "write"} =>
                                payload'[h] = payload[h] /\ tick[h] \in {"bcast", "write"}
                           /\ tick'[h] = "bcast" => tick[h] = "bcast"
                           /\ tick'[h] = "write" =>
                                tick[h] = "bcast" \/ todo'[h] \subseteq todo[h]
    PROVE  FrameInv'
BY DEF FrameInv, NoFrameTwice

\* Every step keeps the numbers of the frames apart.
LEMMA FrameNext == TypeOK /\ FrameInv /\ [Next]_vars => FrameInv'
<1> SUFFICES ASSUME TypeOK, FrameInv, [Next]_vars PROVE FrameInv'
    OBVIOUS
<1>a. /\ tick \in [Gens -> TickPC] /\ todo \in [Gens -> SUBSET Conns]
      /\ payload \in [Gens -> Nat]
    BY DEF TypeOK
<1> USE <1>a, OtherFrames DEF TickAt, TickGoto, loopVars, dataVars
<1>1. ASSUME NEW t \in Handlers, StartSpawn(t) PROVE FrameInv'
    BY <1>1 DEF StartSpawn
<1>2. ASSUME NEW g \in Gens, TickStop(g) PROVE FrameInv'
    BY <1>2 DEF TickStop
<1>3. ASSUME NEW g \in Gens, TickInit(g) PROVE FrameInv'
    BY <1>3 DEF TickInit
<1>4. ASSUME NEW g \in Gens, TickCheck(g) PROVE FrameInv'
    BY <1>4 DEF TickCheck
<1>5. ASSUME NEW g \in Gens, TickState(g) PROVE FrameInv'
    BY <1>5 DEF TickState
<1>6. ASSUME NEW g \in Gens, TickLost(g) PROVE FrameInv'
    BY <1>6 DEF TickLost
<1>7. ASSUME NEW g \in Gens, TickDone(g) PROVE FrameInv'
    BY <1>7 DEF TickDone, WGDone
<1>8. ASSUME NEW g \in Gens, TickRead(g) PROVE FrameInv'
    BY <1>8 DEF TickRead
<1>9. ASSUME NEW g \in Gens, TickReadFails(g) PROVE FrameInv'
    BY <1>9 DEF TickReadFails
<1>10. ASSUME NEW g \in Gens, BroadcastBegin(g) PROVE FrameInv'
    BY <1>10 DEF BroadcastBegin
<1>11. ASSUME NEW g \in Gens, BroadcastEnd(g) PROVE FrameInv'
    BY <1>11 DEF BroadcastEnd
<1>12. ASSUME NEW g \in Gens, NEW c \in Conns, BroadcastDrop(g, c) PROVE FrameInv'
    BY <1>12 DEF BroadcastDrop
<1>13. CASE UNCHANGED <<seq, received, tick, payload, todo>>
    BY <1>13
<1> QED
    BY <1>1, <1>2, <1>3, <1>4, <1>5, <1>6, <1>7, <1>8, <1>9, <1>10, <1>11, <1>12, <1>13, NumberFrames, WriteFrames
    DEF vars, Next, Handler, Connect, StopBridge, AcceptLoop, TickLoop, TickWork, Broadcast, Environment,
        ConnectBegin, ConnectFail, ConnectDial, ConnectNoNamespace, ConnectPublish, Disconnect, StartBegin, StopRequest, StopNotRunning, StopBegin, StopCloseListener, StopCloseChan, StopCloseConns, StopWait, StopWake, Accept, AcceptAppend, AcceptError, WatchDisconnect, SessionDown, SessionUp, PeerGone, PeerStall, PeerResume

\* A subscriber never gets a frame number twice, also while the loops of
\* several bridges draw numbers and broadcast side by side (readFrame and
\* broadcast).
THEOREM FramesOnce == Spec => []NoFrameTwice
<1>1. Init => FrameInv
    BY DEF Init, FrameInv, NoFrameTwice
<1>2. FrameInv => NoFrameTwice
    BY DEF FrameInv
<1> QED
    BY <1>1, <1>2, TypeCorrect, FrameNext, PTL DEF Spec
=============================================================================
