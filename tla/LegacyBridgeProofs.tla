------------------------- MODULE LegacyBridgeProofs -------------------------
(***************************************************************************)
(* Proofs about the C bridge, for any number of slots, subscribers and     *)
(* sensors.  TypeInv (the types, and where the loops of the thread are) is *)
(* inductive; so are, under it, OwnInv (slots and sockets), IdsInv (the    *)
(* sensor ids) and, under TypeInv and OwnInv, StreamInv (how far each      *)
(* subscriber is), with which every step is one of FrameStream or none.    *)
(***************************************************************************)
EXTENDS LegacyBridge, WellFoundedInduction, TLAPS

Looking == {"connect", "namespace", "folder", "nodes"}

\* The two loops are at a sensor, or at a slot, and at 1 outside of them;
\* the delay runs from the beginning of an attempt.
TypeInv ==
    /\ TypeOK
    /\ pc = "nodes" => at \in Sensors
    /\ pc = "send" => at \in Slots /\ seq > 0
    /\ pc \notin {"nodes", "send"} => at = 1
    /\ pc \in Looking => waited = 0

\* SlotsOwnSockets, and a socket that broke off in a frame is closed.
OwnInv == SlotsOwnSockets /\ \A c \in cut : sock[c] = "closed"

\* ReadsFoundIds, and what the lookup has found so far.
IdsInv ==
    /\ ReadsFoundIds
    /\ pc \in {"folder", "nodes"} => known
    /\ pc = "nodes" => 1..(at - 1) \subseteq ids

\* The last frame that was sent to slot i: the loop over the slots has come
\* past it or not.
LastFor(i) == IF pc = "send" /\ i >= at THEN seq - 1 ELSE seq

\* A subscriber has the last frame its slot was sent, if any; a connection
\* that was not taken on has nothing.
StreamInv ==
    /\ \A c \in Conns : sock[c] \in {"none", "queued"} => received[c] = << >>
    /\ \A i \in Slots : slots[i] # None /\ received[slots[i]] # << >> =>
         received[slots[i]][Len(received[slots[i]])] = LastFor(i)

-----------------------------------------------------------------------------
\* At the start nobody is served and nothing has been looked up.
LEMMA InitTypes == Init => TypeInv
<1> SUFFICES ASSUME Init PROVE TypeInv
    OBVIOUS
<1>1. << >> \in Seq(1..MaxSeq)
    OBVIOUS
<1>2. running \in BOOLEAN /\ known \in BOOLEAN /\ resolved \in BOOLEAN
      /\ due \in BOOLEAN /\ session \in BOOLEAN
    BY Zenon DEF Init
<1> QED
    BY <1>1, <1>2, SizesAssumption DEF Init, TypeInv, TypeOK, Looking

\* A failed attempt keeps the delay within its bounds.
LEMMA FailTypes ==
    ASSUME TypeInv, Fail, pc \in Looking
    PROVE  backoff' \in 1..(2 * BackoffLimit) /\ pc' = "select"
BY SizesAssumption DEF TypeInv, TypeOK, Fail

\* The steps of the reconnection keep the types.
LEMMA ReconnectTypes == TypeInv /\ Reconnect => TypeInv'
<1> SUFFICES ASSUME TypeInv, Reconnect PROVE TypeInv'
    OBVIOUS
<1>1. known' \in BOOLEAN /\ resolved' \in BOOLEAN /\ session' \in BOOLEAN
      /\ running' \in BOOLEAN /\ due' \in BOOLEAN
    BY Zenon
    DEF Reconnect, ConnectToServer, FindNamespaceIndex, FindSensorsFolder, BrowseToNode,
        TypeInv, TypeOK, loopVars, serverVars
<1>2. /\ pc \in Looking
      /\ UNCHANGED <<waited, seq, slots, ready, peerVars, offers>>
    BY Zenon
    DEF Reconnect, ConnectToServer, FindNamespaceIndex, FindSensorsFolder, BrowseToNode,
        Looking, serverVars
<1>3. \/ pc' \in Looking \ {"nodes"} /\ backoff' = backoff /\ at' = at /\ ids' = ids /\ pc # "nodes"
      \/ pc' = "nodes" /\ backoff' = backoff /\ at' \in Sensors /\ ids' \subseteq Sensors
      \/ pc' = "select" /\ (backoff' = 1 \/ Fail) /\ ids' \subseteq Sensors
         /\ (at' = 1 \/ (at' = at /\ pc # "nodes"))
  <2>1. /\ ids \subseteq Sensors /\ SensorCount \in Nat \ {0}
        /\ (pc = "nodes" => at \in Sensors) /\ (pc # "nodes" /\ pc # "send" => at = 1)
      BY SizesAssumption DEF TypeInv, TypeOK
  <2>2. CASE ConnectToServer
      BY <2>1, <2>2 DEF ConnectToServer, Looking, Fail
  <2>3. CASE FindNamespaceIndex
      BY <2>1, <2>3 DEF FindNamespaceIndex, Looking, Fail
  <2>4. CASE FindSensorsFolder
      BY <2>1, <2>4 DEF FindSensorsFolder, Looking, Fail, Sensors
  <2>5. CASE BrowseToNode
    <3>1. pc = "nodes" /\ at \in Sensors /\ (ids' = ids \cup {at} \/ ids' = ids \ {at})
        BY <2>1, <2>5, Zenon DEF BrowseToNode
    <3> HIDE <2>5
    <3>4. ids' \subseteq Sensors
        BY <2>1, <3>1
    <3>2. CASE session /\ offers >= 3 + at
      <4>1. /\ at < SensorCount => at' = at + 1 /\ UNCHANGED <<pc, backoff>>
            /\ ~(at < SensorCount) => pc' = "select" /\ backoff' = 1 /\ at' = 1
          BY <2>5, <3>2, Zenon DEF BrowseToNode
      <4> QED
          BY <2>1, <3>1, <3>4, <4>1 DEF Sensors
    <3>3. CASE ~(session /\ offers >= 3 + at)
      <4>1. Fail /\ at' = 1
          BY <2>5, <3>3, Zenon DEF BrowseToNode
      <4>2. pc' = "select"
          BY <4>1 DEF Fail
      <4> QED
          BY <3>4, <4>1, <4>2, Zenon
    <3> QED
        BY <3>2, <3>3
  <2> QED
      BY <2>2, <2>3, <2>4, <2>5 DEF Reconnect
<1>4. backoff' \in 1..(2 * BackoffLimit)
    BY <1>2, <1>3, FailTypes, SizesAssumption DEF TypeInv, TypeOK
<1>5. waited' = 0 /\ waited' \in 0..backoff'
    BY <1>2, <1>4, SizesAssumption DEF TypeInv
<1>6. /\ pc' \in Looking \cup {"select"}
      /\ (pc' = "nodes" => at' \in Sensors) /\ (pc' # "nodes" => at' = 1)
      /\ ids' \subseteq Sensors /\ at' \in Nat
  <2>1. /\ pc \in Looking /\ ids \subseteq Sensors /\ (pc # "nodes" => at = 1)
        /\ SensorCount \in Nat
      BY <1>2, SizesAssumption DEF TypeInv, TypeOK, Looking
  <2>2. ids' \subseteq Sensors
      BY <1>3, <2>1, Zenon
  <2>3. \/ pc' \in Looking \ {"nodes"} /\ at' = 1
        \/ pc' = "nodes" /\ at' \in Sensors
        \/ pc' = "select" /\ at' = 1
      BY <1>3, <2>1, Zenon
  <2> QED
      BY <2>1, <2>2, <2>3 DEF Looking, Sensors
<1>7. /\ seq' \in 0..MaxSeq /\ slots' \in [Slots -> Conns \cup {None}]
      /\ ready' \subseteq Conns \cup {None}
      /\ sock' \in [Conns -> {"none", "queued", "open", "closed"}]
      /\ gone' \subseteq Conns /\ stalled' \subseteq Conns /\ cut' \subseteq Conns
      /\ received' \in [Conns -> Seq(1..MaxSeq)] /\ offers' \in 0..(3 + SensorCount)
    BY <1>2 DEF TypeInv, TypeOK, peerVars
<1> QED
    BY <1>1, <1>4, <1>5, <1>6, <1>7, Zenon DEF TypeInv, TypeOK, Looking

\* Closing clients keeps the types of slots and sockets.
LEMMA RemoveTypes ==
    ASSUME TypeOK, NEW S, RemoveClients(S)
    PROVE  /\ slots' \in [Slots -> Conns \cup {None}]
           /\ sock' \in [Conns -> {"none", "queued", "open", "closed"}]
BY DEF TypeOK, RemoveClients

\* The end of the loop over the slots.
LEMMA SendNextTypes ==
    ASSUME TypeInv, pc = "send", SendNext
    PROVE  \/ pc' = "send" /\ at' \in Slots /\ at' = at + 1
           \/ pc' = "loop" /\ at' = 1
BY SizesAssumption DEF TypeInv, TypeOK, SendNext, Slots

\* Every step keeps the types.
LEMMA NextTypes == TypeInv /\ [Next]_vars => TypeInv'
<1> SUFFICES ASSUME TypeInv, [Next]_vars PROVE TypeInv'
    OBVIOUS
<1> USE SizesAssumption DEF TypeInv, TypeOK, Looking, peerVars, serverVars, loopVars
<1>1. ASSUME NEW s \in {0, Turn}, LoopHead(s) PROVE TypeInv'
  <2>1. Later(s) \in 0..backoff
      BY DEF Later
  <2>2. due' \in BOOLEAN /\ session' \in BOOLEAN
      BY <1>1, Zenon DEF LoopHead
  <2>3. \/ pc' = "connect" /\ waited' = 0
        \/ pc' = "select" /\ waited' = Later(s)
      BY <1>1, Zenon DEF LoopHead
  <2>4. UNCHANGED <<running, known, ids, resolved, backoff, seq, slots, ready, at,
                    peerVars, offers>> /\ pc = "loop"
      BY <1>1, Zenon DEF LoopHead
  <2> HIDE <1>1
  <2>5. waited' \in 0..backoff'
      BY <2>1, <2>3, <2>4
  <2> QED
      BY <2>2, <2>3, <2>4, <2>5
<1>2. CASE Select
    BY <1>2 DEF Select, Active
<1>3. CASE AcceptNobody
    BY <1>3 DEF AcceptNobody
<1>4. ASSUME NEW c \in Conns, AcceptNewClient(c) PROVE TypeInv'
  <2>1. slots' \in [Slots -> Conns \cup {None}]
    <3>1. slots' = slots \/ \E i : slots' = [slots EXCEPT ![i] = c]
        BY <1>4, Zenon DEF AcceptNewClient
    <3> QED
        BY <3>1
  <2>2. sock' \in [Conns -> {"none", "queued", "open", "closed"}]
      BY <1>4 DEF AcceptNewClient
  <2> QED
      BY <1>4, <2>1, <2>2 DEF AcceptNewClient
<1>5. CASE Reap
  <2>1. /\ slots' \in [Slots -> Conns \cup {None}]
        /\ sock' \in [Conns -> {"none", "queued", "open", "closed"}]
      BY <1>5, RemoveTypes DEF Reap
  <2>2. /\ pc' = "update" /\ ready' = {} /\ at' = 1
        /\ UNCHANGED <<running, loopVars, gone, stalled, received, cut, serverVars>>
      BY <1>5 DEF Reap
  <2> HIDE <1>5
  <2> QED
      BY <2>1, <2>2
<1>6. CASE Update
  <2>1. due' \in BOOLEAN
      BY <1>6, Zenon DEF Update
  <2>2. \/ seq < MaxSeq /\ seq' = seq + 1 /\ pc' = "send"
        \/ pc' = "loop" /\ seq' = seq
      BY <1>6, Zenon DEF Update
  <2>3. /\ pc = "update"
        /\ UNCHANGED <<running, known, ids, resolved, backoff, waited, slots, ready, at,
                       peerVars, serverVars>>
      BY <1>6, Zenon DEF Update
  <2>4. at = 1 /\ 1 \in Slots
      BY <2>3 DEF Slots
  <2> HIDE <1>6
  <2> QED
      BY <2>1, <2>2, <2>3, <2>4
<1>7. CASE SendNobody
    BY <1>7, SendNextTypes DEF SendNobody
<1>8. ASSUME NEW c \in Conns, SendWhole(c) PROVE TypeInv'
  <2>1. received' \in [Conns -> Seq(1..MaxSeq)]
      BY <1>8 DEF SendWhole
  <2>2. pc = "send" /\ SendNext
      BY <1>8 DEF SendWhole
  <2> QED
      BY <1>8, <2>1, <2>2, SendNextTypes DEF SendWhole
<1>9. ASSUME NEW c \in Conns, SendPart(c) PROVE TypeInv'
  <2>1. pc = "send" /\ SendNext
      BY <1>9 DEF SendPart
  <2>2. /\ slots' \in [Slots -> Conns \cup {None}]
        /\ sock' \in [Conns -> {"none", "queued", "open", "closed"}]
      BY <1>9, RemoveTypes DEF SendPart
  <2> QED
      BY <1>9, <2>1, <2>2, SendNextTypes DEF SendPart
<1>10. CASE Shutdown
    BY <1>10 DEF Shutdown
<1>11. CASE Signal
    BY <1>11 DEF Signal
<1>12. ASSUME NEW k \in Offers, ServerChanges(k) PROVE TypeInv'
  <2>1. session' \in BOOLEAN
      BY <1>12, Zenon DEF ServerChanges
  <2> QED
      BY <1>12, <2>1 DEF ServerChanges
<1>13. ASSUME NEW c \in Conns,
              PeerConnects(c) \/ PeerGone(c) \/ PeerStalls(c) \/ PeerResumes(c)
       PROVE  TypeInv'
  <2>1. sock' \in [Conns -> {"none", "queued", "open", "closed"}]
      BY <1>13 DEF PeerConnects, PeerGone, PeerStalls, PeerResumes
  <2>2. gone' \subseteq Conns /\ stalled' \subseteq Conns
      BY <1>13 DEF PeerConnects, PeerGone, PeerStalls, PeerResumes
  <2>3. UNCHANGED <<pc, running, loopVars, slots, ready, at, received, cut, serverVars>>
      BY <1>13, Zenon DEF PeerConnects, PeerGone, PeerStalls, PeerResumes
  <2> HIDE <1>13
  <2> QED
      BY <2>1, <2>2, <2>3
<1>14. CASE UNCHANGED vars
    BY <1>14 DEF vars
<1> QED
    BY <1>1, <1>2, <1>3, <1>4, <1>5, <1>6, <1>7, <1>8, <1>9, <1>10, <1>11, <1>12, <1>13, <1>14,
       ReconnectTypes
    DEF Next, Loop, Environment, Accept, Send

\* The bridge keeps the types of its variables, whatever the server, the
\* subscribers and the clock do.
THEOREM TypeCorrect == Spec => []TypeOK
<1>1. TypeInv => TypeOK
    BY DEF TypeInv
<1> QED
    BY <1>1, InitTypes, NextTypes, PTL DEF Spec

-----------------------------------------------------------------------------
(* Slots and sockets.                                                      *)

\* Who is served.
LEMMA ActiveSlots ==
    ASSUME TypeOK
    PROVE  /\ Active \subseteq Conns
           /\ \A c \in Conns : c \in Active <=> \E i \in Slots : slots[i] = c
BY ConnsAssumption DEF TypeOK, Active, Range

LEMMA ActiveSlotsNext ==
    ASSUME TypeOK'
    PROVE  /\ Active' \subseteq Conns
           /\ \A c \in Conns : c \in Active' <=> \E i \in Slots : slots'[i] = c
BY ConnsAssumption DEF TypeOK, Active, Range

\* Closing clients empties their slots and no others.
LEMMA RemoveOwns ==
    ASSUME TypeOK, TypeOK', OwnInv, NEW S \in SUBSET Conns, RemoveClients(S)
    PROVE  /\ SlotsOwnSockets'
           /\ \A c \in Conns : sock[c] = "closed" => sock'[c] = "closed"
           /\ \A c \in S \cap Active : sock'[c] = "closed"
           /\ Active' = Active \ S
<1>1. \A i \in Slots : slots'[i] = IF slots[i] \in S THEN None ELSE slots[i]
    BY DEF RemoveClients
<1>2. \A c \in Conns : sock'[c] = IF c \in S /\ c \in Active THEN "closed" ELSE sock[c]
    BY DEF RemoveClients
<1>3. \A c \in Conns : c \in Active' <=> c \in Active /\ c \notin S
    BY <1>1, ActiveSlots, ActiveSlotsNext, ConnsAssumption
<1>4. \A c \in Conns : c \in Active <=> sock[c] = "open"
    BY DEF OwnInv, SlotsOwnSockets
<1>5. Active' = {c \in Conns : sock'[c] = "open"}
    BY <1>2, <1>3, <1>4, ActiveSlotsNext
<1>6. \A i, j \in Slots : slots'[i] = slots'[j] /\ slots'[i] # None => i = j
    BY <1>1 DEF OwnInv, SlotsOwnSockets
<1> QED
    BY <1>2, <1>3, <1>4, <1>5, <1>6, ActiveSlots, ActiveSlotsNext DEF SlotsOwnSockets

LEMMA InitOwns == Init => OwnInv
BY DEF Init, OwnInv, SlotsOwnSockets, Active, Range

\* There is a first free slot if there is any.
LEMMA FirstFree ==
    ASSUME FreeSlots # {}
    PROVE  (CHOOSE j \in FreeSlots : \A k \in FreeSlots : j <= k) \in FreeSlots
<1> DEFINE R == OpToRel(<, Nat)
<1>1. FreeSlots \subseteq Nat
    BY SizesAssumption DEF FreeSlots, Slots
<1>2. \E j \in FreeSlots : \A k \in FreeSlots : ~(<<k, j>> \in R)
    BY <1>1, NatLessThanWellFounded, WFMin, Zenon
<1>3. \A j, k \in Nat : k < j => <<k, j>> \in R
    BY Zenon DEF OpToRel
<1> HIDE DEF R
<1>4. \E j \in FreeSlots : \A k \in FreeSlots : j <= k
  <2>1. PICK j \in FreeSlots : \A k \in FreeSlots : ~(<<k, j>> \in R)
      BY <1>2
  <2>2. \A k \in FreeSlots : ~(k < j)
      BY <1>1, <1>3, <2>1, Zenon
  <2>3. \A k \in FreeSlots : j <= k
      BY <1>1, <2>2
  <2> QED
      BY <2>3
<1> QED
    BY <1>4

\* Taking on a subscriber, or refusing it, keeps slots and sockets in step.
LEMMA AcceptOwns ==
    ASSUME TypeInv, TypeInv', OwnInv, NEW c \in Conns, AcceptNewClient(c)
    PROVE  OwnInv'
<1> USE DEF TypeInv
<1>1. sock[c] = "queued" /\ cut' = cut /\ c \notin Active
    BY DEF AcceptNewClient, OwnInv, SlotsOwnSockets
<1>2. CASE FreeSlots = {}
  <2>1. slots' = slots /\ sock' = [sock EXCEPT ![c] = "closed"]
      BY <1>2 DEF AcceptNewClient
  <2>2. Active' = Active
      BY <2>1 DEF Active
  <2> QED
      BY <1>1, <2>1, <2>2 DEF OwnInv, SlotsOwnSockets, TypeOK
<1>3. CASE FreeSlots # {}
  <2>1. PICK i : slots' = [slots EXCEPT ![i] = c] /\ sock' = [sock EXCEPT ![c] = "open"]
                 /\ i = CHOOSE j \in FreeSlots : \A k \in FreeSlots : j <= k
      BY <1>3 DEF AcceptNewClient
  <2>2. i \in Slots /\ slots[i] = None
      BY <1>3, <2>1, FirstFree DEF FreeSlots
  <2>3. \A j \in Slots : slots'[j] = IF j = i THEN c ELSE slots[j]
      BY <2>1 DEF TypeOK
  <2>4. \A d \in Conns : sock'[d] = IF d = c THEN "open" ELSE sock[d]
      BY <2>1 DEF TypeOK
  <2>5. \A d \in Conns : d \in Active' <=> d \in Active \/ d = c
      BY <2>2, <2>3, ActiveSlots, ActiveSlotsNext, ConnsAssumption
  <2>6. Active' = {d \in Conns : sock'[d] = "open"}
      BY <2>4, <2>5, ActiveSlotsNext DEF OwnInv, SlotsOwnSockets
  <2>7. \A j, k \in Slots : slots'[j] = slots'[k] /\ slots'[j] # None => j = k
      BY <1>1, <2>2, <2>3, ActiveSlots DEF OwnInv, SlotsOwnSockets
  <2>8. \A d \in cut' : sock'[d] = "closed"
      BY <1>1, <2>4 DEF OwnInv, TypeOK
  <2> QED
      BY <2>6, <2>7, <2>8 DEF OwnInv, SlotsOwnSockets
<1> QED
    BY <1>2, <1>3

\* Every step keeps each open socket in one slot.
LEMMA NextOwns == TypeInv /\ TypeInv' /\ OwnInv /\ [Next]_vars => OwnInv'
<1> SUFFICES ASSUME TypeInv, TypeInv', OwnInv, [Next]_vars PROVE OwnInv'
    OBVIOUS
<1>1. CASE UNCHANGED <<slots, sock, cut>>
    BY <1>1 DEF OwnInv, SlotsOwnSockets, Active
<1>2. ASSUME NEW c \in Conns, AcceptNewClient(c) PROVE OwnInv'
    BY <1>2, AcceptOwns
<1>3. CASE Reap
  <2>1. PICK S \in SUBSET (ready \ {None}) : RemoveClients(S)
      BY <1>3 DEF Reap
  <2>2. S \in SUBSET Conns
      BY <2>1 DEF TypeInv, TypeOK
  <2>3. cut' = cut
      BY <1>3 DEF Reap
  <2> QED
      BY <2>1, <2>2, <2>3, RemoveOwns DEF TypeInv, TypeOK, OwnInv
<1>4. ASSUME NEW c \in Conns, SendPart(c) PROVE OwnInv'
  <2>1. c \in Active
      BY <1>4, ActiveSlots DEF SendPart, TypeInv
  <2>2. RemoveClients({c}) /\ cut' = cut \cup {c}
      BY <1>4 DEF SendPart
  <2> QED
      BY <2>1, <2>2, RemoveOwns DEF TypeInv, TypeOK, OwnInv
<1>5. CASE Shutdown
  <2>1. /\ slots' = [i \in Slots |-> None] /\ cut' = cut
        /\ sock' = [c \in Conns |-> IF c \in Active \/ sock[c] = "queued" THEN "closed"
                                    ELSE sock[c]]
      BY <1>5 DEF Shutdown
  <2>2. Active' = {}
      BY <2>1 DEF Active, Range
  <2>3. {c \in Conns : sock'[c] = "open"} = {}
      BY <2>1 DEF OwnInv, SlotsOwnSockets
  <2> QED
      BY <2>1, <2>2, <2>3 DEF OwnInv, SlotsOwnSockets, TypeInv, TypeOK
<1>6. ASSUME NEW c \in Conns, PeerConnects(c) PROVE OwnInv'
  <2>1. sock[c] = "none" /\ sock' = [sock EXCEPT ![c] = "queued"] /\ UNCHANGED <<slots, cut>>
      BY <1>6 DEF PeerConnects
  <2>2. Active' = Active
      BY <2>1 DEF Active
  <2> QED
      BY <2>1, <2>2 DEF OwnInv, SlotsOwnSockets, TypeInv, TypeOK
<1>7. \/ UNCHANGED <<slots, sock, cut>>
      \/ Reap \/ Shutdown
      \/ \E c \in Conns : AcceptNewClient(c) \/ SendPart(c) \/ PeerConnects(c)
    BY DEF Next, Loop, Environment, Accept, Send, vars, peerVars, Reconnect, LoopHead,
           ConnectToServer, FindNamespaceIndex, FindSensorsFolder, BrowseToNode, Select,
           AcceptNobody, Update, SendNobody, SendWhole, Signal, ServerChanges, PeerGone,
           PeerStalls, PeerResumes
<1> QED
    BY <1>1, <1>2, <1>3, <1>4, <1>5, <1>6, <1>7

\* Nothing leaks and no stale descriptor is kept: the open connections are
\* those in the slots, each in one, and a stream that was broken off in the
\* middle of a frame is not gone on with.
THEOREM Owned == Spec => [](SlotsOwnSockets /\ NothingAfterPartOfFrame)
<1>1. OwnInv => SlotsOwnSockets /\ NothingAfterPartOfFrame
    BY DEF OwnInv, SlotsOwnSockets, NothingAfterPartOfFrame
<1> QED
    BY <1>1, InitTypes, NextTypes, InitOwns, NextOwns, PTL DEF Spec

-----------------------------------------------------------------------------
(* The ids of the sensors.                                                 *)

LEMMA InitIds == Init => IdsInv
BY Zenon DEF Init, IdsInv, ReadsFoundIds

\* Ids are looked up by the reconnection only, and nobody else comes into it
\* in the middle.
LEMMA ElsewhereIds ==
    ASSUME TypeInv, [Next]_vars, ~Reconnect
    PROVE  /\ UNCHANGED <<known, ids, resolved>>
           /\ \/ pc' = pc /\ (pc = "nodes" => at' = at)
              \/ pc # "nodes" /\ pc' \notin {"folder", "nodes"}
<1>1. UNCHANGED <<known, ids, resolved>>
  <2>1. CASE \E s \in {0, Turn} : LoopHead(s)
      BY <2>1, Zenon DEF LoopHead
  <2>2. CASE Select \/ Accept \/ Reap \/ Update \/ Send \/ Shutdown
      BY <2>2, Zenon
      DEF Select, Accept, AcceptNobody, AcceptNewClient, Reap, Update, Send, SendNobody,
          SendWhole, SendPart, Shutdown, loopVars
  <2>3. CASE Environment \/ UNCHANGED vars
      BY <2>3, Zenon
      DEF Environment, vars, loopVars, Signal, ServerChanges, PeerConnects, PeerGone,
          PeerStalls, PeerResumes
  <2>4. \/ \E s \in {0, Turn} : LoopHead(s)
        \/ Select \/ Accept \/ Reap \/ Update \/ Send \/ Shutdown
        \/ Environment \/ UNCHANGED vars
      BY DEF Next, Loop
  <2> QED
      BY <2>1, <2>2, <2>3, <2>4
<1>2. CASE Environment \/ UNCHANGED vars
    BY <1>1, <1>2, Zenon
    DEF Environment, vars, Signal, ServerChanges, PeerConnects, PeerGone, PeerStalls, PeerResumes
<1>3. CASE Loop
  <2>1. pc # "nodes" /\ (pc' = pc \/ pc' \notin {"folder", "nodes"})
    <3>1. CASE \E s \in {0, Turn} : LoopHead(s)
        BY <3>1 DEF LoopHead
    <3>2. CASE Select \/ Accept \/ Reap \/ Update \/ Shutdown
        BY <3>2 DEF Select, Accept, AcceptNobody, AcceptNewClient, Reap, Update, Shutdown
    <3>3. CASE Send
        BY <3>3 DEF Send, SendNobody, SendWhole, SendPart, SendNext
    <3> QED
        BY <1>3, <3>1, <3>2, <3>3 DEF Loop
  <2> QED
      BY <1>1, <2>1
<1> QED
    BY <1>1, <1>2, <1>3 DEF Next

\* Every step leaves the ids that reads rely on complete.
LEMMA NextIds == TypeInv /\ IdsInv /\ [Next]_vars => IdsInv'
<1> SUFFICES ASSUME TypeInv, IdsInv, [Next]_vars PROVE IdsInv'
    OBVIOUS
<1> USE DEF IdsInv, ReadsFoundIds
<1>1. CASE ~Reconnect
    BY <1>1, ElsewhereIds DEF Sensors
<1>2. CASE ConnectToServer
  <2>1. /\ UNCHANGED <<known, ids, resolved>>
        /\ pc = "connect" /\ (pc' = "namespace" \/ pc' = "select")
      BY <1>2, Zenon DEF ConnectToServer, Fail
  <2> QED
      BY <2>1
<1>3. CASE FindNamespaceIndex
  <2>1. /\ UNCHANGED <<ids, resolved>> /\ pc = "namespace"
        /\ \/ pc' = "folder" /\ known' = TRUE
           \/ pc' = "select" /\ known' = known
      BY <1>3, Zenon DEF FindNamespaceIndex, Fail
  <2> QED
      BY <2>1
<1>4. CASE FindSensorsFolder
  <2>1. /\ UNCHANGED <<known, ids>> /\ pc = "folder" /\ at' = at
        /\ \/ pc' = "nodes"
           \/ pc' = "select" /\ resolved' = resolved
      BY <1>4, Zenon DEF FindSensorsFolder, Fail
  <2>2. 1..(at' - 1) = {}
      BY <2>1 DEF TypeInv
  <2> QED
      BY <2>1, <2>2
<1>5. CASE BrowseToNode
  <2>1. known' = known /\ known /\ pc = "nodes"
      BY <1>5 DEF BrowseToNode
  <2>2. at \in Sensors /\ 1..(at - 1) \subseteq ids /\ ids \subseteq Sensors
      BY <2>1, Zenon DEF TypeInv, TypeOK
  <2>3. \/ at < SensorCount /\ at' = at + 1 /\ pc' = pc /\ ids' = ids \cup {at}
        \/ ~(at < SensorCount) /\ pc' = "select" /\ ids' = ids \cup {at}
        \/ pc' = "select" /\ ~resolved'
      BY <1>5, Zenon DEF BrowseToNode, Fail
  <2>4. CASE at < SensorCount /\ at' = at + 1 /\ pc' = pc /\ ids' = ids \cup {at}
    <3>1. 1..(at' - 1) \subseteq ids'
        BY <2>2, <2>4 DEF Sensors
    <3> QED
        BY <2>1, <2>4, <3>1
  <2>5. CASE ~(at < SensorCount) /\ pc' = "select" /\ ids' = ids \cup {at}
    <3>1. ids' = Sensors
      <4>1. at = SensorCount /\ Sensors = 1..(at - 1) \cup {at}
          BY <2>2, <2>5, SizesAssumption DEF Sensors
      <4> QED
          BY <2>2, <2>5, <4>1
    <3> QED
        BY <2>1, <2>5, <3>1
  <2> QED
      BY <2>3, <2>4, <2>5
<1> QED
    BY <1>1, <1>2, <1>3, <1>4, <1>5 DEF Reconnect

\* Sensors are read by ids that have been found, whatever reconnections and
\* failures came before.
THEOREM IdsFound == Spec => []ReadsFoundIds
<1>1. IdsInv => ReadsFoundIds
    BY DEF IdsInv
<1> QED
    BY <1>1, InitTypes, NextTypes, InitIds, NextIds, PTL DEF Spec

-----------------------------------------------------------------------------
(* The stream.                                                             *)

LEMMA InitStream == Init => StreamInv /\ Stream!Init
<1> SUFFICES ASSUME Init PROVE StreamInv /\ Stream!Init
    OBVIOUS
<1>1. Active = {}
    BY DEF Init, Active, Range
<1> QED
    BY <1>1 DEF Init, StreamInv, Stream!Init

\* Sending to a slot brings that slot, and no other, up to the last frame.
LEMMA SendNextLast ==
    ASSUME TypeInv, pc = "send", SendNext, seq' = seq
    PROVE  \A i \in Slots : LastFor(i)' = IF i = at THEN seq ELSE LastFor(i)
<1>1. at \in 1..MaxClients /\ MaxClients \in Nat
    BY SizesAssumption DEF TypeInv, Slots
<1>2. \/ at' = at + 1 /\ pc' = "send"
      \/ at = MaxClients /\ at' = 1 /\ pc' = "loop"
    BY <1>1 DEF SendNext
<1>3. ~(pc' = "send" /\ at >= at')
    BY <1>1, <1>2
<1>4. \A i \in Slots \ {at} : (pc' = "send" /\ i >= at') <=> i >= at
    BY <1>1, <1>2 DEF Slots
<1> QED
    BY <1>3, <1>4 DEF LastFor

\* A step that sends nothing, numbers nothing and serves nobody new.
LEMMA QuietStream ==
    ASSUME TypeInv, TypeInv', StreamInv, UNCHANGED <<seq, received>>,
           \A i \in Slots : slots'[i] # None => slots'[i] = slots[i] /\ LastFor(i)' = LastFor(i),
           \A c \in Conns : sock'[c] \in {"none", "queued"} => sock[c] \in {"none", "queued"}
    PROVE  StreamInv' /\ (Stream!Leave \/ UNCHANGED <<seq, Active, received>>)
<1>1. StreamInv'
    BY DEF StreamInv
<1>2. Active' \subseteq Active
    BY ActiveSlots, ActiveSlotsNext, ConnsAssumption DEF TypeInv
<1> QED
    BY <1>1, <1>2 DEF Stream!Leave

\* Taking on a subscriber: it joins with nothing sent, or is refused.
LEMMA AcceptStream ==
    ASSUME TypeInv, TypeInv', OwnInv, StreamInv, NEW c \in Conns, AcceptNewClient(c)
    PROVE  StreamInv' /\ (Stream!Join(c) \/ UNCHANGED <<seq, Active, received>>)
<1>1. /\ sock[c] = "queued" /\ received[c] = << >> /\ c \notin Active
      /\ seq' = seq /\ received' = received /\ pc = "accept" /\ pc' = "reap"
    BY DEF AcceptNewClient, loopVars, OwnInv, SlotsOwnSockets, StreamInv
<1>2. \A i \in Slots : LastFor(i)' = LastFor(i)
    BY <1>1 DEF LastFor
<1>3. CASE FreeSlots = {}
  <2>1. slots' = slots /\ sock' = [sock EXCEPT ![c] = "closed"]
      BY <1>3 DEF AcceptNewClient
  <2>2. UNCHANGED <<seq, Active, received>>
      BY <1>1, <2>1 DEF Active
  <2>3. \A d \in Conns : sock'[d] \in {"none", "queued"} => sock[d] \in {"none", "queued"}
      BY <2>1 DEF TypeInv, TypeOK
  <2> QED
      BY <1>1, <1>2, <2>1, <2>2, <2>3, QuietStream
<1>4. CASE FreeSlots # {}
  <2>1. PICK i : slots' = [slots EXCEPT ![i] = c] /\ sock' = [sock EXCEPT ![c] = "open"]
                 /\ i = CHOOSE j \in FreeSlots : \A k \in FreeSlots : j <= k
      BY <1>4 DEF AcceptNewClient
  <2>2. i \in Slots /\ slots[i] = None
      BY <1>4, <2>1, FirstFree DEF FreeSlots
  <2>3. \A j \in Slots : slots'[j] = IF j = i THEN c ELSE slots[j]
      BY <2>1 DEF TypeInv, TypeOK
  <2>4. Active' = Active \cup {c}
      BY <2>2, <2>3, ActiveSlots, ActiveSlotsNext, ConnsAssumption DEF TypeInv
  <2>5. \A d \in Conns : sock'[d] \in {"none", "queued"} => sock[d] \in {"none", "queued"}
      BY <2>1 DEF TypeInv, TypeOK
  <2>6. StreamInv'
      BY <1>1, <1>2, <2>3, <2>5 DEF StreamInv
  <2> QED
      BY <1>1, <2>4, <2>6 DEF Stream!Join
<1> QED
    BY <1>3, <1>4

\* A whole frame: the subscriber had the one before it.
LEMMA SendStream ==
    ASSUME TypeInv, TypeInv', OwnInv, StreamInv, NEW c \in Conns, SendWhole(c)
    PROVE  StreamInv' /\ Stream!Deliver(c)
<1>1. /\ pc = "send" /\ at \in Slots /\ slots[at] = c /\ SendNext
      /\ seq' = seq /\ slots' = slots /\ sock' = sock
      /\ received' = [received EXCEPT ![c] = Append(@, seq)]
    BY DEF SendWhole, loopVars, TypeInv
<1>2. c \in Active /\ sock[c] = "open"
    BY <1>1, ActiveSlots DEF OwnInv, SlotsOwnSockets, TypeInv
<1>3. Active' = Active
    BY <1>1 DEF Active
<1>4. LastFor(at) = seq - 1 /\ at >= at
    BY <1>1, SizesAssumption DEF LastFor, Slots
<1>5. received[c] = << >> \/ received[c][Len(received[c])] = seq - 1
    BY <1>1, <1>4, ConnsAssumption DEF StreamInv
<1>6. Stream!Deliver(c)
    BY <1>1, <1>2, <1>3, <1>5 DEF Stream!Deliver
<1>7. received[c] \in Seq(1..MaxSeq) /\ seq \in 1..MaxSeq
    BY <1>1, SizesAssumption DEF TypeInv, TypeOK
<1>8. received'[c][Len(received'[c])] = seq
    BY <1>1, <1>7 DEF TypeInv, TypeOK
<1>9. \A d \in Conns : d # c => received'[d] = received[d]
    BY <1>1 DEF TypeInv, TypeOK
<1>10. \A i \in Slots : LastFor(i)' = IF i = at THEN seq ELSE LastFor(i)
    BY <1>1, SendNextLast
<1>11. \A i \in Slots : slots[i] = c => i = at
    BY <1>1, ConnsAssumption DEF OwnInv, SlotsOwnSockets
<1>12. \A i \in Slots : slots[i] = None \/ slots[i] \in Conns
    BY DEF TypeInv, TypeOK
<1>13. StreamInv'
    BY <1>1, <1>2, <1>8, <1>9, <1>10, <1>11, <1>12 DEF StreamInv
<1> QED
    BY <1>6, <1>13

\* Every step is one that FrameStream allows, or changes nothing of it.
LEMMA NextStream ==
    ASSUME TypeInv, TypeInv', OwnInv, OwnInv', StreamInv, [Next]_vars
    PROVE  StreamInv' /\ [Stream!Next]_<<seq, Active, received>>
<1> DEFINE Refined == StreamInv' /\ [Stream!Next]_<<seq, Active, received>>
           Fewer == /\ UNCHANGED <<seq, received>>
                    /\ \A i \in Slots : slots'[i] # None =>
                         slots'[i] = slots[i] /\ LastFor(i)' = LastFor(i)
                    /\ \A c \in Conns : sock'[c] \in {"none", "queued"} =>
                         sock[c] \in {"none", "queued"}
<1>1. ASSUME Fewer PROVE Refined
    BY <1>1, QuietStream DEF Stream!Next
<1>2. ASSUME UNCHANGED <<seq, slots, received>>,
             \/ pc' = pc /\ at' = at
             \/ pc # "send" /\ pc' # "send",
             \A c \in Conns : sock'[c] \in {"none", "queued"} => sock[c] \in {"none", "queued"}
      PROVE  Refined
  <2>1. \A i \in Slots : LastFor(i)' = LastFor(i)
      BY <1>2 DEF LastFor
  <2> QED
      BY <1>1, <1>2, <2>1
<1>3. ASSUME NEW s \in {0, Turn}, LoopHead(s) PROVE Refined
    BY <1>2, <1>3 DEF LoopHead, peerVars
<1>4. CASE Reconnect
  <2>1. /\ UNCHANGED <<seq, slots, received, sock>>
        /\ pc # "send" /\ (pc' # "send" \/ pc' = pc)
      BY <1>4, Zenon
      DEF Reconnect, ConnectToServer, FindNamespaceIndex, FindSensorsFolder, BrowseToNode,
          Fail, peerVars
  <2> QED
      BY <1>2, <2>1
<1>5. CASE Select \/ AcceptNobody
    BY <1>2, <1>5 DEF Select, AcceptNobody, peerVars, loopVars
<1>6. ASSUME NEW c \in Conns, AcceptNewClient(c) PROVE Refined
    BY <1>6, AcceptStream DEF Stream!Next
<1>7. ASSUME NEW S \in SUBSET Conns, RemoveClients(S), UNCHANGED <<seq, received>>,
             \A i \in Slots : slots'[i] # None => LastFor(i)' = LastFor(i)
      PROVE  Refined
  <2>1. \A i \in Slots : slots'[i] # None => slots'[i] = slots[i]
      BY <1>7 DEF RemoveClients
  <2>2. \A c \in Conns : sock'[c] \in {"none", "queued"} => sock[c] \in {"none", "queued"}
      BY <1>7 DEF RemoveClients
  <2> QED
      BY <1>1, <1>7, <2>1, <2>2
<1>8. CASE Reap
  <2>1. PICK S \in SUBSET (ready \ {None}) : RemoveClients(S)
      BY <1>8 DEF Reap
  <2>2. S \in SUBSET Conns
      BY <2>1 DEF TypeInv, TypeOK
  <2>3. UNCHANGED <<seq, received>> /\ pc = "reap" /\ pc' = "update"
      BY <1>8 DEF Reap, loopVars
  <2> QED
      BY <1>7, <2>1, <2>2, <2>3 DEF LastFor
<1>9. CASE Update
  <2>1. /\ pc = "update" /\ at' = at /\ at = 1 /\ UNCHANGED <<slots, sock, received>>
        /\ \/ seq' = seq + 1 /\ pc' = "send"
           \/ seq' = seq /\ pc' = "loop"
      BY <1>9, Zenon DEF Update, peerVars, TypeInv
  <2>2. CASE seq' = seq + 1 /\ pc' = "send"
    <3>1. \A i \in Slots : LastFor(i) = seq /\ LastFor(i)' = seq
        BY <2>1, <2>2 DEF LastFor, Slots, TypeInv, TypeOK
    <3>2. StreamInv'
        BY <2>1, <3>1 DEF StreamInv
    <3>3. Active' = Active
        BY <2>1 DEF Active
    <3> QED
        BY <2>1, <2>2, <3>2, <3>3 DEF Stream!Next, Stream!NewFrame
  <2>3. CASE seq' = seq /\ pc' = "loop"
      BY <1>2, <2>1, <2>3
  <2> QED
      BY <2>1, <2>2, <2>3
<1>10. CASE SendNobody
  <2>1. /\ pc = "send" /\ slots[at] = None /\ SendNext
        /\ UNCHANGED <<seq, slots, sock, received>>
      BY <1>10 DEF SendNobody, loopVars, peerVars
  <2> QED
      BY <1>1, <2>1, SendNextLast
<1>11. ASSUME NEW c \in Conns, SendWhole(c) PROVE Refined
    BY <1>11, SendStream DEF Stream!Next
<1>12. ASSUME NEW c \in Conns, SendPart(c) PROVE Refined
  <2>1. /\ pc = "send" /\ slots[at] = c /\ SendNext /\ RemoveClients({c})
        /\ UNCHANGED <<seq, received>>
      BY <1>12 DEF SendPart, loopVars
  <2>2. at \in Slots /\ slots'[at] = None
      BY <2>1 DEF TypeInv, RemoveClients
  <2> QED
      BY <1>7, <2>1, <2>2, SendNextLast
<1>13. CASE Shutdown
  <2>1. /\ UNCHANGED <<seq, received>> /\ slots' = [i \in Slots |-> None]
        /\ \A c \in Conns : sock'[c] \in {"none", "queued"} => sock[c] \in {"none", "queued"}
      BY <1>13 DEF Shutdown, loopVars
  <2> QED
      BY <1>1, <2>1
<1>14. CASE Environment \/ UNCHANGED vars
  <2>1. UNCHANGED <<pc, at, seq, slots, received>>
      BY <1>14, Zenon
      DEF Environment, vars, loopVars, peerVars, Signal, ServerChanges, PeerConnects, PeerGone,
          PeerStalls, PeerResumes
  <2>2. sock' = sock \/ \E c \in Conns : sock[c] = "none" /\ sock' = [sock EXCEPT ![c] = "queued"]
      BY <1>14, Zenon
      DEF Environment, vars, peerVars, Signal, ServerChanges, PeerConnects, PeerGone,
          PeerStalls, PeerResumes
  <2>3. \A c \in Conns : sock'[c] \in {"none", "queued"} => sock[c] \in {"none", "queued"}
      BY <2>2 DEF TypeInv, TypeOK
  <2> QED
      BY <1>2, <2>1, <2>3
<1> QED
    BY <1>3, <1>4, <1>5, <1>6, <1>8, <1>9, <1>10, <1>11, <1>12, <1>13, <1>14
    DEF Next, Loop, Accept, Send

\* The C bridge keeps the promise of the protocol to its subscribers: each
\* is sent every frame once and in order as long as it is served.
THEOREM Streams == Spec => StreamSpec
<1>1. Init => StreamInv /\ Stream!Init
    BY InitStream
<1>2. TypeInv /\ TypeInv' /\ OwnInv /\ OwnInv' /\ StreamInv /\ [Next]_vars
        => StreamInv' /\ [Stream!Next]_<<seq, Active, received>>
    BY NextStream
<1> QED
    BY <1>1, <1>2, InitTypes, NextTypes, InitOwns, NextOwns, PTL
    DEF Spec, StreamSpec, Stream!Spec
=============================================================================
