--------------------------- MODULE QtBridgeProofs ---------------------------
(***************************************************************************)
(* Proofs about the Qt bridge, for any number of connections and frames.   *)
(* TypeInv (the types, and where the loops are) is inductive; so are,      *)
(* under it, AliveInv (the list and the sockets in it), UiInv (what the    *)
(* buttons show while handlers and boxes are on their way) and, under      *)
(* AliveInv too, StreamInv (how far each subscriber is), with which every  *)
(* step is one of FrameStream or none.                                     *)
(***************************************************************************)
EXTENDS QtBridge, SubsequenceProofs

\* The loops are at a socket, and at 1 outside of them.
TypeInv ==
    /\ TypeOK
    /\ pc \in {"idle", "end"} => at = 1
    /\ pc = "tick" => seq > 0

AliveInv == ClientsAreAlive

\* A box of a click is only ever open over a bridge at rest, and that of a
\* tick over one without a connection.
UiInv ==
    /\ box = "click" => ~running /\ pc = "idle"
    /\ box = "tick" => ~connected /\ pc = "idle"
    /\ pc \in {"idle", "tick"} /\ box # "click" =>
         /\ ui.running = running
         /\ ui.connected # connected => running /\ ui.connected

\* The last frame that was written to the socket at index i.
LastFor(i) == IF pc = "tick" /\ i >= at THEN seq - 1 ELSE seq

\* A subscriber has the last frame that was written to its place, if any; a
\* connection that was not accepted has nothing.
StreamInv ==
    /\ \A c \in Conns : sock[c] \in {"none", "queued"} => received[c] = << >>
    /\ \A i \in DOMAIN clients : received[clients[i]] # << >> =>
         received[clients[i]][Len(received[clients[i]])] = LastFor(i)

-----------------------------------------------------------------------------
\* What the list holds after a removal: the same sockets in the same order
\* but for the one removed.
LEMMA RemoveAll ==
    ASSUME TypeOK, AliveInv, NEW c \in Conns, removeAll(c)
    PROVE  /\ clients' \in Seq(Conns)
           /\ \A i \in DOMAIN clients' :
                \E j \in DOMAIN clients : clients'[i] = clients[j] /\ clients[j] # c
           /\ \A i, j \in DOMAIN clients' : clients'[i] = clients'[j] => i = j
           /\ Range(clients') \subseteq Served \ {c}
<1>1. /\ clients \in Seq(Conns)
      /\ \A i, j \in DOMAIN clients : clients[i] = clients[j] => i = j
    BY DEF TypeOK, AliveInv, ClientsAreAlive
<1>2. CASE c \notin Served
  <2>1. clients' = clients /\ \A i \in DOMAIN clients : clients[i] # c
      BY <1>2 DEF removeAll, Served, Range
  <2> QED
      BY <1>1, <1>2, <2>1 DEF Served, Range
<1>3. CASE c \in Served
  <2>1. PICK k \in DOMAIN clients :
             clients[k] = c /\ k = CHOOSE i \in DOMAIN clients : clients[i] = c
      BY <1>3 DEF Served, Range
  <2>2. clients' = SubSeq(clients, 1, k - 1) \o SubSeq(clients, k + 1, Len(clients))
      BY <1>3, <2>1 DEF removeAll, RemoveAt
  <2>3. k \in 1..Len(clients) /\ Len(clients) \in Nat
      BY <1>1, <2>1
  <2>4. /\ clients' \in Seq(Conns) /\ Len(clients') = Len(clients) - 1
        /\ DOMAIN clients' = 1..(Len(clients) - 1)
        /\ \A i \in 1..(Len(clients) - 1) :
             clients'[i] = IF i < k THEN clients[i] ELSE clients[i + 1]
    <3> DEFINE A == SubSeq(clients, 1, k - 1)
               B == SubSeq(clients, k + 1, Len(clients))
    <3>1. /\ A \in Seq(Conns) /\ Len(A) = k - 1
          /\ \A i \in 1..(k - 1) : A[i] = clients[i]
        BY <1>1, <2>3
    <3>2. /\ B \in Seq(Conns) /\ Len(B) = Len(clients) - k
          /\ \A i \in 1..(Len(clients) - k) : B[i] = clients[i + k]
        BY <1>1, <2>3
    <3>3. clients' = A \o B
        BY <2>2
    <3> HIDE DEF A, B
    <3>4. /\ clients' \in Seq(Conns) /\ Len(clients') = Len(A) + Len(B)
          /\ \A i \in 1..Len(A) : clients'[i] = A[i]
          /\ \A i \in (Len(A) + 1)..(Len(A) + Len(B)) : clients'[i] = B[i - Len(A)]
        BY <3>1, <3>2, <3>3
    <3>5. \A i \in 1..(Len(clients) - 1) :
             clients'[i] = IF i < k THEN clients[i] ELSE clients[i + 1]
      <4> SUFFICES ASSUME NEW i \in 1..(Len(clients) - 1)
                   PROVE  clients'[i] = IF i < k THEN clients[i] ELSE clients[i + 1]
          OBVIOUS
      <4>1. CASE i < k
        <5>1. i \in 1..(k - 1) /\ i \in 1..Len(A)
            BY <2>3, <3>1, <4>1
        <5> QED
            BY <3>1, <3>4, <4>1, <5>1
      <4>2. CASE ~(i < k)
        <5>1. /\ i \in (Len(A) + 1)..(Len(A) + Len(B)) /\ i - Len(A) = i - k + 1
              /\ i - k + 1 \in 1..(Len(clients) - k) /\ i - k + 1 + k = i + 1
            BY <2>3, <3>1, <3>2, <4>2
        <5> QED
            BY <3>2, <3>4, <4>2, <5>1
      <4> QED
          BY <4>1, <4>2
    <3> QED
        BY <2>3, <3>1, <3>2, <3>4, <3>5
  <2>5. \A i \in DOMAIN clients' :
           \E j \in DOMAIN clients : clients'[i] = clients[j] /\ j # k
                                     /\ j = IF i < k THEN i ELSE i + 1
      BY <1>1, <2>3, <2>4
  <2>6. \A i \in DOMAIN clients' :
           \E j \in DOMAIN clients : clients'[i] = clients[j] /\ clients[j] # c
      BY <1>1, <2>1, <2>5
  <2>7. \A i, j \in DOMAIN clients' : clients'[i] = clients'[j] => i = j
      BY <1>1, <2>3, <2>4, <2>5
  <2> QED
      BY <2>4, <2>6, <2>7 DEF Served, Range
<1> QED
    BY <1>2, <1>3

-----------------------------------------------------------------------------
\* At the start nobody is served.
LEMMA InitInv == Init => TypeInv /\ AliveInv /\ UiInv
<1> SUFFICES ASSUME Init PROVE TypeInv /\ AliveInv /\ UiInv
    OBVIOUS
<1>1. connected \in BOOLEAN /\ running \in BOOLEAN /\ connected = FALSE /\ running = FALSE
    BY Zenon DEF Init
<1>2. ui \in [connected : BOOLEAN, running : BOOLEAN]
    BY DEF Init
<1>3. << >> \in Seq(Conns) /\ << >> \in Seq(1..MaxSeq)
    OBVIOUS
<1>4. TypeInv
    BY <1>1, <1>2, <1>3, SeqAssumption DEF Init, TypeInv, TypeOK
<1>5. AliveInv
    BY DEF Init, AliveInv, ClientsAreAlive, Stopping
<1>6. UiInv
    BY <1>1 DEF Init, UiInv
<1> QED
    BY <1>4, <1>5, <1>6

\* The flags and the buttons.
LEMMA FlagTypes ==
    ASSUME TypeOK, [Next]_vars
    PROVE  /\ connected' \in BOOLEAN /\ running' \in BOOLEAN
           /\ ui' \in [connected : BOOLEAN, running : BOOLEAN]
<1>1. connected' \in BOOLEAN /\ running' \in BOOLEAN
    BY Zenon
    DEF TypeOK, Next, vars, engineVars, Clicks, StopLoop, Timer, Sockets, Elsewhere,
        CloseBox, Connect, Start, Stop, Disconnect, BeginStop, Quit, StopSocket, StopEnd,
        Tick, TickWrite, TickEnd, onAcceptConnection, onClientDisconnected, Flush, Destroy,
        PeerConnects, PeerGone, LoseSession
<1>2. ui' = ui \/ ui' = State'
    BY Zenon
    DEF Next, vars, engineVars, Clicks, StopLoop, Timer, Sockets, Elsewhere, updateUiState,
        CloseBox, Connect, Start, Stop, Disconnect, BeginStop, Quit, StopSocket, StopEnd,
        Tick, TickWrite, TickEnd, onAcceptConnection, onClientDisconnected, Flush, Destroy,
        PeerConnects, PeerGone, LoseSession
<1> QED
    BY <1>1, <1>2 DEF TypeOK, State

\* Every step keeps the types.
LEMMA NextTypes == TypeInv /\ AliveInv /\ [Next]_vars => TypeInv'
<1> SUFFICES ASSUME TypeInv, AliveInv, [Next]_vars PROVE TypeInv'
    OBVIOUS
<1> DEFINE Rest ==
             /\ pc \in {"idle", "tick", "stop", "disconnect", "end"}
             /\ box \in {"none", "click", "tick"}
             /\ seq \in 0..MaxSeq
             /\ clients \in Seq(Conns) /\ memory \in Seq(Conns)
             /\ at \in Nat \ {0}
             /\ session \in {"none", "live", "lost"}
             /\ sock \in [Conns -> {"none", "queued", "open", "closing", "closed"}]
             /\ pending \subseteq Conns /\ gone \subseteq Conns
             /\ received \in [Conns -> Seq(1..MaxSeq)]
             /\ pc \in {"idle", "end"} => at = 1
             /\ pc = "tick" => seq > 0
<1>1. Rest
    BY DEF TypeInv, TypeOK
<1>2. ASSUME Rest' PROVE TypeInv'
    BY <1>2, FlagTypes DEF TypeInv, TypeOK
<1> USE SeqAssumption DEF engineVars, peerVars
<1>3. CASE Clicks
  <2>1. CASE CloseBox
      BY <1>1, <1>2, <2>1 DEF CloseBox
  <2>2. CASE Connect
      BY <1>1, <1>2, <2>2 DEF Connect, Idle
  <2>3. CASE Start
      BY <1>1, <1>2, <2>3 DEF Start, Idle
  <2>4. CASE Stop \/ Disconnect
      BY <1>1, <1>2, <2>4 DEF Stop, Disconnect, BeginStop, Idle
  <2>5. CASE Quit
      BY <1>1, <1>2, <2>5 DEF Quit, Idle
  <2> QED
      BY <1>3, <2>1, <2>2, <2>3, <2>4, <2>5 DEF Clicks
<1>4. CASE StopSocket
  <2>1. PICK c : c = memory[at] /\ c \in Conns
      BY <1>1, <1>4 DEF StopSocket
  <2>4. /\ pc \in {"stop", "disconnect"} /\ at' = at + 1
        /\ UNCHANGED <<pc, box, seq, session, pending, gone, received>>
      BY <1>4, Zenon DEF StopSocket, Stopping
  <2>2. CASE sock[c] = "open" /\ c \notin pending
    <3>1. /\ removeAll(c) /\ sock' = [sock EXCEPT ![c] = "closed"]
          /\ memory' = clients' \o SubSeq(memory, Len(clients') + 1, Len(memory))
        BY <1>4, <2>1, <2>2 DEF StopSocket
    <3>2. clients' \in Seq(Conns)
        BY <2>1, <3>1, RemoveAll DEF TypeInv
    <3>3. memory' \in Seq(Conns)
        BY <1>1, <3>1, <3>2
    <3> QED
        BY <1>1, <1>2, <2>1, <2>4, <3>1, <3>2, <3>3
  <2>3. CASE ~(sock[c] = "open" /\ c \notin pending)
    <3>1. /\ UNCHANGED <<clients, memory>>
          /\ sock' = [sock EXCEPT ![c] = IF @ = "open" THEN "closing" ELSE @]
        BY <1>4, <2>1, <2>3, Zenon DEF StopSocket
    <3> QED
        BY <1>1, <1>2, <2>1, <2>4, <3>1
  <2> QED
      BY <2>2, <2>3
<1>5. CASE StopEnd
    BY <1>1, <1>2, <1>5 DEF StopEnd
<1>6. CASE Tick
  <2>1. /\ pc = "idle" /\ UNCHANGED <<clients, memory, at, session, peerVars>>
        /\ \/ seq < MaxSeq /\ seq' = seq + 1 /\ pc' = "tick" /\ box' = box
           \/ box' = "tick" /\ UNCHANGED <<pc, seq>>
      BY <1>6, Zenon DEF Tick
  <2> QED
      BY <1>1, <1>2, <2>1
<1>7. CASE TickWrite
  <2>1. PICK c : c = clients[at] /\ c \in Conns
      BY <1>1, <1>7 DEF TickWrite
  <2>2. received' \in [Conns -> Seq(1..MaxSeq)] /\ pending' \subseteq Conns
    <3>1. \/ received' = [received EXCEPT ![c] = Append(@, seq)] /\ pending' = pending \cup {c}
          \/ received' = received /\ pending' = pending
        BY <1>7, <2>1, Zenon DEF TickWrite
    <3>2. seq \in 1..MaxSeq
        BY <1>1, <1>7 DEF TickWrite
    <3>3. Append(received[c], seq) \in Seq(1..MaxSeq)
        BY <1>1, <2>1, <3>2
    <3> QED
        BY <1>1, <2>1, <3>1, <3>3
  <2>3. pc = "tick" /\ at' = at + 1
        /\ UNCHANGED <<pc, box, seq, clients, memory, session, sock, gone>>
      BY <1>7, Zenon DEF TickWrite
  <2> QED
      BY <1>1, <1>2, <2>2, <2>3
<1>8. CASE TickEnd
    BY <1>1, <1>2, <1>8 DEF TickEnd
<1>9. ASSUME NEW c \in Conns, onAcceptConnection(c) PROVE TypeInv'
    BY <1>1, <1>2, <1>9 DEF onAcceptConnection
<1>10. ASSUME NEW c \in Conns, onClientDisconnected(c) PROVE TypeInv'
  <2>1. clients' \in Seq(Conns)
      BY <1>10, RemoveAll DEF TypeInv, onClientDisconnected
  <2> QED
      BY <1>1, <1>2, <1>10, <2>1 DEF onClientDisconnected
<1>11. ASSUME NEW c \in Conns, Flush(c) \/ Destroy(c) PROVE TypeInv'
    BY <1>1, <1>2, <1>11 DEF Flush, Destroy
<1>12. CASE Elsewhere
    BY <1>1, <1>2, <1>12 DEF Elsewhere, LoseSession, PeerConnects, PeerGone
<1>13. CASE UNCHANGED vars
    BY <1>1, <1>2, <1>13 DEF vars
<1> QED
    BY <1>3, <1>4, <1>5, <1>6, <1>7, <1>8, <1>9, <1>10, <1>11, <1>12, <1>13
    DEF Next, StopLoop, Timer, Sockets

-----------------------------------------------------------------------------
(* The list and its sockets.                                               *)

\* A step that leaves the list, and who is in it, alone.
LEMMA SameAlive ==
    ASSUME TypeOK, AliveInv, clients' = clients, Stopping' = Stopping,
           \A c \in Conns : sock'[c] = sock[c] \/ sock[c] \notin {"open", "closing"}
    PROVE  AliveInv'
<1>1. \A i \in DOMAIN clients : clients[i] \in Conns
    BY DEF TypeOK
<1> QED
    BY <1>1 DEF AliveInv, ClientsAreAlive

\* Every step keeps the list free of closed sockets and of doubles.
LEMMA NextAlive == TypeInv /\ AliveInv /\ [Next]_vars => AliveInv'
<1> SUFFICES ASSUME TypeInv, AliveInv, [Next]_vars PROVE AliveInv'
    OBVIOUS
<1> USE DEF engineVars, peerVars
<1>1. /\ TypeOK
      /\ clients \in Seq(Conns) /\ memory \in Seq(Conns)
      /\ sock \in [Conns -> {"none", "queued", "open", "closing", "closed"}]
    BY DEF TypeInv, TypeOK
<1>2. CASE Connect \/ Start \/ CloseBox
    BY <1>1, <1>2, SameAlive DEF Connect, Start, CloseBox, Stopping
<1>3. CASE Stop \/ Disconnect
  <2>1. /\ pc = "idle" /\ pc' \in {"stop", "disconnect"} /\ clients' = clients
        /\ \A c \in Conns : sock[c] = "open" => sock'[c] = "open"
      BY <1>1, <1>3 DEF Stop, Disconnect, BeginStop, Idle
  <2> QED
      BY <1>1, <2>1 DEF AliveInv, ClientsAreAlive, Stopping
<1>4. CASE Quit
    BY <1>4 DEF Quit, AliveInv, ClientsAreAlive
<1>5. CASE StopSocket
  <2>1. PICK c : c = memory[at] /\ c \in Conns
      BY <1>1, <1>5 DEF StopSocket, TypeInv, TypeOK
  <2>2. Stopping /\ Stopping'
      BY <1>5, Zenon DEF StopSocket, Stopping
  <2>3. \A i \in DOMAIN clients : sock[clients[i]] \in {"open", "closing"}
                                /\ clients[i] \in Conns
      BY <1>1, <2>2 DEF AliveInv, ClientsAreAlive
  <2>4. CASE sock[c] = "open" /\ c \notin pending
    <3>1. removeAll(c) /\ sock' = [sock EXCEPT ![c] = "closed"]
        BY <1>5, <2>1, <2>4 DEF StopSocket
    <3>2. /\ \A i \in DOMAIN clients' :
                \E j \in DOMAIN clients : clients'[i] = clients[j] /\ clients[j] # c
          /\ \A i, j \in DOMAIN clients' : clients'[i] = clients'[j] => i = j
        BY <1>1, <2>1, <3>1, RemoveAll
    <3>3. \A i \in DOMAIN clients' : sock'[clients'[i]] \in {"open", "closing"}
        BY <1>1, <2>1, <2>3, <3>1, <3>2
    <3> QED
        BY <2>2, <3>2, <3>3 DEF AliveInv, ClientsAreAlive
  <2>5. CASE ~(sock[c] = "open" /\ c \notin pending)
    <3>1. /\ clients' = clients
          /\ sock' = [sock EXCEPT ![c] = IF @ = "open" THEN "closing" ELSE @]
        BY <1>5, <2>1, <2>5, Zenon DEF StopSocket
    <3>2. \A i \in DOMAIN clients : sock'[clients[i]] \in {"open", "closing"}
        BY <1>1, <2>1, <2>3, <3>1
    <3> QED
        BY <2>2, <3>1, <3>2 DEF AliveInv, ClientsAreAlive
  <2> QED
      BY <2>4, <2>5
<1>6. CASE StopEnd
    BY <1>6 DEF StopEnd, AliveInv, ClientsAreAlive
<1>7. CASE Timer
  <2>1. UNCHANGED <<clients, sock>> /\ ~Stopping /\ ~Stopping'
      BY <1>7, Zenon DEF Timer, Tick, TickWrite, TickEnd, Stopping
  <2> QED
      BY <2>1 DEF AliveInv, ClientsAreAlive
<1>8. ASSUME NEW c \in Conns, onAcceptConnection(c) PROVE AliveInv'
  <2>1. /\ sock[c] = "queued" /\ sock' = [sock EXCEPT ![c] = "open"]
        /\ clients' = Append(clients, c) /\ ~Stopping /\ ~Stopping'
      BY <1>8 DEF onAcceptConnection, Stopping
  <2>2. \A i \in DOMAIN clients : sock[clients[i]] = "open" /\ clients[i] # c
                                /\ clients[i] \in Conns
      BY <1>1, <2>1 DEF AliveInv, ClientsAreAlive
  <2>3. /\ DOMAIN clients' = DOMAIN clients \cup {Len(clients) + 1}
        /\ \A i \in DOMAIN clients : clients'[i] = clients[i]
        /\ clients'[Len(clients) + 1] = c
      BY <1>1, <2>1
  <2>4. \A i, j \in DOMAIN clients' : clients'[i] = clients'[j] => i = j
      BY <2>2, <2>3 DEF AliveInv, ClientsAreAlive
  <2>5. \A i \in DOMAIN clients' : sock'[clients'[i]] = "open"
      BY <1>1, <2>1, <2>2, <2>3
  <2> QED
      BY <2>1, <2>4, <2>5 DEF AliveInv, ClientsAreAlive
<1>9. ASSUME NEW c \in Conns, onClientDisconnected(c) PROVE AliveInv'
  <2>1. removeAll(c) /\ sock' = [sock EXCEPT ![c] = "closed"] /\ ~Stopping /\ ~Stopping'
      BY <1>9 DEF onClientDisconnected, Stopping
  <2>2. \A i \in DOMAIN clients : sock[clients[i]] = "open" /\ clients[i] \in Conns
      BY <1>1, <2>1 DEF AliveInv, ClientsAreAlive
  <2>3. /\ \A i \in DOMAIN clients' :
              \E j \in DOMAIN clients : clients'[i] = clients[j] /\ clients[j] # c
        /\ \A i, j \in DOMAIN clients' : clients'[i] = clients'[j] => i = j
      BY <1>1, <2>1, RemoveAll
  <2>4. \A i \in DOMAIN clients' : sock'[clients'[i]] = "open"
      BY <1>1, <2>1, <2>2, <2>3
  <2> QED
      BY <2>1, <2>3, <2>4 DEF AliveInv, ClientsAreAlive
<1>10. ASSUME NEW c \in Conns, Flush(c) PROVE AliveInv'
    BY <1>10 DEF Flush, AliveInv, ClientsAreAlive, Stopping
<1>11. ASSUME NEW c \in Conns, Destroy(c) PROVE AliveInv'
  <2>1. /\ sock[c] = "closing" /\ sock' = [sock EXCEPT ![c] = "closed"]
        /\ clients' = clients /\ ~Stopping /\ ~Stopping'
      BY <1>11 DEF Destroy, Stopping
  <2>2. \A i \in DOMAIN clients : sock[clients[i]] = "open" /\ clients[i] \in Conns
      BY <1>1, <2>1 DEF AliveInv, ClientsAreAlive
  <2>3. \A i \in DOMAIN clients : sock'[clients[i]] = "open"
      BY <1>1, <2>1, <2>2
  <2> QED
      BY <2>1, <2>3 DEF AliveInv, ClientsAreAlive
<1>12. CASE Elsewhere \/ UNCHANGED vars
  <2>1. /\ pc' = pc /\ clients' = clients
        /\ \/ sock' = sock
           \/ \E c \in Conns : sock[c] = "none" /\ sock' = [sock EXCEPT ![c] = "queued"]
      BY <1>12, Zenon DEF Elsewhere, vars, LoseSession, PeerConnects, PeerGone
  <2>2. \A c \in Conns : sock'[c] = sock[c] \/ sock[c] \notin {"open", "closing"}
      BY <1>1, <2>1
  <2> QED
      BY <1>1, <2>1, <2>2, SameAlive DEF Stopping
<1> QED
    BY <1>2, <1>3, <1>4, <1>5, <1>6, <1>7, <1>8, <1>9, <1>10, <1>11, <1>12
    DEF Next, Clicks, StopLoop, Sockets

\* No handler finds a deleted socket in the list, nor one twice.
THEOREM Alive == Spec => []ClientsAreAlive
<1>1. AliveInv => ClientsAreAlive
    BY DEF AliveInv
<1> QED
    BY <1>1, InitInv, NextTypes, NextAlive, PTL DEF Spec

\* The bridge keeps the types of its variables, whatever the user, the
\* server and the subscribers do.
THEOREM TypeCorrect == Spec => []TypeOK
<1>1. TypeInv => TypeOK
    BY DEF TypeInv
<1> QED
    BY <1>1, InitInv, NextTypes, NextAlive, PTL DEF Spec

-----------------------------------------------------------------------------
(* The buttons.                                                            *)

\* Every step leaves the buttons right, or a handler or box that will set
\* them right.
LEMMA NextUi == TypeInv /\ UiInv /\ [Next]_vars => UiInv'
<1> SUFFICES ASSUME TypeInv, UiInv, [Next]_vars PROVE UiInv'
    OBVIOUS
<1> USE DEF engineVars, peerVars, Idle
<1>1. CASE CloseBox
  <2>1. box = "click" => ui'.connected = connected' /\ ui'.running = running'
      BY <1>1 DEF CloseBox, updateUiState, State
  <2>2. /\ box' = "none" /\ UNCHANGED <<pc, connected, running>>
        /\ box # "click" => ui' = ui
      BY <1>1, Zenon DEF CloseBox
  <2> QED
      BY <2>1, <2>2, Zenon DEF UiInv
<1>2. CASE Connect
  <2>1. updateUiState => ui'.connected = connected' /\ ui'.running = running'
      BY DEF updateUiState, State
  <2>2. /\ ~running /\ running' = running /\ pc = "idle" /\ pc' = "idle"
        /\ \/ updateUiState /\ box' = "none"
           \/ box' = "click"
      BY <1>2, Zenon DEF Connect, UiInv
  <2> QED
      BY <2>1, <2>2, Zenon DEF UiInv
<1>3. CASE Start
  <2>1. updateUiState => ui'.connected = connected' /\ ui'.running = running'
      BY DEF updateUiState, State
  <2>2. /\ ~running /\ pc' = "idle" /\ pc = "idle"
        /\ \/ updateUiState /\ box' = "none"
           \/ box' = "click" /\ running' = running
      BY <1>3, Zenon DEF Start, UiInv
  <2>3. CASE updateUiState /\ box' = "none"
      BY <2>1, <2>3, Zenon DEF UiInv
  <2>4. CASE box' = "click" /\ running' = running
      BY <2>2, <2>4, Zenon DEF UiInv
  <2> QED
      BY <2>2, <2>3, <2>4
<1>4. CASE Stop \/ Disconnect
    BY <1>4, Zenon DEF Stop, Disconnect, BeginStop, UiInv
<1>5. CASE Quit
    BY <1>5, Zenon DEF Quit, UiInv
<1>6. CASE StopSocket
    BY <1>6, Zenon DEF StopSocket, Stopping, UiInv
<1>7. CASE StopEnd
  <2>1. ui'.connected = connected' /\ ui'.running = running'
      BY <1>7 DEF StopEnd, updateUiState, State
  <2>2. box' = box /\ pc' = "idle" /\ box \notin {"click", "tick"}
      BY <1>7, Zenon DEF StopEnd, Stopping, UiInv
  <2> QED
      BY <2>1, <2>2, Zenon DEF UiInv
<1>8. CASE Tick
  <2>1. /\ pc = "idle" /\ running /\ connected /\ UNCHANGED <<ui, running>>
        /\ \/ pc' = "tick" /\ UNCHANGED <<connected, box>>
           \/ connected' = FALSE /\ box' = "tick" /\ pc' = pc
      BY <1>8, Zenon DEF Tick
  <2> QED
      BY <2>1, Zenon DEF UiInv
<1>9. CASE TickWrite \/ TickEnd
    BY <1>9, Zenon DEF TickWrite, TickEnd, UiInv
<1>10. CASE Sockets \/ Elsewhere \/ UNCHANGED vars
  <2>1. UNCHANGED <<pc, box, ui, connected, running>>
      BY <1>10, Zenon
      DEF Sockets, Elsewhere, vars, onAcceptConnection, onClientDisconnected, Flush, Destroy,
          LoseSession, PeerConnects, PeerGone
  <2> QED
      BY <2>1, Zenon DEF UiInv
<1> QED
    BY <1>1, <1>2, <1>3, <1>4, <1>5, <1>6, <1>7, <1>8, <1>9, <1>10, Zenon
    DEF Next, Clicks, StopLoop, Timer

\* Whenever a button can be clicked, the buttons are right.
THEOREM UiRight == Spec => []UiKnowsState
<1>1. UiInv => UiKnowsState
    BY Zenon DEF UiInv, UiKnowsState, Idle
<1> QED
    BY <1>1, InitInv, NextTypes, NextAlive, NextUi, PTL DEF Spec

-----------------------------------------------------------------------------
(* The stream.                                                             *)

\* At the start nobody is served and nothing has been sent.
LEMMA InitStream == Init => StreamInv /\ Stream!Init
<1> SUFFICES ASSUME Init PROVE StreamInv /\ Stream!Init
    OBVIOUS
<1>1. Served = {}
    BY DEF Init, Served, Range
<1> QED
    BY <1>1 DEF Init, StreamInv, Stream!Init

\* A step that writes nothing, numbers nothing and takes nobody on.
LEMMA QuietStream ==
    ASSUME TypeInv, AliveInv, StreamInv, UNCHANGED <<seq, received>>,
           pc # "tick", pc' # "tick",
           clients' = clients \/ clients' = << >> \/ \E c \in Conns : removeAll(c),
           \A c \in Conns : sock'[c] \in {"none", "queued"} => sock[c] \in {"none", "queued"}
    PROVE  StreamInv' /\ (Stream!Leave \/ UNCHANGED <<seq, Served, received>>)
<1>1. \A i \in DOMAIN clients' : \E j \in DOMAIN clients : clients'[i] = clients[j]
    BY RemoveAll DEF TypeInv
<1>2. \A i : LastFor(i) = seq /\ LastFor(i)' = seq
    BY DEF LastFor
<1>3. StreamInv'
    BY <1>1, <1>2 DEF StreamInv
<1>4. Served' \subseteq Served
    BY <1>1 DEF Served, Range
<1> QED
    BY <1>3, <1>4 DEF Stream!Leave

\* A frame is written to a socket that had the one before it.
LEMMA WriteStream ==
    ASSUME TypeInv, AliveInv, StreamInv, TickWrite
    PROVE  StreamInv' /\ [Stream!Next]_<<seq, Served, received>>
<1>1. PICK c : c = clients[at] /\ c \in Conns /\ at \in DOMAIN clients
    BY DEF TypeInv, TypeOK, TickWrite
<1>2. /\ pc = "tick" /\ pc' = pc /\ at' = at + 1 /\ UNCHANGED <<seq, clients, sock>>
    BY Zenon DEF TickWrite
<1>3. sock[c] = "open"
    BY <1>1, <1>2 DEF AliveInv, ClientsAreAlive, Stopping
<1>4. received' = [received EXCEPT ![c] = Append(@, seq)]
    BY <1>1, <1>3, Zenon DEF TickWrite
<1>5. c \in Served /\ Served' = Served
    BY <1>1, <1>2 DEF Served, Range
<1>6. at \in Nat /\ seq \in Nat /\ seq \in 1..MaxSeq /\ received[c] \in Seq(1..MaxSeq)
      /\ received \in [Conns -> Seq(1..MaxSeq)]
    BY <1>1, <1>2, SeqAssumption DEF TypeInv, TypeOK
<1>7. LastFor(at) = seq - 1
    BY <1>2, <1>6 DEF LastFor
<1>8. Stream!Deliver(c)
    BY <1>1, <1>2, <1>4, <1>5, <1>7 DEF StreamInv, Stream!Deliver
<1>9. received'[c] # << >> /\ received'[c][Len(received'[c])] = seq
    BY <1>1, <1>4, <1>6
<1>10. \A i \in DOMAIN clients : LastFor(i)' = IF i = at THEN seq ELSE LastFor(i)
  <2>1. \A i \in DOMAIN clients : i \in Nat /\ (i # at => (i >= at + 1 <=> i >= at))
      BY <1>6 DEF TypeInv, TypeOK
  <2>2. ~(at >= at + 1)
      BY <1>6
  <2> QED
      BY <1>2, <2>1, <2>2 DEF LastFor
<1>11. \A i \in DOMAIN clients : clients[i] = c => i = at
    BY <1>1 DEF AliveInv, ClientsAreAlive
<1>12. \A d \in Conns : d # c => received'[d] = received[d]
    BY <1>4, <1>6
<1>13. \A i \in DOMAIN clients : clients[i] \in Conns
    BY DEF TypeInv, TypeOK
<1>14. \A i \in DOMAIN clients : received'[clients[i]] # << >> =>
          received'[clients[i]][Len(received'[clients[i]])] = LastFor(i)'
  <2> TAKE i \in DOMAIN clients
  <2>1. CASE i = at
      BY <1>1, <1>9, <1>10, <2>1
  <2>2. CASE i # at
      BY <1>10, <1>11, <1>12, <1>13, <2>2 DEF StreamInv
  <2> QED
      BY <2>1, <2>2
<1>15. \A d \in Conns : sock'[d] \in {"none", "queued"} => received'[d] = << >>
    BY <1>2, <1>3, <1>12 DEF StreamInv
<1> QED
    BY <1>1, <1>2, <1>8, <1>14, <1>15 DEF StreamInv, Stream!Next

\* Every step is one that FrameStream allows, or changes nothing of it.
LEMMA NextStream ==
    ASSUME TypeInv, AliveInv, StreamInv, [Next]_vars
    PROVE  StreamInv' /\ [Stream!Next]_<<seq, Served, received>>
<1> DEFINE Refined == StreamInv' /\ [Stream!Next]_<<seq, Served, received>>
           Quiet == /\ UNCHANGED <<seq, received>> /\ pc # "tick" /\ pc' # "tick"
                    /\ clients' = clients \/ clients' = << >> \/ \E c \in Conns : removeAll(c)
                    /\ \A c \in Conns : sock'[c] \in {"none", "queued"} =>
                         sock[c] \in {"none", "queued"}
<1>1. ASSUME Quiet PROVE Refined
    BY <1>1, QuietStream DEF Stream!Next
<1>2. sock \in [Conns -> {"none", "queued", "open", "closing", "closed"}]
      /\ memory \in Seq(Conns) /\ clients \in Seq(Conns) /\ seq \in Nat
    BY SeqAssumption DEF TypeInv, TypeOK
<1> SUFFICES Refined
    OBVIOUS
<1> HIDE DEF Quiet, Refined
<1> USE DEF engineVars, peerVars, Idle
<1>3. CASE CloseBox \/ Connect \/ Start
  <2>1. UNCHANGED <<pc, seq, clients, sock, received>> /\ pc = "idle"
      BY <1>3, Zenon DEF CloseBox, Connect, Start
  <2> QED
      BY <1>1, <2>1 DEF Quiet
<1>4. CASE Stop \/ Disconnect
    BY <1>1, <1>2, <1>4 DEF Quiet, Stop, Disconnect, BeginStop
<1>5. CASE Quit
    BY <1>1, <1>2, <1>5 DEF Quiet, Quit
<1>6. CASE StopSocket
  <2>1. PICK c : c = memory[at] /\ c \in Conns
      BY <1>2, <1>6 DEF StopSocket, TypeInv, TypeOK
  <2>2. /\ Stopping /\ UNCHANGED <<pc, seq, received>>
        /\ clients' = clients \/ removeAll(c)
        /\ \/ sock[c] = "open" /\ sock' = [sock EXCEPT ![c] = "closed"]
           \/ sock' = [sock EXCEPT ![c] = IF @ = "open" THEN "closing" ELSE @]
      BY <1>6, <2>1, Zenon DEF StopSocket
  <2> QED
      BY <1>1, <1>2, <2>1, <2>2 DEF Quiet, Stopping
<1>7. CASE StopEnd
  <2>1. /\ Stopping /\ pc' = "idle" /\ clients' = << >> /\ UNCHANGED <<seq, sock, received>>
      BY <1>7, Zenon DEF StopEnd
  <2> QED
      BY <1>1, <2>1 DEF Quiet, Stopping
<1>8. CASE Tick
  <2>1. /\ pc = "idle" /\ UNCHANGED <<clients, sock, received, at>>
        /\ \/ seq' = seq + 1 /\ pc' = "tick"
           \/ seq' = seq /\ pc' = "idle"
      BY <1>8, Zenon DEF Tick
  <2>2. CASE seq' = seq /\ pc' = "idle"
      BY <1>1, <2>1, <2>2 DEF Quiet
  <2>3. CASE seq' = seq + 1 /\ pc' = "tick"
    <3>1. at = 1 /\ \A i \in DOMAIN clients : i >= 1
        BY <1>2, <2>1 DEF TypeInv
    <3>2. \A i \in DOMAIN clients : LastFor(i) = seq /\ LastFor(i)' = seq
        BY <1>2, <2>1, <2>3, <3>1 DEF LastFor
    <3>3. StreamInv'
        BY <2>1, <3>2 DEF StreamInv
    <3>4. Served' = Served
        BY <2>1 DEF Served
    <3> QED
        BY <2>1, <2>3, <3>3, <3>4 DEF Refined, Stream!Next, Stream!NewFrame
  <2> QED
      BY <2>1, <2>2, <2>3
<1>9. CASE TickWrite
    BY <1>9, WriteStream DEF Refined
<1>10. CASE TickEnd
  <2>1. pc = "tick" /\ pc' = "idle" /\ at > Len(clients) /\ at \in Nat
        /\ UNCHANGED <<seq, clients, sock, received>>
      BY <1>10 DEF TickEnd, TypeInv, TypeOK
  <2>2. \A i \in DOMAIN clients : ~(i >= at)
      BY <1>2, <2>1
  <2>3. \A i \in DOMAIN clients : LastFor(i) = seq /\ LastFor(i)' = seq
      BY <2>1, <2>2 DEF LastFor
  <2>4. StreamInv' /\ Served' = Served
      BY <2>1, <2>3 DEF StreamInv, Served
  <2> QED
      BY <2>1, <2>4 DEF Refined
<1>11. ASSUME NEW c \in Conns, onAcceptConnection(c) PROVE Refined
  <2>1. /\ sock[c] = "queued" /\ sock' = [sock EXCEPT ![c] = "open"] /\ pc = "idle" /\ pc' = pc
        /\ clients' = Append(clients, c) /\ UNCHANGED <<seq, received>>
      BY <1>11 DEF onAcceptConnection
  <2>2. received[c] = << >>
      BY <2>1 DEF StreamInv
  <2>3. /\ DOMAIN clients' = DOMAIN clients \cup {Len(clients) + 1}
        /\ \A i \in DOMAIN clients : clients'[i] = clients[i]
        /\ clients'[Len(clients) + 1] = c
      BY <1>2, <2>1
  <2>4. \A i : LastFor(i) = seq /\ LastFor(i)' = seq
      BY <2>1 DEF LastFor
  <2>5. StreamInv'
      BY <1>2, <2>1, <2>2, <2>3, <2>4 DEF StreamInv
  <2>6. c \notin Served
      BY <2>1 DEF AliveInv, ClientsAreAlive, Stopping, Served, Range
  <2>7. Served' = Served \cup {c}
      BY <2>3 DEF Served, Range
  <2> QED
      BY <2>1, <2>2, <2>5, <2>6, <2>7 DEF Refined, Stream!Next, Stream!Join
<1>12. ASSUME NEW c \in Conns, onClientDisconnected(c) PROVE Refined
    BY <1>1, <1>2, <1>12 DEF Quiet, onClientDisconnected
<1>13. ASSUME NEW c \in Conns, Flush(c) \/ Destroy(c) PROVE Refined
    BY <1>1, <1>2, <1>13 DEF Quiet, Flush, Destroy
<1>14. CASE Elsewhere \/ UNCHANGED vars
  <2>1. /\ UNCHANGED <<pc, at, seq, clients, received>>
        /\ \/ sock' = sock
           \/ \E c \in Conns : sock[c] = "none" /\ sock' = [sock EXCEPT ![c] = "queued"]
      BY <1>14, Zenon DEF Elsewhere, vars, LoseSession, PeerConnects, PeerGone
  <2>2. \A c \in Conns : sock'[c] \in {"none", "queued"} => sock[c] \in {"none", "queued"}
      BY <1>2, <2>1
  <2>3. StreamInv' /\ Served' = Served
      BY <2>1, <2>2 DEF StreamInv, LastFor, Served
  <2> QED
      BY <2>1, <2>3 DEF Refined
<1> QED
    BY <1>3, <1>4, <1>5, <1>6, <1>7, <1>8, <1>9, <1>10, <1>11, <1>12, <1>13, <1>14, Zenon
    DEF Next, Clicks, StopLoop, Timer, Sockets

\* The Qt bridge keeps the promise of the protocol to its subscribers: each
\* is sent every frame once and in order as long as it is served.
THEOREM Streams == Spec => StreamSpec
<1>1. Init => StreamInv /\ Stream!Init
    BY InitStream
<1>2. TypeInv /\ AliveInv /\ StreamInv /\ [Next]_vars
        => StreamInv' /\ [Stream!Next]_<<seq, Served, received>>
    BY NextStream
<1> QED
    BY <1>1, <1>2, InitInv, NextTypes, NextAlive, PTL DEF Spec, StreamSpec, Stream!Spec

-----------------------------------------------------------------------------
(* The loop of stopBridge over the list that moves under it.               *)

\* The subscribers that the loop has passed over: each one took the place of
\* one that was removed.
Skipped == {i \in DOMAIN clients : i < at /\ sock[clients[i]] = "open"}

\* Nobody takes the place of the last one of the array, which comes up again
\* in each place behind the end of the list.
LastListed == Len(clients) > 0 /\ clients[Len(clients)] = memory[Len(memory)]
LastGone   == /\ memory[Len(memory)] \notin Served /\ at > Len(clients)
              /\ Cardinality(Skipped) + 1 <= Len(memory) - Len(clients)

LoopInv ==
    Stopping =>
      /\ Len(clients) <= Len(memory) /\ at <= Len(memory) + 1
      /\ \A i \in 1..Len(clients) : memory[i] = clients[i]
      /\ \A i \in (Len(clients) + 1)..Len(memory) : memory[i] = memory[Len(memory)]
      /\ Cardinality(Skipped) <= Len(memory) - Len(clients)
      /\ Len(memory) > 0 => LastListed \/ LastGone
      /\ Len(memory) > 0 /\ at > Len(memory) => sock[memory[Len(memory)]] # "open"

\* A list that has moved up by one.
LEMMA MovedUp ==
    ASSUME NEW S, NEW s \in Seq(S), NEW k \in 1..Len(s)
    PROVE  /\ RemoveAt(s, k) \in Seq(S) /\ Len(RemoveAt(s, k)) = Len(s) - 1
           /\ \A i \in 1..(Len(s) - 1) : RemoveAt(s, k)[i] = IF i < k THEN s[i] ELSE s[i + 1]
<1> DEFINE A == SubSeq(s, 1, k - 1)
           B == SubSeq(s, k + 1, Len(s))
           t == RemoveAt(s, k)
<1>0. k \in Nat /\ Len(s) \in Nat /\ 1 <= k /\ k <= Len(s)
    OBVIOUS
<1>1. A \in Seq(S) /\ Len(A) = k - 1 /\ \A i \in 1..(k - 1) : A[i] = s[i]
    OBVIOUS
<1>2. B \in Seq(S) /\ Len(B) = Len(s) - k /\ \A i \in 1..(Len(s) - k) : B[i] = s[i + k]
    OBVIOUS
<1>3. t = A \o B
    BY DEF RemoveAt
<1> HIDE DEF A, B, t
<1>a. A \in Seq(S) /\ B \in Seq(S)
    BY <1>1, <1>2
<1>4. /\ t \in Seq(S) /\ Len(t) = Len(A) + Len(B)
      /\ \A i \in 1..Len(A) : t[i] = A[i]
      /\ \A i \in (Len(A) + 1)..(Len(A) + Len(B)) : t[i] = B[i - Len(A)]
    BY <1>a, <1>3
<1>5. ASSUME NEW i \in 1..(Len(s) - 1) PROVE t[i] = IF i < k THEN s[i] ELSE s[i + 1]
  <2>1. CASE i < k
    <3>1. i \in 1..(k - 1) /\ i \in 1..Len(A)
        BY <1>0, <1>1, <2>1
    <3> QED
        BY <1>1, <1>4, <2>1, <3>1
  <2>2. CASE ~(i < k)
    <3>1. /\ i \in (Len(A) + 1)..(Len(A) + Len(B)) /\ i - Len(A) = i - k + 1
          /\ i - k + 1 \in 1..(Len(s) - k) /\ i - k + 1 + k = i + 1
        BY <1>0, <1>1, <1>2, <2>2
    <3> QED
        BY <1>2, <1>4, <2>2, <3>1
  <2> QED
      BY <2>1, <2>2
<1>6. Len(t) = Len(s) - 1
    BY <1>0, <1>1, <1>2, <1>4
<1> QED
    BY <1>4, <1>5, <1>6 DEF t

\* The array behind a list of which it holds more.
LEMMA Overlaid ==
    ASSUME NEW S, NEW a \in Seq(S), NEW m \in Seq(S), Len(a) <= Len(m),
           NEW t, t = a \o SubSeq(m, Len(a) + 1, Len(m))
    PROVE  /\ t \in Seq(S) /\ Len(t) = Len(m)
           /\ \A i \in 1..Len(m) : t[i] = IF i <= Len(a) THEN a[i] ELSE m[i]
<1> DEFINE B == SubSeq(m, Len(a) + 1, Len(m))
<1>t. t = a \o B
    OBVIOUS
<1>0. Len(a) \in Nat /\ Len(m) \in Nat
    OBVIOUS
<1>1. B \in Seq(S) /\ Len(B) = Len(m) - Len(a) /\ \A i \in 1..(Len(m) - Len(a)) : B[i] = m[i + Len(a)]
    OBVIOUS
<1> HIDE DEF B
<1>2. /\ t \in Seq(S) /\ Len(t) = Len(a) + Len(B)
      /\ \A i \in 1..Len(a) : t[i] = a[i]
      /\ \A i \in (Len(a) + 1)..(Len(a) + Len(B)) : t[i] = B[i - Len(a)]
    BY <1>1, <1>t
<1>3. ASSUME NEW i \in 1..Len(m) PROVE t[i] = IF i <= Len(a) THEN a[i] ELSE m[i]
  <2>1. CASE i <= Len(a)
      BY <1>0, <1>2, <2>1
  <2>2. CASE ~(i <= Len(a))
    <3>1. /\ i \in (Len(a) + 1)..(Len(a) + Len(B))
          /\ i - Len(a) \in 1..(Len(m) - Len(a)) /\ i - Len(a) + Len(a) = i
        BY <1>0, <1>1, <2>2
    <3> QED
        BY <1>1, <1>2, <2>2, <3>1
  <2> QED
      BY <2>1, <2>2
<1> QED
    BY <1>0, <1>1, <1>2, <1>3

\* How many may have been passed over, from how they were before.
LEMMA Fewer ==
    ASSUME NEW n \in Nat, NEW P, P \subseteq 1..n, NEW Q, Q \subseteq P
    PROVE  /\ Cardinality(P) \in Nat /\ Cardinality(Q) \in Nat
           /\ Cardinality(Q) <= Cardinality(P)
           /\ \A i \in P \ Q : Cardinality(Q) + 1 <= Cardinality(P)
<1>0. IsFiniteSet(P) /\ Cardinality(P) \in 0..n
    BY PositionsFinite
<1>1. IsFiniteSet(P) /\ Cardinality(P) \in Nat
    BY <1>0
<1>2. IsFiniteSet(Q) /\ Cardinality(Q) <= Cardinality(P)
    BY <1>1, FS_Subset
<1>3. Cardinality(Q) \in Nat
    BY <1>2, FS_CardinalityType
<1>4. ASSUME NEW i \in P \ Q PROVE Cardinality(Q) + 1 <= Cardinality(P)
  <2>1. Cardinality(Q \cup {i}) = Cardinality(Q) + 1
      BY <1>2, <1>4, FS_AddElement
  <2>2. Cardinality(Q \cup {i}) <= Cardinality(P)
      BY <1>1, <1>4, FS_Subset
  <2> QED
      BY <2>1, <2>2
<1> QED
    BY <1>1, <1>2, <1>3, <1>4

\* The loop begins with the whole list ahead of it.
LEMMA BeginLoop ==
    ASSUME TypeInv, NEW goal \in {"stop", "disconnect"}, Idle, BeginStop(goal)
    PROVE  LoopInv'
<1>1. /\ clients' = clients /\ memory' = clients /\ at' = 1
      /\ clients \in Seq(Conns)
    BY DEF BeginStop, Idle, TypeInv, TypeOK
<1>2. Len(clients) \in Nat /\ DOMAIN clients = 1..Len(clients)
    BY <1>1
<1>3. Skipped' = {}
    BY <1>1, <1>2 DEF Skipped
<1>4. Cardinality(Skipped') = 0
    BY <1>3, FS_EmptySet
<1> QED
    BY <1>1, <1>2, <1>4 DEF LoopInv, LastListed

\* A turn that removes nobody from the list leaves the socket it was at
\* closing or closed.
LEMMA PassLoop ==
    ASSUME TypeInv, LoopInv, Stopping, at <= Len(memory), UNCHANGED <<clients, memory>>, at' = at + 1,
           sock'[memory[at]] # "open",
           \A c \in Conns : sock'[c] = "open" => sock[c] = "open"
    PROVE  LoopInv'
<1> DEFINE k == Len(clients)
           n == Len(memory)
<1>1. /\ clients \in Seq(Conns) /\ k \in Nat /\ n \in Nat /\ at \in Nat /\ DOMAIN clients = 1..k
      /\ \A i \in 1..k : clients[i] \in Conns
    BY DEF TypeInv, TypeOK
<1>2. \A i \in 1..k : memory[i] = clients[i]
    BY DEF LoopInv
<1>3. Skipped' \subseteq Skipped
  <2> SUFFICES ASSUME NEW i \in 1..k, i < at + 1, sock'[clients[i]] = "open"
               PROVE  i < at /\ sock[clients[i]] = "open"
      BY <1>1 DEF Skipped
  <2>1. i # at
      BY <1>2
  <2> QED
      BY <1>1, <2>1
<1>4. /\ Cardinality(Skipped') <= Cardinality(Skipped)
      /\ Cardinality(Skipped') \in Nat /\ Cardinality(Skipped) \in Nat
  <2>1. Skipped \subseteq 1..k
      BY <1>1 DEF Skipped
  <2> QED
      BY <1>1, <1>3, <2>1, Fewer
<1>5. Cardinality(Skipped') <= Len(memory') - Len(clients')
    BY <1>1, <1>4 DEF LoopInv
<1>6. n > 0 => LastListed' \/ LastGone'
  <2>1. LastListed => LastListed'
      BY DEF LastListed
  <2>2. LastGone => LastGone'
      BY <1>1, <1>4 DEF LastGone, Served
  <2> QED
      BY <2>1, <2>2 DEF LoopInv
<1>7. at' > n => at = n
    BY <1>1
<1> QED
    BY <1>1, <1>5, <1>6, <1>7 DEF LoopInv

\* A turn that removes c, at position p of the list.
Removes(p, c) ==
    /\ clients' = RemoveAt(clients, p)
    /\ memory' = clients' \o SubSeq(memory, Len(clients') + 1, Len(memory))
    /\ sock' = [sock EXCEPT ![c] = "closed"]
    /\ at' = at + 1

LEMMA Removed ==
    ASSUME NEW c, NEW k \in Nat, NEW n \in Nat, NEW p \in 1..k, k <= n,
           clients \in Seq(Conns), memory \in Seq(Conns), k = Len(clients), n = Len(memory),
           Removes(p, c)
    PROVE  /\ clients' \in Seq(Conns) /\ Len(clients') = k - 1
           /\ \A i \in 1..(k - 1) : clients'[i] = IF i < p THEN clients[i] ELSE clients[i + 1]
           /\ Len(memory') = n
           /\ \A i \in 1..n : memory'[i] = IF i <= k - 1 THEN clients'[i] ELSE memory[i]
<1>1. /\ clients' \in Seq(Conns) /\ Len(clients') = k - 1
      /\ \A i \in 1..(k - 1) : clients'[i] = IF i < p THEN clients[i] ELSE clients[i + 1]
    BY MovedUp DEF Removes
<1>2. k - 1 <= n
    OBVIOUS
<1>3. Len(clients') <= Len(memory)
    BY <1>1, <1>2
<1>4. /\ Len(memory') = Len(memory)
      /\ \A i \in 1..Len(memory) : memory'[i] = IF i <= Len(clients') THEN clients'[i] ELSE memory[i]
  <2>1. memory' = clients' \o SubSeq(memory, Len(clients') + 1, Len(memory))
      BY DEF Removes
  <2>2. clients' \in Seq(Conns) /\ memory \in Seq(Conns)
      BY <1>1
  <2> QED
      BY <1>3, <2>1, <2>2, Overlaid
<1> QED
    BY <1>1, <1>4

\* A turn that removes the socket it is at, while that is in the list.
LEMMA RemoveLoop ==
    ASSUME TypeInv, AliveInv, LoopInv, Stopping, at <= Len(clients), NEW c \in Conns,
           c = clients[at], Removes(at, c)
    PROVE  LoopInv'
<1>k. PICK k, n : k = Len(clients) /\ n = Len(memory)
    OBVIOUS
<1>1. /\ clients \in Seq(Conns) /\ memory \in Seq(Conns)
      /\ k \in Nat /\ n \in Nat /\ at \in 1..k /\ k <= n
      /\ DOMAIN clients = 1..k
      /\ sock \in [Conns -> {"none", "queued", "open", "closing", "closed"}]
      /\ \A i, j \in 1..k : clients[i] = clients[j] => i = j
  <2>1. clients \in Seq(Conns) /\ memory \in Seq(Conns) /\ at \in Nat \ {0}
      BY DEF TypeInv, TypeOK
  <2>2. k \in Nat /\ n \in Nat /\ DOMAIN clients = 1..k
      BY <1>k, <2>1
  <2>3. k <= n
      BY <1>k DEF LoopInv
  <2>4. \A i, j \in DOMAIN clients : clients[i] = clients[j] => i = j
      BY DEF AliveInv, ClientsAreAlive
  <2>5. sock \in [Conns -> {"none", "queued", "open", "closing", "closed"}]
      BY DEF TypeInv, TypeOK
  <2>6. at \in 1..k
      BY <1>k, <2>1, <2>2
  <2> QED
      BY <2>1, <2>2, <2>3, <2>4, <2>5, <2>6
<1>2. /\ clients' \in Seq(Conns) /\ Len(clients') = k - 1
      /\ \A i \in 1..(k - 1) : clients'[i] = IF i < at THEN clients[i] ELSE clients[i + 1]
    BY <1>1, <1>k, Removed
<1>3. /\ Len(memory') = n
      /\ \A i \in 1..n : memory'[i] = IF i <= k - 1 THEN clients'[i] ELSE memory[i]
    BY <1>1, <1>k, Removed
<1>m. sock' = [sock EXCEPT ![c] = "closed"] /\ at' = at + 1
    BY DEF Removes
<1>4. DOMAIN clients' = 1..(k - 1)
    BY <1>2
<1>5. LastListed
    BY <1>1, <1>k DEF LoopInv, LastGone
<1>6. /\ \A i \in 1..k : memory[i] = clients[i]
      /\ \A i \in (k + 1)..n : memory[i] = memory[n]
      /\ Cardinality(Skipped) <= n - k
      /\ clients[k] = memory[n]
    BY <1>5, <1>k DEF LoopInv, LastListed
<1>7. \A i \in k..n : memory'[i] = memory[n]
  <2> SUFFICES ASSUME NEW i \in k..n PROVE memory'[i] = memory[n]
      OBVIOUS
  <2>1. i \in 1..n /\ ~(i <= k - 1) /\ k \in 1..k
      BY <1>1
  <2>2. memory'[i] = memory[i]
      BY <1>3, <2>1
  <2>3. i = k \/ i \in (k + 1)..n
      BY <1>1
  <2> QED
      BY <1>6, <2>1, <2>2, <2>3
<1>8. memory'[n] = memory[n]
  <2>1. n \in k..n
      BY <1>1
  <2> QED
      BY <1>7, <2>1
<1>9. Skipped' \subseteq Skipped \cup ({at} \cap 1..(k - 1))
  <2> SUFFICES ASSUME NEW i \in 1..(k - 1), i < at + 1, i # at, sock'[clients'[i]] = "open"
               PROVE  i \in Skipped
      BY <1>4, <1>m DEF Skipped
  <2>1. i < at /\ i \in 1..k /\ i # at
      BY <1>1
  <2>2. clients'[i] = clients[i] /\ clients[i] # c /\ clients[i] \in Conns
      BY <1>1, <1>2, <2>1
  <2>3. sock[clients[i]] = "open"
      BY <1>1, <1>m, <2>2
  <2> QED
      BY <1>1, <2>1, <2>3 DEF Skipped
<1>10. IsFiniteSet(Skipped) /\ Cardinality(Skipped) \in Nat /\ Skipped \subseteq 1..k
  <2>1. Skipped \subseteq 1..k
      BY <1>1 DEF Skipped
  <2>2. IsFiniteSet(Skipped) /\ Cardinality(Skipped) \in 0..k
      BY <1>1, <2>1, PositionsFinite
  <2> QED
      BY <1>1, <2>1, <2>2
<1>11. /\ Cardinality(Skipped') \in Nat /\ Cardinality(Skipped') <= Cardinality(Skipped) + 1
       /\ at = k => Cardinality(Skipped') <= Cardinality(Skipped)
  <2>1. at \notin Skipped
      BY <1>1 DEF Skipped
  <2>2. Cardinality(Skipped \cup {at}) = Cardinality(Skipped) + 1
      BY <1>10, <2>1, FS_AddElement
  <2>3. Skipped' \subseteq Skipped \cup {at} /\ Skipped \cup {at} \subseteq 1..k
      BY <1>1, <1>9, <1>10
  <2>4. Cardinality(Skipped') \in Nat /\ Cardinality(Skipped') <= Cardinality(Skipped \cup {at})
      BY <1>1, <2>3, Fewer
  <2>5. ASSUME at = k PROVE Skipped' \subseteq Skipped
      BY <1>1, <1>9, <2>5
  <2> QED
      BY <1>1, <1>10, <2>2, <2>4, <2>5, Fewer
<1>12. LastListed' \/ LastGone'
  <2>1. CASE at < k
    <3>1. k - 1 \in 1..(k - 1) /\ ~(k - 1 < at) /\ k - 1 + 1 = k
        BY <1>1, <2>1
    <3>2. clients'[k - 1] = memory[n]
        BY <1>2, <1>6, <3>1
    <3> QED
      <4>1. Len(clients') > 0 /\ clients'[Len(clients')] = memory[n]
          BY <1>1, <1>2, <2>1, <3>2
      <4>2. memory'[Len(memory')] = memory[n]
          BY <1>3, <1>8
      <4> QED
          BY <4>1, <4>2 DEF LastListed
  <2>2. CASE at = k
    <3>1. \A i \in 1..(k - 1) : clients'[i] = clients[i] /\ i \in 1..k /\ i # k /\ k \in 1..k
        BY <1>1, <1>2, <2>2
    <3>2. memory'[n] \notin Served'
      <4>1. ASSUME NEW i \in 1..(k - 1) PROVE clients'[i] # memory'[n]
        <5>1. clients'[i] = clients[i] /\ i \in 1..k /\ k \in 1..k /\ i # k
            BY <3>1
        <5>2. clients[i] # clients[k]
            BY <1>1, <5>1
        <5> QED
            BY <1>6, <1>8, <5>1, <5>2
      <4> QED
          BY <1>4, <4>1 DEF Served, Range
    <3>3. Cardinality(Skipped') + 1 <= n - (k - 1)
        BY <1>1, <1>6, <1>10, <1>11, <2>2
    <3>4. at' > k - 1
        BY <1>1, <1>m, <2>2
    <3> QED
        BY <1>2, <1>3, <3>2, <3>3, <3>4 DEF LastGone
  <2> QED
      BY <1>1, <2>1, <2>2
<1>13. \A i \in 1..(k - 1) : memory'[i] = clients'[i]
  <2> SUFFICES ASSUME NEW i \in 1..(k - 1) PROVE memory'[i] = clients'[i]
      OBVIOUS
  <2>1. i \in 1..n /\ i <= k - 1
      BY <1>1
  <2> QED
      BY <1>3, <2>1
<1>14. Cardinality(Skipped') <= n - (k - 1)
    BY <1>1, <1>6, <1>10, <1>11
<1>15. at' > n => sock'[memory'[n]] # "open"
  <2> SUFFICES ASSUME at' > n PROVE sock'[memory[n]] # "open"
      BY <1>8
  <2>1. at = k /\ k = n
      BY <1>1, <1>m
  <2>2. memory[n] = c
      BY <1>6, <2>1
  <2> QED
      BY <1>1, <1>m, <2>2
<1>16. k - 1 <= n /\ at' <= n + 1 /\ k - 1 + 1 = k
    BY <1>1, <1>m
<1>17. Len(clients') <= Len(memory') /\ at' <= Len(memory') + 1
    BY <1>2, <1>3, <1>16
<1>18. \A i \in 1..Len(clients') : memory'[i] = clients'[i]
    BY <1>2, <1>13
<1>19. \A i \in (Len(clients') + 1)..Len(memory') : memory'[i] = memory'[Len(memory')]
    BY <1>2, <1>3, <1>7, <1>8, <1>16
<1>20. Cardinality(Skipped') <= Len(memory') - Len(clients')
    BY <1>2, <1>3, <1>14
<1>21. at' > Len(memory') => sock'[memory'[Len(memory')]] # "open"
    BY <1>3, <1>15
<1> QED
    BY <1>12, <1>17, <1>18, <1>19, <1>20, <1>21, Zenon DEF LoopInv

\* A turn behind the end of the list that removes the last one of the array.
LEMMA RemoveLastLoop ==
    ASSUME TypeInv, AliveInv, LoopInv, Stopping, Len(clients) < at, at <= Len(memory), NEW c \in Conns,
           c = memory[at], c \in Served, sock[c] = "open",
           Removes(CHOOSE i \in DOMAIN clients : clients[i] = c, c)
    PROVE  LoopInv'
<1>k. PICK k, n : k = Len(clients) /\ n = Len(memory)
    OBVIOUS
<1>1. /\ clients \in Seq(Conns) /\ memory \in Seq(Conns)
      /\ k \in Nat /\ n \in Nat /\ at \in Nat /\ k < at /\ at <= n
      /\ DOMAIN clients = 1..k
      /\ sock \in [Conns -> {"none", "queued", "open", "closing", "closed"}]
      /\ \A i, j \in 1..k : clients[i] = clients[j] => i = j
  <2>1. clients \in Seq(Conns) /\ memory \in Seq(Conns) /\ at \in Nat \ {0}
      BY DEF TypeInv, TypeOK
  <2>2. k \in Nat /\ n \in Nat /\ DOMAIN clients = 1..k
      BY <1>k, <2>1
  <2>3. \A i, j \in DOMAIN clients : clients[i] = clients[j] => i = j
      BY DEF AliveInv, ClientsAreAlive
  <2>4. sock \in [Conns -> {"none", "queued", "open", "closing", "closed"}]
      BY DEF TypeInv, TypeOK
  <2> QED
      BY <1>k, <2>1, <2>2, <2>3, <2>4
<1>2. memory[n] = c /\ n > 0
  <2>1. at \in (k + 1)..n /\ n > 0
      BY <1>1
  <2> QED
      BY <1>k, <2>1 DEF LoopInv
<1>3. k \in 1..k /\ clients[k] = c
    BY <1>1, <1>2, <1>k DEF LoopInv, LastListed, LastGone
<1>4. /\ \A i \in 1..k : memory[i] = clients[i]
      /\ \A i \in (k + 1)..n : memory[i] = c
      /\ Cardinality(Skipped) <= n - k
    BY <1>2, <1>k DEF LoopInv
<1>5. Removes(k, c)
  <2>1. (CHOOSE i \in DOMAIN clients : clients[i] = c) = k
      BY <1>1, <1>3
  <2> QED
      BY <2>1
<1>6. /\ clients' \in Seq(Conns) /\ Len(clients') = k - 1
      /\ \A i \in 1..(k - 1) : clients'[i] = clients[i]
      /\ Len(memory') = n
      /\ \A i \in 1..n : memory'[i] = IF i <= k - 1 THEN clients'[i] ELSE memory[i]
  <2>1. /\ clients \in Seq(Conns) /\ memory \in Seq(Conns)
        /\ k \in Nat /\ n \in Nat /\ k \in 1..k /\ k <= n
      BY <1>1, <1>3
  <2>2. /\ clients' \in Seq(Conns) /\ Len(clients') = k - 1
        /\ \A i \in 1..(k - 1) : clients'[i] = IF i < k THEN clients[i] ELSE clients[i + 1]
        /\ Len(memory') = n
        /\ \A i \in 1..n : memory'[i] = IF i <= k - 1 THEN clients'[i] ELSE memory[i]
    <3>1. /\ Len(clients) \in Nat /\ Len(memory) \in Nat /\ k \in 1..Len(clients)
          /\ Len(clients) <= Len(memory)
        BY <1>k, <2>1
    <3>2. /\ clients' \in Seq(Conns) /\ Len(clients') = Len(clients) - 1
          /\ \A i \in 1..(Len(clients) - 1) :
               clients'[i] = IF i < k THEN clients[i] ELSE clients[i + 1]
          /\ Len(memory') = Len(memory)
          /\ \A i \in 1..Len(memory) :
               memory'[i] = IF i <= Len(clients) - 1 THEN clients'[i] ELSE memory[i]
        BY <1>5, <2>1, <3>1, Removed, Zenon
    <3> QED
        BY <1>k, <3>2, Zenon
  <2>3. \A i \in 1..(k - 1) : i < k
      BY <1>1
  <2> QED
      BY <2>2, <2>3
<1>7. /\ Len(memory') = n
      /\ \A i \in 1..n : memory'[i] = IF i <= k - 1 THEN clients'[i] ELSE memory[i]
    BY <1>6
<1>m. sock' = [sock EXCEPT ![c] = "closed"] /\ at' = at + 1
    BY <1>5 DEF Removes
<1>8. DOMAIN clients' = 1..(k - 1)
    BY <1>6
<1>9. \A i \in k..n : memory'[i] = c
  <2> SUFFICES ASSUME NEW i \in k..n PROVE memory'[i] = c
      OBVIOUS
  <2>1. i \in 1..n /\ ~(i <= k - 1) /\ (i = k \/ i \in (k + 1)..n)
      BY <1>1, <1>3
  <2> QED
      BY <1>3, <1>4, <1>7, <2>1
<1>10. memory'[n] = c
  <2>1. n \in k..n
      BY <1>1
  <2> QED
      BY <1>9, <2>1
<1>11. c \notin Served'
    BY <1>1, <1>3, <1>6, <1>8 DEF Served, Range
<1>12. Skipped' \subseteq Skipped /\ k \in Skipped \ Skipped' /\ Skipped \subseteq 1..k
  <2>1. ASSUME NEW i \in Skipped' PROVE i \in Skipped
    <3>1. i \in 1..(k - 1) /\ i \in 1..k /\ i # k /\ sock'[clients'[i]] = "open"
        BY <1>1, <1>3, <1>8, <2>1 DEF Skipped
    <3>2. clients'[i] = clients[i] /\ clients[i] # c /\ clients[i] \in Conns
        BY <1>1, <1>3, <1>6, <3>1
    <3>3. sock[clients[i]] = "open" /\ i < at
        BY <1>1, <1>m, <3>1, <3>2
    <3> QED
        BY <1>1, <3>1, <3>3 DEF Skipped
  <2>2. k \in Skipped
      BY <1>1, <1>3 DEF Skipped
  <2>3. k \notin Skipped'
      BY <1>1, <1>8 DEF Skipped
  <2>4. Skipped \subseteq 1..k
      BY <1>1 DEF Skipped
  <2> QED
      BY <2>1, <2>2, <2>3, <2>4
<1>13. /\ Cardinality(Skipped') \in Nat /\ Cardinality(Skipped) \in Nat
       /\ Cardinality(Skipped') + 1 <= Cardinality(Skipped)
    BY <1>1, <1>12, Fewer
<1>14. LastGone'
  <2>1. Cardinality(Skipped') + 1 <= n - (k - 1) /\ at' > k - 1
      BY <1>1, <1>4, <1>13, <1>m
  <2> QED
      BY <1>6, <1>7, <1>10, <1>11, <2>1 DEF LastGone
<1>15. \A i \in 1..(k - 1) : memory'[i] = clients'[i]
  <2> SUFFICES ASSUME NEW i \in 1..(k - 1) PROVE memory'[i] = clients'[i]
      OBVIOUS
  <2>1. i \in 1..n /\ i <= k - 1
      BY <1>1
  <2> QED
      BY <1>7, <2>1
<1>16. Cardinality(Skipped') <= n - (k - 1) /\ k - 1 <= n /\ at' <= n + 1 /\ k - 1 + 1 = k
    BY <1>1, <1>4, <1>13, <1>m
<1>17. sock'[memory'[n]] # "open"
    BY <1>1, <1>10, <1>m
<1>18. Len(clients') <= Len(memory') /\ at' <= Len(memory') + 1
    BY <1>6, <1>7, <1>16
<1>19. \A i \in 1..Len(clients') : memory'[i] = clients'[i]
    BY <1>6, <1>15
<1>20. \A i \in (Len(clients') + 1)..Len(memory') : memory'[i] = memory'[Len(memory')]
    BY <1>6, <1>7, <1>9, <1>10, <1>16
<1>21. Cardinality(Skipped') <= Len(memory') - Len(clients')
    BY <1>6, <1>7, <1>16
<1>22. at' > Len(memory') => sock'[memory'[Len(memory')]] # "open"
    BY <1>7, <1>17
<1> QED
    BY <1>14, <1>18, <1>19, <1>20, <1>21, <1>22, Zenon DEF LoopInv

\* Every turn of the loop.
LEMMA StopSocketLoop ==
    ASSUME TypeInv, AliveInv, LoopInv, StopSocket
    PROVE  LoopInv'
<1>1. /\ Stopping /\ at <= Len(memory) /\ at' = at + 1
      /\ clients \in Seq(Conns) /\ memory \in Seq(Conns) /\ at \in Nat \ {0}
      /\ sock \in [Conns -> {"none", "queued", "open", "closing", "closed"}]
    BY DEF StopSocket, TypeInv, TypeOK
<1>2. PICK c : c = memory[at] /\ c \in Conns
    BY <1>1
<1>3. CASE ~(sock[c] = "open" /\ c \notin pending)
  <2>1. /\ UNCHANGED <<clients, memory>>
        /\ sock' = [sock EXCEPT ![c] = IF @ = "open" THEN "closing" ELSE @]
      BY <1>2, <1>3, Zenon DEF StopSocket
  <2>2. sock'[c] # "open" /\ \A d \in Conns : sock'[d] = "open" => sock[d] = "open"
      BY <1>1, <1>2, <2>1
  <2> QED
      BY <1>1, <1>2, <2>1, <2>2, PassLoop
<1>4. CASE sock[c] = "open" /\ c \notin pending
  <2>1. /\ removeAll(c) /\ sock' = [sock EXCEPT ![c] = "closed"]
        /\ memory' = clients' \o SubSeq(memory, Len(clients') + 1, Len(memory))
      BY <1>2, <1>4 DEF StopSocket
  <2>2. Len(clients) \in Nat /\ DOMAIN clients = 1..Len(clients) /\ Len(memory) \in Nat
      BY <1>1
  <2>3. /\ Len(clients) <= Len(memory)
        /\ \A i \in 1..Len(clients) : memory[i] = clients[i]
        /\ \A i, j \in 1..Len(clients) : clients[i] = clients[j] => i = j
      BY <1>1, <2>2 DEF LoopInv, AliveInv, ClientsAreAlive
  <2>4. CASE at <= Len(clients)
    <3>1. at \in DOMAIN clients /\ c = clients[at]
        BY <1>1, <1>2, <2>2, <2>3, <2>4
    <3>2. c \in Served /\ (CHOOSE i \in DOMAIN clients : clients[i] = c) = at
        BY <2>2, <2>3, <3>1 DEF Served, Range
    <3>3. clients' = RemoveAt(clients, at)
        BY <2>1, <3>2 DEF removeAll
    <3>4. Removes(at, c)
        BY <1>1, <2>1, <3>3 DEF Removes
    <3> QED
        BY <1>1, <1>2, <2>4, <3>1, <3>4, RemoveLoop
  <2>5. CASE at > Len(clients) /\ c \in Served
    <3>1. clients' = RemoveAt(clients, CHOOSE i \in DOMAIN clients : clients[i] = c)
        BY <2>1, <2>5 DEF removeAll
    <3>2. Len(clients) < at
        BY <1>1, <2>2, <2>5
    <3>3. Removes(CHOOSE i \in DOMAIN clients : clients[i] = c, c)
        BY <1>1, <2>1, <3>1 DEF Removes
    <3> QED
        BY <1>1, <1>2, <1>4, <2>5, <3>2, <3>3, RemoveLastLoop
  <2>6. CASE c \notin Served
    <3>1. clients' = clients
        BY <2>1, <2>6 DEF removeAll
    <3>2. memory' = memory
      <4>1. /\ memory' \in Seq(Conns) /\ Len(memory') = Len(memory)
            /\ \A i \in 1..Len(memory) :
                 memory'[i] = IF i <= Len(clients) THEN clients[i] ELSE memory[i]
          BY <1>1, <2>1, <2>3, <3>1, Overlaid
      <4>2. \A i \in 1..Len(memory) : memory'[i] = memory[i]
          BY <2>2, <2>3, <4>1
      <4> QED
          BY <1>1, <4>1, <4>2
    <3>3. sock'[c] # "open" /\ \A d \in Conns : sock'[d] = "open" => sock[d] = "open"
        BY <1>1, <1>2, <2>1
    <3> QED
        BY <1>1, <1>2, <3>1, <3>2, <3>3, PassLoop
  <2> QED
      BY <1>1, <2>2, <2>4, <2>5, <2>6
<1> QED
    BY <1>3, <1>4

\* Every step keeps the invariant of the loop.
LEMMA NextLoop == TypeInv /\ AliveInv /\ LoopInv /\ [Next]_vars => LoopInv'
<1> SUFFICES ASSUME TypeInv, AliveInv, LoopInv, [Next]_vars PROVE LoopInv'
    OBVIOUS
<1> USE DEF engineVars, peerVars
<1>1. CASE Stop \/ Disconnect
    BY <1>1, BeginLoop DEF Stop, Disconnect
<1>2. CASE Elsewhere \/ UNCHANGED vars
  <2>1. /\ UNCHANGED <<pc, at, clients, memory>>
        /\ \/ sock' = sock
           \/ \E c \in Conns : sock[c] = "none" /\ sock' = [sock EXCEPT ![c] = "queued"]
      BY <1>2, Zenon DEF Elsewhere, vars, LoseSession, PeerConnects, PeerGone
  <2>2. \A c \in Conns : sock'[c] = "open" <=> sock[c] = "open"
      BY <2>1 DEF TypeInv, TypeOK
  <2>3. /\ clients \in Seq(Conns) /\ memory \in Seq(Conns)
        /\ Len(memory) > 0 => memory[Len(memory)] \in Conns
        /\ \A i \in DOMAIN clients : clients[i] \in Conns
      BY DEF TypeInv, TypeOK
  <2>4. Skipped' = Skipped
      BY <2>1, <2>2, <2>3 DEF Skipped
  <2> QED
      BY <2>1, <2>2, <2>3, <2>4 DEF LoopInv, Stopping, LastListed, LastGone, Served
<1>3. CASE StopSocket
    BY <1>3, StopSocketLoop
<1>4. CASE ~Stopping'
    BY <1>4 DEF LoopInv
<1>5. CASE CloseBox \/ Connect \/ Start \/ Quit \/ StopEnd \/ Timer \/ Sockets
  <2>1. ~Stopping'
      BY <1>5, Zenon
      DEF CloseBox, Connect, Start, Quit, StopEnd, Timer, Tick, TickWrite, TickEnd, Sockets,
          onAcceptConnection, onClientDisconnected, Flush, Destroy, Idle, Stopping
  <2> QED
      BY <2>1 DEF LoopInv
<1> QED
    BY <1>1, <1>2, <1>3, <1>5, Zenon DEF Next, Clicks, StopLoop

\* For any number of subscribers a stop closes more than half of them, and
\* all of them if they are two or fewer, although each removal moves the list
\* under the loop (stopBridge and onClientDisconnected).
THEOREM ClosesMost == Spec => []StopClosesMost
<1>1. Init => LoopInv
    BY DEF Init, LoopInv, Stopping
<1>2. TypeInv /\ LoopInv => StopClosesMost
  <2> SUFFICES ASSUME TypeInv, LoopInv, Stopping, at > Len(memory),
                      {i \in DOMAIN clients : sock[clients[i]] = "open"} # {}
               PROVE  2 * Cardinality({i \in DOMAIN clients : sock[clients[i]] = "open"}) < Len(memory)
      BY DEF StopClosesMost
  <2> DEFINE k == Len(clients)
             n == Len(memory)
             left == {i \in DOMAIN clients : sock[clients[i]] = "open"}
  <2>1. k \in Nat /\ n \in Nat /\ at \in Nat /\ DOMAIN clients = 1..k
      BY DEF TypeInv, TypeOK
  <2>2. k <= n /\ Cardinality(Skipped) <= n - k
      BY DEF LoopInv
  <2>3. left = Skipped
      BY <2>1, <2>2 DEF Skipped
  <2>4. left # {} /\ left \subseteq 1..k
      BY <2>1
  <2>5. n > 0
      BY <2>1, <2>2, <2>4
  <2>6. LastListed \/ LastGone
      BY <2>5 DEF LoopInv
  <2>7. sock[memory[n]] # "open"
      BY <2>5 DEF LoopInv
  <2>8. /\ Cardinality(left) \in Nat /\ Cardinality(left) <= k
        /\ LastListed => Cardinality(left) + 1 <= k
    <3>1. Cardinality(1..k) = k
      <4> HIDE DEF k
      <4>1. IsFiniteSet(1..k) /\ Cardinality(1..k) = IF 1 > k THEN 0 ELSE k - 1 + 1
          BY <2>1, FS_Interval
      <4> QED
          BY <2>1, <4>1
    <3>2. LastListed => k \in (1..k) \ left
        BY <2>1, <2>7 DEF LastListed
    <3> HIDE DEF left, k
    <3> QED
        BY <2>1, <2>4, <3>1, <3>2, Fewer
  <2>9. LastGone => Cardinality(left) + 1 <= n - k
      BY <2>3 DEF LastGone
  <2>10. Cardinality(left) <= n - k
      BY <2>2, <2>3
  <2> HIDE DEF left, k, n
  <2>11. PICK x : x = Cardinality(left)
      OBVIOUS
  <2>12. x \in Nat /\ x <= k /\ x <= n - k /\ (x + 1 <= k \/ x + 1 <= n - k)
      BY <2>6, <2>8, <2>9, <2>10, <2>11
  <2>13. 2 * x < n
      BY <2>1, <2>12
  <2> QED
      BY <2>11, <2>13 DEF left, n
<1> QED
    BY <1>1, <1>2, InitInv, NextTypes, NextAlive, NextLoop, PTL DEF Spec
=============================================================================
