------------------------------ MODULE QtBridge ------------------------------
(***************************************************************************)
(* The Qt bridge (src/gui/BridgeEngine.cpp under the buttons of            *)
(* src/gui/MainWindow.cpp).  One thread runs the event loop: a click, a    *)
(* tick of the timer, a subscriber that waits or has left are events, and  *)
(* a handler runs to its end before the next one -- except where it opens  *)
(* a message box, whose own event loop goes on with every event but        *)
(* clicks until the user closes the box.                                   *)
(*                                                                         *)
(* Grain.  A handler is one step; its loops over the subscribers are a     *)
(* step for each.                                                          *)
(*                                                                         *)
(* Data.  What a frame holds besides its number, the configuration form    *)
(* and the status line are left out.  That the server cannot be reached,   *)
(* lacks the namespace, or has left is found whenever the client asks.     *)
(***************************************************************************)
EXTENDS Integers, Sequences, SequencesExt, FiniteSets

CONSTANTS
    Conns,    \* connections that subscribers may make, once each
    MaxSeq    \* bound: frames numbered

ASSUME SeqAssumption == MaxSeq \in Nat

VARIABLES
    pc,         \* "idle" between events, or the loop that a handler is in
    box,        \* the message box that is open: of a click, of a tick, none
    ui,         \* what updateUiState has last enabled the buttons for
    connected,  \* m_opcUaConnected
    running,    \* m_bridgeRunning; the timer and the listener are on with it
    seq,        \* m_sequence
    clients,    \* m_clients
    memory,     \* the array of m_clients when stopBridge began its loop
    at,         \* the index that a loop is at, 1 outside of one
    session,    \* of m_client with the server: none, live, or lost
    sock,       \* state of each connection, on the bridge's side
    pending,    \* sockets with data in their write buffer
    gone,       \* connections whose subscriber has closed them
    received    \* frames written to each connection, in order

engineVars == <<connected, running, seq, clients, memory, at, session>>
peerVars   == <<sock, pending, gone, received>>
vars == <<pc, box, ui, engineVars, peerVars>>

Served == Range(clients)

TypeOK ==
    /\ pc \in {"idle", "tick", "stop", "disconnect", "end"}
    /\ box \in {"none", "click", "tick"}
    /\ ui \in [connected : BOOLEAN, running : BOOLEAN]
    /\ connected \in BOOLEAN /\ running \in BOOLEAN
    /\ seq \in 0..MaxSeq
    /\ clients \in Seq(Conns) /\ memory \in Seq(Conns)
    /\ at \in Nat \ {0}
    /\ session \in {"none", "live", "lost"}
    /\ sock \in [Conns -> {"none", "queued", "open", "closing", "closed"}]
    /\ pending \subseteq Conns /\ gone \subseteq Conns
    /\ received \in [Conns -> Seq(1..MaxSeq)]

Init ==
    /\ pc = "idle" /\ box = "none"
    /\ ui = [connected |-> FALSE, running |-> FALSE]
    /\ connected = FALSE /\ running = FALSE
    /\ seq = 0
    /\ clients = << >> /\ memory = << >> /\ at = 1
    /\ session = "none"
    /\ sock = [c \in Conns |-> "none"]
    /\ pending = {} /\ gone = {}
    /\ received = [c \in Conns |-> << >>]

-----------------------------------------------------------------------------
(* Clicks.  Only enabled buttons take them, and none while a box is open.  *)

Idle  == pc = "idle" /\ box = "none"
State == [connected |-> connected, running |-> running]
updateUiState == ui' = State'

\* The handler that opened the box goes on: a click ends in updateUiState,
\* a tick does not.
CloseBox ==
    /\ box # "none" /\ pc = "idle"
    /\ box' = "none" /\ UNCHANGED <<pc, engineVars, peerVars>>
    /\ IF box = "click" THEN updateUiState ELSE UNCHANGED ui

\* The session of before is closed first.  The server or its namespace is
\* not found, or a node id of the mappings does not parse, which leaves a
\* session that counts as none.
Connect ==
    /\ Idle /\ ~ui.connected /\ ~ui.running
    /\ \/ session' = "none" /\ connected' = FALSE
       \/ session' = "live" /\ connected' \in BOOLEAN
    /\ UNCHANGED <<pc, running, seq, clients, memory, at, peerVars>>
    /\ IF connected' THEN updateUiState /\ UNCHANGED box
       ELSE box' = "click" /\ UNCHANGED ui

\* Fault: every start numbers from the beginning.
StartNumbersAnew ==
    /\ Idle /\ ui.connected /\ ~ui.running /\ connected
    /\ UNCHANGED <<pc, box, connected, clients, memory, at, session, peerVars>>
    /\ running' = TRUE /\ seq' = 0 /\ updateUiState

\* The button is enabled only while connected (UiKnowsState), so that the
\* connection attempt of onStartBridge and the check of startBridge never
\* do anything.  listen fails when the port is taken.
Start ==
    /\ Idle /\ ui.connected /\ ~ui.running /\ connected
    /\ UNCHANGED <<pc, connected, seq, clients, memory, at, session, peerVars>>
    /\ \/ running' = TRUE /\ updateUiState /\ UNCHANGED box
       \/ box' = "click" /\ UNCHANGED <<running, ui>>

\* The listener closes: who waits for it is reset.
BeginStop(goal) ==
    /\ pc' = goal
    /\ running' = FALSE
    /\ sock' = [c \in Conns |-> IF sock[c] = "queued" THEN "closed" ELSE sock[c]]
    /\ memory' = clients
    /\ UNCHANGED <<box, ui, connected, seq, clients, at, session, pending, gone, received>>

Stop       == Idle /\ ui.running /\ BeginStop("stop")
Disconnect == Idle /\ (ui.connected \/ ui.running) /\ BeginStop("disconnect")
Stopping   == pc \in {"stop", "disconnect"}

\* The destructor, and the end of the process: everything is closed.
Quit ==
    /\ Idle
    /\ pc' = "end"
    /\ running' = FALSE /\ connected' = FALSE /\ session' = "none"
    /\ clients' = << >> /\ pending' = {}
    /\ sock' = [c \in Conns |-> IF sock[c] = "none" THEN "none" ELSE "closed"]
    /\ UNCHANGED <<box, ui, seq, memory, at, gone, received>>

-----------------------------------------------------------------------------
(* stopBridge goes over the array that m_clients had when it began.  A     *)
(* socket without pending data is closed at once, and its disconnected     *)
(* signal runs onClientDisconnected in the middle of the loop: m_clients   *)
(* moves up by one under it.  With pending data it closes later.           *)

\* Fault: a socket is released but stays in the list.
RemoveNone(c) == clients' = clients

\* The list holds a socket once at most (ClientsAreAlive).
removeAll(c) ==
    clients' = IF c \in Served
               THEN RemoveAt(clients, CHOOSE i \in DOMAIN clients : clients[i] = c)
               ELSE clients

\* Fault: the loop ends where the list ends now.
StopSocketInList ==
    /\ Stopping /\ at <= Len(clients)
    /\ LET c == clients[at] IN
         IF sock[c] = "open" /\ c \notin pending
         THEN removeAll(c) /\ memory' = clients' /\ sock' = [sock EXCEPT ![c] = "closed"]
         ELSE sock' = [sock EXCEPT ![c] = IF @ = "open" THEN "closing" ELSE @]
              /\ memory' = clients /\ UNCHANGED clients
    /\ at' = at + 1
    /\ UNCHANGED <<pc, box, ui, connected, running, seq, session, pending, gone, received>>

\* Behind its end the list keeps what was there before.
StopSocket ==
    /\ Stopping /\ at <= Len(memory)
    /\ LET c == memory[at] IN
         IF sock[c] = "open" /\ c \notin pending
         THEN /\ removeAll(c)
              /\ memory' = clients' \o SubSeq(memory, Len(clients') + 1, Len(memory))
              /\ sock' = [sock EXCEPT ![c] = "closed"]
         ELSE /\ sock' = [sock EXCEPT ![c] = IF @ = "open" THEN "closing" ELSE @]
              /\ UNCHANGED <<clients, memory>>
    /\ at' = at + 1
    /\ UNCHANGED <<pc, box, ui, connected, running, seq, session, pending, gone, received>>

\* Fault: the buttons stay as they were.
StopEndForgetsUi ==
    /\ Stopping /\ at > Len(memory)
    /\ clients' = << >> /\ memory' = << >> /\ at' = 1
    /\ IF pc = "disconnect" THEN connected' = FALSE /\ session' = "none"
       ELSE UNCHANGED <<connected, session>>
    /\ UNCHANGED <<box, ui, running, seq, peerVars>>
    /\ pc' = "idle"

StopEnd ==
    /\ Stopping /\ at > Len(memory)
    /\ clients' = << >> /\ memory' = << >> /\ at' = 1
    /\ IF pc = "disconnect" THEN connected' = FALSE /\ session' = "none"
       ELSE UNCHANGED <<connected, session>>
    /\ UNCHANGED <<box, running, seq, peerVars>>
    /\ pc' = "idle" /\ updateUiState

-----------------------------------------------------------------------------
(* The timer.                                                              *)

\* A lost session opens a box and leaves the bridge running.
Tick ==
    /\ pc = "idle" /\ running /\ connected
    /\ \/ /\ session = "live" /\ seq < MaxSeq
          /\ seq' = seq + 1 /\ pc' = "tick"
          /\ UNCHANGED <<connected, box>>
       \/ /\ session = "lost"
          /\ connected' = FALSE /\ box' = "tick"
          /\ UNCHANGED <<pc, seq>>
    /\ UNCHANGED <<ui, running, clients, memory, at, session, peerVars>>

\* Fault: the frame has the number from before it is counted up.
TickWriteOldNumber ==
    /\ pc = "tick" /\ at <= Len(clients)
    /\ LET c == clients[at] IN
         received' = [received EXCEPT ![c] = Append(@, seq - 1)] /\ pending' = pending \cup {c}
    /\ at' = at + 1
    /\ UNCHANGED <<pc, box, ui, connected, running, seq, clients, memory, session, sock, gone>>

\* write only appends to the buffer of the socket.
TickWrite ==
    /\ pc = "tick" /\ at <= Len(clients)
    /\ LET c == clients[at] IN
         IF sock[c] = "open"
         THEN received' = [received EXCEPT ![c] = Append(@, seq)] /\ pending' = pending \cup {c}
         ELSE UNCHANGED <<received, pending>>
    /\ at' = at + 1
    /\ UNCHANGED <<pc, box, ui, connected, running, seq, clients, memory, session, sock, gone>>

TickEnd ==
    /\ pc = "tick" /\ at > Len(clients)
    /\ pc' = "idle" /\ at' = 1
    /\ UNCHANGED <<box, ui, connected, running, seq, clients, memory, session, peerVars>>

-----------------------------------------------------------------------------
(* Events of the sockets.                                                  *)

onAcceptConnection(c) ==
    /\ pc = "idle" /\ sock[c] = "queued"
    /\ sock' = [sock EXCEPT ![c] = "open"]
    /\ clients' = Append(clients, c)
    /\ UNCHANGED <<pc, box, ui, connected, running, seq, memory, at, session,
                   pending, gone, received>>

\* Fault: a socket that the list does not hold is left alone.
ServedDisconnected(c) ==
    /\ pc = "idle" /\ sock[c] = "open" /\ c \in gone /\ c \in Served
    /\ sock' = [sock EXCEPT ![c] = "closed"]
    /\ pending' = pending \ {c}
    /\ removeAll(c)
    /\ UNCHANGED <<pc, box, ui, connected, running, seq, memory, at, session, gone, received>>

\* The end of the stream closes a socket whatever is in its buffer.
onClientDisconnected(c) ==
    /\ pc = "idle" /\ sock[c] = "open" /\ c \in gone
    /\ sock' = [sock EXCEPT ![c] = "closed"]
    /\ pending' = pending \ {c}
    /\ removeAll(c)
    /\ UNCHANGED <<pc, box, ui, connected, running, seq, memory, at, session, gone, received>>

\* The subscriber has read, and the buffer is written out.
Flush(c) ==
    /\ pc = "idle" /\ sock[c] = "open" /\ c \in pending
    /\ pending' = pending \ {c}
    /\ UNCHANGED <<pc, box, ui, engineVars, sock, gone, received>>

\* deleteLater: a socket that was still closing goes with its buffer.
Destroy(c) ==
    /\ pc = "idle" /\ sock[c] = "closing"
    /\ sock' = [sock EXCEPT ![c] = "closed"]
    /\ pending' = pending \ {c}
    /\ UNCHANGED <<pc, box, ui, engineVars, gone, received>>

-----------------------------------------------------------------------------
(* Subscribers and the server.                                             *)

PeerConnects(c) ==
    /\ sock[c] = "none" /\ running
    /\ sock' = [sock EXCEPT ![c] = "queued"]
    /\ UNCHANGED <<pc, box, ui, engineVars, pending, gone, received>>

PeerGone(c) ==
    /\ sock[c] \in {"queued", "open"} /\ c \notin gone
    /\ gone' = gone \cup {c}
    /\ UNCHANGED <<pc, box, ui, engineVars, sock, pending, received>>

LoseSession ==
    /\ session = "live" /\ session' = "lost"
    /\ UNCHANGED <<pc, box, ui, connected, running, seq, clients, memory, at, peerVars>>

-----------------------------------------------------------------------------
Clicks    == Connect \/ Start \/ Stop \/ Disconnect \/ CloseBox \/ Quit
StopLoop  == StopSocket \/ StopEnd
Timer     == Tick \/ TickWrite \/ TickEnd
Sockets   == \E c \in Conns :
                onAcceptConnection(c) \/ onClientDisconnected(c) \/ Flush(c) \/ Destroy(c)
Elsewhere == LoseSession \/ \E c \in Conns : PeerConnects(c) \/ PeerGone(c)

Next == Clicks \/ StopLoop \/ Timer \/ Sockets \/ Elsewhere

Spec == Init /\ [][Next]_vars

\* Handlers come to their end, the timer goes on firing, and the event loop
\* gets to every socket that has something for it.  Nothing is assumed of
\* the user, the subscribers and the server.
Fairness ==
    /\ WF_vars(StopLoop) /\ WF_vars(TickWrite \/ TickEnd)
    /\ SF_vars(Tick)
    /\ \A c \in Conns :
         SF_vars(onAcceptConnection(c) \/ onClientDisconnected(c) \/ Destroy(c))
FairSpec == Spec /\ Fairness

-----------------------------------------------------------------------------
(* What holds.                                                             *)

\* No handler finds a socket in m_clients that was closed, and so handed to
\* deleteLater, nor one twice: removal in the middle of stopBridge, at the
\* end of a stream and by clear() together never leave a dangling pointer.
ClientsAreAlive ==
    /\ \A i, j \in DOMAIN clients : clients[i] = clients[j] => i = j
    /\ ~Stopping => \A i \in DOMAIN clients : sock[clients[i]] = "open"
    /\ Stopping => \A i \in DOMAIN clients : sock[clients[i]] \in {"open", "closing"}

\* The buttons are right about the bridge whenever they can be clicked, and
\* right about the connection unless it was lost under a running bridge: a
\* start is always offered with a connection, and a bridge that has lost it
\* can be stopped.
UiKnowsState ==
    Idle => /\ ui.running = running
            /\ ui.connected # connected => running /\ ui.connected

\* Although the list moves under the loop, a stop closes every subscriber
\* when there are at most two, and more than half of them always.
StopClosesMost ==
    LET left == {i \in DOMAIN clients : sock[clients[i]] = "open"} IN
    Stopping /\ at > Len(memory) => left = {} \/ 2 * Cardinality(left) < Len(memory)

\* The subscribers see the stream that the protocol describes, with numbers
\* that go on through stops and new starts.
Stream == INSTANCE FrameStream WITH last <- seq, on <- Served, got <- received
StreamSpec == Stream!Spec

\* A subscriber that leaves is released, wherever the event loop is and
\* whether or not the bridge still serves it.
GoneAreReleased == \A c \in Conns : c \in gone ~> sock[c] = "closed"

\* PROTOCOL.md says that who connects immediately starts to receive frames:
\* a running bridge serves every connection that it has accepted.
OpenAreServed == running => \A c \in Conns : sock[c] = "open" => c \in Served
=============================================================================
