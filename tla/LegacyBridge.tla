----------------------------- MODULE LegacyBridge -----------------------------
(***************************************************************************)
(* The C bridge (src/opcua_tcp_bridge.c): one thread that goes round its   *)
(* main loop, reconnects to the OPC UA server with a growing delay, takes  *)
(* on subscribers in a fixed number of slots, and sends each of them a     *)
(* frame at every update.                                                  *)
(*                                                                         *)
(* Grain.  A call that the server, a subscriber or a signal can come in    *)
(* between is one step: each request of the reconnection, select, accept,  *)
(* the scan of the ready sockets, the update, each send.                   *)
(*                                                                         *)
(* Data.  The server is how much of what the bridge looks for it offers:   *)
(* 0 is out of reach, 1 up, 2 has the namespace, 3 the Sensors folder and  *)
(* 3 + k the first k sensors.  (The bridge looks in that order and stops   *)
(* at the first failure.)  Time passes at the head of the loop, where it   *)
(* is read.                                                                *)
(* What subscribers send is left out; that it is never read shows in Reap. *)
(***************************************************************************)
EXTENDS Integers, Sequences, FiniteSets, Functions

CONSTANTS
    Conns,         \* connections that subscribers may make, once each
    None,          \* no connection
    MaxClients,    \* MAX_CLIENTS
    SensorCount,   \* SENSOR_COUNT
    BackoffLimit,  \* 10 seconds in the code
    Turn,          \* the seconds that a turn of the loop takes, if any
    Offers,        \* what the server may come to offer
    MaxSeq         \* bound: frames numbered

ASSUME ConnsAssumption == IsFiniteSet(Conns) /\ None \notin Conns
ASSUME SizesAssumption ==
    /\ MaxClients \in Nat \ {0} /\ SensorCount \in Nat \ {0}
    /\ BackoffLimit \in Nat \ {0} /\ Turn \in Nat \ {0} /\ MaxSeq \in Nat
    /\ Offers \subseteq 0..(3 + SensorCount)

VARIABLES
    pc,        \* where the thread is
    running,   \* g_running
    known,     \* nsIdx # UA_UINT16_MAX
    ids,       \* the sensors whose node id has been found
    resolved,  \* sensorNodeIdsResolved
    backoff,   \* reconnectBackoffMs, in seconds
    waited,    \* seconds since lastReconnectAttemptMs, backoff at most
    due,       \* UPDATE_INTERVAL_MS have passed since lastUpdateMs
    seq,       \* seqCounter
    slots,     \* g_clients: the connection in each slot, or None
    ready,     \* readFds after select: connections, or None for the listener
    at,        \* the sensor or the slot that a loop is at, 1 outside of one
    sock,      \* state of each connection, on the bridge's side
    gone,      \* connections whose subscriber has closed them
    stalled,   \* subscribers that have stopped reading
    received,  \* frames sent to each connection, in order
    cut,       \* connections whose last frame was not sent whole
    offers,    \* the server
    session    \* the session with it is established

loopVars   == <<known, ids, resolved, backoff, waited, due, seq>>
serverVars == <<offers, session>>
peerVars   == <<sock, gone, stalled, received, cut>>
vars == <<pc, running, loopVars, slots, ready, at, peerVars, serverVars>>

Slots   == 1..MaxClients
Sensors == 1..SensorCount
Active  == Range(slots) \ {None}

TypeOK ==
    /\ pc \in {"loop", "connect", "namespace", "folder", "nodes", "select",
               "accept", "reap", "update", "send", "down", "end"}
    /\ running \in BOOLEAN /\ known \in BOOLEAN /\ resolved \in BOOLEAN
    /\ due \in BOOLEAN /\ session \in BOOLEAN
    /\ ids \subseteq Sensors
    /\ backoff \in 1..(2 * BackoffLimit) /\ waited \in 0..backoff
    /\ seq \in 0..MaxSeq
    /\ slots \in [Slots -> Conns \cup {None}]
    /\ ready \subseteq Conns \cup {None}
    /\ at \in Nat
    /\ sock \in [Conns -> {"none", "queued", "open", "closed"}]
    /\ gone \subseteq Conns /\ stalled \subseteq Conns /\ cut \subseteq Conns
    /\ received \in [Conns -> Seq(1..MaxSeq)]
    /\ offers \in 0..(3 + SensorCount)

\* lastReconnectAttemptMs and lastUpdateMs are 0: both are long ago.
Init ==
    /\ pc = "loop" /\ running = TRUE
    /\ known = FALSE /\ ids = {} /\ resolved = FALSE
    /\ backoff = 1 /\ waited = backoff /\ due = TRUE
    /\ seq = 0
    /\ slots = [i \in Slots |-> None]
    /\ ready = {} /\ at = 1
    /\ sock = [c \in Conns |-> "none"]
    /\ gone = {} /\ stalled = {} /\ cut = {}
    /\ received = [c \in Conns |-> << >>]
    /\ offers \in {0, 3 + SensorCount} /\ session = FALSE

-----------------------------------------------------------------------------
(* The head of the loop and the reconnection.                              *)

Later(s) == IF waited + s < backoff THEN waited + s ELSE backoff

\* Fault: only a lost connection is a reason to reconnect.
LoopHeadIfLost(s) ==
    /\ pc = "loop" /\ running
    /\ due' \in {due, TRUE} /\ (s > 0 => due')
    /\ IF ~session /\ Later(s) >= backoff
       THEN pc' = "connect" /\ waited' = 0 /\ session' = FALSE
       ELSE pc' = "select" /\ waited' = Later(s) /\ UNCHANGED session
    /\ UNCHANGED <<running, known, ids, resolved, backoff, seq, slots, ready, at,
                   peerVars, offers>>

\* s seconds have passed since the head was last here.  An attempt begins
\* with UA_Client_disconnect; its time is the one read here.
LoopHead(s) ==
    /\ pc = "loop" /\ running
    /\ due' \in {due, TRUE} /\ (s > 0 => due')
    /\ IF ~(known /\ session /\ resolved) /\ Later(s) >= backoff
       THEN pc' = "connect" /\ waited' = 0 /\ session' = FALSE
       ELSE pc' = "select" /\ waited' = Later(s) /\ UNCHANGED session
    /\ UNCHANGED <<running, known, ids, resolved, backoff, seq, slots, ready, at,
                   peerVars, offers>>

\* Fault: nothing ends the doubling.
FailDoubles == backoff' = 2 * backoff /\ pc' = "select"

\* Doubling stops only beyond the limit, and then falls back to it.
Fail ==
    /\ backoff' = IF backoff < BackoffLimit THEN 2 * backoff ELSE BackoffLimit
    /\ pc' = "select"

ConnectToServer ==
    /\ pc = "connect"
    /\ IF offers > 0 THEN session' = TRUE /\ pc' = "namespace" /\ UNCHANGED backoff
       ELSE Fail /\ UNCHANGED session
    /\ UNCHANGED <<running, known, ids, resolved, waited, due, seq, slots, ready, at,
                   peerVars, offers>>

FindNamespaceIndex ==
    /\ pc = "namespace"
    /\ IF session /\ offers >= 2
       THEN known' = TRUE /\ pc' = "folder" /\ UNCHANGED backoff
       ELSE Fail /\ UNCHANGED known
    /\ UNCHANGED <<running, ids, resolved, waited, due, seq, slots, ready, at,
                   peerVars, serverVars>>

\* The flag is set before the sensors are looked up; if the folder is not
\* found it stays as it is.
FindSensorsFolder ==
    /\ pc = "folder"
    /\ IF session /\ offers >= 3
       THEN resolved' = TRUE /\ pc' = "nodes" /\ UNCHANGED backoff
       ELSE Fail /\ UNCHANGED resolved
    /\ UNCHANGED <<running, known, ids, waited, due, seq, slots, ready, at,
                   peerVars, serverVars>>

\* Fault: the flag stays set when a sensor is missing.
BrowseToNodeKeepsFlag ==
    /\ pc = "nodes"
    /\ IF session /\ offers >= 3 + at
       THEN /\ ids' = ids \cup {at}
            /\ IF at < SensorCount
               THEN at' = at + 1 /\ UNCHANGED <<pc, backoff>>
               ELSE pc' = "select" /\ backoff' = 1 /\ at' = 1
       ELSE ids' = ids \ {at} /\ Fail /\ at' = 1
    /\ UNCHANGED <<running, known, resolved, waited, due, seq, slots, ready,
                   peerVars, serverVars>>

\* Each id is cleared before it is looked up again.
BrowseToNode ==
    /\ pc = "nodes"
    /\ IF session /\ offers >= 3 + at
       THEN /\ ids' = ids \cup {at} /\ UNCHANGED resolved
            /\ IF at < SensorCount
               THEN at' = at + 1 /\ UNCHANGED <<pc, backoff>>
               ELSE pc' = "select" /\ backoff' = 1 /\ at' = 1
       ELSE ids' = ids \ {at} /\ resolved' = FALSE /\ Fail /\ at' = 1
    /\ UNCHANGED <<running, known, waited, due, seq, slots, ready,
                   peerVars, serverVars>>

-----------------------------------------------------------------------------
(* Subscribers.                                                            *)

\* Returns after 100 ms at the latest; every descriptor in the set is open
\* (SlotsOwnSockets), so that it fails only when a signal interrupts it.
Select ==
    /\ pc = "select"
    /\ \/ /\ ready' = (Active \cap gone)
                      \cup (IF \E c \in Conns : sock[c] = "queued" THEN {None} ELSE {})
          /\ pc' = "accept"
       \/ ~running /\ pc' = "loop" /\ UNCHANGED ready
    /\ UNCHANGED <<running, loopVars, slots, at, peerVars, serverVars>>

FreeSlots == {i \in Slots : slots[i] = None}

\* Fault: with all slots taken the last one is used once more.
AcceptOverwrites(c) ==
    /\ pc = "accept" /\ None \in ready /\ sock[c] = "queued"
    /\ LET i == IF FreeSlots = {} THEN MaxClients
                ELSE CHOOSE j \in FreeSlots : \A k \in FreeSlots : j <= k IN
         slots' = [slots EXCEPT ![i] = c] /\ sock' = [sock EXCEPT ![c] = "open"]
    /\ pc' = "reap"
    /\ UNCHANGED <<running, loopVars, ready, at, gone, stalled, received, cut, serverVars>>

AcceptNewClient(c) ==
    /\ pc = "accept" /\ None \in ready /\ sock[c] = "queued"
    /\ IF FreeSlots = {} THEN sock' = [sock EXCEPT ![c] = "closed"] /\ UNCHANGED slots
       ELSE LET i == CHOOSE j \in FreeSlots : \A k \in FreeSlots : j <= k IN
              slots' = [slots EXCEPT ![i] = c] /\ sock' = [sock EXCEPT ![c] = "open"]
    /\ pc' = "reap"
    /\ UNCHANGED <<running, loopVars, ready, at, gone, stalled, received, cut, serverVars>>

\* Fault: accept is called whether or not somebody waits.
AcceptNobodyBlocks ==
    /\ pc = "accept" /\ None \in ready
    /\ pc' = "reap"
    /\ UNCHANGED <<running, loopVars, slots, ready, at, peerVars, serverVars>>

\* Nobody waits, or accept fails.
AcceptNobody ==
    /\ pc = "accept"
    /\ pc' = "reap"
    /\ UNCHANGED <<running, loopVars, slots, ready, at, peerVars, serverVars>>

RemoveClients(S) ==
    /\ slots' = [i \in Slots |-> IF slots[i] \in S THEN None ELSE slots[i]]
    /\ sock' = [c \in Conns |-> IF c \in S \cap Active THEN "closed" ELSE sock[c]]

\* recv only peeks: it finds the end of the stream, or an error, on the ready
\* sockets with nothing left to read.  A byte that a subscriber sent is never
\* read, and hides its leaving until a frame sent to it brings a reset back.
Reap ==
    /\ pc = "reap"
    /\ \E S \in SUBSET (ready \ {None}) : RemoveClients(S)
    /\ ready' = {}
    /\ pc' = "update"
    /\ UNCHANGED <<running, loopVars, at, gone, stalled, received, cut, serverVars>>

\* readSensors numbers the frame; a sensor that cannot be read counts as
\* false and stops nothing.
Update ==
    /\ pc = "update"
    /\ IF known /\ session /\ resolved /\ due /\ seq < MaxSeq
       THEN seq' = seq + 1 /\ due' = FALSE /\ pc' = "send"
       ELSE pc' = "loop" /\ UNCHANGED <<seq, due>>
    /\ UNCHANGED <<running, known, ids, resolved, backoff, waited, slots, ready, at,
                   peerVars, serverVars>>

SendNext ==
    IF at < MaxClients THEN at' = at + 1 /\ UNCHANGED pc
    ELSE pc' = "loop" /\ at' = 1

\* send waits until the subscriber has taken the whole frame.
SendWhole(c) ==
    /\ pc = "send" /\ slots[at] = c
    /\ c \notin stalled
    /\ received' = [received EXCEPT ![c] = Append(@, seq)]
    /\ SendNext
    /\ UNCHANGED <<running, loopVars, slots, ready, sock, gone, stalled, cut, serverVars>>

\* Fault: send does not wait for a subscriber that is behind.
SendSkips ==
    /\ pc = "send" /\ slots[at] \in {None} \cup stalled
    /\ SendNext
    /\ UNCHANGED <<running, loopVars, slots, ready, peerVars, serverVars>>

SendNobody ==
    /\ pc = "send" /\ slots[at] = None
    /\ SendNext
    /\ UNCHANGED <<running, loopVars, slots, ready, peerVars, serverVars>>

\* Fault: only a negative result of send counts as a failure.
SendPartKeeps(c) ==
    /\ pc = "send" /\ slots[at] = c
    /\ c \in gone \/ ~running
    /\ cut' = cut \cup {c}
    /\ SendNext
    /\ UNCHANGED <<running, loopVars, slots, ready, sock, gone, stalled, received, serverVars>>

\* The subscriber is gone, or another signal comes after a part of the frame.
SendPart(c) ==
    /\ pc = "send" /\ slots[at] = c
    /\ c \in gone \/ ~running
    /\ cut' = cut \cup {c}
    /\ RemoveClients({c})
    /\ SendNext
    /\ UNCHANGED <<running, loopVars, ready, gone, stalled, received, serverVars>>

\* The loop ends, and everything is closed; closing the listener resets the
\* connections that wait for it.
Shutdown ==
    /\ pc = "loop" /\ ~running
    /\ slots' = [i \in Slots |-> None]
    /\ sock' = [c \in Conns |-> IF c \in Active \/ sock[c] = "queued" THEN "closed" ELSE sock[c]]
    /\ session' = FALSE
    /\ pc' = "end"
    /\ UNCHANGED <<running, loopVars, ready, at, gone, stalled, received, cut, offers>>

-----------------------------------------------------------------------------
(* The environment: signals, subscribers, the server.                      *)

Signal ==
    /\ running /\ running' = FALSE
    /\ UNCHANGED <<pc, loopVars, slots, ready, at, peerVars, serverVars>>

PeerConnects(c) ==
    /\ sock[c] = "none" /\ pc # "end"
    /\ sock' = [sock EXCEPT ![c] = "queued"]
    /\ UNCHANGED <<pc, running, loopVars, slots, ready, at, gone, stalled, received, cut, serverVars>>

PeerGone(c) ==
    /\ sock[c] \in {"queued", "open"} /\ c \notin gone
    /\ gone' = gone \cup {c} /\ stalled' = stalled \ {c}
    /\ UNCHANGED <<pc, running, loopVars, slots, ready, at, sock, received, cut, serverVars>>

PeerStalls(c) ==
    /\ sock[c] = "open" /\ c \notin gone \cup stalled
    /\ stalled' = stalled \cup {c}
    /\ UNCHANGED <<pc, running, loopVars, slots, ready, at, sock, gone, received, cut, serverVars>>

PeerResumes(c) ==
    /\ c \in stalled
    /\ stalled' = stalled \ {c}
    /\ UNCHANGED <<pc, running, loopVars, slots, ready, at, sock, gone, received, cut, serverVars>>

\* The server starts and stops, or the way to it does; its nodes come and go.
ServerChanges(k) ==
    /\ offers # k
    /\ k < 2 \/ offers < 2 => 0 \in {k, offers}    \* a namespace comes with a start
    /\ offers' = k
    /\ session' = (session /\ k > 0)
    /\ UNCHANGED <<pc, running, loopVars, slots, ready, at, peerVars>>

-----------------------------------------------------------------------------
Reconnect   == ConnectToServer \/ FindNamespaceIndex \/ FindSensorsFolder \/ BrowseToNode
Send        == SendNobody \/ \E c \in Conns : SendWhole(c) \/ SendPart(c)
Accept      == AcceptNobody \/ \E c \in Conns : AcceptNewClient(c)
Loop        == \/ LoopHead(0) \/ LoopHead(Turn) \/ Reconnect \/ Select \/ Accept
               \/ Reap \/ Update \/ Send \/ Shutdown
Environment == \/ Signal
               \/ \E k \in Offers : ServerChanges(k)
               \/ \E c \in Conns : PeerConnects(c) \/ PeerGone(c) \/ PeerStalls(c) \/ PeerResumes(c)

Next == Loop \/ Environment

Spec == Init /\ [][Next]_vars

\* The thread goes on, and time with it: the head of the loop does not find
\* the same second for ever.
FairSpec == Spec /\ WF_vars(Loop) /\ SF_vars(LoopHead(Turn))

-----------------------------------------------------------------------------
(* What holds.                                                             *)

\* Every connection that was accepted and not closed is in exactly one slot,
\* and no slot keeps a closed one: nothing leaks and no descriptor in the
\* set of select is stale, through rejection, failed sends and shutdown.
SlotsOwnSockets ==
    /\ Active = {c \in Conns : sock[c] = "open"}
    /\ \A i, j \in Slots : slots[i] = slots[j] /\ slots[i] # None => i = j

\* A subscriber that was sent a part of a frame is sent nothing more, so
\* that no stream goes on in the middle of a frame.
NothingAfterPartOfFrame == cut \cap Active = {}

\* Sensors are only read with ids that have all been found, although the
\* flag is set before the first and kept through failed reconnections.
ReadsFoundIds == resolved /\ pc # "nodes" => known /\ ids = Sensors

\* The subscribers see the stream that the protocol describes: increasing
\* numbers without a gap as long as they are served.
Stream == INSTANCE FrameStream WITH last <- seq, on <- Active, got <- received
StreamSpec == Stream!Spec

\* Once the server stays with all its sensors the bridge is connected and
\* has their ids again and again, whatever the reconnections met before.
Reconnects ==
    <>[](offers = 3 + SensorCount /\ running /\ stalled = {})
        => []<>(session /\ known /\ resolved)

\* A signal ends the bridge once the subscribers read.
SignalEnds == <>[](stalled = {}) => (~running ~> pc = "end")
=============================================================================
