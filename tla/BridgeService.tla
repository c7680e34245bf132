---------------------------- MODULE BridgeService ----------------------------
(***************************************************************************)
(* The Service of the Go bridge (internal/bridge/service.go): the OPC UA   *)
(* session, the TCP listener and its subscribers, the accept and tick      *)
(* loops of a started bridge, and the HTTP handlers that call Connect,     *)
(* Disconnect, StartBridge and StopBridge at the same time.                *)
(*                                                                         *)
(* Grain.  One critical section of s.mu is one step; so is every call made *)
(* without the lock whose outcome another goroutine can observe or change. *)
(* broadcast is the only critical section that waits for somebody else (a  *)
(* subscriber), so it alone keeps the lock over several steps: mu is the   *)
(* loop that holds it, and every other critical section needs mu = 0.      *)
(*                                                                         *)
(* Data.  A started bridge is its generation 1..MaxGen, which names its    *)
(* listener, its stop channel, its two loops, and the goroutine that its   *)
(* tick loop may spawn to stop the bridge; 0 is nil.  A session and a      *)
(* connection are identities with a state.  cfg may be replaced between    *)
(* any two steps, so each use of it is a choice: the port is invalid or    *)
(* busy, the endpoint does not answer, a mapping does not parse.  lastErr  *)
(* and namespaceIdx are only ever reported, never tested, and are left     *)
(* out, and so is a call refused without changing anything.                *)
(***************************************************************************)
EXTENDS Integers, FiniteSets, Sequences

CONSTANTS
    Handlers,       \* goroutines of net/http that run the API handlers
    Conns,          \* connections that subscribers may make, once each
    StallingPeers,  \* the subscribers among them that may stop reading
    LossySessions,  \* the sessions that may go down
    MaxGen,         \* bound: bridges started
    MaxSess,        \* bound: OPC UA sessions opened
    MaxSeq          \* bound: frames numbered

ASSUME PeersAssumption  == StallingPeers \subseteq Conns
ASSUME BoundsAssumption == MaxGen \in Nat /\ MaxSess \in Nat /\ MaxSeq \in Nat
ASSUME LossAssumption   == LossySessions \subseteq 1..MaxSess
ASSUME ThreadAssumption == Handlers \cap Nat = {}

Gens     == 1..MaxGen
Sessions == 1..MaxSess
Threads  == Handlers \cup Gens   \* g runs "go func() { s.StopBridge() }" of tick loop g

VARIABLES
    mu,             \* the tick loop inside broadcast, or 0
    client,         \* s.client
    opcConnected,   \* s.opcConnected
    bridgeRunning,  \* s.bridgeRunning
    listener,       \* s.listener
    bridgeStop,     \* s.bridgeStop
    clients,        \* s.clients, as a set
    wg,             \* counter of s.bridgeWG
    seq,            \* s.seq
    gen,            \* bridges started so far
    lnClosed,       \* generations whose listener is closed
    chClosed,       \* generations whose stop channel is closed
    sess,           \* state of each session
    sock,           \* state of each connection, on the server's side
    stalled,        \* subscribers that have stopped reading
    watched,        \* connections with a watchDisconnect goroutine
    received,       \* sequence numbers written to each connection, in order
    pc,             \* where each handler or stopper is
    ln, ch, conns,  \* locals of Start- and StopBridge: ln, ch, clients
    dialed,         \* local of Connect: c
    accept, hand,   \* acceptLoop: where it is, and its conn (a set of at most one)
    tick,           \* tickLoop: where it is
    stop, cl,       \* its locals stop and cl
    payload,        \* its local payload: the frame's number
    todo            \* broadcast: connections it has still to write to

opcVars  == <<client, opcConnected, sess, dialed>>
flagVars == <<bridgeRunning, listener, bridgeStop, gen>>
endVars  == <<lnClosed, chClosed, ln, ch>>
connVars == <<clients, sock, stalled, watched, conns>>
loopVars == <<accept, hand, tick, stop, cl, payload, todo>>
dataVars == <<seq, received>>
vars == <<mu, opcVars, flagVars, endVars, connVars, loopVars, dataVars, wg, pc>>

-----------------------------------------------------------------------------
ThreadPC == {"idle", "dial", "namespace", "spawn", "stop", "closeListener",
             "closeChan", "closeConns", "wait", "waiting", "woken", "panic"}
AcceptPC == {"none", "accept", "append", "done"}
TickPC   == {"none", "init", "select", "state", "lost", "read", "number",
             "bcast", "write", "exit", "done"}

TypeOK ==
    /\ mu \in Gens \cup {0}
    /\ client \in Sessions \cup {0}
    /\ opcConnected \in BOOLEAN
    /\ bridgeRunning \in BOOLEAN
    /\ listener \in Gens \cup {0}
    /\ bridgeStop \in Gens \cup {0}
    /\ gen \in Gens \cup {0}
    /\ clients \subseteq Conns
    /\ wg \in Int
    /\ seq \in Nat
    /\ lnClosed \subseteq Gens
    /\ chClosed \subseteq Gens
    /\ sess \in [Sessions -> {"none", "open", "down", "closed"}]
    /\ sock \in [Conns -> {"none", "open", "broken", "closed"}]
    /\ stalled \subseteq StallingPeers
    /\ watched \subseteq Conns
    /\ received \in [Conns -> Seq(Nat)]
    /\ pc \in [Threads -> ThreadPC]
    /\ ln \in [Threads -> Gens \cup {0}]
    /\ ch \in [Threads -> Gens \cup {0}]
    /\ conns \in [Threads -> SUBSET Conns]
    /\ dialed \in [Threads -> Sessions \cup {0}]
    /\ accept \in [Gens -> AcceptPC]
    /\ hand \in [Gens -> SUBSET Conns]
    /\ tick \in [Gens -> TickPC]
    /\ stop \in [Gens -> Gens \cup {0}]
    /\ cl \in [Gens -> Sessions \cup {0}]
    /\ payload \in [Gens -> Nat]
    /\ todo \in [Gens -> SUBSET Conns]

Init ==
    /\ mu = 0
    /\ client = 0
    /\ opcConnected = FALSE
    /\ bridgeRunning = FALSE
    /\ listener = 0
    /\ bridgeStop = 0
    /\ gen = 0
    /\ clients = {}
    /\ wg = 0
    /\ seq = 0
    /\ lnClosed = {}
    /\ chClosed = {}
    /\ sess = [s \in Sessions |-> "none"]
    /\ sock = [c \in Conns |-> "none"]
    /\ stalled = {}
    /\ watched = {}
    /\ received = [c \in Conns |-> << >>]
    /\ pc = [t \in Threads |-> "idle"]
    /\ ln = [t \in Threads |-> 0]
    /\ ch = [t \in Threads |-> 0]
    /\ conns = [t \in Threads |-> {}]
    /\ dialed = [t \in Threads |-> 0]
    /\ accept = [g \in Gens |-> "none"]
    /\ hand = [g \in Gens |-> {}]
    /\ tick = [g \in Gens |-> "none"]
    /\ stop = [g \in Gens |-> 0]
    /\ cl = [g \in Gens |-> 0]
    /\ payload = [g \in Gens |-> 0]
    /\ todo = [g \in Gens |-> {}]

\* A panic in the goroutine that stops a lost bridge ends the process: no
\* goroutine takes another step.
Crashed == \E g \in Gens : pc[g] = "panic"
At(t, label)       == pc[t] = label /\ ~Crashed
AcceptAt(g, label) == accept[g] = label /\ ~Crashed
TickAt(g, label)   == tick[g] = label /\ ~Crashed
Locked  == mu = 0      \* s.mu can be taken: the step is a critical section
Goto(t, label) == pc' = [pc EXCEPT ![t] = label]

\* client.Close: whatever the state of the session, it is closed afterwards.
CloseSession(s) == sess' = [x \in Sessions |-> IF x = s THEN "closed" ELSE sess[x]]
CloseConns(C)   == sock' = [c \in Conns |-> IF c \in C THEN "closed" ELSE sock[c]]

-----------------------------------------------------------------------------
(* Connect.  The first critical section closes and forgets the old session.*)
ConnectBegin(t) ==
    /\ At(t, "idle") /\ Locked
    /\ ~bridgeRunning
    /\ CloseSession(client)
    /\ client' = 0
    /\ opcConnected' = FALSE
    /\ Goto(t, "dial")
    /\ UNCHANGED <<mu, dialed, flagVars, endVars, connVars, loopVars, dataVars, wg>>

\* NewClient or c.Connect returns an error.
ConnectFail(t) ==
    /\ At(t, "dial")
    /\ Goto(t, "idle")
    /\ UNCHANGED <<mu, opcVars, flagVars, endVars, connVars, loopVars, dataVars, wg>>

ConnectDial(t) ==
    /\ At(t, "dial")
    /\ \E s \in Sessions :
         /\ sess[s] = "none"
         /\ \A r \in Sessions : r < s => sess[r] # "none"
         /\ sess' = [sess EXCEPT ![s] = "open"]
         /\ dialed' = [dialed EXCEPT ![t] = s]
    /\ Goto(t, "namespace")
    /\ UNCHANGED <<mu, client, opcConnected, flagVars, endVars, connVars,
                   loopVars, dataVars, wg>>

\* FindNamespace fails: the new session is closed again.
ConnectNoNamespace(t) ==
    /\ At(t, "namespace")
    /\ CloseSession(dialed[t])
    /\ dialed' = [dialed EXCEPT ![t] = 0]
    /\ Goto(t, "idle")
    /\ UNCHANGED <<mu, client, opcConnected, flagVars, endVars, connVars,
                   loopVars, dataVars, wg>>

\* The second critical section: it tests nothing before it publishes c.
ConnectPublish(t) ==
    /\ At(t, "namespace") /\ Locked
    /\ client' = dialed[t]
    /\ opcConnected' = TRUE
    /\ dialed' = [dialed EXCEPT ![t] = 0]
    /\ Goto(t, "idle")
    /\ UNCHANGED <<mu, sess, flagVars, endVars, connVars, loopVars, dataVars, wg>>

\* Fault: the session is closed under a running bridge.
DisconnectWhileRunning(t) ==
    /\ At(t, "idle") /\ Locked
    /\ CloseSession(client)
    /\ client' = 0
    /\ opcConnected' = FALSE
    /\ UNCHANGED <<mu, dialed, flagVars, endVars, connVars, loopVars, dataVars, wg, pc>>

Disconnect(t) ==
    /\ At(t, "idle") /\ Locked
    /\ ~bridgeRunning
    /\ CloseSession(client)
    /\ client' = 0
    /\ opcConnected' = FALSE
    /\ UNCHANGED <<mu, dialed, flagVars, endVars, connVars, loopVars, dataVars, wg, pc>>

-----------------------------------------------------------------------------
(* StartBridge: the flags are set under the lock, the loops are counted    *)
(* and spawned after it is released.                                       *)
StartBegin(t) ==
    /\ At(t, "idle") /\ Locked
    /\ ~bridgeRunning
    /\ opcConnected /\ client # 0
    /\ gen < MaxGen
    /\ gen' = gen + 1
    /\ listener' = gen'
    /\ bridgeStop' = gen'
    /\ bridgeRunning' = TRUE
    /\ clients' = {}
    /\ ln' = [ln EXCEPT ![t] = gen']
    /\ Goto(t, "spawn")
    /\ UNCHANGED <<mu, opcVars, lnClosed, chClosed, ch, sock, stalled, watched,
                   conns, loopVars, dataVars, wg>>

\* Fault: only one of the two loops is counted.
StartSpawnCountsOne(t) ==
    /\ At(t, "spawn")
    /\ Locked
    /\ wg' = wg + 1
    /\ accept' = [accept EXCEPT ![ln[t]] = "accept"]
    /\ tick' = [tick EXCEPT ![ln[t]] = "init"]
    /\ ln' = [ln EXCEPT ![t] = 0]
    /\ Goto(t, "idle")
    /\ UNCHANGED <<mu, opcVars, flagVars, lnClosed, chClosed, ch, connVars,
                   hand, stop, cl, payload, todo, dataVars>>

StartSpawn(t) ==
    /\ At(t, "spawn")
    /\ Locked                                  \* clearErr
    /\ wg' = wg + 2
    /\ accept' = [accept EXCEPT ![ln[t]] = "accept"]
    /\ tick' = [tick EXCEPT ![ln[t]] = "init"]
    /\ ln' = [ln EXCEPT ![t] = 0]
    /\ Goto(t, "idle")
    /\ UNCHANGED <<mu, opcVars, flagVars, lnClosed, chClosed, ch, connVars,
                   hand, stop, cl, payload, todo, dataVars>>

-----------------------------------------------------------------------------
(* StopBridge: take everything under the lock, close it without.           *)
StopRequest(t) ==
    /\ t \in Handlers
    /\ At(t, "idle")
    /\ Goto(t, "stop")
    /\ UNCHANGED <<mu, opcVars, flagVars, endVars, connVars, loopVars, dataVars, wg>>

StopNotRunning(t) ==
    /\ At(t, "stop") /\ Locked
    /\ ~bridgeRunning
    /\ Goto(t, "idle")
    /\ UNCHANGED <<mu, opcVars, flagVars, endVars, connVars, loopVars, dataVars, wg>>

\* Fault: StopBridge does not clear s.bridgeStop.
StopBeginKeepsChan(t) ==
    /\ At(t, "stop") /\ Locked
    /\ bridgeRunning
    /\ ch' = [ch EXCEPT ![t] = bridgeStop]
    /\ ln' = [ln EXCEPT ![t] = listener]
    /\ conns' = [conns EXCEPT ![t] = clients]
    /\ listener' = 0
    /\ bridgeRunning' = FALSE
    /\ clients' = {}
    /\ Goto(t, "closeListener")
    /\ UNCHANGED <<mu, opcVars, bridgeStop, gen, lnClosed, chClosed, sock, stalled,
                   watched, loopVars, dataVars, wg>>

StopBegin(t) ==
    /\ At(t, "stop") /\ Locked
    /\ bridgeRunning
    /\ ch' = [ch EXCEPT ![t] = bridgeStop]
    /\ ln' = [ln EXCEPT ![t] = listener]
    /\ conns' = [conns EXCEPT ![t] = clients]
    /\ bridgeStop' = 0
    /\ listener' = 0
    /\ bridgeRunning' = FALSE
    /\ clients' = {}
    /\ Goto(t, "closeListener")
    /\ UNCHANGED <<mu, opcVars, gen, lnClosed, chClosed, sock, stalled, watched,
                   loopVars, dataVars, wg>>

StopCloseListener(t) ==
    /\ At(t, "closeListener")
    /\ lnClosed' = lnClosed \cup ({ln[t]} \ {0})
    /\ ln' = [ln EXCEPT ![t] = 0]
    /\ Goto(t, "closeChan")
    /\ UNCHANGED <<mu, opcVars, flagVars, chClosed, ch, connVars, loopVars, dataVars, wg>>

\* Closing a closed channel panics: NothingClosedTwice says it never is.
StopCloseChan(t) ==
    /\ At(t, "closeChan")
    /\ chClosed' = chClosed \cup ({ch[t]} \ {0})
    /\ ch' = [ch EXCEPT ![t] = 0]
    /\ Goto(t, "closeConns")
    /\ UNCHANGED <<mu, opcVars, flagVars, lnClosed, ln, connVars, loopVars, dataVars, wg>>

StopCloseConns(t) ==
    /\ At(t, "closeConns")
    /\ CloseConns(conns[t])
    /\ conns' = [conns EXCEPT ![t] = {}]
    /\ Goto(t, "wait")
    /\ UNCHANGED <<mu, opcVars, flagVars, endVars, clients, stalled, watched,
                   loopVars, dataVars, wg>>

\* bridgeWG.Wait: return at once, or sleep until the counter reaches 0.
StopWait(t) ==
    /\ At(t, "wait")
    /\ Goto(t, IF wg = 0 THEN "idle" ELSE "waiting")
    /\ UNCHANGED <<mu, opcVars, flagVars, endVars, connVars, loopVars, dataVars, wg>>

\* A waiter that wakes up to a counter that has been raised again panics;
\* net/http recovers the panic of a handler, nobody that of a stopper.
StopWake(t) ==
    /\ At(t, "woken")
    /\ Goto(t, IF wg = 0 \/ t \in Handlers THEN "idle" ELSE "panic")
    /\ UNCHANGED <<mu, opcVars, flagVars, endVars, connVars, loopVars, dataVars, wg>>

\* bridgeWG.Done, deferred by both loops: the last one wakes the waiters.
WGDone ==
    /\ wg' = wg - 1
    /\ pc' = [t \in Threads |-> IF wg = 1 /\ pc[t] = "waiting" THEN "woken" ELSE pc[t]]

-----------------------------------------------------------------------------
(* acceptLoop and watchDisconnect.                                         *)
Accept(g, c) ==
    /\ AcceptAt(g, "accept")
    /\ g \notin lnClosed
    /\ sock[c] = "none"
    /\ sock' = [sock EXCEPT ![c] = "open"]
    /\ hand' = [hand EXCEPT ![g] = {c}]
    /\ accept' = [accept EXCEPT ![g] = "append"]
    /\ UNCHANGED <<mu, opcVars, flagVars, endVars, clients, stalled, watched, conns,
                   tick, stop, cl, payload, todo, dataVars, wg, pc>>

\* Fault: the loop goes on when Accept fails.
AcceptErrorRetries(g) ==
    /\ AcceptAt(g, "accept")
    /\ UNCHANGED vars

\* ln.Accept returns an error; the loop returns on any error, so it also
\* ends on one that is not the closing of the listener.  Nobody sees it end
\* but by the counter, which its deferred Done takes down.
AcceptError(g) ==
    /\ AcceptAt(g, "accept")
    /\ accept' = [accept EXCEPT ![g] = "done"]
    /\ WGDone
    /\ UNCHANGED <<mu, opcVars, flagVars, endVars, connVars,
                   hand, tick, stop, cl, payload, todo, dataVars>>

\* Appended to s.clients whether or not the bridge still runs.
AcceptAppend(g) ==
    /\ AcceptAt(g, "append") /\ Locked
    /\ clients' = clients \cup hand[g]
    /\ watched' = watched \cup hand[g]
    /\ hand' = [hand EXCEPT ![g] = {}]
    /\ accept' = [accept EXCEPT ![g] = "accept"]
    /\ UNCHANGED <<mu, opcVars, flagVars, endVars, sock, stalled, conns,
                   tick, stop, cl, payload, todo, dataVars, wg, pc>>

\* c.Read fails: the peer has gone, or the connection was closed here.
WatchDisconnect(c) ==
    /\ c \in watched /\ Locked /\ ~Crashed
    /\ sock[c] \in {"broken", "closed"}
    /\ clients' = clients \ {c}
    /\ CloseConns({c})
    /\ watched' = watched \ {c}
    /\ UNCHANGED <<mu, opcVars, flagVars, endVars, stalled, conns, loopVars,
                   dataVars, wg, pc>>

-----------------------------------------------------------------------------
(* tickLoop.                                                               *)
TickGoto(g, label) == tick' = [tick EXCEPT ![g] = label]

\* The loop reads s.bridgeStop only now, whatever it has become.
TickInit(g) ==
    /\ TickAt(g, "init") /\ Locked
    /\ stop' = [stop EXCEPT ![g] = bridgeStop]
    /\ TickGoto(g, "select")
    /\ UNCHANGED <<mu, opcVars, flagVars, endVars, connVars, accept, hand,
                   cl, payload, todo, dataVars, wg, pc>>

\* Fault: a break where the return is, which leaves the select only.
TickStopBreaks(g) ==
    /\ TickAt(g, "select")
    /\ stop[g] \in chClosed
    /\ UNCHANGED vars

\* case <-stop: a nil channel is never ready.
TickStop(g) ==
    /\ TickAt(g, "select")
    /\ stop[g] \in chClosed
    /\ TickGoto(g, "exit")
    /\ UNCHANGED <<mu, opcVars, flagVars, endVars, connVars, accept, hand,
                   stop, cl, payload, todo, dataVars, wg, pc>>

\* case <-t.C: a tick that finds the bridge idle changes nothing.
TickCheck(g) ==
    /\ TickAt(g, "select") /\ Locked
    /\ bridgeRunning /\ opcConnected /\ client # 0
    /\ cl' = [cl EXCEPT ![g] = client]
    /\ TickGoto(g, "state")
    /\ UNCHANGED <<mu, opcVars, flagVars, endVars, connVars, accept, hand,
                   stop, payload, todo, dataVars, wg, pc>>

\* cl.State(), outside the lock.
TickState(g) ==
    /\ TickAt(g, "state")
    /\ TickGoto(g, IF sess[cl[g]] = "open" THEN "read" ELSE "lost")
    /\ cl' = [cl EXCEPT ![g] = 0]
    /\ UNCHANGED <<mu, opcVars, flagVars, endVars, connVars, accept, hand,
                   stop, payload, todo, dataVars, wg, pc>>

\* Fault: nobody is sent to stop the bridge.
TickLostNoStopper(g) ==
    /\ TickAt(g, "lost") /\ Locked
    /\ opcConnected' = FALSE
    /\ TickGoto(g, "exit")
    /\ UNCHANGED <<mu, client, sess, dialed, flagVars, endVars, connVars,
                   accept, hand, stop, cl, payload, todo, dataVars, wg, pc>>

\* opcConnected is cleared and a goroutine spawned to stop the bridge,
\* whichever bridge is running by now.
TickLost(g) ==
    /\ TickAt(g, "lost") /\ Locked
    /\ opcConnected' = FALSE
    /\ Goto(g, "stop")
    /\ TickGoto(g, "exit")
    /\ UNCHANGED <<mu, client, sess, dialed, flagVars, endVars, connVars,
                   accept, hand, stop, cl, payload, todo, dataVars, wg>>

TickDone(g) ==
    /\ TickAt(g, "exit")
    /\ TickGoto(g, "done")
    /\ WGDone
    /\ UNCHANGED <<mu, opcVars, flagVars, endVars, connVars, accept, hand,
                   stop, cl, payload, todo, dataVars>>

\* readFrame, first with the lock: is there still a client?
TickRead(g) ==
    /\ TickAt(g, "read") /\ Locked
    /\ client # 0
    /\ TickGoto(g, "number")
    /\ UNCHANGED <<mu, opcVars, flagVars, endVars, connVars, accept, hand,
                   stop, cl, payload, todo, dataVars, wg, pc>>

\* Fault: the frame carries the counter as it was before the previous frame.
TickNumberOffByOne(g) ==
    /\ TickAt(g, "number")
    /\ seq < MaxSeq
    /\ seq' = seq + 1
    /\ payload' = [payload EXCEPT ![g] = seq - 1]
    /\ TickGoto(g, "bcast")
    /\ UNCHANGED <<mu, opcVars, flagVars, endVars, connVars, accept, hand,
                   stop, cl, todo, received, wg, pc>>

\* Fault: the counter is not atomic, it is loaded first and stored later.
TickNumberTwoSteps(g) ==
    /\ TickAt(g, "number")
    /\ \/ /\ payload[g] = 0
          /\ seq < MaxSeq
          /\ payload' = [payload EXCEPT ![g] = seq + 1]
          /\ UNCHANGED <<seq, tick>>
       \/ /\ payload[g] # 0
          /\ seq' = payload[g]
          /\ TickGoto(g, "bcast")
          /\ UNCHANGED payload
    /\ UNCHANGED <<mu, opcVars, flagVars, endVars, connVars, accept, hand,
                   stop, cl, todo, received, wg, pc>>

\* Then without it: the frame is numbered, by an atomic increment, once every
\* mapping has been read, whoever holds the lock by then and whatever has
\* become of the client; a mapping that cannot be read is sent as false and
\* stops nothing.
TickNumber(g) ==
    /\ TickAt(g, "number")
    /\ seq < MaxSeq
    /\ seq' = seq + 1
    /\ payload' = [payload EXCEPT ![g] = seq']
    /\ TickGoto(g, "bcast")
    /\ UNCHANGED <<mu, opcVars, flagVars, endVars, connVars, accept, hand,
                   stop, cl, todo, received, wg, pc>>

\* Fault: the frame is numbered before it is read.
TickReadFailsCounts(g) ==
    /\ TickAt(g, "number")
    /\ seq' = IF seq < MaxSeq THEN seq + 1 ELSE seq
    /\ TickGoto(g, "select")
    /\ UNCHANGED <<mu, opcVars, flagVars, endVars, connVars, accept, hand,
                   stop, cl, payload, todo, received, wg, pc>>

\* readFrame fails: there is no client any more, or a mapping does not parse.
TickReadFails(g) ==
    /\ \/ TickAt(g, "read") /\ Locked /\ client = 0
       \/ TickAt(g, "number")
    /\ TickGoto(g, "select")
    /\ UNCHANGED <<mu, opcVars, flagVars, endVars, connVars, accept, hand,
                   stop, cl, payload, todo, dataVars, wg, pc>>

BroadcastBegin(g) ==
    /\ TickAt(g, "bcast") /\ Locked
    /\ mu' = g
    /\ todo' = [todo EXCEPT ![g] = clients]
    /\ TickGoto(g, "write")
    /\ UNCHANGED <<opcVars, flagVars, endVars, connVars, accept, hand,
                   stop, cl, payload, dataVars, wg, pc>>

\* conn.Write returns only when the subscriber takes the frame.
BroadcastWrite(g, c) ==
    /\ TickAt(g, "write")
    /\ c \in todo[g]
    /\ sock[c] = "open" /\ c \notin stalled
    /\ received' = [received EXCEPT ![c] = Append(@, payload[g])]
    /\ todo' = [todo EXCEPT ![g] = @ \ {c}]
    /\ UNCHANGED <<mu, opcVars, flagVars, endVars, connVars, accept, hand, tick,
                   stop, cl, payload, seq, wg, pc>>

\* Fault: the closed connection is kept in alive.
BroadcastDropKeeps(g, c) ==
    /\ TickAt(g, "write")
    /\ c \in todo[g]
    /\ sock[c] # "open"
    /\ CloseConns({c})
    /\ todo' = [todo EXCEPT ![g] = @ \ {c}]
    /\ UNCHANGED <<mu, opcVars, flagVars, endVars, clients, stalled, watched, conns,
                   accept, hand, tick, stop, cl, payload, dataVars, wg, pc>>

\* A failed Write: the connection is closed and not kept in alive.
BroadcastDrop(g, c) ==
    /\ TickAt(g, "write")
    /\ c \in todo[g]
    /\ sock[c] # "open"
    /\ CloseConns({c})
    /\ clients' = clients \ {c}
    /\ todo' = [todo EXCEPT ![g] = @ \ {c}]
    /\ UNCHANGED <<mu, opcVars, flagVars, endVars, stalled, watched, conns,
                   accept, hand, tick, stop, cl, payload, dataVars, wg, pc>>

\* Fault: the lock is not released.
BroadcastEndKeepsLock(g) ==
    /\ TickAt(g, "write")
    /\ todo[g] = {}
    /\ payload' = [payload EXCEPT ![g] = 0]
    /\ TickGoto(g, "select")
    /\ UNCHANGED <<mu, opcVars, flagVars, endVars, connVars, accept, hand,
                   stop, cl, todo, dataVars, wg, pc>>

BroadcastEnd(g) ==
    /\ TickAt(g, "write")
    /\ todo[g] = {}
    /\ mu' = 0
    /\ payload' = [payload EXCEPT ![g] = 0]
    /\ TickGoto(g, "select")
    /\ UNCHANGED <<opcVars, flagVars, endVars, connVars, accept, hand,
                   stop, cl, todo, dataVars, wg, pc>>

-----------------------------------------------------------------------------
(* The environment: the OPC UA server and the subscribers.  gopcua         *)
(* reconnects a session that went down by itself.                          *)
SessionDown(s) ==
    /\ s \in LossySessions
    /\ sess[s] = "open"
    /\ sess' = [sess EXCEPT ![s] = "down"]
    /\ UNCHANGED <<mu, client, opcConnected, dialed, flagVars, endVars, connVars,
                   loopVars, dataVars, wg, pc>>

SessionUp(s) ==
    /\ sess[s] = "down"
    /\ sess' = [sess EXCEPT ![s] = "open"]
    /\ UNCHANGED <<mu, client, opcConnected, dialed, flagVars, endVars, connVars,
                   loopVars, dataVars, wg, pc>>

PeerGone(c) ==
    /\ sock[c] = "open"
    /\ sock' = [sock EXCEPT ![c] = "broken"]
    /\ stalled' = stalled \ {c}
    /\ UNCHANGED <<mu, opcVars, flagVars, endVars, clients, watched, conns,
                   loopVars, dataVars, wg, pc>>

PeerStall(c) ==
    /\ c \in StallingPeers \ stalled
    /\ sock[c] = "open"
    /\ stalled' = stalled \cup {c}
    /\ UNCHANGED <<mu, opcVars, flagVars, endVars, clients, sock, watched, conns,
                   loopVars, dataVars, wg, pc>>

PeerResume(c) ==
    /\ c \in stalled
    /\ stalled' = stalled \ {c}
    /\ UNCHANGED <<mu, opcVars, flagVars, endVars, clients, sock, watched, conns,
                   loopVars, dataVars, wg, pc>>

-----------------------------------------------------------------------------
Connect(t)    == ConnectFail(t) \/ ConnectDial(t) \/ ConnectNoNamespace(t) \/ ConnectPublish(t)
StopBridge(t) == \/ StopNotRunning(t) \/ StopBegin(t) \/ StopCloseListener(t)
                 \/ StopCloseChan(t) \/ StopCloseConns(t) \/ StopWait(t) \/ StopWake(t)

Handler(t)    == ConnectBegin(t) \/ Connect(t) \/ Disconnect(t) \/ StartBegin(t)
                 \/ StartSpawn(t) \/ StopRequest(t)
AcceptLoop(g) == (\E c \in Conns : Accept(g, c)) \/ AcceptError(g) \/ AcceptAppend(g)
Broadcast(g)  == \/ BroadcastBegin(g) \/ BroadcastEnd(g)
                 \/ \E c \in Conns : BroadcastWrite(g, c) \/ BroadcastDrop(g, c)
TickWork(g)   == TickInit(g) \/ TickCheck(g) \/ TickState(g) \/ TickLost(g) \/ TickDone(g)
                 \/ TickRead(g) \/ TickNumber(g) \/ TickReadFails(g) \/ Broadcast(g)
TickLoop(g)   == TickStop(g) \/ TickWork(g)
Environment   == \/ \E s \in Sessions : SessionDown(s) \/ SessionUp(s)
                 \/ \E c \in Conns : PeerGone(c) \/ PeerStall(c) \/ PeerResume(c)

Next == \/ \E t \in Handlers : Handler(t)
        \/ \E t \in Threads : StopBridge(t)
        \/ \E g \in Gens : AcceptLoop(g) \/ TickLoop(g)
        \/ \E c \in Conns : WatchDisconnect(c)
        \/ Environment

Spec == Init /\ [][Next]_vars

(* Fairness.  The Go scheduler runs every goroutine that can run, and its  *)
(* mutex does not starve a waiter, hence strong fairness for the steps     *)
(* that need the lock; select picks at random among the ready cases, hence *)
(* strong fairness for the stop case alone.  A dial ends, one way or the   *)
(* other.  A new request, an accept error, a subscriber or the server owe  *)
(* nothing.                                                                *)
Fairness ==
    /\ \A t \in Threads : SF_vars(StopBridge(t))
    /\ \A t \in Handlers : SF_vars(Connect(t) \/ StartSpawn(t))
    /\ \A g \in Gens :
         /\ SF_vars(TickStop(g))
         /\ SF_vars(TickWork(g))
         /\ SF_vars(AcceptAppend(g))
         /\ WF_vars(g \in lnClosed /\ AcceptError(g))
    /\ \A c \in Conns : SF_vars(WatchDisconnect(c))

FairSpec == Spec /\ Fairness

-----------------------------------------------------------------------------
(* Safety.                                                                 *)

\* The fields set together stay together: the bridge runs exactly while it
\* has a listener and a stop channel, those of the last bridge started, and
\* then it has a client (Connect, Disconnect and StopBridge each clear a
\* part of these fields under a test of another part).
RunningConsistent ==
    /\ listener = (IF bridgeRunning THEN gen ELSE 0)
    /\ bridgeStop = listener
    /\ bridgeRunning => client # 0

\* Every listener and every stop channel has one owner at a time: the
\* service while it is current, then the one StopBridge that took it, and
\* nobody once it is closed.  So two concurrent StopBridge calls never close
\* the same channel twice, which would panic.
NothingClosedTwice ==
    /\ bridgeStop \notin chClosed /\ listener \notin lnClosed
    /\ \A t \in Threads :
         /\ ch[t] # 0 => ch[t] \notin chClosed \cup {bridgeStop}
         /\ pc[t] = "closeListener" => ln[t] \notin lnClosed \cup {0, listener}
         /\ \A u \in Threads \ {t} :
              /\ ch[t] # 0 => ch[u] # ch[t]
              /\ pc[t] = "closeListener" /\ pc[u] = "closeListener" => ln[u] # ln[t]

\* A bridge that runs on a connection known to be lost has a StopBridge on
\* its way that has not taken the lock yet: a degraded bridge cannot be
\* reached and left alone, however the handlers interleave with the loops.
DegradedHasStopper ==
    bridgeRunning /\ ~opcConnected => \E g \in Gens : pc[g] = "stop"

\* A frame is only ever written to connections that the service still lists
\* and that nobody has closed: StopBridge and watchDisconnect cannot take a
\* connection out of the hands of a broadcast.
ListedConnsAreOpen ==
    /\ \A c \in clients : sock[c] \in {"open", "broken"}
    /\ mu # 0 => todo[mu] \subseteq clients
    /\ \A t \in Threads : conns[t] \cap clients = {}

\* The loops counted in bridgeWG are exactly the loops that still run.
LiveLoops == {g \in Gens : accept[g] \notin {"none", "done"}}
LiveTicks == {g \in Gens : tick[g] \notin {"none", "done"}}
WGCountsLoops == wg = Cardinality(LiveLoops) + Cardinality(LiveTicks)

\* No subscriber gets the same frame number twice, also while two tick loops
\* run side by side.
NoFrameTwice ==
    \A c \in Conns : \A i, j \in 1..Len(received[c]) :
        received[c][i] = received[c][j] => i = j

\* The loops of a bridge are spawned once, by the StartBridge that started it.
SpawnInv ==
    /\ \A g \in Gens : g > gen => tick[g] = "none" /\ accept[g] = "none"
    /\ \A t \in Threads : pc[t] = "spawn" =>
         /\ ln[t] \in 1..gen
         /\ tick[ln[t]] = "none" /\ accept[ln[t]] = "none"
         /\ \A u \in Threads \ {t} : pc[u] = "spawn" => ln[u] # ln[t]

\* The inductive strengthening of RunningConsistent and NothingClosedTwice:
\* nothing is taken or closed before it was started, what is held is held in
\* the right place, and a tick loop that has not given up has no stopper.
OwnershipInv ==
    /\ RunningConsistent
    /\ NothingClosedTwice
    /\ bridgeRunning => gen # 0
    /\ \A g \in chClosed \cup lnClosed : 0 < g /\ g <= gen
    /\ \A t \in Threads :
         /\ ch[t] <= gen /\ ln[t] <= gen
         /\ ch[t] # 0 => pc[t] \in {"closeListener", "closeChan"}
         /\ pc[t] = "namespace" => dialed[t] # 0
    /\ \A g \in Gens : tick[g] \notin {"exit", "done"} => pc[g] = "idle"

\* The inductive strengthening of ListedConnsAreOpen: only the loop inside
\* broadcast holds the lock, and a connection just accepted is in one pair
\* of hands, not listed, not watched and not closed.
ConnInv ==
    /\ ListedConnsAreOpen
    /\ mu # 0 => tick[mu] = "write"
    /\ \A g \in Gens : tick[g] = "write" => mu = g
    /\ \A c \in Conns : sock[c] = "none" =>
         c \notin watched /\ \A t \in Threads : c \notin conns[t]
    /\ \A g \in Gens : \A c \in hand[g] :
         /\ sock[c] \in {"open", "broken"}
         /\ c \notin clients \cup watched
         /\ \A t \in Threads : c \notin conns[t]
         /\ \A h \in Gens \ {g} : c \notin hand[h]

\* A bridge started once keeps the promise of the protocol: increasing
\* numbers without a gap, however its loops interleave with StopBridge,
\* watchDisconnect and a lost session.  (With two bridges it does not, see
\* SequenceIncreases.)
Stream == INSTANCE FrameStream WITH last <- seq, on <- clients, got <- received
StreamSpec == Stream!Spec

(* What the documentation claims and the code does not keep.               *)

\* "Monotonic sequence number": a subscriber sees increasing numbers.
SequenceIncreases ==
    \A c \in Conns : \A i, j \in 1..Len(received[c]) :
        i < j => received[c][i] < received[c][j]

(* Liveness.                                                               *)

\* A StopBridge that has been asked for takes effect.
StopTakesEffect == \A t \in Threads : pc[t] = "stop" ~> pc[t] # "stop" \/ Crashed

\* A bridge whose session stays lost is stopped by its own tick loop.
LostSessionStopsBridge ==
    (bridgeRunning /\ sess[client] # "open")
        ~> (~bridgeRunning \/ Crashed \/ sess[client] = "open")

\* A loop ends once StopBridge has closed what it waits on: the accept loop
\* its listener, the tick loop the stop channel that it picked up.
ClosedEndsLoops ==
    \A g \in Gens :
        /\ (g \in lnClosed /\ accept[g] # "none") ~> (accept[g] = "done" \/ Crashed)
        /\ stop[g] \in chClosed ~> (tick[g] = "done" \/ Crashed)
=============================================================================
