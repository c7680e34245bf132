------------------------- MODULE BridgeStreamProofs -------------------------
(***************************************************************************)
(* That the Go bridge keeps the promise of the protocol, FrameStream, for  *)
(* any number of handlers, subscribers, bridges and frames, as long as no  *)
(* two tick loops hold a frame at the same time; so always, if the bridge  *)
(* is started once.  StreamInv says how far each subscriber is.            *)
(***************************************************************************)
EXTENDS BridgeServiceProofs

\* A frame that has been numbered and not been sent to everybody yet.
Holds(g) == tick[g] \in {"bcast", "write"}

OneFrameAtATime == \A g, h \in Gens : Holds(g) /\ Holds(h) => g = h

\* The subscriber has still to be sent the last frame.
Due(c) == \E g \in Gens : tick[g] = "bcast" \/ (tick[g] = "write" /\ c \in todo[g])

\* The frame that is being sent is the last one; who is listed and has been
\* sent anything has had the last frame, or the one before if it is due; who
\* has not been listed yet has been sent nothing.
StreamInv ==
    /\ \A g \in Gens : Holds(g) => payload[g] = seq
    /\ \A c \in clients : received[c] # << >> =>
         received[c][Len(received[c])] = (IF Due(c) THEN seq - 1 ELSE seq)
    /\ \A c \in Conns : sock[c] = "none" => received[c] = << >>
    /\ \A g \in Gens : \A c, d \in hand[g] : c = d /\ received[c] = << >>

streamVars == <<seq, clients, received>>

\* What a step may do to a subscriber.
Refined == StreamInv' /\ [Stream!Next]_streamVars

-----------------------------------------------------------------------------
\* Nothing has been numbered or sent before the first StartBridge.
LEMMA StreamInit == Init => StreamInv /\ Stream!Init
BY DEF Init, StreamInv, Stream!Init, Holds

\* Steps that number and send nothing and list nobody.
LEMMA QuietStep ==
    ASSUME StreamInv, UNCHANGED <<seq, received>>, clients' \subseteq clients,
           \A g \in Gens : Holds(g)' => Holds(g) /\ payload'[g] = payload[g],
           \A c \in clients' : Due(c)' <=> Due(c),
           \A c \in Conns : sock'[c] = "none" => sock[c] = "none",
           \A g \in Gens : hand'[g] \subseteq hand[g]
    PROVE  Refined
<1>1. StreamInv'
  <2>1. \A g \in Gens : Holds(g)' => payload'[g] = seq'
      BY DEF StreamInv
  <2>2. \A c \in clients' : received'[c] # << >> =>
          received'[c][Len(received'[c])] = (IF Due(c)' THEN seq' - 1 ELSE seq')
      BY DEF StreamInv
  <2>3. \A c \in Conns : sock'[c] = "none" => received'[c] = << >>
      BY DEF StreamInv
  <2>4. \A g \in Gens : \A c, d \in hand'[g] : c = d /\ received'[c] = << >>
      BY DEF StreamInv
  <2> QED
      BY <2>1, <2>2, <2>3, <2>4 DEF StreamInv
<1>2. Stream!Leave
    BY DEF Stream!Leave
<1> QED
    BY <1>1, <1>2 DEF Refined, Stream!Next

\* Steps in which no loop takes up, sends or finishes a frame.
LEMMA IdleStep ==
    ASSUME StreamInv, UNCHANGED <<seq, received>>, clients' \subseteq clients,
           \A g \in Gens : /\ Holds(g)' <=> Holds(g)
                           /\ Holds(g) => tick'[g] = tick[g] /\ payload'[g] = payload[g] /\ todo'[g] = todo[g]
                           /\ hand'[g] \subseteq hand[g],
           \A c \in Conns : sock'[c] = "none" => sock[c] = "none"
    PROVE  Refined
<1>1. \A c \in clients' : Due(c)' <=> Due(c)
    BY DEF Due, Holds
<1> QED
    BY <1>1, QuietStep

\* A connection that is accepted has not been sent anything.
LEMMA AcceptStep ==
    ASSUME TypeOK, StreamInv, NEW g \in Gens, NEW c \in Conns, Accept(g, c)
    PROVE  Refined
<1>1. /\ sock[c] = "none" /\ received[c] = << >>
      /\ hand' = [hand EXCEPT ![g] = {c}] /\ sock' = [sock EXCEPT ![c] = "open"]
      /\ UNCHANGED <<seq, received, clients, tick, payload, todo>>
    BY DEF Accept, StreamInv, dataVars
<1>2. hand \in [Gens -> SUBSET Conns] /\ sock \in [Conns -> {"none", "open", "broken", "closed"}]
    BY DEF TypeOK
<1>3. \A h \in Gens : \A d, e \in hand'[h] : d = e /\ received'[d] = << >>
    BY <1>1, <1>2 DEF StreamInv
<1>4. \A d \in Conns : sock'[d] = "none" => received'[d] = << >>
    BY <1>1, <1>2 DEF StreamInv
<1>5. StreamInv'
    BY <1>1, <1>3, <1>4 DEF StreamInv, Holds, Due
<1> QED
    BY <1>1, <1>5 DEF Refined, streamVars

\* It is taken on in the middle of the stream, and only once.
LEMMA AppendStep ==
    ASSUME TypeOK, ConnInv, StreamInv, NEW g \in Gens, AcceptAppend(g)
    PROVE  Refined
<1>1. /\ clients' = clients \cup hand[g] /\ hand' = [hand EXCEPT ![g] = {}]
      /\ UNCHANGED <<seq, received, sock, tick, payload, todo>>
    BY DEF AcceptAppend, dataVars
<1>2. /\ hand \in [Gens -> SUBSET Conns] /\ \A c \in hand[g] : c \notin clients
      /\ \A c, d \in hand[g] : c = d /\ received[c] = << >>
    BY DEF TypeOK, ConnInv, StreamInv
<1>3. \A h \in Gens : \A d, e \in hand'[h] : d = e /\ received'[d] = << >>
    BY <1>1, <1>2 DEF StreamInv
<1>4. StreamInv'
    BY <1>1, <1>2, <1>3 DEF StreamInv, Holds, Due
<1>5. CASE hand[g] = {}
    BY <1>1, <1>4, <1>5 DEF Refined, streamVars
<1>6. ASSUME NEW c \in hand[g] PROVE Refined
  <2>1. c \in Conns /\ hand[g] = {c}
      BY <1>2
  <2>2. Stream!Join(c)
      BY <1>1, <1>2, <2>1 DEF Stream!Join
  <2> QED
      BY <1>4, <2>1, <2>2 DEF Refined, Stream!Next
<1> QED
    BY <1>5, <1>6

\* The frame that is numbered is the only one under way.
LEMMA NumberStep ==
    ASSUME TypeOK, StreamInv, OneFrameAtATime', NEW g \in Gens, TickNumber(g)
    PROVE  Refined
<1>1. /\ seq \in Nat /\ payload \in [Gens -> Nat] /\ tick \in [Gens -> TickPC]
    BY DEF TypeOK
<1>2. /\ tick[g] = "number" /\ seq' = seq + 1
      /\ payload' = [payload EXCEPT ![g] = seq + 1] /\ tick' = [tick EXCEPT ![g] = "bcast"]
      /\ UNCHANGED <<received, clients, sock, hand, todo>>
    BY DEF TickNumber, TickAt, TickGoto, connVars
<1>3. \A h \in Gens : Holds(h)' <=> h = g
    BY <1>1, <1>2 DEF OneFrameAtATime, Holds
<1>4. \A h \in Gens : ~Holds(h)
    BY <1>1, <1>2, <1>3 DEF Holds
<1>5. \A c : ~Due(c) /\ Due(c)'
    BY <1>1, <1>2, <1>4 DEF Holds, Due
<1>6. StreamInv'
    BY <1>1, <1>2, <1>3, <1>5 DEF StreamInv
<1>7. Stream!NewFrame
    BY <1>2 DEF Stream!NewFrame
<1> QED
    BY <1>6, <1>7 DEF Refined, Stream!Next

\* The broadcast begins with everybody listed due, as before.
LEMMA BeginStep ==
    ASSUME TypeOK, StreamInv, NEW g \in Gens, BroadcastBegin(g)
    PROVE  Refined
<1>1. tick \in [Gens -> TickPC] /\ todo \in [Gens -> SUBSET Conns]
    BY DEF TypeOK
<1>2. /\ tick[g] = "bcast" /\ tick' = [tick EXCEPT ![g] = "write"]
      /\ todo' = [todo EXCEPT ![g] = clients]
      /\ UNCHANGED <<seq, received, clients, sock, hand, payload>>
    BY DEF BroadcastBegin, TickAt, TickGoto, connVars, dataVars
<1>3. tick'[g] = "write" /\ todo'[g] = clients
    BY <1>1, <1>2
<1>4. \A c \in clients' : Due(c) /\ Due(c)'
    BY <1>2, <1>3 DEF Due
<1>5. \A h \in Gens : Holds(h)' => Holds(h)
    BY <1>1, <1>2 DEF Holds
<1> QED
    BY <1>2, <1>4, <1>5, QuietStep

\* A subscriber that is written to has had the frame before.
LEMMA WriteStep ==
    ASSUME TypeOK, ConnInv, StreamInv, OneFrameAtATime,
           NEW g \in Gens, NEW c \in Conns, BroadcastWrite(g, c)
    PROVE  Refined
<1>1. /\ seq \in Nat /\ todo \in [Gens -> SUBSET Conns] /\ received \in [Conns -> Seq(Nat)]
    BY DEF TypeOK
<1>2. /\ tick[g] = "write" /\ c \in todo[g] /\ sock[c] = "open"
      /\ received' = [received EXCEPT ![c] = Append(received[c], payload[g])]
      /\ todo' = [todo EXCEPT ![g] = todo[g] \ {c}]
      /\ UNCHANGED <<seq, clients, sock, hand, tick, payload>>
    BY DEF BroadcastWrite, TickAt, connVars
<1>3. Holds(g) /\ payload[g] = seq /\ \A h \in Gens \ {g} : ~Holds(h)
    BY <1>2 DEF StreamInv, OneFrameAtATime, Holds
<1>4. c \in clients
  <2>1. mu = g /\ g # 0
      BY <1>2 DEF ConnInv, Gens
  <2> QED
      BY <1>2, <2>1 DEF ConnInv, ListedConnsAreOpen
<1>5. Due(c) /\ ~Due(c)' /\ \A d \in Conns \ {c} : Due(d)' <=> Due(d)
    BY <1>1, <1>2, <1>3 DEF Due, Holds
<1>6. /\ received'[c] = Append(received[c], seq)
      /\ \A d \in Conns \ {c} : received'[d] = received[d]
    BY <1>1, <1>2, <1>3
<1>7. received'[c] # << >> /\ received'[c][Len(received'[c])] = seq
  <2>1. received[c] \in Seq(Nat) /\ seq \in Nat
      BY <1>1
  <2>2. ASSUME NEW s \in Seq(Nat)
        PROVE  /\ Append(s, seq) # << >> /\ Len(Append(s, seq)) = Len(s) + 1
               /\ Append(s, seq)[Len(s) + 1] = seq
    <3>1. Len(s) \in Nat /\ Len(Append(s, seq)) = Len(s) + 1 /\ Append(s, seq)[Len(s) + 1] = seq
        BY <2>1
    <3> QED
        BY <3>1
  <2> QED
      BY <1>6, <2>1, <2>2
<1>8. Stream!Deliver(c)
    BY <1>1, <1>2, <1>3, <1>4, <1>5 DEF Stream!Deliver, StreamInv
<1>9. StreamInv'
  <2>1. \A h \in Gens : Holds(h)' => payload'[h] = seq'
      BY <1>2 DEF StreamInv, Holds
  <2>2. ASSUME NEW d \in clients', received'[d] # << >>
        PROVE  received'[d][Len(received'[d])] = (IF Due(d)' THEN seq' - 1 ELSE seq')
    <3>1. d \in Conns /\ d \in clients
        BY <1>2, <2>2 DEF TypeOK
    <3>2. CASE d = c
        BY <1>2, <1>5, <1>7, <3>2
    <3>3. CASE d # c
        BY <1>2, <1>5, <1>6, <2>2, <3>1, <3>3 DEF StreamInv
    <3> QED
        BY <3>2, <3>3
  <2>3. \A d \in Conns : sock'[d] = "none" => received'[d] = << >>
      BY <1>2, <1>6 DEF StreamInv
  <2>4. \A h \in Gens : \A d, e \in hand'[h] : d = e /\ received'[d] = << >>
    <3>1. \A h \in Gens : c \notin hand[h] /\ hand[h] \subseteq Conns
        BY <1>4 DEF ConnInv, TypeOK
    <3> QED
        BY <1>2, <1>6, <3>1 DEF StreamInv
  <2> QED
      BY <2>1, <2>2, <2>3, <2>4 DEF StreamInv
<1> QED
    BY <1>8, <1>9 DEF Refined, Stream!Next

\* A subscriber that cannot be written to is let go of.
LEMMA DropStep ==
    ASSUME TypeOK, StreamInv, OneFrameAtATime,
           NEW g \in Gens, NEW c \in Conns, BroadcastDrop(g, c)
    PROVE  Refined
<1>1. todo \in [Gens -> SUBSET Conns]
    BY DEF TypeOK
<1>2. /\ tick[g] = "write" /\ clients' = clients \ {c}
      /\ todo' = [todo EXCEPT ![g] = todo[g] \ {c}]
      /\ sock' = [d \in Conns |-> IF d \in {c} THEN "closed" ELSE sock[d]]
      /\ UNCHANGED <<seq, received, hand, tick, payload>>
    BY DEF BroadcastDrop, TickAt, CloseConns, dataVars
<1>3. \A d \in clients' : Due(d)' <=> Due(d)
    BY <1>1, <1>2 DEF Due
<1>4. \A h \in Gens : Holds(h)' <=> Holds(h)
    BY <1>2 DEF Holds
<1>5. \A d \in Conns : sock'[d] = "none" => sock[d] = "none"
    BY <1>2
<1> QED
    BY <1>2, <1>3, <1>4, <1>5, QuietStep

\* A broadcast ends when nobody is due.
LEMMA EndStep ==
    ASSUME TypeOK, StreamInv, OneFrameAtATime, NEW g \in Gens, BroadcastEnd(g)
    PROVE  Refined
<1>1. tick \in [Gens -> TickPC] /\ payload \in [Gens -> Nat]
    BY DEF TypeOK
<1>2. /\ tick[g] = "write" /\ todo[g] = {}
      /\ tick' = [tick EXCEPT ![g] = "select"] /\ payload' = [payload EXCEPT ![g] = 0]
      /\ UNCHANGED <<seq, received, clients, sock, hand, todo>>
    BY DEF BroadcastEnd, TickAt, TickGoto, connVars, dataVars
<1>3. \A h \in Gens : ~Holds(h)' /\ (Holds(h) => h = g)
    BY <1>1, <1>2 DEF OneFrameAtATime, Holds
<1>4. \A c : ~Due(c)' /\ ~Due(c)
    BY <1>1, <1>2, <1>3 DEF Due, Holds
<1> QED
    BY <1>2, <1>3, <1>4, QuietStep

\* Every step is one that FrameStream allows, or changes nothing of it.
LEMMA StreamNext ==
    TypeOK /\ SpawnInv /\ ConnInv /\ StreamInv /\ OneFrameAtATime /\ OneFrameAtATime' /\ [Next]_vars
      => StreamInv' /\ [Stream!Next]_streamVars
<1> SUFFICES ASSUME TypeOK, SpawnInv, ConnInv, StreamInv, OneFrameAtATime, OneFrameAtATime', [Next]_vars
             PROVE  Refined
    BY DEF Refined
<1>a. tick \in [Gens -> TickPC]
    BY DEF TypeOK
<1> USE <1>a DEF TickAt, TickGoto, Holds, connVars, loopVars, dataVars
<1>1. ASSUME NEW t \in Handlers, StartBegin(t) PROVE Refined
    BY <1>1, IdleStep DEF StartBegin
<1>2. ASSUME NEW t \in Handlers, StartSpawn(t) PROVE Refined
  <2>1. tick[ln[t]] = "none"
      BY <1>2 DEF StartSpawn, At, SpawnInv, Threads
  <2> QED
      BY <1>2, <2>1, IdleStep DEF StartSpawn
<1>3. ASSUME NEW t \in Threads, StopBegin(t) PROVE Refined
    BY <1>3, IdleStep DEF StopBegin
<1>4. ASSUME NEW t \in Threads, StopCloseConns(t) PROVE Refined
    BY <1>4, IdleStep DEF StopCloseConns, CloseConns
<1>5. ASSUME NEW c \in Conns, WatchDisconnect(c) PROVE Refined
    BY <1>5, IdleStep DEF WatchDisconnect, CloseConns
<1>6. ASSUME NEW c \in Conns, PeerGone(c) PROVE Refined
  <2>1. \A d \in Conns : sock'[d] = "none" => sock[d] = "none"
      BY <1>6 DEF PeerGone, TypeOK
  <2> QED
      BY <1>6, <2>1, IdleStep DEF PeerGone
<1>7. ASSUME NEW g \in Gens,
             TickStop(g) \/ TickInit(g) \/ TickCheck(g) \/ TickState(g) \/ TickLost(g)
             \/ TickDone(g) \/ TickRead(g) \/ TickReadFails(g)
      PROVE  Refined
  <2>1. /\ UNCHANGED <<seq, received, clients, sock, hand, payload, todo>>
        /\ tick[g] \notin {"bcast", "write"}
        /\ \E label : label \notin {"bcast", "write"} /\ tick' = [tick EXCEPT ![g] = label]
    <3>1. CASE TickStop(g)
        BY <3>1 DEF TickStop
    <3>2. CASE TickInit(g)
        BY <3>2 DEF TickInit
    <3>3. CASE TickCheck(g)
        BY <3>3 DEF TickCheck
    <3>4. CASE TickState(g)
        BY <3>4 DEF TickState
    <3>5. CASE TickLost(g)
        BY <3>5 DEF TickLost
    <3>6. CASE TickDone(g)
        BY <3>6 DEF TickDone
    <3>7. CASE TickRead(g)
        BY <3>7 DEF TickRead
    <3>8. CASE TickReadFails(g)
        BY <3>8 DEF TickReadFails
    <3> QED
        BY <1>7, <3>1, <3>2, <3>3, <3>4, <3>5, <3>6, <3>7, <3>8
  <2> QED
      BY <2>1, IdleStep
<1>8. CASE UNCHANGED <<seq, received, clients, sock, hand, tick, payload, todo>>
    BY <1>8, IdleStep
<1> QED
    BY <1>1, <1>2, <1>3, <1>4, <1>5, <1>6, <1>7, <1>8,
       AcceptStep, AppendStep, NumberStep, BeginStep, WriteStep, DropStep, EndStep
    DEF vars, Next, Handler, Connect, StopBridge, AcceptLoop, TickLoop, TickWork, Broadcast, Environment,
        ConnectBegin, ConnectFail, ConnectDial, ConnectNoNamespace, ConnectPublish, Disconnect, StopRequest, StopNotRunning, StopCloseListener, StopCloseChan, StopWait, StopWake, AcceptError, SessionDown, SessionUp, PeerStall, PeerResume

\* What may be assumed of every state.
LEMMA StreamBasis == Spec => [](TypeOK /\ SpawnInv /\ ConnInv)
<1>1. Init => ConnInv
    BY DEF Init, ConnInv, ListedConnsAreOpen
<1> QED
    BY <1>1, TypeCorrect, SpawnInit, SpawnNext, ConnNext, PTL DEF Spec

-----------------------------------------------------------------------------
\* However often the bridge is started and stopped: as long as no tick loop
\* numbers a frame while another has still to send one, every subscriber is
\* sent every frame once and in order while it is listed.  So what
\* SequenceIncreases finds needs two loops in broadcast at once
\* (readFrame and broadcast).
THEOREM StreamsApart == Spec /\ []OneFrameAtATime => StreamSpec
<1>1. Init => StreamInv /\ Stream!Init
    BY StreamInit
<1>2. TypeOK /\ SpawnInv /\ ConnInv /\ StreamInv /\ OneFrameAtATime /\ OneFrameAtATime' /\ [Next]_vars
        => StreamInv' /\ [Stream!Next]_<<seq, clients, received>>
    BY StreamNext DEF streamVars
<1> QED
    BY <1>1, <1>2, StreamBasis, PTL DEF Spec, StreamSpec, Stream!Spec

\* A bridge that is started once implements FrameStream, however its loops
\* interleave with StopBridge, watchDisconnect and a lost session.
THEOREM StreamsOnce == ASSUME MaxGen = 1 PROVE Spec => StreamSpec
<1>1. OneFrameAtATime
    BY DEF OneFrameAtATime, Gens
<1> QED
    BY <1>1, StreamsApart, PTL

-----------------------------------------------------------------------------
\* What a subscriber has been sent are numbers without a gap, also when it is
\* no longer listed.
Gapless ==
    \A c \in Conns : \A i, j \in 1..Len(received[c]) :
        received[c][j] - received[c][i] = j - i

\* FrameStream leaves no gap.
LEMMA DeliverGapless ==
    ASSUME TypeOK, Gapless, NEW c \in Conns, Stream!Deliver(c)
    PROVE  Gapless'
<1> DEFINE n == Len(received[c])
<1>1. seq \in Nat /\ received \in [Conns -> Seq(Nat)]
    BY DEF TypeOK
<1>2. /\ received[c] = << >> \/ received[c][n] = seq - 1
      /\ received' = [received EXCEPT ![c] = Append(received[c], seq)]
    BY DEF Stream!Deliver
<1>3. /\ n \in Nat /\ \A i \in 1..n : received[c][i] \in Nat
      /\ Len(received'[c]) = n + 1
      /\ \A i \in 1..n : received'[c][i] = received[c][i]
      /\ received'[c][n + 1] = seq
    BY <1>1, <1>2
<1>4. \A i, j \in 1..n : received[c][j] - received[c][i] = j - i
    BY DEF Gapless
<1>5. \A i \in 1..n : seq - received[c][i] = n + 1 - i
  <2> SUFFICES ASSUME NEW i \in 1..n PROVE seq - received[c][i] = n + 1 - i
      OBVIOUS
  <2>1. received[c] # << >> /\ n \in 1..n
      BY <1>3
  <2>2. received[c][n] = seq - 1 /\ received[c][n] - received[c][i] = n - i
      BY <1>2, <1>4, <2>1
  <2> HIDE DEF n
  <2> QED
      BY <1>1, <1>3, <2>2
<1> HIDE DEF n
<1>6. \A i \in 1..(n + 1) : i \in 1..n \/ i = n + 1
    BY <1>3
<1>7. \A i, j \in 1..(n + 1) : received'[c][j] - received'[c][i] = j - i
  <2> SUFFICES ASSUME NEW i \in 1..(n + 1), NEW j \in 1..(n + 1)
               PROVE  received'[c][j] - received'[c][i] = j - i
      OBVIOUS
  <2>1. CASE i \in 1..n /\ j \in 1..n
      BY <1>3, <1>4, <2>1
  <2>2. CASE i \in 1..n /\ j = n + 1
      BY <1>3, <1>5, <2>2
  <2>3. CASE i = n + 1 /\ j \in 1..n
    <3>1. seq - received[c][j] = n + 1 - j /\ received[c][j] \in Nat
        BY <1>3, <1>5, <2>3
    <3> QED
        BY <1>1, <1>3, <2>3, <3>1
  <2>4. CASE i = n + 1 /\ j = n + 1
      BY <1>1, <1>3, <2>4
  <2> QED
      BY <1>6, <2>1, <2>2, <2>3, <2>4
<1>8. \A d \in Conns \ {c} : received'[d] = received[d]
    BY <1>1, <1>2
<1> SUFFICES ASSUME NEW d \in Conns
             PROVE  \A i, j \in 1..Len(received'[d]) : received'[d][j] - received'[d][i] = j - i
    BY DEF Gapless
<1>9. CASE d = c
    BY <1>3, <1>7, <1>9
<1>10. CASE d # c
  <2>1. received'[d] = received[d]
      BY <1>8, <1>10
  <2> QED
      BY <2>1 DEF Gapless
<1> QED
    BY <1>9, <1>10

\* So under the same condition the numbers that a subscriber sees increase,
\* as PROTOCOL.md says ("Monotonic sequence number").
THEOREM InOrder == Spec /\ []OneFrameAtATime => []SequenceIncreases
<1>1. Init => Gapless
    BY DEF Init, Gapless
<1>2. TypeOK /\ Gapless /\ [Stream!Next]_<<seq, clients, received>> => Gapless'
  <2> SUFFICES ASSUME TypeOK, Gapless, [Stream!Next]_<<seq, clients, received>> PROVE Gapless'
      OBVIOUS
  <2>1. CASE UNCHANGED received
      BY <2>1 DEF Gapless
  <2> QED
      BY <2>1, DeliverGapless DEF Stream!Next, Stream!NewFrame, Stream!Join, Stream!Leave
<1>3. TypeOK /\ Gapless => SequenceIncreases
  <2> SUFFICES ASSUME TypeOK, Gapless, NEW c \in Conns,
                      NEW i \in 1..Len(received[c]), NEW j \in 1..Len(received[c]), i < j
               PROVE  received[c][i] < received[c][j]
      BY DEF SequenceIncreases
  <2>1. received[c] \in Seq(Nat)
      BY DEF TypeOK
  <2>2. received[c][i] \in Nat /\ received[c][j] \in Nat
      BY <2>1
  <2>3. received[c][j] - received[c][i] = j - i /\ i \in Nat /\ j \in Nat
      BY <2>1 DEF Gapless
  <2> QED
      BY <2>2, <2>3
<1> QED
    BY <1>1, <1>2, <1>3, StreamsApart, TypeCorrect, PTL DEF Spec, StreamSpec, Stream!Spec
=============================================================================
