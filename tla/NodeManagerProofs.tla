------------------------- MODULE NodeManagerProofs --------------------------
(* That the switch of the simulation cannot be lost, for any nodes, any    *)
(* seed and any size of the configuration, also when it is full; and that  *)
(* while it has room, listing, address space and slots agree.              *)
EXTENDS NodeManager, SubsequenceProofs

\* Listing, file and address space are functions from names to parents.
SpaceType ==
    /\ pending \subseteq DOMAIN config
    /\ config \in Configs /\ space \in Configs
    /\ disk \in Configs \cup {EmptyFile, CutFile}

\* No node hangs below one that does not exist.
ParentsExist == \A n \in DOMAIN space : space[n] \in DOMAIN space \cup {Objects}

\* C is a set of nodes that hold the switch: each is listed, exists or is to
\* be created, and hangs where it is listed, below another of them, or below
\* Objects.
Holds(C) ==
    /\ SimNode \in C
    /\ C \subseteq DOMAIN config
    /\ C \subseteq DOMAIN space \cup pending
    /\ \A n \in C \cap DOMAIN space : space[n] = Objects \/ (space[n] = config[n] /\ space[n] \in C)

\* There is such a set.  While nodes are created it is the whole listing.
SimNodeHeld == \E C \in SUBSET Names : Holds(C) /\ (pending # {} => C = DOMAIN config /\ DOMAIN space \subseteq C)

\* What a restart may find lists the switch.
FileHasSimNode == disk \in Configs => SimNode \in DOMAIN disk

Inv == SpaceType /\ ParentsExist /\ SimNodeHeld /\ FileHasSimNode

-----------------------------------------------------------------------------
\* What is in Configs is a function from names to parents.
LEMMA ConfigsAreFunctions ==
    \A f : f \in Configs <=> /\ DOMAIN f \subseteq Names
                            /\ f = [n \in DOMAIN f |-> f[n]]
                            /\ \A n \in DOMAIN f : f[n] \in Parents
<1>1. ASSUME NEW f \in Configs
      PROVE  /\ DOMAIN f \subseteq Names
             /\ f = [n \in DOMAIN f |-> f[n]]
             /\ \A n \in DOMAIN f : f[n] \in Parents
  <2>1. PICK N \in SUBSET Names : f \in [N -> Parents]
      BY DEF Configs
  <2> QED
      BY <2>1
<1>2. ASSUME NEW f, DOMAIN f \subseteq Names, f = [n \in DOMAIN f |-> f[n]],
             \A n \in DOMAIN f : f[n] \in Parents
      PROVE  f \in Configs
  <2>1. f \in [DOMAIN f -> Parents]
      BY <1>2
  <2> QED
      BY <1>2, <2>1 DEF Configs
<1> QED
    BY <1>1, <1>2

\* The seed is a configuration.
LEMMA SeedIsConfig == SimNode \in DOMAIN Seed /\ Seed \in Configs
BY SeedAssumption

\* Whatever a save leaves is a file, and one that loads lists the switch.
LEMMA SaveKeepsSimNode ==
    ASSUME SpaceType, FileHasSimNode, Save, config' \in Configs, SimNode \in DOMAIN config'
    PROVE  disk' \in Configs \cup {EmptyFile, CutFile} /\ FileHasSimNode'
BY SeedAssumption DEF Save, SpaceType, FileHasSimNode

\* A node that is created hangs below one that exists, or below Objects.
LEMMA CreateKeepsSpace ==
    ASSUME SpaceType, ParentsExist, NEW n \in Names, NEW p \in Parents, CreateNode(n, p)
    PROVE  space' \in Configs /\ ParentsExist'
<1>1. ResolveParent(p) \in Parents /\ ResolveParent(p) \in DOMAIN space \cup {Objects}
    BY DEF ResolveParent, Parents
<1>2. /\ DOMAIN space' = DOMAIN space \cup {n}
      /\ \A m \in DOMAIN space' : space'[m] = IF m = n THEN ResolveParent(p) ELSE space[m]
      /\ space' = [m \in DOMAIN space' |-> space'[m]]
    BY DEF CreateNode
<1>3. space' \in Configs
    BY <1>1, <1>2, ConfigsAreFunctions DEF SpaceType
<1> QED
    BY <1>1, <1>2, <1>3 DEF ParentsExist

\* Nothing that stays after a deletion hangs below what goes.
LEMMA BelowIsClosed ==
    ASSUME NEW n, NEW m \in DOMAIN space, space[m] \in Below(n)
    PROVE  m \in Below(n)
BY DEF Below

\* What holds the switch does not go with a node that is not among it.
LEMMA BelowSparesHolders ==
    ASSUME SpaceType, NEW n \in Names, NEW C \in SUBSET Names, n \notin C,
           \A x \in C \cap DOMAIN space : space[x] \in C \cup {Objects}
    PROVE  Below(n) \cap C = {}
<1> DEFINE S == Names \ C
<1>1. \A m \in DOMAIN space : space[m] \in S => m \in S
    BY ConfigsAreFunctions, NamesAssumption DEF SpaceType
<1>2. S \in SUBSET Names /\ n \in S
    OBVIOUS
<1> HIDE DEF S
<1>3. \A m \in Below(n) : m \in S
    BY <1>1, <1>2 DEF Below
<1> QED
    BY <1>3 DEF S

-----------------------------------------------------------------------------
\* The first start: everything that is listed is still to be created.
LEMMA InitInv == Init => Inv
<1> SUFFICES ASSUME Init PROVE Inv
    OBVIOUS
<1>1. DOMAIN space = {} /\ space \in Configs
  <2>1. DOMAIN space = {} /\ space = [n \in DOMAIN space |-> space[n]]
      BY DEF Init, Empty
  <2> QED
      BY <2>1, ConfigsAreFunctions
<1>2. SpaceType
    BY <1>1, SeedIsConfig DEF Init, SpaceType
<1>3. ParentsExist
    BY <1>1 DEF ParentsExist
<1>4. SimNodeHeld
  <2>1. DOMAIN config \in SUBSET Names
      BY <1>2, ConfigsAreFunctions DEF SpaceType
  <2>2. Holds(DOMAIN config)
      BY <1>1, SeedIsConfig DEF Init, Holds
  <2> QED
      BY <1>1, <2>1, <2>2 DEF SimNodeHeld
<1>5. FileHasSimNode
    BY SeedAssumption DEF Init, FileHasSimNode
<1> QED
    BY <1>2, <1>3, <1>4, <1>5 DEF Inv

\* A restart begins with the file, or with the seed.
LEMMA RestartInv == Inv /\ Restart => Inv'
<1> SUFFICES ASSUME Inv, Restart PROVE Inv'
    OBVIOUS
<1>1. config' \in Configs /\ SimNode \in DOMAIN config'
    BY SeedIsConfig DEF Restart, Inv, SpaceType, FileHasSimNode
<1>2. disk' \in Configs \cup {EmptyFile, CutFile} /\ FileHasSimNode'
    BY <1>1, SaveKeepsSimNode DEF Restart, Inv, SpaceType, FileHasSimNode
<1>3. DOMAIN space' = {} /\ space' \in Configs
  <2>1. DOMAIN space' = {} /\ space' = [n \in DOMAIN space' |-> space'[n]]
      BY DEF Restart, Empty
  <2> QED
      BY <2>1, ConfigsAreFunctions
<1>4. SpaceType'
    BY <1>1, <1>2, <1>3 DEF Restart, SpaceType
<1>5. SimNodeHeld'
  <2>1. DOMAIN config' \in SUBSET Names
      BY <1>1, ConfigsAreFunctions
  <2>2. Holds(DOMAIN config)'
      BY <1>1, <1>3 DEF Restart, Holds
  <2> QED
      BY <1>3, <2>1, <2>2 DEF SimNodeHeld
<1> QED
    BY <1>2, <1>3, <1>4, <1>5 DEF Inv, ParentsExist

\* Start-up creates a listed node below one that exists, which is listed too.
LEMMA BuildInv == \A n \in Names : Inv /\ BuildNode(n) => Inv'
<1> SUFFICES ASSUME NEW n \in Names, Inv, BuildNode(n) PROVE Inv'
    OBVIOUS
<1> USE DEF Inv
<1>1. /\ n \in pending /\ pending' = pending \ {n} /\ CreateNode(n, config[n])
      /\ UNCHANGED <<config, disk>>
    BY DEF BuildNode
<1>2. config[n] \in Parents
    BY <1>1, ConfigsAreFunctions DEF SpaceType
<1>3. space' \in Configs /\ ParentsExist'
    BY <1>1, <1>2, CreateKeepsSpace
<1>4. SimNodeHeld'
  <2>1. Holds(DOMAIN config) /\ DOMAIN space \subseteq DOMAIN config
      BY <1>1 DEF SimNodeHeld
  <2>2. /\ DOMAIN space' = DOMAIN space \cup {n}
        /\ \A m \in DOMAIN space' : space'[m] = IF m = n THEN ResolveParent(config[n]) ELSE space[m]
      BY <1>1 DEF CreateNode
  <2>3. ResolveParent(config[n]) = Objects
        \/ (ResolveParent(config[n]) = config[n] /\ config[n] \in DOMAIN config)
      BY <2>1 DEF ResolveParent
  <2>4. Holds(DOMAIN config)'
      BY <1>1, <2>1, <2>2, <2>3 DEF Holds, SpaceType
  <2>5. DOMAIN config' \in SUBSET Names /\ DOMAIN space' \subseteq DOMAIN config'
      BY <1>1, <2>1, <2>2, ConfigsAreFunctions DEF SpaceType
  <2> QED
      BY <2>4, <2>5 DEF SimNodeHeld
<1> QED
    BY <1>1, <1>3, <1>4 DEF SpaceType, FileHasSimNode

\* A node that a request adds changes nothing about what holds the switch:
\* it is not listed yet.
LEMMA AddInv == \A n \in Addable, p \in NewParents : Inv /\ AddNode(n, p) => Inv'
<1> SUFFICES ASSUME NEW n \in Addable, NEW p \in NewParents, Inv, AddNode(n, p) PROVE Inv'
    OBVIOUS
<1> USE DEF Inv
<1>1. /\ n \in Names \ DOMAIN config /\ p \in Parents
      /\ n \notin DOMAIN space
      /\ pending = {} /\ pending' = {}
      /\ CreateNode(n, p) /\ ListNode(n, p)
    BY InputAssumption DEF AddNode, Ready, Names
<1>2. space' \in Configs /\ ParentsExist'
    BY <1>1, CreateKeepsSpace
<1>3. /\ config' \in Configs
      /\ DOMAIN config \subseteq DOMAIN config'
      /\ \A m \in DOMAIN config : config'[m] = config[m]
  <2>1. CASE UNCHANGED <<config, disk>>
      BY <2>1 DEF SpaceType
  <2>2. CASE config' = [m \in DOMAIN config \cup {n} |-> IF m = n THEN p ELSE config[m]]
    <3>1. /\ DOMAIN config' = DOMAIN config \cup {n}
          /\ config' = [m \in DOMAIN config' |-> config'[m]]
          /\ \A m \in DOMAIN config' : config'[m] = IF m = n THEN p ELSE config[m]
        BY <2>2
    <3> QED
        BY <1>1, <3>1, ConfigsAreFunctions DEF SpaceType
  <2> QED
      BY <1>1, <2>1, <2>2 DEF ListNode
<1>4. SimNode \in DOMAIN config
    BY DEF SimNodeHeld, Holds
<1>5. disk' \in Configs \cup {EmptyFile, CutFile} /\ FileHasSimNode'
    BY <1>1, <1>3, <1>4, SaveKeepsSimNode DEF ListNode, SpaceType, FileHasSimNode
<1>6. SimNodeHeld'
  <2>1. PICK C \in SUBSET Names : Holds(C)
      BY DEF SimNodeHeld
  <2>2. /\ DOMAIN space' = DOMAIN space \cup {n}
        /\ \A m \in DOMAIN space' : m # n => space'[m] = space[m]
      BY <1>1 DEF CreateNode
  <2>3. Holds(C)'
      BY <1>1, <1>3, <2>1, <2>2 DEF Holds
  <2> QED
      BY <1>1, <2>3 DEF SimNodeHeld
<1> QED
    BY <1>1, <1>2, <1>3, <1>5, <1>6 DEF SpaceType

\* A node that a request deletes has no listed child; so what holds the
\* switch does without it, and none of that hangs below it.
LEMMA DeleteInv == \A n \in Names : Inv /\ DeleteNode(n) => Inv'
<1> SUFFICES ASSUME NEW n \in Names, Inv, DeleteNode(n) PROVE Inv'
    OBVIOUS
<1> USE DEF Inv
<1>1. /\ n \in DOMAIN config \ {SimNode} /\ ~HasChildren(n)
      /\ pending = {} /\ pending' = {} /\ Save
    BY DEF DeleteNode, Ready
<1>2. /\ DOMAIN space' = DOMAIN space \ Below(n)
      /\ space' = [m \in DOMAIN space' |-> space'[m]]
      /\ \A m \in DOMAIN space' : space'[m] = space[m]
    BY DEF DeleteNode
<1>3. /\ DOMAIN config' = DOMAIN config \ {n}
      /\ config' = [m \in DOMAIN config' |-> config'[m]]
      /\ \A m \in DOMAIN config' : config'[m] = config[m]
    BY DEF DeleteNode
<1>4. space' \in Configs /\ config' \in Configs
    BY <1>2, <1>3, ConfigsAreFunctions DEF SpaceType
<1>5. ParentsExist'
    BY <1>2, BelowIsClosed DEF ParentsExist
<1>6. SimNodeHeld' /\ SimNode \in DOMAIN config'
  <2>1. PICK C \in SUBSET Names : Holds(C)
      BY DEF SimNodeHeld
  <2> DEFINE D == C \ {n}
  <2>2. \A x \in D \cap DOMAIN space : space[x] \in D \cup {Objects}
      BY <1>1, <2>1 DEF Holds, HasChildren
  <2>3. Below(n) \cap D = {}
      BY <2>1, <2>2, BelowSparesHolders
  <2>4. Holds(D)'
      BY <1>1, <1>2, <1>3, <2>1, <2>2, <2>3 DEF Holds
  <2> QED
      BY <1>1, <2>1, <2>4 DEF SimNodeHeld, Holds
<1>7. disk' \in Configs \cup {EmptyFile, CutFile} /\ FileHasSimNode'
    BY <1>1, <1>4, <1>6, SaveKeepsSimNode
<1> QED
    BY <1>1, <1>4, <1>5, <1>6, <1>7 DEF SpaceType

\* Values, ticks and overrides leave the nodes alone.
LEMMA OtherInv ==
    ASSUME Inv, UNCHANGED <<pending, config, space>>, UNCHANGED disk \/ Save
    PROVE  Inv'
<1> USE DEF Inv
<1>1. SpaceType' /\ FileHasSimNode'
  <2>1. config' \in Configs /\ SimNode \in DOMAIN config'
      BY DEF SpaceType, SimNodeHeld, Holds
  <2> QED
      BY <2>1, SaveKeepsSimNode DEF SpaceType, FileHasSimNode
<1>2. ParentsExist' /\ SimNodeHeld'
    BY DEF ParentsExist, SimNodeHeld, Holds
<1> QED
    BY <1>1, <1>2

\* Every step of either thread keeps the invariant.
LEMMA NextInv == Inv /\ [Next]_vars => Inv'
<1> SUFFICES ASSUME Inv, [Next]_vars PROVE Inv'
    OBVIOUS
<1>1. ASSUME NEW e \in BOOLEAN, SetSimulationEnabled(e) PROVE Inv'
    BY <1>1, OtherInv DEF SetSimulationEnabled, spaceVars
<1>2. CASE ResetOverrides \/ Tick
    BY <1>2, OtherInv DEF ResetOverrides, Tick, spaceVars
<1>3. CASE PutConfig
    BY <1>3, OtherInv DEF PutConfig
<1>4. ASSUME NEW n \in Written, NEW v \in BOOLEAN, ClientWrite(n, v) PROVE Inv'
    BY <1>4, OtherInv DEF ClientWrite, spaceVars
<1>5. ASSUME NEW t \in Threads, Work(t) PROVE Inv'
    BY <1>5, OtherInv DEF Work, WriteValue, SensorCallback, SimulationCallback, spaceVars
<1>6. CASE UNCHANGED vars
    BY <1>6, OtherInv DEF vars, spaceVars
<1> QED
    BY <1>1, <1>2, <1>3, <1>4, <1>5, <1>6, RestartInv, BuildInv, AddInv, DeleteInv
    DEF Next, Http, Main

-----------------------------------------------------------------------------
\* However nodes are added and deleted, saves fail and the server restarts,
\* the switch of the simulation exists or is about to, hangs below nodes
\* that exist, and is in every file that loads (node_manager_delete and
\* server_config_save); also when the listing is full.
THEOREM SimNodeStays == Spec => []SimNodeReachable
<1>1. Inv => SimNodeReachable
    BY DEF Inv, ParentsExist, SimNodeHeld, Holds, FileHasSimNode, SimNodeReachable
<1> QED
    BY InitInv, NextInv, <1>1, PTL DEF Spec

-----------------------------------------------------------------------------
(* While the configuration has room for every node.                        *)

Room == Cardinality(Names) <= MaxNodes

\* The slots are a sequence of records, one for each sensor.
SlotInv ==
    /\ Len(slots) \in Nat /\ DOMAIN slots = 1..Len(slots)
    /\ slots = [i \in 1..Len(slots) |-> slots[i]]
    /\ \A i \in 1..Len(slots) : "name" \in DOMAIN slots[i]
    /\ SlotsAreSensors

RoomInv == Inv /\ ConfigIsSpace /\ SlotInv

\* A listing without one of the names is not full.
LEMMA NotFull ==
    ASSUME Room, NEW f \in Configs, NEW n \in Names \ DOMAIN f
    PROVE  Cardinality(DOMAIN f) < MaxNodes
<1>1. IsFiniteSet(Names) /\ DOMAIN f \cup {n} \subseteq Names
    BY NamesAssumption, ConfigsAreFunctions
<1>2. /\ IsFiniteSet(DOMAIN f \cup {n}) /\ IsFiniteSet(DOMAIN f)
      /\ Cardinality(DOMAIN f \cup {n}) <= Cardinality(Names)
    BY <1>1, FS_Subset
<1>3. Cardinality(DOMAIN f \cup {n}) = Cardinality(DOMAIN f) + 1
    BY <1>2, FS_AddElement
<1> QED
    BY <1>1, <1>2, <1>3, FS_CardinalityType, SizeAssumption DEF Room

\* Nothing hangs below a node without listed children.
LEMMA NothingBelow ==
    ASSUME Inv, ConfigIsSpace, pending = {}, NEW n \in DOMAIN config, ~HasChildren(n)
    PROVE  Below(n) = {n}
<1>1. n \in Names /\ n # Objects /\ DOMAIN space = DOMAIN config
    BY ConfigsAreFunctions, NamesAssumption DEF Inv, SpaceType, ConfigIsSpace
<1>2. \A m \in DOMAIN space : space[m] # n
    BY <1>1 DEF ConfigIsSpace, HasChildren
<1>3. \A m \in DOMAIN space : space[m] \in {n} => m \in {n}
    BY <1>2
<1>4. Below(n) \subseteq {n}
    BY <1>1, <1>3 DEF Below
<1>5. n \in Below(n)
    BY <1>1 DEF Below
<1> QED
    BY <1>4, <1>5

\* A sequence with one element more.
LEMMA Appended ==
    ASSUME NEW s, Len(s) \in Nat, s = [i \in 1..Len(s) |-> s[i]], NEW e
    PROVE  /\ Len(Append(s, e)) = Len(s) + 1
           /\ Append(s, e) = [i \in 1..(Len(s) + 1) |-> Append(s, e)[i]]
           /\ \A i \in 1..Len(s) : Append(s, e)[i] = s[i]
           /\ Append(s, e)[Len(s) + 1] = e
<1> DEFINE S == {s[i] : i \in 1..Len(s)} \cup {e}
<1>1. s \in [1..Len(s) -> S]
    OBVIOUS
<1>2. s \in Seq(S) /\ e \in S
    BY <1>1
<1> DEFINE t == Append(s, e)
<1> HIDE DEF S
<1>3. /\ t \in Seq(S) /\ Len(t) = Len(s) + 1
      /\ \A i \in 1..Len(s) : t[i] = s[i]
      /\ t[Len(s) + 1] = e
    BY <1>2
<1> HIDE DEF t
<1>4. t = [i \in 1..Len(t) |-> t[i]]
    BY <1>3
<1> QED
    BY <1>3, <1>4 DEF t

\* A sequence with one element less.
LEMMA Removed ==
    ASSUME NEW s, Len(s) \in Nat, s = [i \in 1..Len(s) |-> s[i]], NEW k \in 1..Len(s)
    PROVE  /\ Len(RemoveAt(s, k)) = Len(s) - 1
           /\ RemoveAt(s, k) = [i \in 1..(Len(s) - 1) |-> RemoveAt(s, k)[i]]
           /\ \A i \in 1..(Len(s) - 1) :
                RemoveAt(s, k)[i] = IF i < k THEN s[i] ELSE s[i + 1]
<1> DEFINE S == {s[i] : i \in 1..Len(s)}
           A == SubSeq(s, 1, k - 1)
           B == SubSeq(s, k + 1, Len(s))
<1>1. s \in [1..Len(s) -> S]
    OBVIOUS
<1>2. s \in Seq(S)
    BY <1>1
<1> HIDE DEF S
<1>3. /\ A \in Seq(S) /\ Len(A) = k - 1
      /\ \A i \in 1..(k - 1) : A[i] = s[i]
    BY <1>2
<1>4. /\ B \in Seq(S) /\ Len(B) = Len(s) - k
      /\ \A i \in 1..(Len(s) - k) : B[i] = s[i + k]
    BY <1>2
<1> DEFINE t == A \o B
<1> HIDE DEF A, B
<1>5. /\ t \in Seq(S) /\ Len(t) = Len(A) + Len(B)
      /\ \A i \in 1..Len(A) : t[i] = A[i]
      /\ \A i \in (Len(A) + 1)..(Len(A) + Len(B)) : t[i] = B[i - Len(A)]
  <2>1. A \in Seq(S) /\ B \in Seq(S)
      BY <1>3, <1>4
  <2>2. t \in Seq(S) /\ Len(t) = Len(A) + Len(B)
      BY <2>1
  <2>3. \A i \in 1..Len(A) : t[i] = A[i]
      BY <2>1
  <2>4. \A i \in (Len(A) + 1)..(Len(A) + Len(B)) : t[i] = B[i - Len(A)]
      BY <2>1
  <2> QED
      BY <2>2, <2>3, <2>4
<1> HIDE DEF t
<1>6. Len(t) = Len(s) - 1 /\ t = [i \in 1..Len(t) |-> t[i]]
    BY <1>3, <1>4, <1>5
<1>7. ASSUME NEW i \in 1..(Len(s) - 1)
      PROVE  t[i] = IF i < k THEN s[i] ELSE s[i + 1]
  <2>1. CASE i < k
    <3>1. i \in 1..(k - 1) /\ i \in 1..Len(A)
        BY <1>3, <2>1
    <3> QED
        BY <1>3, <1>5, <2>1, <3>1
  <2>2. CASE ~(i < k)
    <3>1. /\ i \in (Len(A) + 1)..(Len(A) + Len(B)) /\ i - Len(A) = i - k + 1
          /\ i - k + 1 \in 1..(Len(s) - k) /\ i - k + 1 + k = i + 1
        BY <1>3, <1>4, <2>2
    <3> QED
        BY <1>4, <1>5, <2>2, <3>1
  <2> QED
      BY <2>1, <2>2
<1>8. RemoveAt(s, k) = t
    BY DEF RemoveAt, t, A, B
<1> QED
    BY <1>6, <1>7, <1>8

\* A sensor that is new gets a slot of its own.
LEMMA AddedSlot ==
    ASSUME SlotInv, NEW n \in Sensors \ DOMAIN space, AddSlot(n),
           DOMAIN space' = DOMAIN space \cup {n}
    PROVE  SlotInv'
<1> DEFINE k == Len(slots)
<1>1. k \in Nat /\ slots = [i \in 1..k |-> slots[i]] /\ slots' = Append(slots, Slot(n))
    BY DEF SlotInv, AddSlot
<1>2. /\ Len(slots') = k + 1
      /\ slots' = [i \in 1..(k + 1) |-> slots'[i]]
      /\ \A i \in 1..k : slots'[i] = slots[i]
      /\ slots'[k + 1] = Slot(n)
    BY <1>1, Appended
<1>3. Slot(n).name = n /\ "name" \in DOMAIN Slot(n)
    BY DEF Slot
<1>4. /\ \A i \in 1..(k + 1) : i \in 1..k \/ i = k + 1
      /\ \A i \in 1..k : i \in 1..(k + 1)
      /\ k + 1 \in 1..(k + 1)
    BY <1>1
<1>5. {slots[i].name : i \in 1..k} = Sensors \cap DOMAIN space
    BY DEF SlotInv, SlotsAreSensors
<1>6. \A i \in 1..k : slots[i].name # n
    BY <1>5
<1>7. {slots'[i].name : i \in 1..(k + 1)} = {slots[i].name : i \in 1..k} \cup {n}
    BY <1>2, <1>3, <1>4
<1>8. {slots'[i].name : i \in 1..(k + 1)} = Sensors \cap DOMAIN space'
    BY <1>5, <1>7
<1>9. \A i, j \in 1..(k + 1) : slots'[i].name = slots'[j].name => i = j
    BY <1>2, <1>3, <1>4, <1>6 DEF SlotInv, SlotsAreSensors
<1>10. k + 1 \in Nat /\ \A i \in 1..(k + 1) : "name" \in DOMAIN slots'[i]
    BY <1>1, <1>2, <1>3, <1>4 DEF SlotInv
<1> HIDE DEF k
<1> QED
    BY <1>2, <1>8, <1>9, <1>10 DEF SlotInv, SlotsAreSensors

\* Steps that leave the names in the slots and the nodes as they are.
LEMMA SameSlots ==
    ASSUME SlotInv, UNCHANGED space,
           slots' = [i \in 1..Len(slots) |-> slots'[i]],
           \A i \in 1..Len(slots) : slots'[i].name = slots[i].name /\ "name" \in DOMAIN slots'[i]
    PROVE  SlotInv'
<1>1. Len(slots') = Len(slots) /\ DOMAIN slots' = 1..Len(slots)
    BY DEF SlotInv
<1>2. {slots'[i].name : i \in 1..Len(slots)} = {slots[i].name : i \in 1..Len(slots)}
    OBVIOUS
<1> QED
    BY <1>1, <1>2 DEF SlotInv, SlotsAreSensors

\* A deletion takes the slot of the sensor, if it is one.
LEMMA DeletedSlot ==
    ASSUME SlotInv, NEW n \in Names, n \in DOMAIN space, RemoveSlot(n),
           DOMAIN space' = DOMAIN space \ {n}
    PROVE  SlotInv'
<1> DEFINE k == Len(slots)
           I == {i \in 1..k : slots[i].name = n}
<1>1. k \in Nat /\ slots = [i \in 1..k |-> slots[i]]
    BY DEF SlotInv
<1>2. {slots[i].name : i \in 1..k} = Sensors \cap DOMAIN space
    BY DEF SlotInv, SlotsAreSensors
<1>3. slots' = LET i == IF I # {} THEN Min(I) ELSE 0
               IN  IF i = 0 THEN slots ELSE RemoveAt(slots, i)
    BY DEF RemoveSlot, SelectInSeq
<1>4. CASE n \notin Sensors
  <2>1. I = {} /\ slots' = slots
      BY <1>2, <1>3, <1>4
  <2>2. Sensors \cap DOMAIN space' = Sensors \cap DOMAIN space
      BY <1>4
  <2> QED
      BY <2>1, <2>2 DEF SlotInv, SlotsAreSensors
<1>5. CASE n \in Sensors
  <2>1. PICK p \in 1..k : slots[p].name = n
      BY <1>2, <1>5
  <2>2. I = {p}
      BY <2>1 DEF SlotInv, SlotsAreSensors
  <2>3. Min(I) = p
      BY <2>1, <2>2 DEF Min
  <2>4. slots' = RemoveAt(slots, p)
      BY <1>3, <2>1, <2>2, <2>3
  <2>5. /\ Len(slots') = k - 1
        /\ slots' = [i \in 1..(k - 1) |-> slots'[i]]
        /\ \A i \in 1..(k - 1) : slots'[i] = IF i < p THEN slots[i] ELSE slots[i + 1]
    <3>1. /\ Len(RemoveAt(slots, p)) = k - 1
          /\ RemoveAt(slots, p) = [i \in 1..(k - 1) |-> RemoveAt(slots, p)[i]]
          /\ \A i \in 1..(k - 1) :
               RemoveAt(slots, p)[i] = IF i < p THEN slots[i] ELSE slots[i + 1]
        BY <1>1, <2>1, Removed
    <3> QED
        BY <2>4, <3>1, Zenon
  <2>6. \A i \in 1..(k - 1) : /\ (IF i < p THEN i ELSE i + 1) \in 1..k
                              /\ (IF i < p THEN i ELSE i + 1) # p
                              /\ slots'[i] = slots[IF i < p THEN i ELSE i + 1]
      BY <1>1, <2>1, <2>5
  <2>7. \A i \in 1..k : i # p => \E j \in 1..(k - 1) : slots'[j] = slots[i]
    <3> SUFFICES ASSUME NEW i \in 1..k, i # p
                 PROVE  \E j \in 1..(k - 1) : slots'[j] = slots[i]
        OBVIOUS
    <3>1. CASE i < p
        BY <1>1, <2>1, <2>5, <3>1
    <3>2. CASE i > p
      <4>1. i - 1 \in 1..(k - 1) /\ ~(i - 1 < p) /\ i - 1 + 1 = i
          BY <1>1, <2>1, <3>2
      <4> QED
          BY <2>5, <4>1
    <3> QED
        BY <1>1, <2>1, <3>1, <3>2
  <2>8. {slots'[i].name : i \in 1..(k - 1)} = {slots[i].name : i \in 1..k} \ {n}
    <3>1. \A i \in 1..k : i # p => slots[i].name # n
        BY <2>2
    <3>2. \A i \in 1..(k - 1) : \E j \in 1..k : slots'[i].name = slots[j].name /\ slots[j].name # n
        BY <2>6, <3>1
    <3>3. \A j \in 1..k : slots[j].name # n => \E i \in 1..(k - 1) : slots'[i].name = slots[j].name
        BY <2>1, <2>7
    <3> HIDE DEF k
    <3>4. \A x : x \in {slots'[i].name : i \in 1..(k - 1)}
                 => x \in {slots[i].name : i \in 1..k} \ {n}
        BY <3>2
    <3>5. \A x : x \in {slots[i].name : i \in 1..k} \ {n}
                 => x \in {slots'[i].name : i \in 1..(k - 1)}
        BY <3>3
    <3> QED
        BY <3>4, <3>5
  <2>9. {slots'[i].name : i \in 1..(k - 1)} = Sensors \cap DOMAIN space'
      BY <1>2, <2>8
  <2>10. \A i, j \in 1..(k - 1) : slots'[i].name = slots'[j].name => i = j
    <3> SUFFICES ASSUME NEW i \in 1..(k - 1), NEW j \in 1..(k - 1), slots'[i].name = slots'[j].name
                 PROVE  i = j
        OBVIOUS
    <3>1. (IF i < p THEN i ELSE i + 1) = (IF j < p THEN j ELSE j + 1)
        BY <2>6 DEF SlotInv, SlotsAreSensors
    <3> QED
        BY <1>1, <2>1, <3>1
  <2>11. k - 1 \in Nat /\ \A i \in 1..(k - 1) : "name" \in DOMAIN slots'[i]
      BY <1>1, <2>1, <2>6 DEF SlotInv
  <2> HIDE DEF k
  <2> QED
      BY <2>5, <2>9, <2>10, <2>11 DEF SlotInv, SlotsAreSensors
<1> QED
    BY <1>4, <1>5

-----------------------------------------------------------------------------
\* A process that starts has neither nodes nor slots.
LEMMA EmptySlots ==
    ASSUME slots' = << >>, DOMAIN space' = {}
    PROVE  SlotInv'
<1>1. Len(slots') = 0 /\ 1..0 = {}
    OBVIOUS
<1>2. slots' = [i \in 1..0 |-> slots'[i]] /\ DOMAIN slots' = 1..0
    BY <1>1
<1>3. SlotsAreSensors'
    BY <1>1 DEF SlotsAreSensors
<1> QED
    BY <1>1, <1>2, <1>3 DEF SlotInv

\* At the first start the listing is the seed, and nothing is created yet.
LEMMA InitRoom == Init => ConfigIsSpace /\ SlotInv
<1> SUFFICES ASSUME Init PROVE ConfigIsSpace /\ SlotInv
    OBVIOUS
<1>1. DOMAIN space = {} /\ DOMAIN config \ pending = {} /\ slots = << >>
    BY DEF Init, Empty
<1>2. Len(slots) = 0 /\ 1..0 = {}
    BY <1>1
<1>3. slots = [i \in 1..0 |-> slots[i]] /\ DOMAIN slots = 1..0
    BY <1>1, <1>2
<1>4. SlotsAreSensors
    BY <1>1, <1>2 DEF SlotsAreSensors
<1> QED
    BY <1>1, <1>2, <1>3, <1>4 DEF ConfigIsSpace, SlotInv

\* After a restart it is what the file lists, likewise.
LEMMA RestartRoom == Restart => (ConfigIsSpace /\ SlotInv)'
<1> SUFFICES ASSUME Restart PROVE (ConfigIsSpace /\ SlotInv)'
    OBVIOUS
<1>1. DOMAIN space' = {} /\ DOMAIN config' \ pending' = {} /\ slots' = << >>
    BY DEF Restart, Empty
<1> QED
    BY <1>1, EmptySlots DEF ConfigIsSpace

\* Start-up creates a node that is listed, and its slot.
LEMMA BuildRoom == \A n \in Names : RoomInv /\ BuildNode(n) => (ConfigIsSpace /\ SlotInv)'
<1> SUFFICES ASSUME NEW n \in Names, RoomInv, BuildNode(n) PROVE (ConfigIsSpace /\ SlotInv)'
    OBVIOUS
<1>1. /\ n \in pending /\ pending' = pending \ {n} /\ UNCHANGED config
      /\ CreateNode(n, config[n])
      /\ IF n \in Sensors THEN AddSlot(n) ELSE UNCHANGED slotVars
    BY DEF BuildNode
<1>2. /\ DOMAIN space' = DOMAIN space \cup {n}
      /\ \A m \in DOMAIN space' : space'[m] = IF m = n THEN ResolveParent(config[n]) ELSE space[m]
    BY <1>1 DEF CreateNode
<1>3. pending \subseteq DOMAIN config /\ n \notin DOMAIN space
    BY <1>1 DEF RoomInv, Inv, SpaceType, ConfigIsSpace
<1>4. ResolveParent(config[n]) \in {config[n], Objects}
    BY DEF ResolveParent
<1>5. ConfigIsSpace'
    BY <1>1, <1>2, <1>3, <1>4 DEF RoomInv, ConfigIsSpace
<1>6. CASE n \in Sensors
    BY <1>1, <1>2, <1>3, <1>5, <1>6, AddedSlot DEF RoomInv
<1>7. CASE n \notin Sensors
  <2>1. slots' = slots /\ Sensors \cap DOMAIN space' = Sensors \cap DOMAIN space
      BY <1>1, <1>2, <1>7 DEF slotVars
  <2> QED
      BY <1>5, <2>1 DEF RoomInv, SlotInv, SlotsAreSensors
<1> QED
    BY <1>6, <1>7

\* A node that a request adds is listed, since there is room, and gets its
\* slot.
LEMMA AddRoom ==
    ASSUME Room, NEW n \in Addable, NEW p \in NewParents, RoomInv, AddNode(n, p)
    PROVE  (ConfigIsSpace /\ SlotInv)'
<1>1. /\ n \in Names \ DOMAIN config /\ n \notin DOMAIN space
      /\ pending = {} /\ pending' = {}
      /\ CreateNode(n, p) /\ ListNode(n, p)
      /\ IF n \in Sensors THEN AddSlot(n) ELSE UNCHANGED slotVars
    BY InputAssumption DEF AddNode, Ready, Names
<1>2. /\ DOMAIN space' = DOMAIN space \cup {n}
      /\ \A m \in DOMAIN space' : space'[m] = IF m = n THEN ResolveParent(p) ELSE space[m]
    BY <1>1 DEF CreateNode
<1>3. config' = [m \in DOMAIN config \cup {n} |-> IF m = n THEN p ELSE config[m]]
    BY <1>1, NotFull DEF ListNode, RoomInv, Inv, SpaceType
<1>4. /\ DOMAIN config' = DOMAIN config \cup {n}
      /\ \A m \in DOMAIN config' : config'[m] = IF m = n THEN p ELSE config[m]
    BY <1>3
<1>5. ResolveParent(p) \in {p, Objects}
    BY DEF ResolveParent
<1>6. ConfigIsSpace'
    BY <1>1, <1>2, <1>4, <1>5 DEF RoomInv, ConfigIsSpace
<1>7. CASE n \in Sensors
    BY <1>1, <1>2, <1>6, <1>7, AddedSlot DEF RoomInv
<1>8. CASE n \notin Sensors
  <2>1. slots' = slots /\ Sensors \cap DOMAIN space' = Sensors \cap DOMAIN space
      BY <1>1, <1>2, <1>8 DEF slotVars
  <2> QED
      BY <1>6, <2>1 DEF RoomInv, SlotInv, SlotsAreSensors
<1> QED
    BY <1>7, <1>8

\* A deletion takes one node, its place in the listing, and its slot.
LEMMA DeleteRoom == \A n \in Names : RoomInv /\ DeleteNode(n) => (ConfigIsSpace /\ SlotInv)'
<1> SUFFICES ASSUME NEW n \in Names, RoomInv, DeleteNode(n) PROVE (ConfigIsSpace /\ SlotInv)'
    OBVIOUS
<1>1. /\ n \in DOMAIN config /\ ~HasChildren(n) /\ pending = {} /\ pending' = {}
      /\ RemoveSlot(n)
    BY DEF DeleteNode, Ready
<1>2. Below(n) = {n} /\ n \in DOMAIN space
    BY <1>1, NothingBelow DEF RoomInv, ConfigIsSpace
<1>3. /\ DOMAIN space' = DOMAIN space \ {n}
      /\ \A m \in DOMAIN space' : space'[m] = space[m]
    BY <1>2 DEF DeleteNode
<1>4. /\ DOMAIN config' = DOMAIN config \ {n}
      /\ \A m \in DOMAIN config' : config'[m] = config[m]
    BY DEF DeleteNode
<1>5. ConfigIsSpace'
    BY <1>1, <1>3, <1>4 DEF RoomInv, ConfigIsSpace
<1> QED
    BY <1>1, <1>2, <1>3, <1>5, DeletedSlot DEF RoomInv

\* Ticks, requests and callbacks write to the slots, but leave the names.
LEMMA OtherRoom ==
    ASSUME RoomInv, UNCHANGED <<pending, config, space>>,
           \/ UNCHANGED slots
           \/ Tick
           \/ ResetOverrides
           \/ \E e : Release(e)
           \/ \E t \in Threads : SensorCallback(t)
    PROVE  (ConfigIsSpace /\ SlotInv)'
<1>1. ConfigIsSpace'
    BY DEF RoomInv, ConfigIsSpace
<1>2. SlotInv
    BY DEF RoomInv
<1>3. CASE UNCHANGED slots
    BY <1>1, <1>2, <1>3, SameSlots DEF SlotInv
<1>4. CASE Tick
    BY <1>1, <1>2, <1>4, SameSlots DEF Tick, SlotInv
<1>5. CASE ResetOverrides
    BY <1>1, <1>2, <1>5, SameSlots DEF ResetOverrides, SlotInv
<1>6. ASSUME NEW e, Release(e) PROVE (ConfigIsSpace /\ SlotInv)'
    BY <1>1, <1>2, <1>6, SameSlots DEF Release, SlotInv
<1>7. ASSUME NEW t \in Threads, SensorCallback(t) PROVE (ConfigIsSpace /\ SlotInv)'
    BY <1>1, <1>2, <1>7, SameSlots DEF SensorCallback, SlotInv
<1> QED
    BY <1>3, <1>4, <1>5, <1>6, <1>7

\* Every step of either thread keeps listing, address space and slots in step.
LEMMA NextRoom == Room /\ RoomInv /\ [Next]_vars => RoomInv'
<1> SUFFICES ASSUME Room, RoomInv, [Next]_vars PROVE RoomInv'
    OBVIOUS
<1> SUFFICES (ConfigIsSpace /\ SlotInv)'
    BY NextInv DEF RoomInv
<1>1. ASSUME NEW e \in BOOLEAN, SetSimulationEnabled(e) PROVE (ConfigIsSpace /\ SlotInv)'
    BY <1>1, OtherRoom DEF SetSimulationEnabled, spaceVars
<1>2. CASE ResetOverrides \/ Tick
    BY <1>2, OtherRoom DEF ResetOverrides, Tick, spaceVars
<1>3. CASE PutConfig
    BY <1>3, OtherRoom DEF PutConfig, slotVars
<1>4. ASSUME NEW n \in Written, NEW v \in BOOLEAN, ClientWrite(n, v) PROVE (ConfigIsSpace /\ SlotInv)'
    BY <1>4, OtherRoom DEF ClientWrite, spaceVars, slotVars
<1>5. ASSUME NEW t \in Threads, Work(t) PROVE (ConfigIsSpace /\ SlotInv)'
  <2>1. CASE WriteValue(t)
      BY <2>1, OtherRoom DEF WriteValue, spaceVars, slotVars
  <2>2. CASE SensorCallback(t)
      BY <2>2, OtherRoom DEF SensorCallback, spaceVars
  <2>3. CASE SimulationCallback(t)
      BY <2>3, OtherRoom DEF SimulationCallback, spaceVars
  <2> QED
      BY <1>5, <2>1, <2>2, <2>3 DEF Work
<1>6. CASE UNCHANGED vars
    BY <1>6, OtherRoom DEF vars, spaceVars, slotVars
<1> QED
    BY <1>1, <1>2, <1>3, <1>4, <1>5, <1>6, RestartRoom, BuildRoom, AddRoom, DeleteRoom
    DEF Next, Http, Main

\* The three agree throughout.
LEMMA RoomInvariant == ASSUME Room PROVE Spec => []RoomInv
<1>1. Init => RoomInv
    BY InitInv, InitRoom DEF RoomInv
<1>2. RoomInv /\ [Next]_vars => RoomInv'
    BY NextRoom
<1> QED
    BY <1>1, <1>2, PTL DEF Spec

\* While the configuration has room for every name, it lists exactly the
\* nodes that exist, each below its listed parent or Objects, through any
\* additions, deletions, failed saves and restarts (node_manager_add_folder,
\* node_manager_add_variable, node_manager_delete, node_manager_build).
THEOREM ListingIsSpace == ASSUME Room PROVE Spec => []ConfigIsSpace
<1>1. RoomInv => ConfigIsSpace
    BY DEF RoomInv
<1> QED
    BY RoomInvariant, <1>1, PTL

\* Then the slots are exactly the sensors of the address space, each in one,
\* however the array is shifted, doubled and written meanwhile
\* (add_simulated_sensor, node_manager_delete and the write callbacks).
THEOREM SlotsMatch == ASSUME Room PROVE Spec => []SlotsAreSensors
<1>1. RoomInv => SlotsAreSensors
    BY DEF RoomInv, SlotInv
<1> QED
    BY RoomInvariant, <1>1, PTL
-----------------------------------------------------------------------------
(* Types.                                                                  *)

SlotRecord == [name : Sensors, value : BOOLEAN, overridden : BOOLEAN]
Callbacks  == {NoWrite} \cup [node : Names, value : BOOLEAN, at : Address]

\* The array of slots never holds more than its capacity, and what points
\* into it is an address.
SlotType ==
    /\ slots \in Seq(SlotRecord)
    /\ cap \in Nat /\ Len(slots) <= cap
    /\ block \in Nat
    /\ context \in [Sensors -> Address]

\* Values are Boolean, and so is what the threads have still to write.
WorkType ==
    /\ value \in [Names -> BOOLEAN]
    /\ enabled \in BOOLEAN
    /\ todo \in [Threads -> Seq(Write)]
    /\ callback \in [Threads -> Callbacks]

LEMMA TypeParts == TypeOK <=> SpaceType /\ SlotType /\ WorkType
BY DEF TypeOK, SpaceType, SlotType, WorkType, SlotRecord, Callbacks

\* An array that is written entry by entry.
LEMMA Rewritten ==
    ASSUME NEW S, NEW k \in Nat, NEW f \in [1..k -> S]
    PROVE  f \in Seq(S) /\ Len(f) = k
OBVIOUS

\* Writes before others.
LEMMA Joined ==
    ASSUME NEW S, NEW a \in Seq(S), NEW b \in Seq(S)
    PROVE  a \o b \in Seq(S)
OBVIOUS

\* Steps that write to the slots and add or remove none.
LEMMA SlotsWritten ==
    ASSUME SlotType, UNCHANGED <<cap, block, context>>,
           slots' = [i \in 1..Len(slots) |-> slots'[i]],
           \A i \in 1..Len(slots) : slots'[i] \in SlotRecord
    PROVE  SlotType'
<1>1. Len(slots) \in Nat
    BY DEF SlotType
<1>2. slots' \in [1..Len(slots) -> SlotRecord]
    OBVIOUS
<1>3. slots' \in Seq(SlotRecord) /\ Len(slots') = Len(slots)
    BY <1>1, <1>2, Rewritten
<1> QED
    BY <1>3 DEF SlotType

\* A new slot fits into the array, which is doubled when it is full.
LEMMA SlotAdded ==
    ASSUME SlotType, NEW n \in Sensors, AddSlot(n)
    PROVE  SlotType'
<1>1. Slot(n) \in SlotRecord
    BY DEF Slot, SlotRecord
<1>2. slots' = Append(slots, Slot(n))
    BY DEF AddSlot
<1>3. slots' \in Seq(SlotRecord) /\ Len(slots') = Len(slots) + 1 /\ Len(slots) \in Nat
    BY <1>1, <1>2 DEF SlotType
<1>4. cap' \in Nat /\ Len(slots') <= cap'
  <2>1. cap' = IF Len(slots) < cap THEN cap ELSE IF cap = 0 THEN InitialCapacity ELSE 2 * cap
      BY DEF AddSlot
  <2> QED
      BY <1>3, <2>1, SizeAssumption DEF SlotType
<1>5. block' \in Nat
    BY DEF AddSlot, SlotType
<1>6. context' \in [Sensors -> Address]
  <2>1. [block |-> block', slot |-> Len(slots')] \in Address
      BY <1>3, <1>5 DEF Address
  <2> QED
      BY <2>1 DEF AddSlot, SlotType
<1> QED
    BY <1>3, <1>4, <1>5, <1>6 DEF SlotType

\* A deletion leaves the capacity, with at most as many slots.
LEMMA SlotRemoved ==
    ASSUME SlotType, NEW n, RemoveSlot(n)
    PROVE  slots' \in Seq(SlotRecord) /\ Len(slots') <= cap
<1> DEFINE k == Len(slots)
           I == {i \in 1..k : slots[i].name = n}
<1>1. k \in Nat /\ slots = [i \in 1..k |-> slots[i]] /\ \A i \in 1..k : slots[i] \in SlotRecord
    BY DEF SlotType
<1>2. slots' = LET i == IF I # {} THEN Min(I) ELSE 0
               IN  IF i = 0 THEN slots ELSE RemoveAt(slots, i)
    BY DEF RemoveSlot, SelectInSeq
<1>3. CASE I = {}
    BY <1>2, <1>3 DEF SlotType
<1>4. CASE I # {}
  <2>1. Min(I) \in 1..k /\ Min(I) # 0
    <3>1. I \subseteq Nat
        BY <1>1
    <3>2. \E m \in I : \A j \in I : m <= j
        BY <1>4, <3>1, LeastNumber
    <3>3. Min(I) \in I
        BY <3>2 DEF Min
    <3> QED
        BY <1>1, <3>3
  <2>2. slots' = RemoveAt(slots, Min(I))
      BY <1>2, <1>4, <2>1
  <2> DEFINE m == Min(I)
  <2>3. m \in 1..k
      BY <2>1
  <2>a. slots' = RemoveAt(slots, m)
      BY <2>2
  <2> HIDE DEF m, I
  <2>4. /\ slots' = [i \in 1..(k - 1) |-> slots'[i]]
        /\ \A i \in 1..(k - 1) : slots'[i] = IF i < m THEN slots[i] ELSE slots[i + 1]
      BY <1>1, <2>3, <2>a, Removed
  <2>5. \A i \in 1..(k - 1) : slots'[i] \in SlotRecord
      BY <1>1, <2>3, <2>4
  <2>6. k - 1 \in Nat /\ slots' \in [1..(k - 1) -> SlotRecord]
      BY <1>1, <2>3, <2>4, <2>5
  <2>7. slots' \in Seq(SlotRecord) /\ Len(slots') = k - 1
      BY <2>6, Rewritten
  <2> QED
      BY <1>1, <2>7 DEF SlotType
<1> QED
    BY <1>3, <1>4

\* What is written to every slot's node.
LEMMA WritesType ==
    ASSUME SlotType, NEW v \in BOOLEAN
    PROVE  SensorWrites(v) \in Seq(Write)
<1>1. Len(slots) \in Nat /\ \A i \in 1..Len(slots) : slots[i].name \in Names
  <2>1. Len(slots) \in Nat /\ \A i \in 1..Len(slots) : slots[i] \in SlotRecord
      BY DEF SlotType
  <2> QED
      BY <2>1 DEF SlotRecord, Names
<1>2. SensorWrites(v) \in [1..Len(slots) -> Write]
    BY <1>1 DEF SensorWrites, Write
<1> QED
    BY <1>1, <1>2, Rewritten

\* Switching releases every slot.
LEMMA ReleaseType ==
    ASSUME SlotType, NEW e \in BOOLEAN, Release(e), UNCHANGED <<cap, block, context>>
    PROVE  SlotType'
<1>1. \A i \in 1..Len(slots) : slots[i] \in SlotRecord
    BY DEF SlotType
<1>2. slots' = [i \in 1..Len(slots) |->
                 [slots[i] EXCEPT !.overridden = FALSE, !.value = IF e THEN @ ELSE FALSE]]
    BY DEF Release
<1>3. /\ slots' = [i \in 1..Len(slots) |-> slots'[i]]
      /\ \A i \in 1..Len(slots) : slots'[i] \in SlotRecord
    BY <1>1, <1>2 DEF SlotRecord
<1> QED
    BY <1>3, SlotsWritten

-----------------------------------------------------------------------------
\* Start-up and restart, with nothing in memory.
LEMMA StartType ==
    /\ Init => SlotType /\ WorkType
    /\ Restart => SlotType' /\ WorkType'
<1>1. << >> \in Seq(SlotRecord) /\ Len(<< >>) = 0 /\ << >> \in Seq(Write) /\ Nowhere \in Address
    BY DEF Nowhere, Address
<1>2. ASSUME Init PROVE SlotType /\ WorkType
  <2>1. SlotType
      BY <1>1, <1>2 DEF Init, SlotType
  <2>2. value \in [Names -> BOOLEAN] /\ todo \in [Threads -> Seq(Write)]
      BY <1>1, <1>2 DEF Init
  <2> QED
      BY <1>2, <2>1, <2>2 DEF Init, WorkType, Callbacks
<1>3. ASSUME Restart PROVE SlotType' /\ WorkType'
  <2>1. SlotType'
      BY <1>1, <1>3 DEF Restart, SlotType
  <2>2. value' \in [Names -> BOOLEAN] /\ todo' \in [Threads -> Seq(Write)]
      BY <1>1, <1>3 DEF Restart
  <2> QED
      BY <1>3, <2>1, <2>2 DEF Restart, WorkType, Callbacks
<1> QED
    BY <1>2, <1>3

\* A node that is created has a value, and a slot if it is a sensor.
LEMMA CreatedType ==
    ASSUME SlotType, WorkType, NEW n \in Names, NEW p, CreateNode(n, p),
           IF n \in Sensors THEN AddSlot(n) ELSE UNCHANGED slotVars,
           UNCHANGED <<enabled, todo, callback>>
    PROVE  SlotType' /\ WorkType'
<1>1. SlotType'
    BY SlotAdded DEF slotVars, SlotType
<1>2. WorkType'
    BY DEF CreateNode, WorkType
<1> QED
    BY <1>1, <1>2

\* A node that is deleted takes its slot and its context with it, and leaves
\* the id of a write that is still to be made freed.
LEMMA DeletedType ==
    ASSUME SlotType, WorkType, NEW n \in Names, DeleteNode(n)
    PROVE  SlotType' /\ WorkType'
<1>1. SlotType'
  <2>1. slots' \in Seq(SlotRecord) /\ Len(slots') <= cap /\ UNCHANGED <<cap, block>>
      BY SlotRemoved DEF DeleteNode
  <2>2. context' = [m \in Sensors |-> IF m \in DOMAIN space' THEN context[m] ELSE Nowhere]
      BY DEF DeleteNode
  <2>3. context' \in [Sensors -> Address]
      BY <2>2 DEF SlotType, Nowhere, Address
  <2> QED
      BY <2>1, <2>3 DEF SlotType
<1>2. todo' \in [Threads -> Seq(Write)]
  <2> DEFINE Freeing(t) == [i \in DOMAIN todo[t] |->
                 IF todo[t][i].node = n THEN [todo[t][i] EXCEPT !.node = Freed] ELSE todo[t][i]]
  <2>1. ASSUME NEW t \in Threads PROVE Freeing(t) \in Seq(Write)
    <3>1. todo[t] \in Seq(Write)
        BY DEF WorkType
    <3>2. /\ Len(todo[t]) \in Nat /\ DOMAIN todo[t] = 1..Len(todo[t])
          /\ \A i \in 1..Len(todo[t]) : todo[t][i] \in Write
        BY <3>1
    <3>3. Freeing(t) \in [1..Len(todo[t]) -> Write]
        BY <3>2 DEF Write
    <3> QED
        BY <3>2, <3>3, Rewritten
  <2>2. todo' = [t \in Threads |-> Freeing(t)]
      BY DEF DeleteNode
  <2> HIDE DEF Freeing
  <2> QED
      BY <2>1, <2>2
<1>3. value' \in [Names -> BOOLEAN]
  <2>1. value' = [m \in Names |-> m \in DOMAIN space' /\ value[m]]
      BY DEF DeleteNode
  <2>2. \A m \in Names : value[m] \in BOOLEAN
      BY DEF WorkType
  <2>3. \A m \in Names : (m \in DOMAIN space' /\ value[m]) \in BOOLEAN
      BY <2>2
  <2> QED
      BY <2>1, <2>3
<1> QED
    BY <1>1, <1>2, <1>3 DEF DeleteNode, WorkType

\* A write takes effect on an existing node, or on none.
LEMMA WriteType ==
    ASSUME SpaceType, SlotType, WorkType, NEW t \in Threads, WriteValue(t)
    PROVE  SlotType' /\ WorkType'
<1>1. todo[t] \in Seq(Write) /\ todo[t] # << >>
    BY DEF WriteValue, WorkType
<1>2. Head(todo[t]) \in Write /\ Tail(todo[t]) \in Seq(Write)
    BY <1>1
<1>3. todo' \in [Threads -> Seq(Write)]
    BY <1>2 DEF WriteValue, WorkType
<1>4. SlotType'
    BY DEF WriteValue, slotVars, SlotType
<1> DEFINE w == Head(todo[t])
<1>5. CASE UNCHANGED <<value, callback>>
    BY <1>3, <1>4, <1>5 DEF WriteValue, WorkType
<1>6. ASSUME NEW n \in Targets(w),
             value' = [value EXCEPT ![n] = w.value],
             callback' = [callback EXCEPT ![t] =
               [node |-> n, value |-> w.value, at |-> IF n \in Sensors THEN context[n] ELSE Nowhere]]
      PROVE  WorkType'
  <2>1. n \in Names /\ w.value \in BOOLEAN
      BY <1>2, ConfigsAreFunctions DEF Targets, SpaceType, Write
  <2>2. (IF n \in Sensors THEN context[n] ELSE Nowhere) \in Address
      BY DEF SlotType, Nowhere, Address
  <2> HIDE DEF w
  <2>3. value' \in [Names -> BOOLEAN] /\ callback' \in [Threads -> Callbacks]
      BY <1>6, <2>1, <2>2 DEF WorkType, Callbacks
  <2> QED
      BY <1>3, <2>3 DEF WriteValue, WorkType
<1> QED
    BY <1>4, <1>5, <1>6 DEF WriteValue

\* The callback of a sensor marks a slot, if it finds one.
LEMMA SensorCallbackType ==
    ASSUME SlotType, WorkType, NEW t \in Threads, SensorCallback(t)
    PROVE  SlotType' /\ WorkType'
<1>1. callback[t] \in [node : Names, value : BOOLEAN, at : Address]
    BY DEF WorkType, Callbacks, SensorCallback
<1>2. \A i \in 1..Len(slots) : slots[i] \in SlotRecord
    BY DEF SlotType
<1>3. /\ slots' = [i \in 1..Len(slots) |-> slots'[i]]
      /\ \A i \in 1..Len(slots) : slots'[i] \in SlotRecord
    BY <1>1, <1>2 DEF SensorCallback, SlotRecord
<1>4. SlotType'
    BY <1>3, SlotsWritten DEF SensorCallback
<1> QED
    BY <1>4 DEF SensorCallback, WorkType, Callbacks

\* The callback of the switch puts writes to every sensor before the rest.
LEMMA SimulationCallbackType ==
    ASSUME SlotType, WorkType, NEW t \in Threads, SimulationCallback(t)
    PROVE  SlotType' /\ WorkType'
<1>1. callback[t].value \in BOOLEAN
    BY DEF WorkType, Callbacks, SimulationCallback
<1>2. enabled' \in BOOLEAN /\ Release(enabled')
    BY <1>1 DEF SimulationCallback
<1>3. SlotType'
    BY <1>2, ReleaseType DEF SimulationCallback
<1>4. todo[t] \in Seq(Write) /\ SensorWrites(FALSE) \in Seq(Write)
    BY WritesType DEF WorkType
<1>5. SensorWrites(FALSE) \o todo[t] \in Seq(Write)
    BY <1>4, Joined
<1>6. todo' \in [Threads -> Seq(Write)]
    BY <1>4, <1>5 DEF SimulationCallback, WorkType
<1> QED
    BY <1>2, <1>3, <1>6 DEF SimulationCallback, WorkType, Callbacks

\* A client's write is of one of the nodes.
LEMMA ClientWriteType ==
    ASSUME SlotType, WorkType, NEW n \in Written, NEW v \in BOOLEAN, ClientWrite(n, v)
    PROVE  SlotType' /\ WorkType'
<1>1. [node |-> n, value |-> v] \in Write
    BY InputAssumption DEF Write, Names
<1>2. <<[node |-> n, value |-> v]>> \in Seq(Write)
    BY <1>1
<1> QED
    BY <1>2 DEF ClientWrite, slotVars, SlotType, WorkType, Threads

\* The tick writes the sensors that it has toggled.
LEMMA TickType ==
    ASSUME SlotType, WorkType, Tick
    PROVE  SlotType' /\ WorkType'
<1> DEFINE k    == Len(slots)
           at   == {i \in 1..k : ~slots[i].overridden}
           free == Entries(slots', at)
<1>1. k \in Nat /\ \A i \in 1..k : slots[i] \in SlotRecord
    BY DEF SlotType
<1>2. slots' = [i \in 1..k |-> IF slots[i].overridden THEN slots[i] ELSE [slots[i] EXCEPT !.value = ~@]]
    BY DEF Tick
<1>3. slots' = [i \in 1..k |-> slots'[i]] /\ \A i \in 1..k : slots'[i] \in SlotRecord
    BY <1>1, <1>2 DEF SlotRecord
<1>4. SlotType'
    BY <1>3, SlotsWritten DEF Tick
<1>5. free \in Seq(SlotRecord)
  <2>1. at \subseteq 1..k /\ \A i \in at : slots'[i] \in SlotRecord
      BY <1>3
  <2> HIDE DEF k, at
  <2> QED
      BY <1>1, <2>1, EntriesFrom
<1>6. todo' = [todo EXCEPT !["main"] = [i \in 1..Len(free) |->
                [node |-> free[i].name, value |-> free[i].value]]]
    BY DEF Tick
<1> HIDE DEF free
<1>7. [i \in 1..Len(free) |-> [node |-> free[i].name, value |-> free[i].value]] \in Seq(Write)
  <2>1. Len(free) \in Nat /\ \A i \in 1..Len(free) : free[i] \in SlotRecord
      BY <1>5
  <2>2. [i \in 1..Len(free) |-> [node |-> free[i].name, value |-> free[i].value]] \in [1..Len(free) -> Write]
      BY <2>1 DEF SlotRecord, Write, Names
  <2> QED
      BY <2>1, <2>2, Rewritten
<1> QED
    BY <1>4, <1>6, <1>7 DEF Tick, WorkType, Threads

\* A request writes the switch and then, to switch off, every sensor.
LEMMA SwitchType ==
    ASSUME SlotType, WorkType, NEW e \in BOOLEAN, SetSimulationEnabled(e)
    PROVE  SlotType' /\ WorkType'
<1>1. SlotType'
    BY ReleaseType DEF SetSimulationEnabled
<1>2. [node |-> SimNode, value |-> e] \in Write
    BY DEF Write, Names
<1>3. <<[node |-> SimNode, value |-> e]>> \in Seq(Write)
    BY <1>2
<1>4. (IF e THEN << >> ELSE SensorWrites(FALSE)) \in Seq(Write)
  <2>1. << >> \in Seq(Write)
      OBVIOUS
  <2>2. SensorWrites(FALSE) \in Seq(Write)
      BY WritesType
  <2> QED
      BY <2>1, <2>2
<1>5. <<[node |-> SimNode, value |-> e]>> \o (IF e THEN << >> ELSE SensorWrites(FALSE)) \in Seq(Write)
    BY <1>3, <1>4, Joined
<1> QED
    BY <1>1, <1>5 DEF SetSimulationEnabled, WorkType, Threads

\* Releasing the overrides touches nothing but the slots.
LEMMA ResetType ==
    ASSUME SlotType, WorkType, ResetOverrides
    PROVE  SlotType' /\ WorkType'
<1>1. \A i \in 1..Len(slots) : slots[i] \in SlotRecord
    BY DEF SlotType
<1>2. /\ slots' = [i \in 1..Len(slots) |-> slots'[i]]
      /\ \A i \in 1..Len(slots) : slots'[i] \in SlotRecord
    BY <1>1 DEF ResetOverrides, SlotRecord
<1>3. SlotType'
    BY <1>2, SlotsWritten DEF ResetOverrides
<1> QED
    BY <1>3 DEF ResetOverrides, WorkType

\* Every step of either thread keeps the types.
LEMMA NextType == SpaceType /\ SlotType /\ WorkType /\ [Next]_vars => SlotType' /\ WorkType'
<1> SUFFICES ASSUME SpaceType, SlotType, WorkType, [Next]_vars PROVE SlotType' /\ WorkType'
    OBVIOUS
<1>1. ASSUME NEW n \in Addable, NEW p \in NewParents, AddNode(n, p) PROVE SlotType' /\ WorkType'
  <2>1. n \in Names
      BY InputAssumption DEF Names
  <2> QED
      BY <1>1, <2>1, CreatedType DEF AddNode
<1>2. ASSUME NEW n \in Names, BuildNode(n) PROVE SlotType' /\ WorkType'
    BY <1>2, CreatedType DEF BuildNode
<1>3. CASE PutConfig
    BY <1>3 DEF PutConfig, slotVars, SlotType, WorkType
<1>4. ASSUME NEW t \in Threads, Work(t) PROVE SlotType' /\ WorkType'
    BY <1>4, WriteType, SensorCallbackType, SimulationCallbackType DEF Work
<1>5. CASE UNCHANGED vars
    BY <1>5 DEF vars, slotVars, SlotType, WorkType
<1>6. CASE Http
    BY <1>1, <1>3, <1>6, DeletedType, SwitchType, ResetType DEF Http
<1>7. CASE Main
    BY <1>7, TickType, ClientWriteType DEF Main
<1> QED
    BY <1>2, <1>4, <1>5, <1>6, <1>7, StartType DEF Next

\* Through start-up, ticks, writes with their callbacks, additions, deletions
\* and restarts the variables keep their types: no step puts more slots into
\* the array than have been allocated, or toggles a node that is no sensor
\* (add_simulated_sensor, node_manager_tick, node_manager_delete).
THEOREM TypeCorrect == Spec => []TypeOK
<1>1. Init => Inv /\ SlotType /\ WorkType
    BY InitInv, StartType
<1>2. Inv /\ SlotType /\ WorkType /\ [Next]_vars => (Inv /\ SlotType /\ WorkType)'
    BY NextInv, NextType DEF Inv
<1>3. Inv /\ SlotType /\ WorkType => TypeOK
    BY TypeParts DEF Inv
<1> QED
    BY <1>1, <1>2, <1>3, PTL DEF Spec
=============================================================================
