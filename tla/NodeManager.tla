----------------------------- MODULE NodeManager -----------------------------
(***************************************************************************)
(* The node manager of the OPC UA test server (src/node_manager.c): the    *)
(* configured nodes, the address space built from them, the simulated      *)
(* sensors with their overrides, and the configuration file.               *)
(*                                                                         *)
(* Two threads work on it.  "main" runs UA_Server_run_iterate: the writes  *)
(* of OPC UA clients and the simulation tick.  "http" is the one thread of *)
(* the configuration UI: it adds and deletes nodes, switches the simulation*)
(* and resets overrides.                                                   *)
(*                                                                         *)
(* Grain.  A section under nm->mutex is one step.  Writing a value is two  *)
(* steps, because the write callback runs after open62541 has stored the   *)
(* value; the callback runs for every write, also those that the manager   *)
(* makes itself with UA_Server_writeValue.  What a thread still has to     *)
(* write is its todo; it takes up nothing new before that is empty.        *)
(*                                                                         *)
(* Data.  A name stands for a node definition: a folder, a simulated       *)
(* Boolean sensor, or the node with role "simulationEnabled".  A plain     *)
(* variable has neither callback nor slot: to the manager it is a folder   *)
(* without children.  A parent is any folder, existing or not, the node    *)
(* itself included: no request is refused for its parent.                  *)
(***************************************************************************)
EXTENDS Integers, Sequences, SequencesExt, FiniteSets, Subsequence

CONSTANTS
    Folders, Sensors, SimNode,  \* the names of nodes
    Objects,          \* the Objects folder of the server
    EmptyFile,        \* a configuration file without contents, or none
    CutFile,          \* a configuration file that does not parse
    Freed,            \* a node id whose memory has been freed
    Seed,             \* first configuration: a function from names to parents
    Addable,          \* the names that requests add
    NewParents,       \* the parents that these requests give
    Written,          \* the nodes that OPC UA clients write
    MaxNodes,         \* SERVER_MAX_NODES
    MaxSlots,         \* bound: slots in use
    MaxTodo,          \* bound: writes that a thread has still to make
    InitialCapacity,  \* slots allocated first (8 in the code)
    DepthGuard        \* steps that node_depth climbs (32 in the code)

Names   == Folders \cup Sensors \cup {SimNode}
Parents == Folders \cup {Objects}
Threads == {"main", "http"}
Configs == UNION {[N -> Parents] : N \in SUBSET Names}

ASSUME NamesAssumption ==
    /\ IsFiniteSet(Names)
    /\ Folders \cap Sensors = {} /\ SimNode \notin Folders \cup Sensors
    /\ Objects \notin Names /\ Freed \notin Names \cup {Objects}
ASSUME InputAssumption ==
    /\ Addable \subseteq Folders \cup Sensors /\ NewParents \subseteq Parents
    /\ Written \subseteq Sensors \cup {SimNode}
ASSUME SeedAssumption ==
    /\ Seed \in Configs /\ SimNode \in DOMAIN Seed
    /\ EmptyFile \notin Configs /\ CutFile \notin Configs
ASSUME SizeAssumption ==
    /\ MaxNodes \in Nat /\ Cardinality(Sensors) <= MaxSlots
    /\ MaxTodo \in Nat /\ InitialCapacity \in Nat \ {0}
    /\ Cardinality(DOMAIN Seed) <= MaxNodes
    /\ DepthGuard \in Nat

VARIABLES
    pending,    \* start-up: the listed nodes that have not been created yet
    config,     \* nm->config.nodes: from names to the parent they were given
    disk,       \* the configuration file, likewise, or what a failed save left
    space,      \* the address space: from names to the parent they hang below
    value,      \* the value attribute of each node
    enabled,    \* nm->simulationEnabled
    slots,      \* nm->sensors
    cap,        \* nm->sensorCapacity
    block,      \* which allocation nm->sensors is: a realloc that moves it is a new one
    context,    \* node context of each sensor: the address of a slot
    todo,       \* writes that each thread has still to make
    callback    \* the write whose callback each thread has still to run

spaceVars == <<pending, config, disk, space>>
slotVars  == <<slots, cap, block, context>>
vars      == <<spaceVars, value, enabled, slotVars, todo, callback>>

Write    == [node : Names \cup {Freed}, value : BOOLEAN]
Address  == [block : Nat, slot : Nat]
Slot(n)  == [name |-> n, value |-> FALSE, overridden |-> FALSE]
NoWrite  == << >>

TypeOK ==
    /\ pending \subseteq DOMAIN config
    /\ config \in Configs /\ disk \in Configs \cup {EmptyFile, CutFile} /\ space \in Configs
    /\ value \in [Names -> BOOLEAN]
    /\ enabled \in BOOLEAN
    /\ slots \in Seq([name : Sensors, value : BOOLEAN, overridden : BOOLEAN])
    /\ cap \in Nat /\ Len(slots) <= cap
    /\ block \in Nat
    /\ context \in [Sensors -> Address]
    /\ todo \in [Threads -> Seq(Write)]
    /\ callback \in [Threads -> {NoWrite} \cup
                       [node : Names, value : BOOLEAN, at : Address]]

-----------------------------------------------------------------------------
Idle(t)  == todo[t] = << >> /\ callback[t] = NoWrite
Ready(t) == Idle(t) /\ pending = {}

(* Start-up.                                                               *)

Empty   == [n \in {} |-> Objects]
Nowhere == [block |-> 0, slot |-> 0]

\* What server_config_save may leave behind: it succeeded, or it failed
\* before the rename; or the last write, which fclose makes, failed
\* unnoticed, and the renamed file is empty or cut off.  No caller looks.
Save == disk' \in {config', disk, EmptyFile, CutFile}

\* The first start finds no file: it saves the seed and builds it.
Init ==
    /\ config = Seed /\ disk \in {Seed, EmptyFile, CutFile}
    /\ pending = DOMAIN Seed
    /\ space = Empty
    /\ value = [n \in Names |-> FALSE]
    /\ enabled = TRUE
    /\ slots = << >> /\ cap = 0 /\ block = 0
    /\ context = [n \in Sensors |-> Nowhere]
    /\ todo = [t \in Threads |-> << >>]
    /\ callback = [t \in Threads |-> NoWrite]

\* /api/restart or a crash: whatever is in memory is gone.  An empty file is
\* replaced by the seed; with one that does not parse no server comes up.
Restart ==
    /\ disk # CutFile
    /\ IF disk = EmptyFile THEN config' = Seed /\ Save ELSE config' = disk /\ UNCHANGED disk
    /\ pending' = DOMAIN config'
    /\ space' = Empty
    /\ value' = [n \in Names |-> FALSE]
    /\ enabled' = TRUE
    /\ slots' = << >> /\ cap' = 0 /\ block' = 0
    /\ context' = [n \in Sensors |-> Nowhere]
    /\ todo' = [t \in Threads |-> << >>]
    /\ callback' = [t \in Threads |-> NoWrite]

\* Fault: the node id is made from the name.
ParentByName(p) == p

\* A parent that has no node is replaced by the Objects folder.
ResolveParent(p) == IF p \in DOMAIN space THEN p ELSE Objects

\* UA_Server_addObjectNode or addVariableNode.
CreateNode(n, p) ==
    /\ space' = [m \in DOMAIN space \cup {n} |-> IF m = n THEN ResolveParent(p) ELSE space[m]]
    /\ value' = [value EXCEPT ![n] = FALSE]

\* Fault: the array is used beyond its capacity.
AddSlotNoGrowth(n) ==
    /\ slots' = Append(slots, Slot(n))
    /\ context' = [context EXCEPT ![n] = [block |-> block, slot |-> Len(slots')]]
    /\ UNCHANGED <<cap, block>>

\* add_simulated_sensor, and the slot's address as context of the node.  A
\* full array is doubled, which may move it; no context is renewed.
AddSlot(n) ==
    /\ Len(slots) < MaxSlots
    /\ slots' = Append(slots, Slot(n))
    /\ cap' = (IF Len(slots) < cap THEN cap ELSE IF cap = 0 THEN InitialCapacity ELSE 2 * cap)
    /\ block' \in (IF cap' # cap /\ cap # 0 THEN {block, block + 1} ELSE {block})
    /\ context' = [context EXCEPT ![n] = [block |-> block', slot |-> Len(slots')]]

\* The listed folders above n, at most the nearest g of them.
Climb(n, g) ==
    LET climb[k \in 0..g, p \in Parents] ==
          IF k > 0 /\ p \in DOMAIN config THEN 1 + climb[k - 1, config[p]] ELSE 0
    IN  climb[g, config[n]]

\* What node_depth finds: it gives up after DepthGuard steps, so that a node
\* deeper than that, or in a cycle, counts as one of that depth.
NodeDepth(n) == Climb(n, DepthGuard)

\* Fault: the nodes are built as they are listed.
BuildNodeUnsorted(n) ==
    /\ n \in pending
    /\ pending' = pending \ {n}
    /\ CreateNode(n, config[n])
    /\ IF n \in Sensors THEN AddSlot(n) ELSE UNCHANGED slotVars
    /\ UNCHANGED <<config, disk, enabled, todo, callback>>

\* One turn of the loop of node_manager_build.  The nodes are sorted by
\* depth, in no certain order where the depths are equal.
BuildNode(n) ==
    /\ n \in pending
    /\ \A m \in pending : NodeDepth(n) <= NodeDepth(m)
    /\ pending' = pending \ {n}
    /\ CreateNode(n, config[n])
    /\ IF n \in Sensors THEN AddSlot(n) ELSE UNCHANGED slotVars
    /\ UNCHANGED <<config, disk, enabled, todo, callback>>

-----------------------------------------------------------------------------
(* HTTP requests that change the address space: one section under the mutex.*)

\* Fault: the last place in the array of definitions is never used.
ListNodeStopsShort(n, p) ==
    IF Cardinality(DOMAIN config) + 1 < MaxNodes
    THEN config' = [m \in DOMAIN config \cup {n} |-> IF m = n THEN p ELSE config[m]] /\ Save
    ELSE UNCHANGED <<config, disk>>

\* A node that the configuration has no room for exists all the same.
ListNode(n, p) ==
    IF Cardinality(DOMAIN config) < MaxNodes
    THEN config' = [m \in DOMAIN config \cup {n} |-> IF m = n THEN p ELSE config[m]] /\ Save
    ELSE UNCHANGED <<config, disk>>

AddNode(n, p) ==
    /\ Ready("http")
    /\ n \in Addable \ DOMAIN config
    /\ n \notin DOMAIN space                       \* else BadNodeIdExists
    /\ CreateNode(n, p)
    /\ IF n \in Sensors THEN AddSlot(n) ELSE UNCHANGED slotVars
    /\ ListNode(n, p)
    /\ UNCHANGED <<pending, enabled, todo, callback>>

HasChildren(n) == \E m \in DOMAIN config : config[m] = n

\* Fault: the slots are shifted over the first one, not over that of n.
RemoveFirstSlot(n) == slots' = IF slots = << >> THEN slots ELSE Tail(slots)
RemoveSlot(n)      ==
    slots' = LET i == SelectInSeq(slots, LAMBDA s : s.name = n)
             IN  IF i = 0 THEN slots ELSE RemoveAt(slots, i)

\* The node itself and what hangs below it: what is in every set that has
\* the node and, with a node, its children.
Below(n) ==
    LET closed == {S \in SUBSET Names :
                     n \in S /\ \A m \in DOMAIN space : space[m] \in S => m \in S}
    IN  {m \in DOMAIN space : \A S \in closed : m \in S}

\* deleteNode removes everything below the node: nothing that is listed with
\* this parent, but nodes that the configuration had no room for, and what
\* hangs below those.  The string of the node id is freed with the map
\* entry, although a tick may still hold it.
DeleteNode(n) ==
    /\ Ready("http")
    /\ n \in DOMAIN config \ {SimNode}
    /\ ~HasChildren(n)
    /\ space' = [m \in DOMAIN space \ Below(n) |-> space[m]]
    /\ RemoveSlot(n)
    /\ todo' = [t \in Threads |-> [i \in DOMAIN todo[t] |->
                  IF todo[t][i].node = n THEN [todo[t][i] EXCEPT !.node = Freed]
                  ELSE todo[t][i]]]
    /\ config' = [m \in DOMAIN config \ {n} |-> config[m]]
    /\ Save
    /\ value' = [m \in Names |-> m \in DOMAIN space' /\ value[m]]
    /\ context' = [m \in Sensors |-> IF m \in DOMAIN space' THEN context[m] ELSE Nowhere]
    /\ UNCHANGED <<pending, enabled, cap, block, callback>>

\* PUT /api/config: the namespace only matters to the next start, but with it
\* the whole configuration is written.
PutConfig ==
    /\ Ready("http")
    /\ UNCHANGED config /\ Save
    /\ UNCHANGED <<pending, space, value, enabled, slotVars, todo, callback>>

-----------------------------------------------------------------------------
(* Writing values.                                                         *)

\* The write that takes place is to the node named by the id or, if the id
\* has been freed, to any node or none.
Targets(w) == IF w.node # Freed THEN {w.node} \cap DOMAIN space
              ELSE (DOMAIN space \ Folders)

WriteValue(t) ==
    /\ callback[t] = NoWrite /\ todo[t] # << >>
    /\ todo' = [todo EXCEPT ![t] = Tail(@)]
    /\ LET w == Head(todo[t]) IN
         \/ \E n \in Targets(w) :
              /\ value' = [value EXCEPT ![n] = w.value]
              /\ callback' = [callback EXCEPT ![t] =
                   [node |-> n, value |-> w.value,
                    at |-> IF n \in Sensors THEN context[n] ELSE Nowhere]]
         \/ /\ w.node = Freed \/ Targets(w) = {}
            /\ UNCHANGED <<value, callback>>
    /\ UNCHANGED <<spaceVars, enabled, slotVars>>

\* The writes of FALSE to every sensor when the simulation is switched off.
SensorWrites(v) == [i \in 1..Len(slots) |-> [node |-> slots[i].name, value |-> v]]
Release(e) == slots' = [i \in 1..Len(slots) |->
                [slots[i] EXCEPT !.overridden = FALSE, !.value = IF e THEN @ ELSE FALSE]]

\* Writes to what the node context points at: the slot with that index, while
\* the array has not moved; what used to be a slot is not one any more.
SensorCallback(t) ==
    /\ callback[t] # NoWrite /\ callback[t].node \in Sensors
    /\ LET a == callback[t].at IN
         slots' = [i \in 1..Len(slots) |->
                     IF a.block = block /\ a.slot = i
                     THEN [slots[i] EXCEPT !.value = callback[t].value, !.overridden = TRUE]
                     ELSE slots[i]]
    /\ callback' = [callback EXCEPT ![t] = NoWrite]
    /\ UNCHANGED <<spaceVars, value, enabled, cap, block, context, todo>>

\* Fault: the callback writes the switch again, to make it show the flag.
SimulationCallbackWritesNode(t) ==
    /\ callback[t] # NoWrite /\ callback[t].node = SimNode
    /\ enabled' = callback[t].value
    /\ Release(enabled')
    /\ todo' = [todo EXCEPT ![t] =
                  <<[node |-> SimNode, value |-> enabled']>> \o @]
    /\ callback' = [callback EXCEPT ![t] = NoWrite]
    /\ UNCHANGED <<spaceVars, value, cap, block, context>>

\* Switching off writes the sensors from within the callback, before the
\* thread goes on with what it was doing.
SimulationCallback(t) ==
    /\ callback[t] # NoWrite /\ callback[t].node = SimNode
    /\ enabled' = callback[t].value
    /\ Release(enabled')
    /\ todo' = [todo EXCEPT ![t] = IF enabled' THEN @ ELSE SensorWrites(FALSE) \o @]
    /\ Len(todo'[t]) <= MaxTodo
    /\ callback' = [callback EXCEPT ![t] = NoWrite]
    /\ UNCHANGED <<spaceVars, value, cap, block, context>>

ClientWrite(n, v) ==
    /\ Ready("main")
    /\ n \in Written \cap DOMAIN space
    /\ todo' = [todo EXCEPT !["main"] = <<[node |-> n, value |-> v]>>]
    /\ UNCHANGED <<spaceVars, value, enabled, slotVars, callback>>

\* The tick toggles the slots under the mutex and writes the nodes without.
Tick ==
    /\ Ready("main")
    /\ enabled
    /\ slots' = [i \in 1..Len(slots) |->
                   IF slots[i].overridden THEN slots[i] ELSE [slots[i] EXCEPT !.value = ~@]]
    /\ LET free == Entries(slots', {i \in 1..Len(slots) : ~slots[i].overridden}) IN
         todo' = [todo EXCEPT !["main"] = [i \in 1..Len(free) |->
                    [node |-> free[i].name, value |-> free[i].value]]]
    /\ UNCHANGED <<spaceVars, value, enabled, cap, block, context, callback>>

\* PUT /api/simulation: the flag and the slots, then the node, then the
\* sensors; the write to the node runs SimulationCallback as well.
SetSimulationEnabled(e) ==
    /\ Ready("http")
    /\ enabled' = e
    /\ Release(e)
    /\ todo' = [todo EXCEPT !["http"] =
                  <<[node |-> SimNode, value |-> e]>>
                  \o (IF e THEN << >> ELSE SensorWrites(FALSE))]
    /\ UNCHANGED <<spaceVars, value, cap, block, context, callback>>

ResetOverrides ==
    /\ Ready("http")
    /\ slots' = [i \in 1..Len(slots) |-> [slots[i] EXCEPT !.overridden = FALSE]]
    /\ UNCHANGED <<spaceVars, value, enabled, cap, block, context, todo, callback>>

-----------------------------------------------------------------------------
Http == \/ \E n \in Addable, p \in NewParents : AddNode(n, p)
        \/ \E n \in Names : DeleteNode(n)
        \/ \E e \in BOOLEAN : SetSimulationEnabled(e)
        \/ ResetOverrides
        \/ PutConfig
Main == Tick \/ \E n \in Written, v \in BOOLEAN : ClientWrite(n, v)
Work(t) == WriteValue(t) \/ SensorCallback(t) \/ SimulationCallback(t)

Next == Http \/ Main \/ (\E t \in Threads : Work(t)) \/ (\E n \in Names : BuildNode(n)) \/ Restart

Spec == Init /\ [][Next]_vars

\* Both threads finish what they are at, and the timer goes on ticking.
Fairness ==
    /\ WF_vars(\E n \in Names : BuildNode(n))
    /\ \A t \in Threads : WF_vars(Work(t))
    /\ SF_vars(Tick)
FairSpec == Spec /\ Fairness

-----------------------------------------------------------------------------
(* What holds.                                                             *)

\* As long as the configuration has room, the slots are the simulated sensors
\* of the address space, each with one slot, whatever was added, deleted,
\* saved or lost in between.
SlotsAreSensors ==
    /\ {slots[i].name : i \in 1..Len(slots)} = Sensors \cap DOMAIN space
    /\ \A i, j \in 1..Len(slots) : slots[i].name = slots[j].name => i = j

\* As long as the configuration has room, it lists exactly the nodes that
\* exist, and a node hangs where it is listed or below Objects.
ConfigIsSpace ==
    /\ DOMAIN config \ pending = DOMAIN space
    /\ \A n \in DOMAIN space : space[n] \in {config[n], Objects}

\* No sequence of deletions, failed saves and restarts takes away the node
\* that switches the simulation, or the folders on its way to Objects.
SimNodeReachable ==
    /\ SimNode \in DOMAIN space \cup pending
    /\ disk \in Configs => SimNode \in DOMAIN disk
    /\ \A n \in DOMAIN space : space[n] \in DOMAIN space \cup {Objects}

\* A request that switches the simulation comes to an end, although each of
\* its writes runs a callback that may write again and the main thread ticks
\* meanwhile, unless nodes are deleted under such writes over and over.
DeletedUnderWrite == \E t \in Threads : \E i \in DOMAIN todo[t] : todo[t][i].node = Freed
RequestsComplete  == <>[]~DeletedUnderWrite => (~Idle("http") ~> Idle("http"))

\* Whatever the file lists, in whatever order, a start builds every node that
\* is not deeper than the guard of node_depth below the parent it is listed
\* with.  Deeper ones, and those in a cycle of parents, may end up below
\* Objects.
BuiltBelowParent ==
    [][\A n \in pending \ pending' :
          n \in DOMAIN space' /\ config[n] \in DOMAIN config
          /\ Climb(n, DepthGuard + 1) <= DepthGuard
            => space'[n] = config[n]]_vars

(* What the documentation claims and the code does not keep.               *)

\* "Sensors automatically toggle between true and false every second": a
\* sensor nobody writes to, under an enabled simulation, goes on toggling.
SensorsToggle ==
    \A n \in Sensors :
        <>[](enabled /\ n \in DOMAIN space) => []<>(value[n]) /\ []<>(~value[n])

\* "Writing a value to a sensor from a client overrides the simulation for
\* that sensor": the callback of a write reaches the sensor's own slot.
OverrideReachesSensor ==
    \A t \in Threads :
        callback[t] # NoWrite /\ callback[t].node \in Sensors \cap DOMAIN space =>
            /\ callback[t].at.block = block
            /\ callback[t].at.slot <= Len(slots)
            /\ slots[callback[t].at.slot].name = callback[t].node
=============================================================================
