---------------------------- MODULE ServerConfig ----------------------------
(***************************************************************************)
(* What the OPC UA test server keeps across restarts (src/server_config.c) *)
(* and how requests change it (the handlers of src/http_server.c and the   *)
(* functions of src/node_manager.c that they call): the namespace URI and  *)
(* the list of node definitions, in memory and in a file.                  *)
(*                                                                         *)
(* Grain.  A request, a start and a save are one step each: one thread     *)
(* serves the requests, and nothing else touches list and file.            *)
(*                                                                         *)
(* Data.  Definitions and the documents of requests are records; Absent is *)
(* a field that is not there or not of its type.  The display name is left *)
(* out: it is required where the browse name is.  Names in BadNames are    *)
(* those that server_config_validate_browse_name refuses.  Whether the     *)
(* address space takes a node is left to NodeManager: here it may refuse.  *)
(***************************************************************************)
EXTENDS Naturals, Sequences, SequencesExt, Subsequence

CONSTANTS
    Names, BadNames,  \* browse names, good and bad
    Short,            \* what snprintf leaves of the names that are too long
    Uris, DefaultUri, \* namespace URIs
    ShortUri,         \* what snprintf leaves of those that are too long
    Seed,             \* the list of a first start
    HandWritten,      \* configuration files that may be there before
    MaxNodes,         \* SERVER_MAX_NODES
    Absent,           \* a field that a document does not have
    NotJson,          \* a body that does not parse
    Root,             \* the empty parent: the Objects folder
    Missing, CutFile  \* no file or an empty one; a file that does not parse

Types == {"Boolean", "Int32", "Double", "String"}
Kinds == {"folder", "variable", "other"}

\* A file that parses; its fields may be absent.
IsFile(f) == f \notin {Missing, CutFile}

\* What it may hold: nobody has checked the names and the types in it.
AnyName     == Names \cup BadNames
IsEntry(x)  == /\ x.kind \in Kinds \cup {Absent} /\ x.name \in AnyName \cup {Absent}
               /\ x.parent \in AnyName \cup {Root, Absent}
IsConfig(f) == /\ f.uri \in Uris \cup {Absent}
               /\ \/ f.nodes = Absent
                  \/ /\ f.nodes \in Seq(ToSet(f.nodes))
                     /\ \A i \in DOMAIN f.nodes : IsEntry(f.nodes[i])

VARIABLES
    up,      \* the server is running
    uri,     \* config.namespaceUri
    nodes,   \* config.nodes
    file     \* the configuration file

configVars == <<uri, nodes, file>>

\* Names and URIs as long as they may be.
Held       == AnyName \ DOMAIN Short
HeldUris   == Uris \ DOMAIN ShortUri
Definition == [kind : Kinds, name : Held, parent : Held \cup {Root}, type : Types,
               simulation : BOOLEAN, role : BOOLEAN]

TypeOK ==
    /\ up \in BOOLEAN /\ uri \in HeldUris
    /\ nodes \in Seq(Definition) /\ Len(nodes) <= MaxNodes

-----------------------------------------------------------------------------
(* The file.                                                               *)

\* A folder has no data type in the file, and what is false is left out.
node_to_json(n) ==
    [kind |-> n.kind, name |-> n.name, parent |-> n.parent,
     type |-> IF n.kind = "variable" THEN n.type ELSE Absent,
     simulation |-> IF n.simulation THEN TRUE ELSE Absent,
     role |-> IF n.role THEN TRUE ELSE Absent]

\* What it leaves, for any definition.
Entry == [kind : Kinds, name : Held, parent : Held \cup {Root}, type : Types \cup {Absent},
          simulation : {TRUE, Absent}, role : {TRUE, Absent}]

Printed(u, list) == [uri |-> u, nodes |-> [i \in DOMAIN list |-> node_to_json(list[i])]]

\* It succeeded, or failed before the rename; or the last write, which
\* fclose makes, failed unnoticed.  No caller looks.
Save == file' \in {Printed(uri', nodes'), file, Missing, CutFile}

Cut(n) == IF n \in DOMAIN Short THEN Short[n] ELSE n

\* config.namespaceUri has room for 255 characters.
CutUri(u) == IF u \in DOMAIN ShortUri THEN ShortUri[u] ELSE u

ParentOf(d) == IF d.parent = Absent THEN Root ELSE Cut(d.parent)
TypeOf(d)   == IF d.type \in Types THEN d.type ELSE "Boolean"

Parses(item) == item.kind # Absent /\ item.name # Absent

\* Fault: the switches of a node are not read.
ParseNodeOff(item) ==
    [kind |-> item.kind, name |-> Cut(item.name), parent |-> ParentOf(item), type |-> TypeOf(item),
     simulation |-> FALSE, role |-> item.role = TRUE]

parse_node(item) ==
    [kind |-> item.kind, name |-> Cut(item.name), parent |-> ParentOf(item), type |-> TypeOf(item),
     simulation |-> item.simulation = TRUE, role |-> item.role = TRUE]

Defaults == [uri |-> DefaultUri, nodes |-> Seed]

\* Entries that do not parse are skipped and those beyond MaxNodes dropped; an
\* empty list brings back the defaults, the namespace among them.
server_config_load(f) ==
    LET good == Entries(f.nodes, {i \in DOMAIN f.nodes : Parses(f.nodes[i])})
        some == IF Len(good) > MaxNodes THEN SubSeq(good, 1, MaxNodes) ELSE good
        list == IF f.nodes = Absent THEN Seed ELSE [i \in DOMAIN some |-> parse_node(some[i])]
    IN  IF ~IsFile(f) \/ list = << >> THEN Defaults
        ELSE [uri |-> IF f.uri = Absent THEN DefaultUri ELSE CutUri(f.uri), nodes |-> list]

-----------------------------------------------------------------------------
(* Start and end of the server.                                            *)

\* node_manager_build: a second node of a name is refused by the address
\* space, and the server exits.  Other kinds are skipped.
Builds(list) ==
    \A i, j \in DOMAIN list :
      list[i].name = list[j].name /\ list[i].kind # "other" /\ list[j].kind # "other" => i = j

Init ==
    /\ up = FALSE /\ uri = DefaultUri /\ nodes = << >>
    /\ file \in HandWritten \cup {Missing}

Start ==
    /\ ~up /\ file # CutFile
    /\ LET c == server_config_load(file) IN
         IF Builds(c.nodes) THEN up' = TRUE /\ uri' = c.uri /\ nodes' = c.nodes
         ELSE UNCHANGED <<up, uri, nodes>>
    /\ IF file = Missing THEN Save ELSE UNCHANGED file

\* /api/restart, a signal or a crash.
Stop ==
    /\ up /\ up' = FALSE
    /\ uri' = DefaultUri /\ nodes' = << >>
    /\ UNCHANGED file

-----------------------------------------------------------------------------
(* Requests.  ok says whether the answer is 200 or 400.                    *)

\* A URI that is too long is kept as far as there is room, and answered 200.
PutConfig(d, ok) ==
    /\ ok <=> (d # NotJson /\ d.uri # Absent)
    /\ UNCHANGED nodes
    /\ IF ok THEN uri' = CutUri(d.uri) /\ Save ELSE UNCHANGED <<uri, file>>

\* Fault: names are not compared with those in the list.
NewUnchecked(d) == d # NotJson /\ d.name \in Names

\* What both requests for a new node demand.
New(d) ==
    /\ d # NotJson /\ d.name \in Names
    /\ \A i \in DOMAIN nodes : nodes[i].name # d.name

\* A node that finds the list full is created but not listed.
Add(def, ok) ==
    /\ UNCHANGED uri
    /\ IF ok /\ Len(nodes) < MaxNodes THEN nodes' = Append(nodes, def) /\ Save
       ELSE UNCHANGED <<nodes, file>>

PostFolder(d, ok) ==
    /\ ok => New(d)
    /\ Add([kind |-> "folder", name |-> d.name, parent |-> ParentOf(d), type |-> "Boolean",
            simulation |-> FALSE, role |-> FALSE], ok)

\* Fault: a data type that is not known becomes Boolean, as in a file.
PostVariableLenient(d, ok) ==
    /\ ok => New(d) /\ (d.simulation = TRUE => TypeOf(d) = "Boolean")
    /\ Add([kind |-> "variable", name |-> d.name, parent |-> ParentOf(d), type |-> TypeOf(d),
            simulation |-> d.simulation = TRUE, role |-> FALSE], ok)

PostVariable(d, ok) ==
    /\ ok => /\ New(d) /\ d.type \in Types \cup {Absent}
             /\ d.simulation = TRUE => TypeOf(d) = "Boolean"
    /\ Add([kind |-> "variable", name |-> d.name, parent |-> ParentOf(d), type |-> TypeOf(d),
            simulation |-> d.simulation = TRUE, role |-> FALSE], ok)

\* The first node of that name, unless it switches the simulation or is the
\* parent of another.
Delete(n, ok) ==
    LET at == SelectInSeq(nodes, LAMBDA x : x.name = n) IN
    /\ ok <=> (at # 0 /\ ~nodes[at].role /\ \A i \in DOMAIN nodes : nodes[i].parent # n)
    /\ UNCHANGED uri
    /\ IF ok THEN nodes' = RemoveAt(nodes, at) /\ Save ELSE UNCHANGED <<nodes, file>>

-----------------------------------------------------------------------------
(* What holds.                                                             *)

\* What was saved is what the next start loads, the defaults of a file that
\* left fields out included: kinds, parents, data types, switches and order.
\* Except that a list without nodes comes back as the seed.
SavedIsLoaded ==
    up /\ nodes # << >> /\ file = Printed(uri, nodes) =>
      LET c == server_config_load(file) IN c.uri = uri /\ Printed(uri, c.nodes) = file

\* No sequence of requests leaves a file that stops the next start, other
\* than one that was cut off.
StartsAgain == up /\ IsFile(file) => Builds(server_config_load(file).nodes)
=============================================================================
