----------------------------- MODULE ServerApi ------------------------------
(***************************************************************************)
(* The HTTP API of the OPC UA test server: requests that arrive in pieces  *)
(* (HttpUpload) and change the configuration (ServerConfig).  A handler    *)
(* runs inside the call of access_handler that completes its request, with *)
(* the body that has been put together.                                    *)
(*                                                                         *)
(* A document is a body of two characters: what it says, and Brace, without*)
(* which it does not parse.                                                *)
(***************************************************************************)
EXTENDS Naturals, Sequences, SequencesExt

CONSTANTS
    Conns, Requests, Nul, Null, Marker,                         \* of HttpUpload
    Names, BadNames, Short, Uris, DefaultUri, ShortUri, Seed, HandWritten,
    MaxNodes, Absent, NotJson, Root, Missing, CutFile,          \* of ServerConfig
    Brace           \* the end of a document

ASSUME RequestAssumption ==
    /\ \A r \in Requests : r.method \in {"OPTIONS", "GET", "DELETE", "PUT", "POST"}
    /\ \A r \in Requests : r.known \in BOOLEAN /\ r.body \in Seq(ToSet(r.body))
    /\ Marker # Null /\ Null \notin Requests

VARIABLES
    phase, req, rest, con_cls, ran,   \* of HttpUpload
    up, uri, nodes, file,             \* of ServerConfig
    ok              \* what the last handler of each connection has decided

Http   == INSTANCE HttpUpload
Config == INSTANCE ServerConfig

\* con_cls is told from a body by its value; a document has the fields that
\* the handlers look for, or not.
ASSUME BodyAssumption ==
    /\ {Null, Marker} \cap Seq(Http!Chars) = {}
    /\ \A d \in Http!Chars \ {Brace, Nul} :
         /\ d # NotJson
         /\ d.name \in Config!AnyName \cup {Absent} /\ d.uri \in Uris \cup {Absent}
         /\ d.parent \in Config!AnyName \cup {Root, Absent}

\* Names that are too long are not good, and what is left of them and of URIs
\* that are too long fits; the program's own list does, and its names differ.
ASSUME ConfigAssumption ==
    /\ Names \cap BadNames = {} /\ DOMAIN Short \subseteq BadNames
    /\ \A n \in DOMAIN Short : Short[n] \in Config!Held
    /\ DefaultUri \in Config!HeldUris
    /\ \A u \in DOMAIN ShortUri : ShortUri[u] \in Config!HeldUris
    /\ Root \notin DOMAIN Short
    /\ MaxNodes \in Nat /\ Len(Seed) \in 1..MaxNodes
    /\ Seed \in Seq(Config!Definition) /\ Config!Builds(Seed)
    /\ \A f \in HandWritten : Config!IsFile(f) /\ Config!IsConfig(f)

\* The values that stand for nothing are nothing else.
ASSUME AbsentAssumption ==
    /\ Absent \notin Config!AnyName \cup {Root} \cup Uris \cup Config!Types \cup Config!Kinds
    /\ Absent # TRUE /\ Absent \notin Seq(Config!Entry)
    /\ {Missing, CutFile} \cap [uri : Uris, nodes : Seq(Config!Entry)] = {}

httpVars   == <<phase, req, rest, con_cls, ran>>
configVars == <<uri, nodes, file>>
vars       == <<httpVars, configVars, up, ok>>

TypeOK == Http!TypeOK /\ Config!TypeOK /\ ok \in [Conns -> BOOLEAN]

-----------------------------------------------------------------------------
\* cJSON_Parse does not look at what follows a document.
Parse(body) ==
    IF Len(body) >= 2 /\ body[1] # Brace /\ body[2] = Brace THEN body[1] ELSE NotJson

\* The routes that change the configuration.
Handle(r, body, decided) ==
    LET d == Parse(body) IN
    \/ r.route = "config"   /\ Config!PutConfig(d, decided)
    \/ r.route = "folder"   /\ Config!PostFolder(d, decided)
    \/ r.route = "variable" /\ Config!PostVariable(d, decided)
    \/ r.route = "delete"   /\ Config!Delete(r.name, decided)
    \/ r.route = "other"    /\ UNCHANGED configVars

Init == Http!Init /\ Config!Init /\ ok = [c \in Conns |-> FALSE]

Serve(c) ==
    /\ up /\ Http!Call(c) /\ UNCHANGED up
    /\ \/ ran'[c] = ran[c] /\ UNCHANGED <<configVars, ok>>
       \/ /\ ran'[c] # ran[c]
          /\ ok' \in [Conns -> BOOLEAN] /\ \A d \in Conns \ {c} : ok'[d] = ok[d]
          /\ Handle(req[c], Last(ran'[c]), ok'[c])

Client(c) ==
    /\ up /\ UNCHANGED <<configVars, up, ok>>
    /\ Http!End(c) \/ \E r \in Requests : Http!Request(c, r)

Start == Config!Start /\ UNCHANGED <<httpVars, ok>>

\* The connections end with the process.
Stop ==
    /\ Config!Stop
    /\ phase' = [c \in Conns |-> "idle"] /\ req' = [c \in Conns |-> Null]
    /\ rest' = [c \in Conns |-> << >>] /\ con_cls' = [c \in Conns |-> Null]
    /\ ran' = [c \in Conns |-> << >>] /\ ok' = [c \in Conns |-> FALSE]

Next == Start \/ Stop \/ \E c \in Conns : Serve(c) \/ Client(c)

Spec == Init /\ [][Next]_vars

\* That of HttpUpload: nothing is assumed of starts and stops.
FairSpec == Spec /\ Http!Fairness

-----------------------------------------------------------------------------
(* What holds.                                                             *)

\* What a request means, from what its client has sent.
Sent(c) == Parse(Http!CString(req[c].body))

Unlisted == UNCHANGED nodes /\ Len(nodes) = MaxNodes

\* The node that a document describes, as README.md and the form offer it.
Describes(d, n, kind) ==
    /\ n.kind = kind /\ n.name = d.name /\ n.name \in Names /\ ~n.role
    /\ n.parent = Config!ParentOf(d)
    /\ d.type # Absent /\ kind = "variable" => n.type = d.type
    /\ n.simulation <=> kind = "variable" /\ d.simulation = TRUE
    /\ n.simulation => n.type = "Boolean"

\* A hand-written entry of another kind may have the name of a node.
Shadowed(n) == \E i \in DOMAIN nodes : nodes[i].name = n /\ nodes[i].kind = "other"

Done(c) ==
    LET d == Sent(c) IN
    CASE req[c].route \in {"folder", "variable"} ->
           UNCHANGED uri /\
           \/ Unlisted
           \/ /\ nodes = Front(nodes')
              /\ Describes(d, Last(nodes'), req[c].route)
              /\ \A i \in DOMAIN nodes : nodes[i].name # d.name
      [] req[c].route = "config" -> uri' = Config!CutUri(d.uri) /\ UNCHANGED nodes
      [] req[c].route = "delete" ->
           /\ UNCHANGED uri
           /\ \E i \in DOMAIN nodes : nodes[i].name = req[c].name /\ nodes' = RemoveAt(nodes, i)
           /\ \A n \in ToSet(nodes') : n.parent # req[c].name
           /\ \A n \in ToSet(nodes') : n.name = req[c].name => Shadowed(n.name)
      [] OTHER -> UNCHANGED <<uri, nodes>>

\* A body with Nul before the end of its document: which part of it the handler
\* gets depends on the pieces.
Garbled(c) ==
    Http!Upload(c) /\ Sent(c) = NotJson /\ Http!CString(req[c].body) # req[c].body

\* A request for which its handler decides on 200 has done what its client
\* asked for, field by field, whatever pieces it came in; one that is
\* refused, or gets no handler, has changed nothing.  With one exception: of a
\* namespace URI that is longer than the server can keep, it has kept the
\* start.  Without memory for the answer the client sees a 404, nothing, or
\* the process crash, in both cases.
AnswerIsTrue ==
    [][\A c \in Conns : phase[c] \in Http!Active /\ phase'[c] \in Http!Answered =>
         IF ran'[c] # ran[c] /\ ok'[c] THEN Garbled(c) \/ Done(c) ELSE UNCHANGED configVars]_vars

\* The properties of the parts.
BodyIsWhatWasSent    == Http!BodyIsWhatWasSent
AnsweredHoldsNothing == Http!AnsweredHoldsNothing
EventuallyAnswered   == Http!EventuallyAnswered
SavedIsLoaded        == Config!SavedIsLoaded
StartsAgain          == Config!StartsAgain
=============================================================================
