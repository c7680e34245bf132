---------------------------- MODULE MCServerApi -----------------------------
(* One request of each kind, documents with and without each flaw, bodies  *)
(* of up to four pieces, and files written by hand.                        *)
EXTENDS ServerApi, Subsequence, TLC

MCNames == {"Sensors", "f", "v", "w", "sim"}
MCBad   == {"long_f", "no good"}
MCShort == "long_f" :> "f"
MCUris  == {"urn:demo", "urn:u", "urn:u..."}
MCShortUri == "urn:u..." :> "urn:u"

Node(kind, name, parent, type, sim, role) ==
    [kind |-> kind, name |-> name, parent |-> parent, type |-> type,
     simulation |-> sim, role |-> role]
MCSeed == << Node("folder", "Sensors", Root, "Boolean", FALSE, FALSE),
             Node("variable", "sim", "Sensors", "Boolean", FALSE, TRUE) >>

\* Long names and a long URI, entries without a name or a kind and an unknown data type;
\* no list; one entry too many, one of another kind; one name twice.
Odd   == [uri |-> "urn:u...",
          nodes |-> << Node("folder", Absent, Root, Absent, Absent, Absent),
                       Node("variable", "w", "long_f", "Float", TRUE, Absent),
                       Node(Absent, "v", Root, Absent, Absent, Absent),
                       Node("folder", "long_f", Absent, Absent, Absent, Absent) >>]
Bare  == [uri |-> Absent, nodes |-> Absent]
Big   == [uri |-> Absent,
          nodes |-> << Node("other", "w", Absent, Absent, Absent, Absent),
                       Node("variable", "sim", "w", "Int32", Absent, TRUE),
                       Node("variable", "f", Root, "Double", TRUE, Absent),
                       Node("folder", "v", Root, Absent, Absent, Absent) >>]
Same  == [uri |-> "urn:u",
          nodes |-> << Node("other", "w", "no good", Absent, TRUE, Absent),
                       Node("folder", "w", Root, Absent, Absent, Absent) >>]
Twice == [uri |-> Absent,
          nodes |-> << Node("folder", "f", Root, Absent, Absent, Absent),
                       Node("folder", "long_f", Root, Absent, Absent, Absent) >>]
MCHandWritten == {Odd, Bare, Big, Same, Twice}

Doc(name, parent, type, sim, u) ==
    [name |-> name, parent |-> parent, type |-> type, simulation |-> sim, uri |-> u]
Folders   == {Doc(n, Absent, Absent, Absent, Absent) : n \in {"f", "no good", Absent}}
Sensor    == Doc("v", "f", Absent, TRUE, Absent)
Variables == {Sensor, Doc("v", "Sensors", "Int32", Absent, Absent),
              Doc("v", "f", "Int32", TRUE, Absent), Doc("v", "f", "Float", Absent, Absent)}
Configs   == {Doc(Absent, Absent, Absent, Absent, u) : u \in {"urn:u", "urn:u...", Absent}}

Whole(docs) == {<<d, Brace>> : d \in docs}
Pieces      == UNION {[1..n -> {Sensor, Brace}] : n \in 0..4}
               \cup {<<Nul, Sensor>>, <<Nul, Sensor, Brace>>, <<Sensor, Brace, Nul, Sensor>>}

Req(method, known, route, name, bodies) ==
    [method : {method}, known : {known}, route : {route}, name : {name}, body : bodies]
MCRequests ==
    Req("PUT", TRUE, "config", Absent, Whole(Configs))
    \cup Req("POST", TRUE, "folder", Absent, Whole(Folders))
    \cup Req("POST", TRUE, "variable", Absent, Whole(Variables) \cup Pieces)
    \cup UNION {Req("DELETE", TRUE, "delete", n, {<< >>}) : n \in MCNames}
    \cup UNION {Req(m, FALSE, "other", Absent, {<<Sensor, Brace>>}) : m \in {"POST", "DELETE", "GET"}}
    \cup UNION {Req(m, TRUE, "other", Absent, {<<Sensor, Brace>>}) : m \in {"PUT", "GET", "OPTIONS"}}

\* Entries is SelectSeq: on every sequence of up to five of two kinds.
ASSUME EntriesIsSelectSeq ==
    \A n \in 0..5 : \A s \in [1..n -> BOOLEAN \X BOOLEAN] :
      Entries(s, {i \in 1..n : s[i][1]}) = SelectSeq(s, LAMBDA x : x[1])
=============================================================================
