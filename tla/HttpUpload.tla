----------------------------- MODULE HttpUpload -----------------------------
(***************************************************************************)
(* How the configuration UI of the server receives a request               *)
(* (access_handler and read_post_body of src/http_server.c).               *)
(*                                                                         *)
(* libmicrohttpd calls access_handler for a request once with its headers, *)
(* then with pieces of its body, then without data, as long as no response *)
(* is queued.  What a call keeps for the next one is con_cls: NULL, the    *)
(* marker that stands for "headers seen", or a C string with the body.     *)
(*                                                                         *)
(* A body is a sequence of characters; Nul is the one that ends C strings. *)
(* What an API handler does is left to ServerConfig and NodeManager: here  *)
(* it runs with some body, and builds a response or fails to.              *)
(***************************************************************************)
EXTENDS Naturals, Sequences, SequencesExt

CONSTANTS
    Conns,       \* connections of the UI
    Requests,    \* what they send: [method, known, body]; known: it has a handler
    Nul,         \* the character that ends C strings
    Null,        \* con_cls: NULL
    Marker       \* con_cls: POST_RECV_MARKER

Chars == UNION {ToSet(r.body) : r \in Requests}

VARIABLES
    phase,    \* how far the request of each connection is
    req,      \* the request itself, or Null
    rest,     \* the part of its body that has not been taken yet
    con_cls,
    ran       \* history: the bodies the handler of this request has run with

vars == <<phase, req, rest, con_cls, ran>>

Active   == {"headers", "body"}
Answered == {"done", "file", "options", "notfound", "closed"}
IsBuffer(x) == x \notin {Null, Marker}

TypeOK ==
    \A c \in Conns :
      /\ phase[c] \in {"idle"} \cup Active \cup Answered
      /\ IF phase[c] = "idle" THEN req[c] = Null ELSE req[c] \in Requests
      /\ phase[c] \in Active => IsSuffix(rest[c], req[c].body)
      /\ phase[c] = "body" /\ IsBuffer(con_cls[c]) =>
           Len(con_cls[c]) + Len(rest[c]) <= Len(req[c].body)

-----------------------------------------------------------------------------
Become(c, p) == phase' = [phase EXCEPT ![c] = p]
Upload(c)    == req[c].method \in {"PUT", "POST"}

\* The C string that a buffer is.
CString(b) ==
    LET ends == {i \in 1..Len(b) : b[i] = Nul}
    IN  IF ends = {} THEN b
        ELSE SubSeq(b, 1, (CHOOSE i \in ends : \A j \in ends : i <= j) - 1)

\* Fault: only what a handler answers frees the body.
FreeConClsIfDone(c) ==
    con_cls' = IF phase'[c] = "done" THEN [con_cls EXCEPT ![c] = Null] ELSE con_cls
FreeConCls(c) == con_cls' = [con_cls EXCEPT ![c] = Null]

\* send_error_json: without a response the connection is closed.
NotFound(c) == Become(c, "notfound") \/ Become(c, "closed")

\* The routes.  A handler that has run but got no response built is answered
\* like a path without one.  (The handlers that change something do not test
\* whether the text of their answer could be printed: without memory for it
\* they give strlen a null pointer, which ends the process.  That is "closed"
\* here, and the end of the process a step of its own.)
Dispatch(c, body) ==
    /\ IF req[c].known
       THEN ran' = [ran EXCEPT ![c] = Append(@, body)] /\ (Become(c, "done") \/ NotFound(c))
       ELSE UNCHANGED ran /\ (NotFound(c) \/ (req[c].method = "GET" /\ Become(c, "file")))
    /\ FreeConCls(c)
    /\ UNCHANGED <<req, rest>>

Options(c) ==
    /\ phase[c] = "headers" /\ req[c].method = "OPTIONS"
    /\ Become(c, "options") \/ Become(c, "closed")
    /\ UNCHANGED <<req, rest, con_cls, ran>>

\* GET and DELETE are answered by the first call.
Plain(c) ==
    /\ phase[c] = "headers" /\ req[c].method \in {"GET", "DELETE"}
    /\ Dispatch(c, << >>)

\* A call without data: with the headers, when the body is complete, and
\* again where a call has got no memory.
NoData(c) ==
    /\ phase[c] = "headers" \/ (phase[c] = "body" /\ rest[c] = << >>)
    /\ Upload(c)

Mark(c) ==
    /\ NoData(c) /\ con_cls[c] = Null
    /\ con_cls' = [con_cls EXCEPT ![c] = Marker]
    /\ Become(c, "body")
    /\ UNCHANGED <<req, rest, ran>>

\* strdup gets no memory for the body of a request that has none.
EmptyFails(c) ==
    /\ NoData(c) /\ con_cls[c] = Marker
    /\ con_cls' = [con_cls EXCEPT ![c] = Null]
    /\ UNCHANGED <<phase, req, rest, ran>>

\* Fault: the call that replaces the marker leaves the body to the next one.
CompleteLater(c) ==
    /\ NoData(c)
    /\ \/ con_cls[c] = Marker /\ con_cls' = [con_cls EXCEPT ![c] = Null]
                              /\ UNCHANGED <<phase, req, rest, ran>>
       \/ IsBuffer(con_cls[c]) /\ Dispatch(c, CString(con_cls[c]))

Complete(c) ==
    /\ NoData(c) /\ con_cls[c] # Null
    /\ Dispatch(c, IF con_cls[c] = Marker THEN << >> ELSE CString(con_cls[c]))

\* Fault: a piece replaces the pieces before it.
KeepLast(x, data) == data

\* What read_post_body keeps: a copy, or what it has kept and data behind it.
Keep(x, data)     == IF IsBuffer(x) THEN CString(x) \o data ELSE data

\* Fault: the library is not told that the data has been taken.
ReceiveUntold(c, n) ==
    /\ phase[c] = "body" /\ n \in 1..Len(rest[c])
    /\ con_cls' = [con_cls EXCEPT ![c] = Keep(@, SubSeq(rest[c], 1, n))]
    /\ Len(con_cls'[c]) < 2 * Len(req[c].body)
    /\ UNCHANGED <<phase, req, rest, ran>>

Receive(c, n) ==
    /\ phase[c] = "body" /\ n \in 1..Len(rest[c])
    /\ con_cls' = [con_cls EXCEPT ![c] = Keep(@, SubSeq(rest[c], 1, n))]
    /\ rest' = [rest EXCEPT ![c] = SubSeq(@, n + 1, Len(@))]
    /\ UNCHANGED <<phase, req, ran>>

\* malloc or realloc fails: nothing is taken, and the data comes again.
ReceiveFails(c) ==
    /\ phase[c] = "body" /\ rest[c] # << >>
    /\ con_cls' = [con_cls EXCEPT ![c] = IF @ = Marker THEN Null ELSE @]
    /\ UNCHANGED <<phase, req, rest, ran>>

-----------------------------------------------------------------------------
\* The library and its clients.

Request(c, r) ==
    /\ phase[c] = "idle" /\ Become(c, "headers")
    /\ req' = [req EXCEPT ![c] = r]
    /\ rest' = [rest EXCEPT ![c] = r.body]
    /\ con_cls' = [con_cls EXCEPT ![c] = Null]
    /\ ran' = [ran EXCEPT ![c] = << >>]

\* The request ends, or the client goes away in the middle of it: nobody is
\* told, and a buffer that con_cls still points to is lost.
End(c) ==
    /\ phase[c] # "idle" /\ Become(c, "idle")
    /\ req' = [req EXCEPT ![c] = Null]
    /\ con_cls' = [con_cls EXCEPT ![c] = Null]
    /\ rest' = [rest EXCEPT ![c] = << >>] /\ ran' = [ran EXCEPT ![c] = << >>]

Init ==
    /\ phase = [c \in Conns |-> "idle"]
    /\ req = [c \in Conns |-> Null]
    /\ rest = [c \in Conns |-> << >>]
    /\ con_cls = [c \in Conns |-> Null]
    /\ ran = [c \in Conns |-> << >>]

Takes(c) == \E n \in 1..Len(rest[c]) : Receive(c, n)
Call(c)  == Options(c) \/ Plain(c) \/ Mark(c) \/ EmptyFails(c) \/ Complete(c)
            \/ Takes(c) \/ ReceiveFails(c)

\* The library goes on calling, a client goes on sending or leaves, and
\* memory is not missing for ever.
Fairness ==
    \A c \in Conns : WF_vars(Call(c)) /\ SF_vars(Takes(c)) /\ SF_vars(Complete(c))

-----------------------------------------------------------------------------
\* Whatever pieces a body comes in and whatever memory is missing meanwhile,
\* the handler runs once, with the body that was sent, and an answer other
\* than an error means that it has run.  A body that contains Nul is cut, but
\* not before the first.
BodyIsWhatWasSent ==
    \A c \in Conns : phase[c] # "idle" =>
        /\ Len(ran[c]) <= 1
        /\ phase[c] = "done" => ran[c] # << >>
        /\ \A i \in 1..Len(ran[c]) :
             LET sent == IF Upload(c) THEN req[c].body ELSE << >>
             IN  IsPrefix(CString(sent), ran[c][i]) /\ (CString(sent) = sent => ran[c][i] = sent)

\* Once a request is answered, in whatever way, its body has been freed.
AnsweredHoldsNothing ==
    \A c \in Conns : phase[c] \in Answered => ~IsBuffer(con_cls[c])

\* Every request is answered unless its client leaves: no sequence of calls
\* that find no memory lets the handler return without a response for ever.
EventuallyAnswered == \A c \in Conns : phase[c] \in Active ~> phase[c] \notin Active
=============================================================================
