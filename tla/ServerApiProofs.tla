-------------------------- MODULE ServerApiProofs ---------------------------
(* What the HTTP API of the server keeps and does, for any connections,    *)
(* requests and configurations.                                            *)
EXTENDS ServerApi, SubsequenceProofs

\* A connection whose request is answered holds no buffer, and one that has
\* only seen its headers nothing at all.
Holds(c) ==
    /\ phase[c] \in Http!Answered => ~Http!IsBuffer(con_cls[c])
    /\ phase[c] = "headers" => con_cls[c] = Null

HoldInv ==
    /\ DOMAIN phase = Conns /\ DOMAIN con_cls = Conns
    /\ \A c \in Conns : Holds(c)

-----------------------------------------------------------------------------
\* What a call, a request or its end leaves of the other connections.
LEMMA OneConnection ==
    ASSUME HoldInv, NEW c \in Conns,
           \E p : phase' = [phase EXCEPT ![c] = p],
           \/ UNCHANGED con_cls
           \/ \E x : con_cls' = [con_cls EXCEPT ![c] = x],
           Holds(c)'
    PROVE  HoldInv'
BY DEF HoldInv, Holds

\* An answer that was dispatched has freed the body.
LEMMA DispatchHolds ==
    ASSUME HoldInv, NEW c \in Conns, NEW body, phase[c] \in Http!Active,
           Http!Dispatch(c, body)
    PROVE  HoldInv'
<1>1. \E p : phase' = [phase EXCEPT ![c] = p] /\ p # "headers"
    BY DEF Http!Dispatch, Http!NotFound, Http!Become
<1>2. con_cls' = [con_cls EXCEPT ![c] = Null]
    BY DEF Http!Dispatch, Http!FreeConCls
<1>3. Holds(c)'
    BY <1>1, <1>2 DEF HoldInv, Holds, Http!IsBuffer
<1> QED
    BY <1>1, <1>2, <1>3, OneConnection

\* Every call of access_handler.
LEMMA CallHolds ==
    ASSUME HoldInv, NEW c \in Conns, Http!Call(c)
    PROVE  HoldInv'
<1> USE DEF HoldInv, Holds, Http!Answered, Http!IsBuffer
<1>1. CASE Http!Options(c)
    BY <1>1 DEF Http!Options, Http!Become
<1>2. CASE Http!Plain(c)
    BY <1>2, DispatchHolds DEF Http!Plain, Http!Active
<1>3. CASE Http!Mark(c)
    BY <1>3 DEF Http!Mark, Http!Become
<1>4. CASE Http!EmptyFails(c)
    BY <1>4 DEF Http!EmptyFails
<1>5. CASE Http!Complete(c)
    BY <1>5, DispatchHolds DEF Http!Complete, Http!NoData, Http!Active
<1>6. CASE Http!Takes(c)
    BY <1>6 DEF Http!Takes, Http!Receive
<1>7. CASE Http!ReceiveFails(c)
    BY <1>7 DEF Http!ReceiveFails
<1> QED
    BY <1>1, <1>2, <1>3, <1>4, <1>5, <1>6, <1>7 DEF Http!Call

\* Every step of the server, its clients and its process.
LEMMA NextHolds == HoldInv /\ [Next]_vars => HoldInv'
<1> SUFFICES ASSUME HoldInv, [Next]_vars PROVE HoldInv'
    OBVIOUS
<1>1. CASE Start
    BY <1>1 DEF Start, httpVars, HoldInv, Holds
<1>2. CASE Stop
    BY <1>2 DEF Stop, HoldInv, Holds, Http!Answered
<1>3. ASSUME NEW c \in Conns, Serve(c) PROVE HoldInv'
    BY <1>3, CallHolds DEF Serve
<1>4. ASSUME NEW c \in Conns, Client(c) PROVE HoldInv'
  <2>1. CASE Http!End(c)
      BY <2>1 DEF Http!End, Http!Become, HoldInv, Holds, Http!Answered
  <2>2. ASSUME NEW r \in Requests, Http!Request(c, r) PROVE HoldInv'
      BY <2>2 DEF Http!Request, Http!Become, HoldInv, Holds, Http!Answered
  <2> QED
      BY <1>4, <2>1, <2>2 DEF Client
<1>5. CASE UNCHANGED vars
    BY <1>5 DEF vars, httpVars, HoldInv, Holds
<1> QED
    BY <1>1, <1>2, <1>3, <1>4, <1>5 DEF Next

\* Once a request is answered, in whatever way, its body has been freed, for
\* any number of connections and requests of any length (free_con_cls).
THEOREM Freed == Spec => []AnsweredHoldsNothing
<1>1. Init => HoldInv
    BY DEF Init, Http!Init, HoldInv, Holds, Http!Answered
<1>2. HoldInv => AnsweredHoldsNothing
    BY DEF HoldInv, Holds, AnsweredHoldsNothing, Http!AnsweredHoldsNothing
<1> QED
    BY <1>1, <1>2, NextHolds, PTL DEF Spec
-----------------------------------------------------------------------------
\* A C string is what is before the first Nul.
LEMMA CStringOf ==
    ASSUME NEW S, NEW s \in Seq(S)
    PROVE  LET t == Http!CString(s) IN
           /\ t \in Seq(S) /\ Len(t) <= Len(s)
           /\ \A i \in 1..Len(t) : t[i] = s[i] /\ t[i] # Nul
           /\ Len(t) < Len(s) => s[Len(t) + 1] = Nul
<1> DEFINE ends == {i \in 1..Len(s) : s[i] = Nul}
           t == Http!CString(s)
<1>1. CASE ends = {}
  <2>1. t = s
      BY <1>1 DEF Http!CString
  <2> QED
      BY <1>1, <2>1
<1>2. CASE ends # {}
  <2> DEFINE e == CHOOSE i \in ends : \A j \in ends : i <= j
  <2>1. \E i \in ends : \A j \in ends : i <= j
    <3>1. ends \subseteq Nat
        OBVIOUS
    <3> HIDE DEF ends
    <3> QED
        BY <1>2, <3>1, LeastNumber
  <2>2. e \in ends /\ \A j \in ends : e <= j
      BY <2>1
  <2>3. t = SubSeq(s, 1, e - 1)
      BY <1>2 DEF Http!CString
  <2>4. e \in 1..Len(s) /\ s[e] = Nul /\ \A i \in 1..(e - 1) : s[i] # Nul
      BY <2>2
  <2> HIDE DEF e, t
  <2>5. /\ t \in Seq(S) /\ Len(t) = e - 1
        /\ \A i \in 1..(e - 1) : t[i] = s[i]
      BY <2>3, <2>4
  <2> QED
      BY <2>4, <2>5 DEF t
<1> QED
    BY <1>1, <1>2

\* None of the first n characters of s ends a C string.
Clean(s, n) == \A i \in 1..n : s[i] # Nul

\* What a C string keeps of a sequence that starts without Nul.
LEMMA CleanIsKept ==
    ASSUME NEW S, NEW s \in Seq(S), NEW n \in 0..Len(s), Clean(s, n)
    PROVE  n <= Len(Http!CString(s)) /\ \A i \in 1..n : Http!CString(s)[i] = s[i]
<1> DEFINE t == Http!CString(s)
<1>1. /\ t \in Seq(S) /\ \A i \in 1..Len(t) : t[i] = s[i]
      /\ Len(t) < Len(s) => s[Len(t) + 1] = Nul
    BY CStringOf
<1> HIDE DEF t
<1>2. n <= Len(t)
    BY <1>1 DEF Clean
<1> QED
    BY <1>1, <1>2 DEF t

\* A buffer x after the first n characters of the body b have been taken: all
\* of them up to the first Nul, in their places.
Taken(x, b, n) ==
    /\ x \in Seq(Http!Chars) /\ Len(x) <= n
    /\ \A i \in 1..n : Clean(b, i) => i <= Len(x) /\ x[i] = b[i]
    /\ Clean(b, n) => Len(x) = n

\* What a handler may run with for the request r.
FromBody(r, x) ==
    LET sent == IF r.method \in {"PUT", "POST"} THEN r.body ELSE << >> IN
    /\ x \in Seq(Http!Chars) /\ Clean(x, Len(x))
    /\ IsPrefix(Http!CString(sent), x)
    /\ Http!CString(sent) = sent => x = sent

\* One more piece, behind what has been taken.
LEMMA TakeMore ==
    ASSUME NEW b \in Seq(Http!Chars), NEW n \in Nat, NEW d \in Seq(Http!Chars),
           n + Len(d) <= Len(b), \A i \in 1..Len(d) : d[i] = b[n + i], NEW x,
           IF Http!IsBuffer(x) THEN Taken(x, b, n) ELSE n = 0
    PROVE  Taken(Http!Keep(x, d), b, n + Len(d))
<1> DEFINE m == Len(d)
<1>0. m \in Nat
    OBVIOUS
<1>1. CASE ~Http!IsBuffer(x)
    BY <1>1 DEF Http!Keep, Taken, Clean
<1>2. CASE Http!IsBuffer(x)
  <2> DEFINE t == Http!CString(x)
             y == t \o d
  <2>1. /\ x \in Seq(Http!Chars) /\ Len(x) <= n
        /\ \A i \in 1..n : Clean(b, i) => i <= Len(x) /\ x[i] = b[i]
        /\ Clean(b, n) => Len(x) = n
      BY <1>2 DEF Taken
  <2>2. t \in Seq(Http!Chars) /\ Len(t) <= Len(x)
      BY <2>1, CStringOf
  <2>3. ASSUME NEW i \in 0..n, Clean(b, i)
        PROVE  i <= Len(t) /\ \A j \in 1..i : t[j] = b[j]
    <3>1. \A j \in 1..i : Clean(b, j)
        BY <2>3 DEF Clean
    <3>2. \A j \in 1..i : j <= Len(x) /\ x[j] = b[j]
        BY <2>1, <3>1
    <3>3. i = 0 \/ i \in 1..i
        OBVIOUS
    <3>4. i <= Len(x) /\ \A j \in 1..i : x[j] = b[j]
        BY <2>1, <3>2, <3>3
    <3>5. Clean(x, i)
        BY <2>3, <3>4 DEF Clean
    <3> QED
        BY <2>1, <3>4, <3>5, CleanIsKept
  <2> HIDE DEF t
  <2>4. /\ y \in Seq(Http!Chars) /\ Len(y) = Len(t) + m
        /\ \A i \in 1..Len(t) : y[i] = t[i]
        /\ \A i \in 1..m : y[Len(t) + i] = d[i]
      BY <2>2
  <2>5. Clean(b, n) => Len(t) = n
      BY <2>1, <2>2, <2>3
  <2> HIDE DEF y, m
  <2>6. ASSUME NEW i \in 1..(n + m), Clean(b, i) PROVE i <= Len(y) /\ y[i] = b[i]
    <3>1. CASE i <= n
        BY <1>0, <2>2, <2>3, <2>4, <2>6, <3>1
    <3>2. CASE i > n
      <4>1. Clean(b, n)
          BY <2>6, <3>2 DEF Clean
      <4>2. i - n \in 1..m /\ y[n + (i - n)] = d[i - n] /\ d[i - n] = b[n + (i - n)]
          BY <1>0, <2>4, <2>5, <3>2, <4>1 DEF m
      <4> QED
          BY <1>0, <2>4, <2>5, <4>1, <4>2
    <3> QED
        BY <3>1, <3>2
  <2>7. Clean(b, n + m) => Len(y) = n + m
      BY <1>0, <2>4, <2>5 DEF Clean
  <2>8. Len(y) <= n + m
      BY <1>0, <2>1, <2>2, <2>4
  <2>9. Http!Keep(x, d) = y
      BY <1>2 DEF Http!Keep, y, t
  <2> QED
      BY <2>4, <2>6, <2>7, <2>8, <2>9 DEF Taken, m
<1> QED
    BY <1>1, <1>2

\* The whole body.
LEMMA TakenIsBody ==
    ASSUME NEW r, r.method \in {"PUT", "POST"}, r.body \in Seq(Http!Chars),
           NEW x, Taken(x, r.body, Len(r.body))
    PROVE  FromBody(r, Http!CString(x))
<1> DEFINE b == r.body
           y == Http!CString(x)
           z == Http!CString(b)
<1>1. /\ x \in Seq(Http!Chars) /\ Len(x) <= Len(b)
      /\ \A i \in 1..Len(b) : Clean(b, i) => i <= Len(x) /\ x[i] = b[i]
    BY DEF Taken
<1>2. /\ y \in Seq(Http!Chars) /\ Len(y) <= Len(x)
      /\ \A i \in 1..Len(y) : y[i] = x[i] /\ y[i] # Nul
    BY <1>1, CStringOf
<1>3. /\ z \in Seq(Http!Chars) /\ Len(z) <= Len(b)
      /\ \A i \in 1..Len(z) : z[i] = b[i] /\ z[i] # Nul
    BY CStringOf
<1>4. Len(z) <= Len(y) /\ \A i \in 1..Len(z) : y[i] = z[i]
  <2>1. \A i \in 1..Len(z) : Clean(b, i)
      BY <1>3 DEF Clean
  <2>2. Len(z) <= Len(x) /\ \A i \in 1..Len(z) : x[i] = b[i]
      BY <1>1, <1>3, <2>1
  <2>3. Clean(x, Len(z))
      BY <1>3, <2>2 DEF Clean
  <2>4. Len(z) \in 0..Len(x)
      BY <1>3, <2>2
  <2>5. Len(z) <= Len(y) /\ \A i \in 1..Len(z) : y[i] = x[i]
      BY <1>1, <2>3, <2>4, CleanIsKept
  <2> QED
      BY <1>3, <2>2, <2>5
<1> HIDE DEF y, z
<1>5. IsPrefix(z, y)
    BY <1>2, <1>3, <1>4 DEF IsPrefix
<1>6. ASSUME z = b PROVE y = b
    BY <1>1, <1>2, <1>3, <1>4, <1>6
<1>7. Clean(y, Len(y))
    BY <1>2 DEF Clean
<1> QED
    BY <1>2, <1>5, <1>6, <1>7 DEF FromBody, y, z

-----------------------------------------------------------------------------
\* How far a request is: what has been taken of its body, and what its handler
\* has run with.
Receiving(b, s, x) ==
    LET n == Len(b) - Len(s) IN
    /\ s \in Seq(Http!Chars) /\ Len(s) <= Len(b)
    /\ \A i \in 1..Len(s) : s[i] = b[n + i]
    /\ IF Http!IsBuffer(x) THEN Taken(x, b, n) ELSE n = 0

RequestIs(p, r, s, x, h) ==
    /\ p \in {"idle"} \cup Http!Active \cup Http!Answered
    /\ IF p = "idle" THEN r = Null ELSE r \in Requests
    /\ p \in Http!Active => h = << >> /\ Receiving(r.body, s, x)
    /\ p \in Http!Answered =>
         /\ h = << >> \/ (h = <<h[1]>> /\ FromBody(r, h[1]))
         /\ p = "done" => h # << >>

RequestInv(c) == RequestIs(phase[c], req[c], rest[c], con_cls[c], ran[c])

HttpInv ==
    /\ DOMAIN phase = Conns /\ DOMAIN req = Conns /\ DOMAIN rest = Conns
    /\ DOMAIN con_cls = Conns /\ DOMAIN ran = Conns
    /\ \A c \in Conns : RequestInv(c)

\* What a step that changes the request of c leaves of the others.
LEMMA OneRequest ==
    ASSUME HttpInv, NEW c \in Conns,
           DOMAIN phase' = Conns, DOMAIN req' = Conns, DOMAIN rest' = Conns,
           DOMAIN con_cls' = Conns, DOMAIN ran' = Conns,
           \A d \in Conns \ {c} :
             /\ phase'[d] = phase[d] /\ req'[d] = req[d] /\ rest'[d] = rest[d]
             /\ con_cls'[d] = con_cls[d] /\ ran'[d] = ran[d],
           RequestInv(c)'
    PROVE  HttpInv'
<1>1. ASSUME NEW d \in Conns \ {c} PROVE RequestInv(d)'
    BY <1>1 DEF HttpInv, RequestInv
<1> QED
    BY <1>1 DEF HttpInv

\* A body is one of the characters that there are.
LEMMA BodyType == \A r \in Requests : r.body \in Seq(Http!Chars)
<1> SUFFICES ASSUME NEW r \in Requests PROVE r.body \in Seq(Http!Chars)
    OBVIOUS
<1>1. r.body \in Seq(ToSet(r.body)) /\ ToSet(r.body) \subseteq Http!Chars
  <2>1. r.body \in Seq(ToSet(r.body))
      BY RequestAssumption
  <2>2. \A x \in ToSet(r.body) : x \in Http!Chars
      BY Zenon DEF Http!Chars, Http!ToSet, ToSet
  <2> QED
      BY <2>1, <2>2
<1> HIDE DEF Http!Chars
<1>2. \A i \in 1..Len(r.body) : r.body[i] \in Http!Chars
    BY <1>1
<1> QED
    BY <1>1, <1>2

\* An answer, after a handler or without one.
LEMMA DispatchKeeps ==
    ASSUME HttpInv, NEW c \in Conns, phase[c] \in Http!Active, NEW body,
           Http!Dispatch(c, body), FromBody(req[c], body)
    PROVE  HttpInv'
<1>1. /\ req' = req /\ rest' = rest /\ DOMAIN con_cls' = Conns
      /\ DOMAIN phase' = Conns /\ DOMAIN ran' = Conns
      /\ \A d \in Conns \ {c} :
           phase'[d] = phase[d] /\ con_cls'[d] = con_cls[d] /\ ran'[d] = ran[d]
    BY DEF HttpInv, Http!Dispatch, Http!NotFound, Http!Become, Http!FreeConCls
<1>2. phase'[c] \in Http!Answered /\ phase'[c] # "options"
    BY DEF HttpInv, Http!Dispatch, Http!NotFound, Http!Become, Http!Answered
<1>3. ran[c] = << >> /\ req[c] \in Requests
    BY DEF HttpInv, RequestInv, RequestIs, Http!Active
<1>4. CASE req[c].known
  <2>1. ran'[c] = <<body>>
      BY <1>3, <1>4 DEF Http!Dispatch, HttpInv
  <2>2. RequestInv(c)'
      BY <1>1, <1>2, <1>3, <2>1 DEF RequestInv, RequestIs, Http!Active, Http!Answered
  <2> QED
      BY <1>1, <2>2, OneRequest DEF HttpInv
<1>5. CASE ~req[c].known
  <2>1. ran' = ran /\ phase'[c] # "done"
      BY <1>5 DEF Http!Dispatch, HttpInv, Http!NotFound, Http!Become
  <2>2. RequestInv(c)'
      BY <1>1, <1>2, <1>3, <2>1 DEF RequestInv, RequestIs, Http!Active, Http!Answered
  <2> QED
      BY <1>1, <2>2, OneRequest DEF HttpInv
<1> QED
    BY <1>4, <1>5

\* What a call without data runs the handler with.
LEMMA CompleteBody ==
    ASSUME HttpInv, NEW c \in Conns, Http!NoData(c), HoldInv, con_cls[c] # Null
    PROVE  /\ phase[c] \in Http!Active
           /\ FromBody(req[c], IF con_cls[c] = Marker THEN << >> ELSE Http!CString(con_cls[c]))
<1> DEFINE b == req[c].body
<1>1. /\ phase[c] = "body" /\ rest[c] = << >> /\ req[c].method \in {"PUT", "POST"}
      /\ req[c] \in Requests
    BY DEF HttpInv, RequestInv, RequestIs, HoldInv, Holds, Http!NoData, Http!Upload
<1>2. b \in Seq(Http!Chars)
    BY <1>1, BodyType
<1>3. IF Http!IsBuffer(con_cls[c]) THEN Taken(con_cls[c], b, Len(b)) ELSE Len(b) = 0
    BY <1>1, <1>2 DEF HttpInv, RequestInv, RequestIs, Receiving, Http!Active
<1>4. CASE con_cls[c] = Marker
  <2>1. b = << >>
      BY <1>2, <1>3, <1>4 DEF Http!IsBuffer
  <2>2. Http!CString(<< >>) = << >>
      BY DEF Http!CString
  <2>3. FromBody(req[c], << >>)
      BY <1>1, <2>1, <2>2 DEF FromBody, Clean, IsPrefix
  <2> QED
      BY <1>1, <1>4, <2>3 DEF Http!Active
<1>5. CASE con_cls[c] # Marker
    BY <1>1, <1>2, <1>3, <1>5, TakenIsBody DEF Http!IsBuffer, Http!Active
<1> QED
    BY <1>4, <1>5

\* A piece of the body.
LEMMA ReceiveKeeps ==
    ASSUME HttpInv, NEW c \in Conns, NEW m \in 1..Len(rest[c]), Http!Receive(c, m)
    PROVE  HttpInv'
<1> DEFINE b == req[c].body
           s == rest[c]
           n == Len(b) - Len(s)
           x == con_cls[c]
           d == SubSeq(s, 1, m)
           t == SubSeq(s, m + 1, Len(s))
<1>1. /\ phase[c] = "body" /\ req[c] \in Requests /\ ran[c] = << >>
      /\ s \in Seq(Http!Chars) /\ Len(s) <= Len(b) /\ m \in 1..Len(s)
      /\ \A i \in 1..Len(s) : s[i] = b[n + i]
      /\ IF Http!IsBuffer(x) THEN Taken(x, b, n) ELSE n = 0
    BY DEF HttpInv, RequestInv, RequestIs, Receiving, Http!Receive, Http!Active
<1>2. b \in Seq(Http!Chars)
    BY <1>1, BodyType
<1>3. /\ phase' = phase /\ req' = req /\ ran' = ran
      /\ con_cls' = [con_cls EXCEPT ![c] = Http!Keep(x, d)]
      /\ rest' = [rest EXCEPT ![c] = t]
    BY DEF Http!Receive
<1> HIDE DEF b, s, x
<1>4. /\ d \in Seq(Http!Chars) /\ Len(d) = m /\ \A i \in 1..m : d[i] = s[i]
      /\ t \in Seq(Http!Chars) /\ Len(t) = Len(s) - m
      /\ \A i \in 1..Len(t) : t[i] = s[m + i]
    BY <1>1
<1> HIDE DEF d, t
<1>5. Taken(Http!Keep(x, d), b, n + m)
  <2>1. n \in Nat /\ n + Len(d) <= Len(b)
      BY <1>1, <1>2, <1>4
  <2> HIDE DEF n
  <2>2. \A i \in 1..Len(d) : i \in 1..Len(s) /\ d[i] = s[i]
      BY <1>1, <1>4
  <2>3. \A i \in 1..Len(d) : d[i] = b[n + i]
      BY <1>1, <2>2
  <2> QED
      BY <1>1, <1>2, <1>4, <2>1, <2>3, TakeMore
<1>6. Http!Keep(x, d) \notin {Null, Marker}
    BY <1>5, BodyAssumption DEF Taken
<1>7. n + m = Len(b) - Len(t) /\ Len(t) <= Len(b)
    BY <1>1, <1>2, <1>4
<1>8. \A i \in 1..Len(t) : t[i] = b[n + m + i]
    BY <1>1, <1>2, <1>4
<1> HIDE DEF n
<1>9. con_cls'[c] = Http!Keep(x, d) /\ rest'[c] = t
    BY <1>3 DEF HttpInv, d, t, x, s
<1>10. RequestInv(c)'
  <2>1. Receiving(b, t, Http!Keep(x, d))
      BY <1>4, <1>5, <1>6, <1>7, <1>8 DEF Receiving, Http!IsBuffer
  <2> QED
      BY <1>1, <1>3, <1>9, <2>1 DEF RequestInv, RequestIs, Http!Active, Http!Answered, b
<1> QED
    BY <1>3, <1>10, OneRequest DEF HttpInv

\* Every call of access_handler.
LEMMA CallKeeps ==
    ASSUME HttpInv, HoldInv, NEW c \in Conns, Http!Call(c)
    PROVE  HttpInv'
<1> USE DEF Http!Active, Http!Answered
<1>0. RequestIs(phase[c], req[c], rest[c], con_cls[c], ran[c])
    BY DEF HttpInv, RequestInv
<1>1. CASE Http!Options(c)
  <2>1. RequestInv(c)'
      BY <1>0, <1>1 DEF Http!Options, Http!Become, HttpInv, RequestInv, RequestIs
  <2> QED
      BY <1>1, <2>1, OneRequest DEF Http!Options, Http!Become, HttpInv
<1>2. CASE Http!Plain(c)
  <2>1. FromBody(req[c], << >>)
    <3>1. Http!CString(<< >>) = << >>
        BY DEF Http!CString
    <3> QED
        BY <1>2, <3>1 DEF Http!Plain, FromBody, Clean, IsPrefix
  <2> QED
      BY <1>2, <2>1, DispatchKeeps DEF Http!Plain
<1>3. CASE Http!Mark(c)
  <2>1. phase[c] \in Http!Active /\ con_cls'[c] = Marker /\ phase'[c] = "body"
      BY <1>3 DEF Http!Mark, Http!NoData, Http!Become, HttpInv
  <2>2. RequestInv(c)'
      BY <1>0, <1>3, <2>1 DEF Http!Mark, RequestInv, RequestIs, Receiving, Http!IsBuffer
  <2> QED
      BY <1>3, <2>2, OneRequest DEF Http!Mark, Http!Become, HttpInv
<1>4. CASE Http!EmptyFails(c)
  <2>1. con_cls'[c] = Null /\ con_cls[c] = Marker
      BY <1>4 DEF Http!EmptyFails, HttpInv
  <2>2. RequestInv(c)'
      BY <1>0, <1>4, <2>1 DEF Http!EmptyFails, RequestInv, RequestIs, Receiving, Http!IsBuffer
  <2> QED
      BY <1>4, <2>2, OneRequest DEF Http!EmptyFails, HttpInv
<1>5. CASE Http!Complete(c)
    BY <1>5, CompleteBody, DispatchKeeps DEF Http!Complete
<1>6. CASE Http!Takes(c)
    BY <1>6, ReceiveKeeps DEF Http!Takes
<1>7. CASE Http!ReceiveFails(c)
  <2>1. con_cls'[c] = con_cls[c] \/ (con_cls'[c] = Null /\ con_cls[c] = Marker)
      BY <1>7 DEF Http!ReceiveFails, HttpInv
  <2>2. RequestInv(c)'
      BY <1>0, <1>7, <2>1 DEF Http!ReceiveFails, RequestInv, RequestIs, Receiving, Http!IsBuffer
  <2> QED
      BY <1>7, <2>2, OneRequest DEF Http!ReceiveFails, HttpInv
<1> QED
    BY <1>1, <1>2, <1>3, <1>4, <1>5, <1>6, <1>7 DEF Http!Call

\* Every step of the server, its clients and its process.
LEMMA NextKeeps == HttpInv /\ HoldInv /\ [Next]_vars => HttpInv'
<1> SUFFICES ASSUME HttpInv, HoldInv, [Next]_vars PROVE HttpInv'
    OBVIOUS
<1> USE DEF Http!Active, Http!Answered
<1>1. CASE UNCHANGED httpVars
    BY <1>1 DEF httpVars, HttpInv, RequestInv
<1>2. CASE Stop
    BY <1>2 DEF Stop, HttpInv, RequestInv, RequestIs
<1>3. ASSUME NEW c \in Conns, Serve(c) PROVE HttpInv'
    BY <1>3, CallKeeps DEF Serve
<1>4. ASSUME NEW c \in Conns, Client(c) PROVE HttpInv'
  <2>1. CASE Http!End(c)
    <3>1. RequestInv(c)'
        BY <2>1 DEF Http!End, Http!Become, HttpInv, RequestInv, RequestIs
    <3> QED
        BY <2>1, <3>1, OneRequest DEF Http!End, Http!Become, HttpInv
  <2>2. ASSUME NEW r \in Requests, Http!Request(c, r) PROVE HttpInv'
    <3>1. /\ phase'[c] = "headers" /\ req'[c] = r /\ rest'[c] = r.body
          /\ con_cls'[c] = Null /\ ran'[c] = << >>
        BY <2>2 DEF Http!Request, Http!Become, HttpInv
    <3>2. r.body \in Seq(Http!Chars)
        BY BodyType
    <3>3. RequestInv(c)'
        BY <3>1, <3>2 DEF RequestInv, RequestIs, Receiving, Http!IsBuffer
    <3> QED
        BY <2>2, <3>3, OneRequest DEF Http!Request, Http!Become, HttpInv
  <2> QED
      BY <1>4, <2>1, <2>2 DEF Client
<1> QED
    BY <1>1, <1>2, <1>3, <1>4 DEF Next, Start, vars

LEMMA InitKeeps == Init => HttpInv /\ HoldInv
<1> USE DEF Http!Active, Http!Answered
<1> SUFFICES ASSUME Init PROVE HttpInv /\ HoldInv
    OBVIOUS
<1>1. HttpInv
    BY DEF Init, Http!Init, HttpInv, RequestInv, RequestIs
<1>2. HoldInv
    BY DEF Init, Http!Init, HoldInv, Holds
<1> QED
    BY <1>1, <1>2

\* The body of a request is put together as it was sent, for any bodies in any
\* pieces, whatever calls find no memory (read_post_body, access_handler).
THEOREM BodyArrives == Spec => []BodyIsWhatWasSent
<1>1. HttpInv => BodyIsWhatWasSent
  <2> SUFFICES ASSUME HttpInv, NEW c \in Conns, phase[c] # "idle"
               PROVE  /\ Len(ran[c]) <= 1 /\ (phase[c] = "done" => ran[c] # << >>)
                      /\ \A i \in 1..Len(ran[c]) :
                           LET sent == IF Http!Upload(c) THEN req[c].body ELSE << >>
                           IN  /\ Http!IsPrefix(Http!CString(sent), ran[c][i])
                               /\ Http!CString(sent) = sent => ran[c][i] = sent
      BY DEF BodyIsWhatWasSent, Http!BodyIsWhatWasSent
  <2>1. RequestIs(phase[c], req[c], rest[c], con_cls[c], ran[c])
      BY DEF HttpInv, RequestInv
  <2>2. CASE ran[c] = << >>
    <3>1. phase[c] # "done"
        BY <2>1, <2>2 DEF RequestIs, Http!Answered
    <3> QED
        BY <2>2, <3>1
  <2>3. CASE ran[c] # << >>
    <3>1. PICK x : ran[c] = <<x>> /\ FromBody(req[c], x)
        BY <2>1, <2>3 DEF RequestIs, Http!Active, Http!Answered
    <3> QED
        BY <3>1 DEF FromBody, Http!Upload, IsPrefix, Http!IsPrefix
  <2> QED
      BY <2>2, <2>3
<1> QED
    BY <1>1, InitKeeps, NextKeeps, NextHolds, PTL DEF Spec

-----------------------------------------------------------------------------
(* The configuration and its file.                                         *)

LEMMA SameEntries == \A s, at : Config!Entries(s, at) = Entries(s, at)
<1>1. \A at : Config!Cardinality(at) = Cardinality(at)
    BY DEF Config!Cardinality, Cardinality
<1>2. \A at, k : Config!Nth(at, k) = Nth(at, k)
    BY <1>1 DEF Config!Nth, Nth
<1> QED
    BY <1>1, <1>2 DEF Config!Entries, Entries

\* What is left of a name fits, and what fits stays.
LEMMA CutName ==
    /\ \A n \in Config!AnyName : Config!Cut(n) \in Config!Held
    /\ \A n \in Config!Held \cup {Root} : Config!Cut(n) = n
    /\ \A d : d.parent \in Config!AnyName \cup {Root, Absent} =>
         Config!ParentOf(d) \in Config!Held \cup {Root}
<1>1. \A n \in Config!AnyName : Config!Cut(n) \in Config!Held
    BY ConfigAssumption DEF Config!Cut, Config!Held
<1>2. \A n \in Config!Held \cup {Root} : Config!Cut(n) = n
    BY ConfigAssumption DEF Config!Cut, Config!Held
<1>3. Config!Cut(Root) = Root
    BY <1>2
<1> QED
    BY <1>1, <1>2, <1>3 DEF Config!ParentOf

\* An entry of a file that parses becomes a definition.
LEMMA ParsedType ==
    ASSUME NEW x, Config!IsEntry(x), Config!Parses(x)
    PROVE  Config!parse_node(x) \in Config!Definition
<1>1. x.kind \in Config!Kinds /\ Config!Cut(x.name) \in Config!Held
    BY CutName DEF Config!IsEntry, Config!Parses
<1>2. Config!ParentOf(x) \in Config!Held \cup {Root}
    BY CutName DEF Config!IsEntry
<1>3. Config!TypeOf(x) \in Config!Types
    BY DEF Config!TypeOf, Config!Types
<1>4. (x.simulation = TRUE) \in BOOLEAN /\ (x.role = TRUE) \in BOOLEAN
    BY Zenon
<1> QED
    BY <1>1, <1>2, <1>3, <1>4, Zenon DEF Config!parse_node, Config!Definition

\* What a node is in the file, and what is read from there.
LEMMA PrintedNode ==
    ASSUME NEW n \in Config!Definition
    PROVE  LET e == Config!node_to_json(n)
               m == Config!parse_node(e) IN
           /\ e \in Config!Entry /\ Config!IsEntry(e) /\ Config!Parses(e)
           /\ m \in Config!Definition /\ m.name = n.name /\ m.kind = n.kind
           /\ Config!node_to_json(m) = e
<1> DEFINE e == Config!node_to_json(n)
           m == Config!parse_node(e)
<1>1. /\ n.kind \in Config!Kinds /\ n.name \in Config!Held
      /\ n.parent \in Config!Held \cup {Root} /\ n.type \in Config!Types
      /\ n.simulation \in BOOLEAN /\ n.role \in BOOLEAN
      /\ n = [kind |-> n.kind, name |-> n.name, parent |-> n.parent, type |-> n.type,
              simulation |-> n.simulation, role |-> n.role]
    BY DEF Config!Definition
<1>2. e = [kind |-> n.kind, name |-> n.name, parent |-> n.parent,
           type |-> IF n.kind = "variable" THEN n.type ELSE Absent,
           simulation |-> IF n.simulation THEN TRUE ELSE Absent,
           role |-> IF n.role THEN TRUE ELSE Absent]
    BY <1>1, Zenon DEF Config!node_to_json
<1>3. e \in Config!Entry
    BY <1>1, <1>2 DEF Config!Entry
<1>4. Config!IsEntry(e) /\ Config!Parses(e)
    BY <1>1, <1>2, AbsentAssumption
    DEF Config!IsEntry, Config!Parses, Config!Held, Config!AnyName, Config!Kinds
<1>5. m = [kind |-> n.kind, name |-> n.name, parent |-> n.parent,
           type |-> IF n.kind = "variable" THEN n.type ELSE "Boolean",
           simulation |-> n.simulation, role |-> n.role]
  <2>1. Config!Cut(e.name) = n.name /\ e.kind = n.kind
      BY <1>1, <1>2, CutName
  <2>2. Config!ParentOf(e) = n.parent
      BY <1>1, <1>2, CutName, AbsentAssumption DEF Config!ParentOf, Config!Held
  <2>3. Config!TypeOf(e) = IF n.kind = "variable" THEN n.type ELSE "Boolean"
      BY <1>1, <1>2, AbsentAssumption DEF Config!TypeOf
  <2>4. e.simulation = (IF n.simulation THEN TRUE ELSE Absent) /\ e.role = (IF n.role THEN TRUE ELSE Absent)
      BY <1>2
  <2>5. Absent # TRUE
      BY AbsentAssumption
  <2>6. (e.simulation = TRUE) = n.simulation
    <3>1. CASE n.simulation = TRUE
        BY <2>4, <3>1, Zenon
    <3>2. CASE n.simulation = FALSE
        BY <2>4, <2>5, <3>2, Zenon
    <3> QED
        BY <1>1, <3>1, <3>2
  <2>7. (e.role = TRUE) = n.role
    <3>1. CASE n.role = TRUE
        BY <2>4, <3>1, Zenon
    <3>2. CASE n.role = FALSE
        BY <2>4, <2>5, <3>2, Zenon
    <3> QED
        BY <1>1, <3>1, <3>2
  <2> QED
      BY <2>1, <2>2, <2>3, <2>6, <2>7, Zenon DEF Config!parse_node
<1> HIDE DEF e, m
<1>6. m \in Config!Definition /\ m.name = n.name /\ m.kind = n.kind
    BY <1>4, <1>5, ParsedType DEF m
<1>7. Config!node_to_json(m) = e
  <2>1. /\ m.kind = n.kind /\ m.name = n.name /\ m.parent = n.parent
        /\ m.type = (IF n.kind = "variable" THEN n.type ELSE "Boolean")
        /\ m.simulation = n.simulation /\ m.role = n.role
      BY <1>5
  <2>2. (IF n.kind = "variable" THEN m.type ELSE Absent)
          = (IF n.kind = "variable" THEN n.type ELSE Absent)
      BY <2>1
  <2> QED
      BY <1>2, <2>1, <2>2, Zenon DEF Config!node_to_json
<1> QED
    BY <1>3, <1>4, <1>6, <1>7 DEF e, m

\* A URI that is kept fits, and stays as it is.
LEMMA KeptUri ==
    /\ \A u \in Uris : Config!CutUri(u) \in Config!HeldUris
    /\ \A u \in Config!HeldUris : u \in Uris /\ u # Absent /\ Config!CutUri(u) = u
BY ConfigAssumption, AbsentAssumption DEF Config!CutUri, Config!HeldUris

\* What is saved is a file that a start can read.
LEMMA PrintedType ==
    ASSUME NEW u \in Config!HeldUris, NEW l \in Seq(Config!Definition)
    PROVE  LET f == Config!Printed(u, l) IN
           /\ Config!IsFile(f) /\ Config!IsConfig(f)
           /\ f.uri = u /\ f.nodes \in Seq(Config!Entry) /\ Len(f.nodes) = Len(l)
           /\ \A i \in 1..Len(l) : f.nodes[i] = Config!node_to_json(l[i])
<1> DEFINE f == Config!Printed(u, l)
           p == [i \in DOMAIN l |-> Config!node_to_json(l[i])]
<1>1. \A i \in 1..Len(l) : l[i] \in Config!Definition
    OBVIOUS
<1>2. \A i \in 1..Len(l) :
        /\ Config!node_to_json(l[i]) \in Config!Entry
        /\ Config!IsEntry(Config!node_to_json(l[i]))
    BY <1>1, PrintedNode
<1>3. /\ p \in Seq(Config!Entry) /\ Len(p) = Len(l) /\ DOMAIN p = 1..Len(l)
      /\ \A i \in 1..Len(l) : p[i] = Config!node_to_json(l[i])
    BY <1>2
<1>4. f = [uri |-> u, nodes |-> p]
    BY DEF Config!Printed
<1> HIDE DEF p, f
<1>5. f.uri = u /\ f.nodes = p
    BY <1>4
<1>6. f \in [uri : Uris, nodes : Seq(Config!Entry)]
    BY <1>3, <1>4, KeptUri
<1>7. Config!IsFile(f)
    BY <1>6, AbsentAssumption DEF Config!IsFile
<1>8. Config!IsConfig(f)
  <2>1. p \in Seq(Config!ToSet(p))
      BY <1>3 DEF Config!ToSet
  <2> QED
      BY <1>2, <1>3, <1>5, <2>1, KeptUri DEF Config!IsConfig
<1> QED
    BY <1>3, <1>5, <1>7, <1>8 DEF f

\* What a start reads from any file, or without one.
LEMMA LoadType ==
    ASSUME NEW f, Config!IsFile(f) => Config!IsConfig(f)
    PROVE  LET c == Config!server_config_load(f) IN
           c.uri \in Config!HeldUris /\ c.nodes \in Seq(Config!Definition) /\ Len(c.nodes) <= MaxNodes
<1> DEFINE at   == {i \in DOMAIN f.nodes : Config!Parses(f.nodes[i])}
           good == Config!Entries(f.nodes, at)
           some == IF Len(good) > MaxNodes THEN SubSeq(good, 1, MaxNodes) ELSE good
           list == IF f.nodes = Absent THEN Seed
                   ELSE [i \in DOMAIN some |-> Config!parse_node(some[i])]
           c    == Config!server_config_load(f)
<1>1. c = IF ~Config!IsFile(f) \/ list = << >> THEN Config!Defaults
          ELSE [uri |-> IF f.uri = Absent THEN DefaultUri ELSE Config!CutUri(f.uri), nodes |-> list]
    BY DEF Config!server_config_load
<1> HIDE DEF list, c
<1>2. Seed \in Seq(Config!Definition) /\ Len(Seed) <= MaxNodes /\ DefaultUri \in Config!HeldUris /\ MaxNodes \in Nat
    BY ConfigAssumption
<1>3. CASE ~Config!IsFile(f) \/ list = << >>
    BY <1>1, <1>2, <1>3 DEF Config!Defaults, c
<1>4. CASE Config!IsFile(f) /\ list # << >>
  <2>1. c.uri = (IF f.uri = Absent THEN DefaultUri ELSE Config!CutUri(f.uri)) /\ c.nodes = list
      BY <1>1, <1>4
  <2>2. f.uri \in Uris \cup {Absent}
      BY <1>4 DEF Config!IsConfig
  <2>3. list \in Seq(Config!Definition) /\ Len(list) <= MaxNodes
    <3>1. CASE f.nodes = Absent
        BY <1>2, <3>1 DEF list
    <3>2. CASE f.nodes # Absent
      <4> DEFINE E == {x \in Config!ToSet(f.nodes) : Config!IsEntry(x) /\ Config!Parses(x)}
      <4>1. /\ f.nodes \in Seq(Config!ToSet(f.nodes))
            /\ \A i \in DOMAIN f.nodes : Config!IsEntry(f.nodes[i])
          BY <1>4, <3>2 DEF Config!IsConfig
      <4>2. Len(f.nodes) \in Nat /\ at \subseteq 1..Len(f.nodes)
          BY <4>1
      <4>3. \A i \in at : f.nodes[i] \in E
          BY <4>1
      <4>4. \A x \in E : Config!parse_node(x) \in Config!Definition
          BY ParsedType
      <4> HIDE DEF at, E
      <4>5. good \in Seq(E)
          BY <4>2, <4>3, SameEntries, EntriesFrom, Zenon
      <4> HIDE DEF good
      <4>6. some \in Seq(E) /\ Len(some) <= MaxNodes
          BY <1>2, <4>5
      <4> HIDE DEF some
      <4>7. \A i \in 1..Len(some) : Config!parse_node(some[i]) \in Config!Definition
          BY <4>4, <4>6
      <4> QED
          BY <3>2, <4>6, <4>7 DEF list
    <3> QED
        BY <3>1, <3>2
  <2> QED
      BY <1>2, <2>1, <2>2, <2>3, KeptUri DEF c
<1> QED
    BY <1>3, <1>4 DEF c

\* What was saved of a list is read again, node for node.
LEMMA LoadPrinted ==
    ASSUME NEW u \in Config!HeldUris, NEW l \in Seq(Config!Definition), l # << >>, Len(l) <= MaxNodes
    PROVE  LET c == Config!server_config_load(Config!Printed(u, l)) IN
           /\ c.uri = u /\ c.nodes \in Seq(Config!Definition) /\ Len(c.nodes) = Len(l)
           /\ \A i \in 1..Len(l) : c.nodes[i] = Config!parse_node(Config!node_to_json(l[i]))
<1> DEFINE f    == Config!Printed(u, l)
           at   == {i \in DOMAIN f.nodes : Config!Parses(f.nodes[i])}
           good == Config!Entries(f.nodes, at)
           some == IF Len(good) > MaxNodes THEN SubSeq(good, 1, MaxNodes) ELSE good
           list == IF f.nodes = Absent THEN Seed
                   ELSE [i \in DOMAIN some |-> Config!parse_node(some[i])]
           c    == Config!server_config_load(f)
<1>1. c = IF ~Config!IsFile(f) \/ list = << >> THEN Config!Defaults
          ELSE [uri |-> IF f.uri = Absent THEN DefaultUri ELSE Config!CutUri(f.uri), nodes |-> list]
    BY DEF Config!server_config_load
<1> HIDE DEF c
<1>2. /\ Config!IsFile(f) /\ f.uri = u /\ f.nodes \in Seq(Config!Entry)
      /\ Len(f.nodes) = Len(l)
      /\ \A i \in 1..Len(l) : f.nodes[i] = Config!node_to_json(l[i])
    BY PrintedType
<1> HIDE DEF f
<1>3. \A i \in 1..Len(l) : Config!Parses(f.nodes[i])
    BY <1>2, PrintedNode
<1>4. at = 1..Len(f.nodes)
    BY <1>2, <1>3
<1>5. good = f.nodes
    BY <1>2, <1>4, EntriesAll, SameEntries
<1>6. some = f.nodes
    BY <1>2, <1>5, ConfigAssumption
<1>7. f.nodes # Absent /\ u # Absent /\ Config!CutUri(u) = u
    BY <1>2, PrintedType, AbsentAssumption, KeptUri
<1>8. list = [i \in 1..Len(l) |-> Config!parse_node(f.nodes[i])]
  <2>1. DOMAIN f.nodes = 1..Len(l)
      BY <1>2
  <2> HIDE DEF some
  <2> QED
      BY <1>6, <1>7, <2>1
<1> HIDE DEF list
<1>9. /\ list \in Seq(Config!Definition) /\ Len(list) = Len(l)
      /\ \A i \in 1..Len(l) : list[i] = Config!parse_node(Config!node_to_json(l[i]))
    BY <1>2, <1>8, PrintedNode
<1>10. list # << >>
    BY <1>9
<1> QED
    BY <1>1, <1>2, <1>7, <1>9, <1>10 DEF c, f

\* A list without nodes is saved as a file that brings back the seed.
LEMMA LoadEmpty ==
    ASSUME NEW u \in Config!HeldUris, NEW l \in Seq(Config!Definition), l = << >>
    PROVE  Config!server_config_load(Config!Printed(u, l)).nodes = Seed
<1> DEFINE f    == Config!Printed(u, l)
           at   == {i \in DOMAIN f.nodes : Config!Parses(f.nodes[i])}
           good == Config!Entries(f.nodes, at)
           some == IF Len(good) > MaxNodes THEN SubSeq(good, 1, MaxNodes) ELSE good
           list == IF f.nodes = Absent THEN Seed
                   ELSE [i \in DOMAIN some |-> Config!parse_node(some[i])]
           c    == Config!server_config_load(f)
<1>1. c = IF ~Config!IsFile(f) \/ list = << >> THEN Config!Defaults
          ELSE [uri |-> IF f.uri = Absent THEN DefaultUri ELSE Config!CutUri(f.uri), nodes |-> list]
    BY DEF Config!server_config_load
<1> HIDE DEF c
<1>2. f.nodes \in Seq(Config!Entry) /\ Len(f.nodes) = 0 /\ f.nodes # Absent
  <2>1. f.nodes \in Seq(Config!Entry) /\ Len(f.nodes) = Len(l)
      BY PrintedType
  <2> QED
      BY <2>1, AbsentAssumption
<1> HIDE DEF f
<1>3. f.nodes = << >> /\ at = 1..Len(f.nodes)
    BY <1>2
<1>4. good = << >>
    BY <1>2, <1>3, EntriesAll, SameEntries
<1>5. some = << >>
    BY <1>4, ConfigAssumption
<1> HIDE DEF some
<1>6. list = << >>
    BY <1>2, <1>5
<1> HIDE DEF list
<1> QED
    BY <1>1, <1>6 DEF Config!Defaults, c, f

\* A file that the next start can read, and that does not stop it.
FileGood(f) ==
    Config!IsFile(f) => Config!IsConfig(f) /\ Config!Builds(Config!server_config_load(f).nodes)

LEMMA PrintedGood ==
    ASSUME NEW u \in Config!HeldUris, NEW l \in Seq(Config!Definition), Len(l) <= MaxNodes, Config!Builds(l)
    PROVE  FileGood(Config!Printed(u, l))
<1>1. Config!IsConfig(Config!Printed(u, l))
    BY PrintedType
<1>2. CASE l = << >>
    BY <1>1, <1>2, LoadEmpty, ConfigAssumption DEF FileGood
<1>3. CASE l # << >>
  <2> DEFINE m == Config!server_config_load(Config!Printed(u, l)).nodes
  <2>1. /\ m \in Seq(Config!Definition) /\ Len(m) = Len(l)
        /\ \A i \in 1..Len(l) : m[i] = Config!parse_node(Config!node_to_json(l[i]))
      BY <1>3, LoadPrinted
  <2> HIDE DEF m
  <2>2. \A i \in 1..Len(l) : m[i].name = l[i].name /\ m[i].kind = l[i].kind
      BY <2>1, PrintedNode
  <2>3. DOMAIN m = DOMAIN l /\ DOMAIN l = 1..Len(l)
      BY <2>1
  <2>4. Config!Builds(m)
      BY <2>2, <2>3 DEF Config!Builds
  <2> QED
      BY <1>1, <2>4 DEF FileGood, m
<1> QED
    BY <1>2, <1>3

-----------------------------------------------------------------------------
\* The listing has its types and builds, also what the file makes of it.
ListInv ==
    /\ uri \in Config!HeldUris /\ nodes \in Seq(Config!Definition) /\ Len(nodes) <= MaxNodes
    /\ Config!Builds(nodes)

ConfigInv ==
    /\ ListInv /\ up \in BOOLEAN /\ ok \in [Conns -> BOOLEAN]
    /\ Config!IsFile(file) => Config!IsConfig(file)
    /\ up => FileGood(file)

\* Whatever becomes of a save.
LEMMA SaveGood ==
    ASSUME ListInv', FileGood(file), Config!Save
    PROVE  FileGood(file')
<1>1. FileGood(Config!Printed(uri', nodes'))
    BY PrintedGood DEF ListInv
<1>2. FileGood(Missing) /\ FileGood(CutFile)
    BY DEF FileGood, Config!IsFile
<1>3. file' = Config!Printed(uri', nodes') \/ file' \in {file, Missing, CutFile}
    BY DEF Config!Save
<1> QED
    BY <1>1, <1>2, <1>3

\* A document has fields of the types that the handlers look at.
LEMMA ParseType ==
    ASSUME NEW r, NEW x, FromBody(r, x), Parse(x) # NotJson
    PROVE  LET d == Parse(x) IN
           /\ d.name \in Config!AnyName \cup {Absent} /\ d.uri \in Uris \cup {Absent}
           /\ d.parent \in Config!AnyName \cup {Root, Absent}
<1>1. x \in Seq(Http!Chars) /\ Len(x) >= 2 /\ Parse(x) = x[1] /\ x[1] # Brace /\ x[1] # Nul
    BY DEF Parse, FromBody, Clean
<1>2. x[1] \in Http!Chars \ {Brace, Nul}
    BY <1>1
<1> QED
    BY <1>1, <1>2, BodyAssumption

\* A new node: its name is not in the list yet.
LEMMA AddKeeps ==
    ASSUME ListInv, NEW def, NEW b, Config!Add(def, b),
           b => def \in Config!Definition /\ \A i \in DOMAIN nodes : nodes[i].name # def.name
    PROVE  ListInv'
<1>1. CASE b /\ Len(nodes) < MaxNodes
  <2>1. /\ nodes \in Seq(Config!Definition) /\ def \in Config!Definition
        /\ nodes' = Append(nodes, def) /\ uri' = uri
      BY <1>1 DEF Config!Add, ListInv
  <2>2. /\ nodes' \in Seq(Config!Definition) /\ Len(nodes') = Len(nodes) + 1
        /\ \A i \in 1..Len(nodes) : nodes'[i] = nodes[i]
        /\ nodes'[Len(nodes) + 1] = def
      BY <2>1
  <2>3. Len(nodes') <= MaxNodes
      BY <1>1, <2>1, <2>2, ConfigAssumption
  <2>4. Config!Builds(nodes')
    <3> SUFFICES ASSUME NEW i \in DOMAIN nodes', NEW j \in DOMAIN nodes',
                        nodes'[i].name = nodes'[j].name,
                        nodes'[i].kind # "other", nodes'[j].kind # "other"
                 PROVE  i = j
        BY DEF Config!Builds
    <3>1. \A k \in DOMAIN nodes' : k \in DOMAIN nodes \/ k = Len(nodes) + 1
        BY <2>1, <2>2
    <3>2. DOMAIN nodes = 1..Len(nodes)
        BY <2>1
    <3>3. CASE i \in DOMAIN nodes /\ j \in DOMAIN nodes
        BY <2>2, <3>2, <3>3 DEF ListInv, Config!Builds
    <3>4. CASE i = Len(nodes) + 1 \/ j = Len(nodes) + 1
        BY <1>1, <2>2, <3>1, <3>2, <3>4
    <3> QED
        BY <3>1, <3>3, <3>4
  <2> QED
      BY <2>1, <2>2, <2>3, <2>4 DEF ListInv
<1>2. CASE ~(b /\ Len(nodes) < MaxNodes)
    BY <1>2 DEF Config!Add, ListInv
<1> QED
    BY <1>1, <1>2

\* What is left without one entry.
LEMMA WithoutOne ==
    ASSUME NEW S, NEW s \in Seq(S), NEW i \in 1..Len(s)
    PROVE  LET t == Config!RemoveAt(s, i) IN
           /\ t \in Seq(S) /\ Len(t) = Len(s) - 1
           /\ \A j \in 1..Len(t) : t[j] = s[IF j < i THEN j ELSE j + 1]
<1> DEFINE a == SubSeq(s, 1, i - 1)
           b == SubSeq(s, i + 1, Len(s))
<1>1. /\ a \in Seq(S) /\ Len(a) = i - 1 /\ \A j \in 1..(i - 1) : a[j] = s[j]
      /\ b \in Seq(S) /\ Len(b) = Len(s) - i /\ \A j \in 1..(Len(s) - i) : b[j] = s[i + j]
    OBVIOUS
<1>2. Config!RemoveAt(s, i) = a \o b
    BY DEF Config!RemoveAt
<1> HIDE DEF a, b
<1>3. /\ a \o b \in Seq(S) /\ Len(a \o b) = Len(s) - 1
      /\ \A j \in 1..(i - 1) : (a \o b)[j] = a[j]
      /\ \A j \in 1..(Len(s) - i) : (a \o b)[(i - 1) + j] = b[j]
  <2>1. a \in Seq(S) /\ b \in Seq(S)
      BY <1>1
  <2>2. a \o b \in Seq(S) /\ Len(a \o b) = Len(a) + Len(b)
      BY <2>1
  <2>3. ASSUME NEW j \in 1..Len(a) PROVE (a \o b)[j] = a[j]
      BY <2>1
  <2>4. ASSUME NEW j \in 1..Len(b) PROVE (a \o b)[Len(a) + j] = b[j]
      BY <2>1
  <2>5. Len(a) + Len(b) = Len(s) - 1
      BY <1>1
  <2> QED
      BY <1>1, <2>2, <2>3, <2>4, <2>5
<1>4. ASSUME NEW j \in 1..(Len(s) - 1)
      PROVE  (a \o b)[j] = s[IF j < i THEN j ELSE j + 1]
  <2>1. CASE j < i
      BY <1>1, <1>3, <2>1
  <2>2. CASE ~(j < i)
    <3> DEFINE k == j - (i - 1)
    <3>1. k \in 1..(Len(s) - i) /\ (i - 1) + k = j /\ i + k = j + 1
        BY <2>2
    <3> HIDE DEF k
    <3>2. (a \o b)[(i - 1) + k] = b[k] /\ b[k] = s[i + k]
        BY <1>1, <1>3, <3>1
    <3> QED
        BY <2>2, <3>1, <3>2
  <2> QED
      BY <2>1, <2>2
<1> QED
    BY <1>2, <1>3, <1>4

\* The entry that a deletion removes, and what it demands.
LEMMA DeleteOne ==
    ASSUME ListInv, NEW n, NEW b, Config!Delete(n, b), b
    PROVE  \E i \in 1..Len(nodes) :
             /\ nodes[i].name = n /\ nodes' = Config!RemoveAt(nodes, i) /\ uri' = uri
             /\ \A j \in DOMAIN nodes : nodes[j].parent # n
             /\ Config!Save
<1> DEFINE I  == {i \in 1..Len(nodes) : nodes[i].name = n}
           at == Config!SelectInSeq(nodes, LAMBDA x : x.name = n)
<1>1. /\ at # 0 /\ nodes' = Config!RemoveAt(nodes, at) /\ uri' = uri
      /\ \A j \in DOMAIN nodes : nodes[j].parent # n
      /\ Config!Save
    BY DEF Config!Delete
<1>2. at = IF I # {} THEN Config!Min(I) ELSE 0
    BY DEF Config!SelectInSeq
<1>3. I # {} /\ I \subseteq Nat
    BY <1>1, <1>2
<1>4. Config!Min(I) \in I
  <2> HIDE DEF I
  <2>1. \E m \in I : \A k \in I : m <= k
      BY <1>3, LeastNumber
  <2> QED
      BY <2>1 DEF Config!Min
<1> HIDE DEF at
<1> QED
    BY <1>1, <1>2, <1>3, <1>4

LEMMA DeleteKeeps ==
    ASSUME ListInv, NEW n, NEW b, Config!Delete(n, b)
    PROVE  ListInv'
<1>1. CASE b
  <2>1. PICK i \in 1..Len(nodes) : nodes' = Config!RemoveAt(nodes, i) /\ uri' = uri
      BY <1>1, DeleteOne
  <2>2. nodes \in Seq(Config!Definition) /\ Len(nodes) \in Nat /\ DOMAIN nodes = 1..Len(nodes)
      BY DEF ListInv
  <2>3. /\ nodes' \in Seq(Config!Definition) /\ Len(nodes') = Len(nodes) - 1
        /\ \A j \in 1..Len(nodes') : nodes'[j] = nodes[IF j < i THEN j ELSE j + 1]
      BY <2>1, <2>2, WithoutOne
  <2>4. Config!Builds(nodes')
    <3> DEFINE old(j) == IF j < i THEN j ELSE j + 1
    <3>1. DOMAIN nodes' = 1..Len(nodes')
        BY <2>3
    <3>2. \A j \in DOMAIN nodes' : old(j) \in DOMAIN nodes /\ nodes'[j] = nodes[old(j)]
        BY <2>2, <2>3, <3>1
    <3>3. \A j, k \in DOMAIN nodes' : old(j) = old(k) => j = k
        BY <3>1, <2>2, <2>3
    <3> HIDE DEF old
    <3>4. \A j, k \in DOMAIN nodes :
            nodes[j].name = nodes[k].name /\ nodes[j].kind # "other" /\ nodes[k].kind # "other" => j = k
        BY DEF ListInv, Config!Builds
    <3> QED
        BY <3>2, <3>3, <3>4 DEF Config!Builds
  <2> QED
      BY <2>1, <2>2, <2>3, <2>4, ConfigAssumption DEF ListInv
<1>2. CASE ~b
    BY <1>2 DEF Config!Delete, ListInv
<1> QED
    BY <1>1, <1>2

\* What the handler of a request runs with.
LEMMA HandlerBody ==
    ASSUME HttpInv, HoldInv, NEW c \in Conns, Http!Call(c), ran'[c] # ran[c]
    PROVE  /\ req[c] \in Requests
           /\ FromBody(req[c], Last(ran'[c]))
<1> USE DEF Http!Active, Http!Answered
<1>0. HttpInv'
    BY CallKeeps
<1>1. /\ RequestIs(phase[c], req[c], rest[c], con_cls[c], ran[c])
      /\ RequestIs(phase'[c], req'[c], rest'[c], con_cls'[c], ran'[c])
    BY <1>0 DEF HttpInv, RequestInv
<1>2. \E body : Http!Dispatch(c, body) /\ phase[c] \in Http!Active
  <2>1. Http!Plain(c) \/ Http!Complete(c)
      BY DEF Http!Call, Http!Options, Http!Mark, Http!EmptyFails, Http!Takes, Http!Receive,
             Http!ReceiveFails
  <2>2. CASE Http!Plain(c)
      BY <2>2 DEF Http!Plain
  <2>3. CASE Http!Complete(c)
      BY <2>3 DEF Http!Complete, Http!NoData
  <2> QED
      BY <2>1, <2>2, <2>3
<1>3. phase'[c] \in Http!Answered /\ req' = req /\ ran[c] = << >>
    BY <1>1, <1>2 DEF HttpInv, Http!Dispatch, Http!NotFound, Http!Become, RequestIs
<1>4. PICK x : ran'[c] = <<x>> /\ FromBody(req[c], x)
    BY <1>1, <1>3 DEF RequestIs
<1>5. Last(ran'[c]) = x
    BY <1>4 DEF Last
<1> QED
    BY <1>1, <1>2, <1>4, <1>5 DEF RequestIs

\* Every handler.
LEMMA HandleKeeps ==
    ASSUME ListInv, FileGood(file), NEW r, NEW x, NEW b \in BOOLEAN, FromBody(r, x), Handle(r, x, b)
    PROVE  ListInv' /\ FileGood(file')
<1> DEFINE d == Parse(x)
<1>1. d # NotJson => /\ d.uri \in Uris \cup {Absent}
                     /\ Config!ParentOf(d) \in Config!Held \cup {Root}
    BY ParseType, CutName
<1>2. Names \subseteq Config!Held
    BY ConfigAssumption DEF Config!Held, Config!AnyName
<1> HIDE DEF d
<1>3. ASSUME Config!PutConfig(d, b) PROVE ListInv'
    BY <1>1, <1>3, KeptUri DEF Config!PutConfig, ListInv
<1>4. ASSUME Config!PostFolder(d, b) PROVE ListInv'
  <2> DEFINE def == [kind |-> "folder", name |-> d.name, parent |-> Config!ParentOf(d),
                     type |-> "Boolean", simulation |-> FALSE, role |-> FALSE]
  <2>1. Config!Add(def, b) /\ (b => Config!New(d))
      BY <1>4 DEF Config!PostFolder
  <2>2. b => def \in Config!Definition /\ \A i \in DOMAIN nodes : nodes[i].name # def.name
      BY <1>1, <1>2, <2>1 DEF Config!New, Config!Definition, Config!Kinds, Config!Types
  <2> HIDE DEF def
  <2> QED
      BY <2>1, <2>2, AddKeeps
<1>5. ASSUME Config!PostVariable(d, b) PROVE ListInv'
  <2> DEFINE sim == d.simulation = TRUE
             def == [kind |-> "variable", name |-> d.name, parent |-> Config!ParentOf(d),
                     type |-> Config!TypeOf(d), simulation |-> sim, role |-> FALSE]
  <2>1. Config!Add(def, b) /\ (b => Config!New(d))
      BY <1>5 DEF Config!PostVariable
  <2>2. sim \in BOOLEAN /\ Config!TypeOf(d) \in Config!Types
      BY DEF Config!TypeOf, Config!Types
  <2> HIDE DEF sim
  <2>3. b => def \in Config!Definition /\ \A i \in DOMAIN nodes : nodes[i].name # def.name
      BY <1>1, <1>2, <2>1, <2>2 DEF Config!New, Config!Definition, Config!Kinds
  <2> HIDE DEF def
  <2> QED
      BY <2>1, <2>3, AddKeeps
<1>6. ListInv' /\ (Config!Save \/ UNCHANGED file)
  <2>1. CASE Config!PutConfig(d, b)
      BY <1>3, <2>1 DEF Config!PutConfig
  <2>2. CASE Config!PostFolder(d, b)
      BY <1>4, <2>2 DEF Config!PostFolder, Config!Add
  <2>3. CASE Config!PostVariable(d, b)
      BY <1>5, <2>3 DEF Config!PostVariable, Config!Add
  <2>4. CASE Config!Delete(r.name, b)
    <3>1. CASE b
        BY <2>4, <3>1, DeleteKeeps, DeleteOne
    <3>2. CASE ~b
        BY <2>4, <3>2, DeleteKeeps DEF Config!Delete
    <3> QED
        BY <3>1, <3>2
  <2>5. CASE UNCHANGED configVars
      BY <2>5 DEF configVars, ListInv
  <2> QED
      BY <2>1, <2>2, <2>3, <2>4, <2>5 DEF Handle, d
<1> QED
    BY <1>6, SaveGood

\* What a running server and its file keep through every step.
LEMMA NextConfig == ConfigInv /\ HttpInv /\ HoldInv /\ [Next]_vars => ConfigInv'
<1> SUFFICES ASSUME ConfigInv, HttpInv, HoldInv, [Next]_vars PROVE ConfigInv'
    OBVIOUS
<1>1. CASE Start
  <2> DEFINE c == Config!server_config_load(file)
  <2>1. c.uri \in Config!HeldUris /\ c.nodes \in Seq(Config!Definition) /\ Len(c.nodes) <= MaxNodes
      BY LoadType DEF ConfigInv
  <2>2. /\ ~up /\ \/ Config!Builds(c.nodes) /\ up' = TRUE /\ uri' = c.uri /\ nodes' = c.nodes
                  \/ ~Config!Builds(c.nodes) /\ UNCHANGED <<up, uri, nodes>>
      BY <1>1 DEF Start, Config!Start
  <2> HIDE DEF c
  <2>3. ListInv' /\ up' \in BOOLEAN /\ ok' = ok
      BY <1>1, <2>1, <2>2 DEF ConfigInv, ListInv, Start
  <2>4. CASE file = Missing
    <3>1. Config!Save
        BY <1>1, <2>4 DEF Start, Config!Start
    <3>2. FileGood(file)
        BY <2>4 DEF FileGood, Config!IsFile
    <3>3. FileGood(file')
        BY <2>3, <3>1, <3>2, SaveGood
    <3> QED
        BY <2>3, <3>3 DEF ConfigInv, FileGood
  <2>5. CASE file # Missing
    <3>1. file' = file
        BY <1>1, <2>5 DEF Start, Config!Start
    <3>2. up' => Config!Builds(c.nodes)
        BY <2>2
    <3> QED
        BY <2>3, <3>1, <3>2 DEF ConfigInv, FileGood, c
  <2> QED
      BY <2>4, <2>5
<1>2. CASE Stop
  <2>1. ListInv'
      BY <1>2, ConfigAssumption DEF Stop, Config!Stop, ListInv, Config!Builds
  <2> QED
      BY <1>2, <2>1 DEF Stop, Config!Stop, ConfigInv
<1>3. ASSUME NEW c \in Conns, Serve(c) PROVE ConfigInv'
  <2>1. CASE UNCHANGED configVars
      BY <1>3, <2>1 DEF Serve, ConfigInv, ListInv, configVars
  <2>2. CASE ran'[c] # ran[c] /\ ok' \in [Conns -> BOOLEAN] /\ Handle(req[c], Last(ran'[c]), ok'[c])
    <3>1. up /\ up' = up /\ FromBody(req[c], Last(ran'[c])) /\ ok'[c] \in BOOLEAN
        BY <1>3, <2>2, HandlerBody DEF Serve
    <3>2. ListInv' /\ FileGood(file')
        BY <2>2, <3>1, HandleKeeps DEF ConfigInv
    <3> QED
        BY <2>2, <3>1, <3>2 DEF ConfigInv, FileGood
  <2> QED
      BY <1>3, <2>1, <2>2 DEF Serve
<1>4. CASE UNCHANGED configVars /\ UNCHANGED <<up, ok>>
    BY <1>4 DEF ConfigInv, ListInv, configVars
<1> QED
    BY <1>1, <1>2, <1>3, <1>4 DEF Next, Client, vars

LEMMA InitConfig == Init => ConfigInv
<1> SUFFICES ASSUME Init PROVE ConfigInv
    OBVIOUS
<1>1. ListInv
    BY ConfigAssumption DEF Init, Config!Init, ListInv, Config!Builds
<1>2. Config!IsFile(file) => Config!IsConfig(file)
    BY ConfigAssumption DEF Init, Config!Init, Config!IsFile
<1> QED
    BY <1>1, <1>2 DEF Init, Config!Init, ConfigInv

\* The whole of it.
Inv == HoldInv /\ HttpInv /\ ConfigInv

LEMMA SpecInv == Spec => []Inv
<1>1. Init => Inv
    BY InitKeeps, InitConfig DEF Inv
<1>2. Inv /\ [Next]_vars => Inv'
    BY NextHolds, NextKeeps, NextConfig DEF Inv
<1> QED
    BY <1>1, <1>2, PTL DEF Spec

\* No sequence of requests, starts, stops and failed saves leaves a file that
\* keeps the server from starting, but for one that was cut off
\* (server_config_save, node_manager_build).
THEOREM Restarts == Spec => []StartsAgain
<1>1. Inv => StartsAgain
    BY DEF Inv, ConfigInv, FileGood, StartsAgain, Config!StartsAgain
<1> QED
    BY <1>1, SpecInv, PTL

\* What was saved is what the next start loads, for any list of nodes
\* (node_to_json, parse_node).
THEOREM RoundTrip == Spec => []SavedIsLoaded
<1>1. Inv => SavedIsLoaded
  <2> SUFFICES ASSUME ListInv, nodes # << >>, file = Config!Printed(uri, nodes)
               PROVE  LET c == Config!server_config_load(file) IN
                      c.uri = uri /\ Config!Printed(uri, c.nodes) = file
      BY DEF Inv, ConfigInv, SavedIsLoaded, Config!SavedIsLoaded
  <2> DEFINE c == Config!server_config_load(file)
  <2>1. /\ c.uri = uri /\ c.nodes \in Seq(Config!Definition) /\ Len(c.nodes) = Len(nodes)
        /\ \A i \in 1..Len(nodes) : c.nodes[i] = Config!parse_node(Config!node_to_json(nodes[i]))
      BY LoadPrinted DEF ListInv
  <2> HIDE DEF c
  <2>2. \A i \in 1..Len(nodes) : nodes[i] \in Config!Definition
      BY DEF ListInv
  <2>3. \A i \in 1..Len(nodes) : Config!node_to_json(c.nodes[i]) = Config!node_to_json(nodes[i])
      BY <2>1, <2>2, PrintedNode
  <2>4. DOMAIN c.nodes = 1..Len(nodes) /\ DOMAIN nodes = 1..Len(nodes)
      BY <2>1 DEF ListInv
  <2>5. [i \in DOMAIN c.nodes |-> Config!node_to_json(c.nodes[i])]
          = [i \in DOMAIN nodes |-> Config!node_to_json(nodes[i])]
      BY <2>3, <2>4
  <2> QED
      BY <2>1, <2>5, Zenon DEF Config!Printed, c
<1> QED
    BY <1>1, SpecInv, PTL

\* The variables keep their types, whatever the requests, their pieces and the
\* files are.
THEOREM TypeCorrect == Spec => []TypeOK
<1>1. Inv => TypeOK
  <2> SUFFICES ASSUME Inv PROVE TypeOK
      OBVIOUS
  <2>1. Config!TypeOK /\ ok \in [Conns -> BOOLEAN]
      BY DEF Inv, ConfigInv, ListInv, Config!TypeOK
  <2>2. ASSUME NEW c \in Conns
        PROVE  /\ phase[c] \in {"idle"} \cup Http!Active \cup Http!Answered
               /\ IF phase[c] = "idle" THEN req[c] = Null ELSE req[c] \in Requests
               /\ phase[c] \in Http!Active => Http!IsSuffix(rest[c], req[c].body)
               /\ phase[c] = "body" /\ Http!IsBuffer(con_cls[c]) =>
                    Len(con_cls[c]) + Len(rest[c]) <= Len(req[c].body)
    <3>1. RequestIs(phase[c], req[c], rest[c], con_cls[c], ran[c])
        BY DEF Inv, HttpInv, RequestInv
    <3>2. CASE phase[c] \notin Http!Active
        BY <3>1, <3>2 DEF RequestIs, Http!Active
    <3>3. CASE phase[c] \in Http!Active
      <4> DEFINE s == rest[c]
                 b == req[c].body
                 n == Len(b) - Len(s)
      <4>1. req[c] \in Requests /\ Receiving(b, s, con_cls[c])
          BY <3>1, <3>3 DEF RequestIs, Http!Active
      <4>2. b \in Seq(Http!Chars)
          BY <4>1, BodyType
      <4>3. /\ s \in Seq(Http!Chars) /\ Len(s) <= Len(b)
            /\ \A i \in 1..Len(s) : s[i] = b[n + i]
            /\ Http!IsBuffer(con_cls[c]) => con_cls[c] \in Seq(Http!Chars) /\ Len(con_cls[c]) <= n
          BY <4>1 DEF Receiving, Taken
      <4> HIDE DEF s, b
      <4>4. Http!IsSuffix(s, b)
        <5> DEFINE p == Http!Reverse(s)
                   q == Http!Reverse(b)
        <5>1. /\ p \in Seq(Http!Chars) /\ Len(p) = Len(s)
              /\ \A i \in 1..Len(s) : p[i] = s[Len(s) - i + 1]
            BY <4>3 DEF Http!Reverse
        <5>2. /\ q \in Seq(Http!Chars) /\ Len(q) = Len(b)
              /\ \A i \in 1..Len(b) : q[i] = b[Len(b) - i + 1]
            BY <4>2 DEF Http!Reverse
        <5>3. ASSUME NEW i \in 1..Len(s) PROVE p[i] = q[i]
          <6> DEFINE j == Len(s) - i + 1
          <6>1. j \in 1..Len(s) /\ n + j = Len(b) - i + 1 /\ i \in 1..Len(b)
              BY <4>2, <4>3
          <6>2. p[i] = s[j] /\ q[i] = b[Len(b) - i + 1]
              BY <5>1, <5>2, <6>1
          <6> HIDE DEF j, n, p, q
          <6>3. s[j] = b[n + j]
              BY <4>3, <6>1
          <6> QED
              BY <6>1, <6>2, <6>3
        <5> HIDE DEF p, q
        <5>4. SubSeq(p, 1, Len(p)) = SubSeq(q, 1, Len(p))
          <6>1. /\ SubSeq(p, 1, Len(p)) \in Seq(Http!Chars) /\ Len(SubSeq(p, 1, Len(p))) = Len(s)
                /\ \A i \in 1..Len(s) : SubSeq(p, 1, Len(p))[i] = p[i]
              BY <4>3, <5>1
          <6>2. /\ SubSeq(q, 1, Len(p)) \in Seq(Http!Chars) /\ Len(SubSeq(q, 1, Len(p))) = Len(s)
                /\ \A i \in 1..Len(s) : SubSeq(q, 1, Len(p))[i] = q[i]
              BY <4>2, <4>3, <5>1, <5>2
          <6> QED
              BY <5>3, <6>1, <6>2
        <5> QED
            BY <4>3, <5>1, <5>2, <5>4 DEF Http!IsSuffix, Http!IsPrefix, p, q
      <4> QED
        <5>1. Http!IsBuffer(con_cls[c]) => Len(con_cls[c]) + Len(s) <= Len(b)
            BY <4>2, <4>3
        <5> QED
            BY <3>1, <4>4, <5>1 DEF RequestIs, s, b
    <3> QED
        BY <3>2, <3>3
  <2>3. Http!TypeOK
      BY <2>2 DEF Http!TypeOK
  <2> QED
      BY <2>1, <2>3 DEF TypeOK
<1> QED
    BY <1>1, SpecInv, PTL

-----------------------------------------------------------------------------
\* Unless a body is garbled, its handler sees the document that was sent.
LEMMA SameDocument ==
    ASSUME NEW r \in Requests, NEW x, FromBody(r, x), r.method \in {"PUT", "POST"}
    PROVE  LET z == Http!CString(r.body) IN
           Parse(z) = Parse(x) \/ (Parse(z) = NotJson /\ z # r.body)
<1> DEFINE z == Http!CString(r.body)
<1>1. r.body \in Seq(Http!Chars) /\ z \in Seq(Http!Chars)
    BY BodyType, CStringOf
<1>2. /\ x \in Seq(Http!Chars) /\ IsPrefix(z, x)
      /\ z = r.body => x = r.body
    BY DEF FromBody
<1> HIDE DEF z
<1>3. CASE z = r.body
    BY <1>2, <1>3 DEF z
<1>4. CASE z # r.body /\ Len(z) >= 2
  <2>1. SubSeq(z, 1, Len(z)) = SubSeq(x, 1, Len(z)) /\ Len(z) <= Len(x)
      BY <1>2 DEF IsPrefix
  <2>2. /\ SubSeq(z, 1, Len(z))[1] = z[1] /\ SubSeq(z, 1, Len(z))[2] = z[2]
        /\ SubSeq(x, 1, Len(z))[1] = x[1] /\ SubSeq(x, 1, Len(z))[2] = x[2]
      BY <1>1, <1>2, <1>4, <2>1
  <2>3. z[1] = x[1] /\ z[2] = x[2] /\ Len(x) >= 2
      BY <1>1, <1>2, <1>4, <2>1, <2>2
  <2> QED
      BY <1>4, <2>3 DEF Parse, z
<1>5. CASE z # r.body /\ ~(Len(z) >= 2)
    BY <1>5 DEF Parse, z
<1> QED
    BY <1>3, <1>4, <1>5 DEF z

\* The list that a request appends to.
LEMMA AppendedLast ==
    ASSUME NEW S, NEW s \in Seq(S), NEW x
    PROVE  s = Front(Append(s, x)) /\ Last(Append(s, x)) = x
<1> DEFINE t == Append(s, x)
<1>1. Len(t) = Len(s) + 1 /\ t[Len(s) + 1] = x /\ \A i \in 1..Len(s) : t[i] = s[i]
    OBVIOUS
<1>2. t \in Seq(S \cup {x})
    OBVIOUS
<1> HIDE DEF t
<1>3. /\ SubSeq(t, 1, Len(s)) \in Seq(S \cup {x}) /\ Len(SubSeq(t, 1, Len(s))) = Len(s)
      /\ \A i \in 1..Len(s) : SubSeq(t, 1, Len(s))[i] = s[i]
    BY <1>1, <1>2
<1>4. SubSeq(t, 1, Len(s)) = s
    BY <1>3
<1>5. Len(t) - 1 = Len(s)
    BY <1>1
<1> QED
    BY <1>1, <1>4, <1>5 DEF Front, Last, t

\* What a handler that decides on 200 has done.
LEMMA HandlerDone ==
    ASSUME Inv, NEW c \in Conns, req[c] \in Requests, NEW x, FromBody(req[c], x),
           Handle(req[c], x, TRUE)
    PROVE  Garbled(c) \/ Done(c)
<1> DEFINE r == req[c]
           d == Parse(x)
<1>1. CASE r.route = "delete" /\ Config!Delete(r.name, TRUE)
  <2>1. ListInv
      BY DEF Inv, ConfigInv
  <2>2. PICK i \in 1..Len(nodes) :
          /\ nodes[i].name = r.name /\ nodes' = Config!RemoveAt(nodes, i) /\ uri' = uri
          /\ \A j \in DOMAIN nodes : nodes[j].parent # r.name
      BY <1>1, <2>1, DeleteOne
  <2>3. nodes \in Seq(Config!Definition) /\ Len(nodes) \in Nat /\ DOMAIN nodes = 1..Len(nodes)
      BY <2>1 DEF ListInv
  <2>4. /\ nodes' \in Seq(Config!Definition) /\ Len(nodes') = Len(nodes) - 1
        /\ \A j \in 1..Len(nodes') : nodes'[j] = nodes[IF j < i THEN j ELSE j + 1]
      BY <2>2, <2>3, WithoutOne
  <2>5. \A m \in ToSet(nodes') : \E j \in DOMAIN nodes : j # i /\ m = nodes[j]
    <3> SUFFICES ASSUME NEW k \in 1..Len(nodes')
                 PROVE  \E j \in DOMAIN nodes : j # i /\ nodes'[k] = nodes[j]
        BY <2>4 DEF ToSet
    <3> DEFINE j == IF k < i THEN k ELSE k + 1
    <3>1. j \in DOMAIN nodes /\ j # i /\ nodes'[k] = nodes[j]
        BY <2>2, <2>3, <2>4
    <3> QED
        BY <3>1
  <2>6. ASSUME NEW m \in ToSet(nodes'), m.name = r.name PROVE Shadowed(m.name)
    <3>1. PICK j \in DOMAIN nodes : j # i /\ m = nodes[j]
        BY <2>5
    <3>2. nodes[i].kind = "other" \/ nodes[j].kind = "other"
        BY <2>1, <2>2, <2>3, <2>6, <3>1 DEF ListInv, Config!Builds
    <3> QED
        BY <2>2, <2>3, <2>6, <3>1, <3>2 DEF Shadowed
  <2>7. nodes' = RemoveAt(nodes, i) /\ nodes[i].name = r.name /\ i \in DOMAIN nodes
      BY <2>2, <2>3 DEF RemoveAt, Config!RemoveAt
  <2>8. \A m \in ToSet(nodes') : m.parent # r.name
      BY <2>2, <2>5
  <2> QED
      BY <1>1, <2>2, <2>6, <2>7, <2>8 DEF Done
<1>2. CASE r.route = "other" /\ UNCHANGED configVars
    BY <1>2 DEF Done, configVars
<1>3. CASE \/ r.route = "config" /\ Config!PutConfig(d, TRUE)
           \/ r.route = "folder" /\ Config!PostFolder(d, TRUE)
           \/ r.route = "variable" /\ Config!PostVariable(d, TRUE)
  <2>1. d # NotJson
      BY <1>3 DEF Config!PutConfig, Config!PostFolder, Config!PostVariable, Config!New
  <2>2. r.method \in {"PUT", "POST"}
    <3>1. CASE r.method \notin {"PUT", "POST"}
      <4>1. Http!CString(<< >>) = << >>
          BY DEF Http!CString
      <4>2. x = << >>
          BY <3>1, <4>1 DEF FromBody
      <4> QED
          BY <2>1, <4>2 DEF Parse
    <3> QED
        BY <3>1
  <2>3. Garbled(c) \/ Sent(c) = d
      BY <2>2, SameDocument DEF Garbled, Sent, Http!Upload
  <2> SUFFICES ASSUME Sent(c) = d PROVE Done(c)
      BY <2>3
  <2> HIDE DEF d
  <2>4. nodes \in Seq(Config!Definition) /\ Len(nodes) <= MaxNodes /\ MaxNodes \in Nat
      BY ConfigAssumption DEF Inv, ConfigInv, ListInv
  <2>5. ASSUME NEW def, Config!Add(def, TRUE)
        PROVE  uri' = uri /\ (Unlisted \/ (nodes = Front(nodes') /\ Last(nodes') = def))
    <3>1. CASE Len(nodes) < MaxNodes
      <4>1. nodes' = Append(nodes, def) /\ uri' = uri
          BY <2>5, <3>1 DEF Config!Add
      <4>2. nodes = Front(nodes') /\ Last(nodes') = def
          BY <2>4, <4>1, AppendedLast
      <4> QED
          BY <4>1, <4>2
    <3>2. CASE ~(Len(nodes) < MaxNodes)
        BY <2>4, <2>5, <3>2 DEF Config!Add, Unlisted
    <3> QED
        BY <3>1, <3>2
  <2>6. CASE r.route = "config" /\ Config!PutConfig(d, TRUE)
      BY <2>6 DEF Done, Config!PutConfig
  <2>7. CASE r.route = "folder" /\ Config!PostFolder(d, TRUE)
    <3> DEFINE def == [kind |-> "folder", name |-> d.name, parent |-> Config!ParentOf(d),
                       type |-> "Boolean", simulation |-> FALSE, role |-> FALSE]
    <3>1. Config!Add(def, TRUE) /\ Config!New(d)
        BY <2>7 DEF Config!PostFolder
    <3>2. Describes(d, def, "folder")
        BY <3>1 DEF Describes, Config!New
    <3> HIDE DEF def
    <3> QED
        BY <2>5, <2>7, <3>1, <3>2 DEF Done, Config!New
  <2>8. CASE r.route = "variable" /\ Config!PostVariable(d, TRUE)
    <3> DEFINE sim == d.simulation = TRUE
               def == [kind |-> "variable", name |-> d.name, parent |-> Config!ParentOf(d),
                       type |-> Config!TypeOf(d), simulation |-> sim, role |-> FALSE]
    <3>1. /\ Config!Add(def, TRUE) /\ Config!New(d) /\ d.type \in Config!Types \cup {Absent}
          /\ sim => Config!TypeOf(d) = "Boolean"
        BY <2>8 DEF Config!PostVariable
    <3>2. Describes(d, def, "variable")
      <4>1. d.type # Absent => Config!TypeOf(d) = d.type
          BY <3>1 DEF Config!TypeOf
      <4>2. def.simulation = sim
          BY Zenon
      <4> QED
          BY <3>1, <4>1, <4>2, Zenon DEF Describes, Config!New
    <3> HIDE DEF def
    <3> QED
        BY <2>5, <2>8, <3>1, <3>2 DEF Done, Config!New
  <2> QED
      BY <1>3, <2>6, <2>7, <2>8
<1> QED
    BY <1>1, <1>2, <1>3 DEF Handle

\* A request for which its handler decides on 200 has done, field by field,
\* what its client sent, in any pieces; every other one has changed nothing
\* (handle_put_config, handle_post_folder, handle_post_variable,
\* node_manager_delete).
THEOREM Answers == Spec => AnswerIsTrue
<1> DEFINE A(c) == phase[c] \in Http!Active /\ phase'[c] \in Http!Answered =>
                     IF ran'[c] # ran[c] /\ ok'[c] THEN Garbled(c) \/ Done(c)
                     ELSE UNCHANGED configVars
<1>1. Inv /\ [Next]_vars => [\A c \in Conns : A(c)]_vars
  <2> SUFFICES ASSUME Inv, Next, NEW c \in Conns,
                      phase[c] \in Http!Active, phase'[c] \in Http!Answered
               PROVE  IF ran'[c] # ran[c] /\ ok'[c] THEN Garbled(c) \/ Done(c)
                      ELSE UNCHANGED configVars
      OBVIOUS
  <2>1. Serve(c)
    <3>1. phase'[c] # phase[c] /\ phase'[c] \notin {"idle", "headers"}
        BY DEF Http!Active, Http!Answered
    <3>2. PICK d \in Conns : Serve(d) \/ Client(d)
        BY <3>1 DEF Next, Start, Stop, httpVars
    <3>3. DOMAIN phase = Conns
        BY DEF Inv, HttpInv
    <3>4. ~Client(d)
        BY <3>1, <3>3 DEF Client, Http!End, Http!Request, Http!Become
    <3>5. d = c
      <4>1. Http!Call(d)
          BY <3>2, <3>4 DEF Serve
      <4>2. \E p : phase' = [phase EXCEPT ![d] = p]
        <5>1. CASE UNCHANGED phase
            BY <3>1, <5>1
        <5>2. ASSUME NEW body, Http!Dispatch(d, body) PROVE \E p : phase' = [phase EXCEPT ![d] = p]
            BY <5>2 DEF Http!Dispatch, Http!NotFound, Http!Become
        <5>3. CASE Http!Options(d) \/ Http!Mark(d)
            BY <5>3 DEF Http!Options, Http!Mark, Http!Become
        <5> QED
            BY <4>1, <5>1, <5>2, <5>3 DEF Http!Call, Http!Plain, Http!EmptyFails, Http!Complete,
               Http!Takes, Http!Receive, Http!ReceiveFails
      <4> QED
          BY <3>1, <3>3, <4>2
    <3> QED
        BY <3>2, <3>4, <3>5
  <2>2. CASE ran'[c] = ran[c]
      BY <2>1, <2>2 DEF Serve
  <2>3. CASE ran'[c] # ran[c]
    <3> DEFINE x == Last(ran'[c])
    <3>1. Handle(req[c], x, ok'[c]) /\ ok'[c] \in BOOLEAN /\ Http!Call(c)
        BY <2>1, <2>3 DEF Serve
    <3>2. req[c] \in Requests /\ FromBody(req[c], x)
        BY <2>3, <3>1, HandlerBody DEF Inv
    <3> HIDE DEF x
    <3>3. CASE ok'[c] = TRUE
        BY <2>3, <3>1, <3>2, <3>3, HandlerDone
    <3>4. CASE ok'[c] = FALSE
      <4>1. UNCHANGED configVars
          BY <3>1, <3>4 DEF Handle, Config!PutConfig, Config!PostFolder, Config!PostVariable,
               Config!Add, Config!Delete, configVars
      <4> QED
          BY <3>4, <4>1
    <3> QED
        BY <3>1, <3>3, <3>4
  <2> QED
      BY <2>2, <2>3
<1>2. [][\A c \in Conns : A(c)]_vars => AnswerIsTrue
    BY DEF AnswerIsTrue
<1> QED
    BY <1>1, <1>2, SpecInv, PTL DEF Spec
=============================================================================
