----------------------------- MODULE FrameStream -----------------------------
(***************************************************************************)
(* What a bridge promises its subscribers (PROTOCOL.md): frames are        *)
(* numbered one after the other and a subscriber, from the moment it is    *)
(* taken on until the bridge lets go of it, is sent every frame once and   *)
(* in order.  Nothing is promised about the rate, about who is taken on,   *)
(* or about a subscriber the bridge has let go of.                         *)
(***************************************************************************)
EXTENDS Integers, Sequences

CONSTANT Conns

VARIABLES
    last,   \* number of the last frame
    on,     \* the subscribers that are served
    got     \* what each of them was sent, in order

Init == last = 0 /\ on = {} /\ got = [c \in Conns |-> << >>]

NewFrame == last' = last + 1 /\ UNCHANGED <<on, got>>

\* A subscriber that was served before has had the frame before this one.
Deliver(c) ==
    /\ c \in on
    /\ got[c] = << >> \/ got[c][Len(got[c])] = last - 1
    /\ got' = [got EXCEPT ![c] = Append(@, last)]
    /\ UNCHANGED <<last, on>>

\* A connection is served once.
Join(c) ==
    /\ c \notin on /\ got[c] = << >>
    /\ on' = on \cup {c}
    /\ UNCHANGED <<last, got>>

Leave == on' \in SUBSET on /\ UNCHANGED <<last, got>>

Next == NewFrame \/ Leave \/ \E c \in Conns : Deliver(c) \/ Join(c)

Spec == Init /\ [][Next]_<<last, on, got>>
=============================================================================
