------------------------------ MODULE RingSpec ------------------------------
(***************************************************************************)
(* What a CircBuf promises to its callers: tickets.  A producer draws the  *)
(* next ticket, fills it and publishes it; consumers draw the published    *)
(* tickets in exactly that order, each once, and hand them back.  A ticket *)
(* is drawn only when the one a lap earlier was handed back, so at most    *)
(* Size tickets are outstanding.  No caches, flags, retries or races here. *)
(***************************************************************************)
EXTENDS Integers

CONSTANTS Producers, Consumers, Size

VARIABLES
    in, out,        \* last ticket drawn by a producer, by a consumer
    ready,          \* published tickets no consumer has drawn
    owner           \* the ticket each thread holds, or -1

vars == <<in, out, ready, owner>>

None == -1

Init ==
    /\ in = -1 /\ out = -1
    /\ ready = {}
    /\ owner = [t \in Producers \cup Consumers |-> None]

Claim(p) ==
    /\ owner[p] = None
    /\ in < out + Size
    /\ \A c \in Consumers : owner[c] # in + 1 - Size \/ owner[c] = None
    /\ in' = in + 1
    /\ owner' = [owner EXCEPT ![p] = in + 1]
    /\ UNCHANGED <<out, ready>>

Publish(p) ==
    /\ owner[p] # None
    /\ ready' = ready \cup {owner[p]}
    /\ owner' = [owner EXCEPT ![p] = None]
    /\ UNCHANGED <<in, out>>

Take(c) ==
    /\ owner[c] = None
    /\ out + 1 \in ready
    /\ out' = out + 1
    /\ ready' = ready \ {out + 1}
    /\ owner' = [owner EXCEPT ![c] = out + 1]
    /\ UNCHANGED in

HandBack(c) ==
    /\ owner[c] # None
    /\ owner' = [owner EXCEPT ![c] = None]
    /\ UNCHANGED <<in, out, ready>>

Next ==
    \/ \E p \in Producers : Claim(p) \/ Publish(p)
    \/ \E c \in Consumers : Take(c) \/ HandBack(c)

Spec == Init /\ [][Next]_vars
=============================================================================
