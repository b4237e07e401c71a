---------------------------- MODULE BoundedFifo ----------------------------
(***************************************************************************)
(* What SimpleCircBuf promises: a first-in first-out queue of at most Size *)
(* values.                                                                 *)
(***************************************************************************)
EXTENDS Naturals, Sequences

CONSTANTS Values, Size

VARIABLES
    queue,      \* the values put and not yet got
    got         \* the value the last successful Get returned

vars == <<queue, got>>

Init == queue = <<>> /\ got \in Values

Put(v) ==
    /\ Len(queue) < Size
    /\ queue' = Append(queue, v)
    /\ UNCHANGED got

Get ==
    /\ queue # <<>>
    /\ got' = Head(queue)
    /\ queue' = Tail(queue)

(* ReInit throws the contents away. *)
Clear == queue' = <<>> /\ UNCHANGED got

Next == (\E v \in Values : Put(v)) \/ Get \/ Clear

Spec == Init /\ [][Next]_vars
=============================================================================
