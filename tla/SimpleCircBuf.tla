--------------------------- MODULE SimpleCircBuf ---------------------------
(***************************************************************************)
(* The single-producer single-consumer ring of simple_circbuf.h, which     *)
(* hands accepted sockets from Server::Wait to an event loop.  in_ and     *)
(* out_ are unsigned, never reduced and wrap around at their width; one    *)
(* action per access to a location the other thread uses.                  *)
(***************************************************************************)
EXTENDS Integers, Sequences

CONSTANTS
    Values,         \* what is put into the ring
    Size,           \* buffer_size_
    Width           \* number of values of the index type (2^64 for ull)

(* The constructor rounds the size up to a power of two, so it divides     *)
(* the number of values of the unsigned index type.                        *)
ASSUME SizeAssumption ==
    /\ Size \in Nat /\ Size >= 2
    /\ Width \in Nat /\ Width > Size /\ Width % Size = 0

VARIABLES
    in, out,        \* in_ and out_
    buffer,         \* buffer_
    ppc, pval,      \* the producer: where it is, the value it puts
    cpc, data,      \* the consumer: where it is, the value it moved out
    got             \* history: what the last successful Get returned

vars == <<in, out, buffer, ppc, pval, cpc, data, got>>

Slots == 0 .. (Size - 1)
Mask(i) == i % Size             \* i & mask_
Used == (in - out) % Width      \* in_ - out_ in unsigned arithmetic

Default == CHOOSE v \in Values : TRUE

Init ==
    /\ in = 0 /\ out = 0
    /\ buffer \in [Slots -> Values]     \* mm_realloc leaves it uninitialised
    /\ ppc = "idle" /\ pval = Default
    /\ cpc = "idle" /\ data = Default /\ got = Default

(* ReInit, called while neither thread is inside Put or Get. *)
ReInit ==
    /\ ppc = "idle" /\ cpc = "idle"
    /\ in' = 0 /\ out' = 0
    /\ UNCHANGED <<buffer, ppc, pval, cpc, data, got>>

-----------------------------------------------------------------------------
(* Mutant: the ring accepts one value too many. *)
PutBeginOverfull(v) ==
    /\ ppc = "idle"
    /\ Used # Size + 1
    /\ pval' = v /\ ppc' = "write"
    /\ UNCHANGED <<in, out, buffer, cpc, data, got>>

(* Mutant: the distance is computed without wrapping. *)
PutBeginSigned(v) ==
    /\ ppc = "idle"
    /\ in - out # Size
    /\ pval' = v /\ ppc' = "write"
    /\ UNCHANGED <<in, out, buffer, cpc, data, got>>

(* Put: (in_ - out_) == buffer_size_ returns -1 and changes nothing. *)
PutBegin(v) ==
    /\ ppc = "idle"
    /\ Used # Size
    /\ pval' = v /\ ppc' = "write"
    /\ UNCHANGED <<in, out, buffer, cpc, data, got>>

(* buffer_[in_ & mask_] = data *)
PutWrite ==
    /\ ppc = "write"
    /\ buffer' = [buffer EXCEPT ![Mask(in)] = pval]
    /\ ppc' = "advance"
    /\ UNCHANGED <<in, out, pval, cpc, data, got>>

(* ++in_ *)
PutAdvance ==
    /\ ppc = "advance"
    /\ in' = (in + 1) % Width
    /\ ppc' = "idle" /\ pval' = Default
    /\ UNCHANGED <<out, buffer, cpc, data, got>>

-----------------------------------------------------------------------------
(* Get: in_ == out_ returns -1 and changes nothing. *)
GetBegin ==
    /\ cpc = "idle"
    /\ in # out
    /\ cpc' = "read"
    /\ UNCHANGED <<in, out, buffer, ppc, pval, data, got>>

(* data = std::move(buffer_[out_ & mask_]) *)
GetRead ==
    /\ cpc = "read"
    /\ data' = buffer[Mask(out)]
    /\ cpc' = "advance"
    /\ UNCHANGED <<in, out, buffer, ppc, pval, got>>

(* ++out_ *)
GetAdvance ==
    /\ cpc = "advance"
    /\ out' = (out + 1) % Width
    /\ got' = data /\ data' = Default
    /\ cpc' = "idle"
    /\ UNCHANGED <<in, buffer, ppc, pval>>

-----------------------------------------------------------------------------
Next ==
    \/ ReInit
    \/ \E v \in Values : PutBegin(v)
    \/ PutWrite \/ PutAdvance
    \/ GetBegin \/ GetRead \/ GetAdvance

Spec == Init /\ [][Next]_vars

-----------------------------------------------------------------------------
(* Type invariant, and the index arithmetic: never more than Size values,  *)
(* also while an index has wrapped around and the other has not.           *)
TypeOK ==
    /\ in \in 0 .. (Width - 1) /\ out \in 0 .. (Width - 1)
    /\ Used <= Size
    /\ buffer \in [Slots -> Values]
    /\ ppc \in {"idle", "write", "advance"} /\ pval \in Values
    /\ cpc \in {"idle", "read", "advance"} /\ data \in Values /\ got \in Values

(* The producer never writes the slot the consumer is reading: a Put that  *)
(* passed its test has a slot of its own although out_ may have moved.     *)
NoSlotRace == ppc = "write" /\ cpc = "read" => Mask(in) # Mask(out)

(* The inductive invariant: what a Put that passed its test and a Get that *)
(* passed its test may rely on until they advance their index.             *)
PutHasRoom == ppc # "idle" => Used < Size
GetHasValue == cpc # "idle" => Used > 0
PutWritten == ppc = "advance" => buffer[Mask(in)] = pval
GetMoved == cpc = "advance" => buffer[Mask(out)] = data

IndInv == TypeOK /\ PutHasRoom /\ GetHasValue /\ PutWritten /\ GetMoved

(* The contents of the ring, oldest first. *)
Contents == [i \in 1 .. Used |-> buffer[Mask((out + i - 1) % Width)]]

Fifo == INSTANCE BoundedFifo WITH queue <- Contents

(* The ring is a bounded FIFO: Put takes effect at ++in_, Get at ++out_,   *)
(* and Get returns the oldest value, across any number of wrap-arounds.    *)
ImplementsFifo == Fifo!Spec
=============================================================================
