---------------------------- MODULE OutputBuffer ----------------------------
(***************************************************************************)
(* The per-socket output buffer (output_buffer.h) as ResponseCb            *)
(* (network_event_handler.cpp) uses it: every response appends a length    *)
(* and a body, then one write() sends as much as the socket takes, and the *)
(* rest waits for the next response.  One event loop owns the buffer, so a *)
(* response is one action.  A byte is named by its place in the stream of  *)
(* everything that was ever appended.                                      *)
(***************************************************************************)
EXTENDS Util

CONSTANTS
    InitialSize,        \* DEFAULT_BUFFER_SIZE
    MaxConsumeOffset,   \* MAX_CONSUME_OFFSET
    HeaderLength,       \* sizeof(uint32_t), the length before each body
    BodyLengths,        \* what response_content.ByteSize() returns
    MaxProduced         \* bound: no response once that many bytes were appended

Width == Pow2[Bits]

ASSUME BufferAssumption ==
    /\ InitialSize \in Nat \ {0} /\ MaxConsumeOffset \in Nat
    /\ HeaderLength \in Nat \ {0} /\ BodyLengths \subseteq Nat
    /\ MaxProduced \in Nat
    /\ \A n \in BodyLengths : 2 * (InitialSize + MaxProduced + HeaderLength + n) < Width

VARIABLES
    buf,            \* buffer_, buffer_size_, used_buffer_size_, consume_offset_
    produced,       \* history: number of bytes appended
    sent,           \* history: number of bytes the peer was sent
    failed          \* history: a write() returned -1

bufferVars == <<buf, produced, sent, failed>>

Garbage == 0                    \* a byte nobody appended

BufferInit ==
    /\ buf = [bytes |-> [i \in 0 .. (InitialSize - 1) |-> Garbage],
              size |-> InitialSize, used |-> 0, consumed |-> 0]
    /\ produced = 0 /\ sent = 0 /\ failed = FALSE

-----------------------------------------------------------------------------
(* Resize: realloc keeps what is there. *)
Resize(b, size) ==
    [b EXCEPT !.size = RoundUpPowOfTwo(size),
              !.bytes = [i \in 0 .. (RoundUpPowOfTwo(size) - 1) |->
                            IF i < b.size THEN b.bytes[i] ELSE Garbage]]

(* Mutant: what is in use already is forgotten. *)
GrownForgetsUsed(b, n) == IF n > b.size THEN Resize(b, n) ELSE b

(* The first half of get_empty_buffer: make room for n more bytes. *)
Grown(b, n) ==
    IF n > b.size - b.used
    THEN Resize(b, b.size + (n - (b.size - b.used)))
    ELSE b

(* The other half, and the caller filling the n bytes, first of them f;    *)
(* what would fall outside the buffer is lost.                             *)
Filled(b, n, f) ==
    [b EXCEPT !.used = b.used + n,
              !.bytes = [i \in DOMAIN b.bytes |->
                            IF i \in b.used .. (b.used + n - 1)
                            THEN f + (i - b.used) ELSE b.bytes[i]]]

Appended(b, n, f) == Filled(Grown(b, n), n, f)

Unsent(b) == b.used - b.consumed                \* BufferContentsSize()

(* memmove of the contents to the front; memcpy does the same as long as   *)
(* the two regions do not overlap and may leave anything otherwise.        *)
MoveLeft(b) ==
    [i \in DOMAIN b.bytes |->
        IF i < Unsent(b) THEN b.bytes[b.consumed + i] ELSE b.bytes[i]]

CopyLeft(b) ==
    [i \in DOMAIN b.bytes |->
        IF i < Unsent(b)
        THEN IF Unsent(b) <= b.consumed THEN b.bytes[b.consumed + i] ELSE Garbage
        ELSE b.bytes[i]]

(* Mutant: the cases of memmove and memcpy are exchanged. *)
AdjustBufferExchanged(b) ==
    IF b.used = b.consumed
    THEN [b EXCEPT !.used = 0, !.consumed = 0]
    ELSE IF b.consumed > MaxConsumeOffset
         THEN [b EXCEPT !.bytes = IF Unsent(b) > b.consumed THEN CopyLeft(b) ELSE MoveLeft(b),
                        !.used = Unsent(b), !.consumed = 0]
         ELSE b

(* Empty: start over.  A long consumed prefix: move the contents left. *)
AdjustBuffer(b) ==
    IF b.used = b.consumed
    THEN [b EXCEPT !.used = 0, !.consumed = 0]
    ELSE IF b.consumed > MaxConsumeOffset
         THEN [b EXCEPT !.bytes = IF Unsent(b) > b.consumed THEN MoveLeft(b) ELSE CopyLeft(b),
                        !.used = Unsent(b), !.consumed = 0]
         ELSE b

(* consume_offset_ += size, in 32 bits. *)
Consume(b, n) == [b EXCEPT !.consumed = (b.consumed + n) % Width]

-----------------------------------------------------------------------------
(* The buffer after both parts of a response were appended. *)
WithResponse(n) ==
    Appended(Appended(buf, HeaderLength, produced + 1), n, produced + HeaderLength + 1)

(* One turn of ResponseCb's loop: append, write k bytes, consume, adjust. *)
Respond(n) ==
    /\ ~failed /\ produced < MaxProduced
    /\ produced' = produced + HeaderLength + n
    /\ \E k \in 1 .. Unsent(WithResponse(n)) :
          /\ buf' = AdjustBuffer(Consume(WithResponse(n), k))
          /\ sent' = sent + k
    /\ UNCHANGED failed

(* write() returns -1 (EAGAIN on a full socket): size is unsigned, so the  *)
(* test for < 0 fails and 2^32 - 1 is consumed.  What AdjustBuffer then    *)
(* does is undefined as soon as consume_offset_ has wrapped below zero, so *)
(* the model ends here.                                                    *)
RespondFailing(n) ==
    /\ ~failed /\ produced < MaxProduced
    /\ produced' = produced + HeaderLength + n
    /\ buf' = Consume(WithResponse(n), Width - 1)
    /\ failed' = TRUE
    /\ UNCHANGED sent

BufferNext == \E n \in BodyLengths : Respond(n) \/ RespondFailing(n)

BufferSpec == BufferInit /\ [][BufferNext]_bufferVars

-----------------------------------------------------------------------------
(* Type invariant, and the buffer's own accounts: what is in use fits into *)
(* buffer_, and a consumed prefix never stays longer than                  *)
(* MAX_CONSUME_OFFSET, so the buffer does not creep through memory.        *)
BufferTypeOK ==
    /\ buf.size \in Nat /\ DOMAIN buf.bytes = 0 .. (buf.size - 1)
    /\ buf.used \in 0 .. buf.size
    /\ buf.consumed \in 0 .. (Width - 1)
    /\ ~failed => buf.consumed <= MaxConsumeOffset
    /\ produced \in Nat /\ sent \in Nat /\ failed \in BOOLEAN

(* As long as every write() succeeds, in full or in part, the peer gets    *)
(* every byte once and in order: what is left in the buffer is exactly     *)
(* what was appended and not sent, across growth and moves.                *)
InOrder ==
    ~failed =>
        /\ Unsent(buf) = produced - sent
        /\ \A i \in 0 .. (Unsent(buf) - 1) :
              buf.bytes[buf.consumed + i] = sent + 1 + i

(* The inductive invariant: the buffer is a record of its fields, holds    *)
(* what is in use, and what was consumed was in use and was sent.          *)
Sound(b) ==
    /\ b = [bytes |-> b.bytes, size |-> b.size, used |-> b.used, consumed |-> b.consumed]
    /\ b.size \in Nat /\ b.bytes \in [0 .. (b.size - 1) -> Nat]
    /\ b.used \in 0 .. b.size /\ b.consumed \in Nat

BufferInv ==
    /\ Sound(buf) /\ BufferTypeOK /\ InOrder
    /\ ~failed => buf.consumed <= buf.used /\ buf.consumed <= sent
=============================================================================
