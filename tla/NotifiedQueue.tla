--------------------------- MODULE NotifiedQueue ---------------------------
(***************************************************************************)
(* A message queue of an event loop: worker threads put responses into the *)
(* ring (task.h), wake the loop through the Notifier (notifier.h, an       *)
(* eventfd guarded by an atomic flag), and the loop's callback ResponseCb  *)
(* (network_event_handler.cpp) clears the notification and drains the ring.*)
(*                                                                         *)
(* The ring is used through its interface, as the ticket queue that        *)
(* RingSpec describes and CircBuf implements, with the loop as its single  *)
(* consumer.  The flag, the eventfd and bytes_for_eventfd_notify are       *)
(* modelled access by access.                                              *)
(***************************************************************************)
EXTENDS Integers

CONSTANTS
    Workers,        \* the threads that answer requests of this loop
    Size,           \* size of the response queue's ring
    EventFdMax,     \* the largest value an eventfd counter holds
    MaxSeq          \* bound: no more responses once in >= MaxSeq

ASSUME QueueAssumption == Size \in Nat \ {0}
ASSUME EventFdAssumption == EventFdMax \in Nat \ {0}
ASSUME MaxSeqAssumption == MaxSeq \in Nat

VARIABLES
    in, out, ready,     \* the ring: last ticket claimed, last drained, published
    flag,               \* Notifier::flag_
    counter,            \* the kernel's counter behind event_fd_
    bytes,              \* Notifier::bytes_for_eventfd_notify
    wpc, ticket,        \* each worker: where it is, the ticket it fills
    lpc                 \* where the event loop is

ring == <<in, out, ready>>
notifier == <<flag, counter, bytes>>
vars == <<in, out, ready, flag, counter, bytes, wpc, ticket, lpc>>

(* Notifier::Notifier() and MsgQueue::MsgQueue(); the loop is in epoll_wait. *)
Init ==
    /\ in = -1 /\ out = -1 /\ ready = {}
    /\ flag = FALSE /\ counter = 0 /\ bytes = 1
    /\ wpc = [w \in Workers |-> "call"]
    /\ ticket = [w \in Workers |-> -1]
    /\ lpc = "wait"

-----------------------------------------------------------------------------
(* Task::operator()                                                        *)

(* TakeObjectAndSeq: take() blocks while the ring is full. *)
Take(w) ==
    /\ wpc[w] = "call" /\ in < MaxSeq
    /\ in < out + Size
    /\ in' = in + 1
    /\ ticket' = [ticket EXCEPT ![w] = in + 1]
    /\ wpc' = [wpc EXCEPT ![w] = "publish"]
    /\ UNCHANGED <<out, ready, notifier, lpc>>

(* Mutant: another ticket than the claimed one is published. *)
PublishDropped(w) ==
    /\ wpc[w] = "publish"
    /\ ready' = ready \cup {-1}
    /\ ticket' = [ticket EXCEPT ![w] = -1]
    /\ wpc' = [wpc EXCEPT ![w] = "exchange"]
    /\ UNCHANGED <<in, out, notifier, lpc>>

(* The response is filled in and published. *)
Publish(w) ==
    /\ wpc[w] = "publish"
    /\ ready' = ready \cup {ticket[w]}
    /\ ticket' = [ticket EXCEPT ![w] = -1]
    /\ wpc' = [wpc EXCEPT ![w] = "exchange"]
    /\ UNCHANGED <<in, out, notifier, lpc>>

(* Mutant: every worker writes, whether or not the flag was up. *)
ExchangeAlwaysWrites(w) ==
    /\ wpc[w] = "exchange"
    /\ flag' = TRUE
    /\ wpc' = [wpc EXCEPT ![w] = "write"]
    /\ UNCHANGED <<ring, counter, bytes, ticket, lpc>>

(* set_flag_and_notify: only the thread that raised the flag writes. *)
Exchange(w) ==
    /\ wpc[w] = "exchange"
    /\ flag' = TRUE
    /\ wpc' = [wpc EXCEPT ![w] = IF flag THEN "call" ELSE "write"]
    /\ UNCHANGED <<ring, counter, bytes, ticket, lpc>>

(* write(event_fd_, &bytes): a counter that would overflow is EAGAIN, on   *)
(* which the flag is lowered again.  The descriptor does not block, so     *)
(* write() is never interrupted (EINTR, on which the flag would stay up),  *)
(* and it stays open, so that it has no other error.                       *)
Write(w) ==
    /\ wpc[w] = "write"
    /\ IF counter + bytes <= EventFdMax
       THEN counter' = counter + bytes /\ UNCHANGED flag
       ELSE flag' = FALSE /\ UNCHANGED counter
    /\ wpc' = [wpc EXCEPT ![w] = "call"]
    /\ UNCHANGED <<ring, bytes, ticket, lpc>>

-----------------------------------------------------------------------------
(* The event loop.                                                         *)

(* epoll_wait reports the eventfd, level triggered, and ResponseCb runs. *)
Wake ==
    /\ lpc = "wait" /\ counter > 0
    /\ lpc' = "read"
    /\ UNCHANGED <<ring, notifier, wpc, ticket>>

(* unset_flag_and_clear_notify: read() moves the counter into bytes ... *)
Read ==
    /\ lpc = "read"
    /\ bytes' = IF counter > 0 THEN counter ELSE bytes
    /\ counter' = 0
    /\ lpc' = "unset"
    /\ UNCHANGED <<ring, flag, wpc, ticket>>

(* Mutant: the flag is left up. *)
UnsetForgotten ==
    /\ lpc = "unset"
    /\ lpc' = "drain"
    /\ UNCHANGED <<ring, notifier, wpc, ticket>>

(* ... then the flag is lowered: from here on workers notify again. *)
Unset ==
    /\ lpc = "unset"
    /\ flag' = FALSE
    /\ lpc' = "drain"
    /\ UNCHANGED <<ring, counter, bytes, wpc, ticket>>

(* GetConsumerObject delivers the next response. *)
Get ==
    /\ lpc = "drain"
    /\ out + 1 \in ready
    /\ out' = out + 1
    /\ ready' = ready \ {out + 1}
    /\ UNCHANGED <<in, notifier, wpc, ticket, lpc>>

(* Mutant: the callback returns before the ring is empty. *)
GetEmptyEarly ==
    /\ lpc = "drain"
    /\ lpc' = "wait"
    /\ UNCHANGED <<ring, notifier, wpc, ticket>>

(* GetConsumerObject returns -1 once the ring is empty: back to epoll_wait. *)
(* While a ticket is claimed and not yet published the noblock strategy    *)
(* keeps spinning, so neither Get nor GetEmpty is possible.                *)
GetEmpty ==
    /\ lpc = "drain"
    /\ in = out
    /\ lpc' = "wait"
    /\ UNCHANGED <<ring, notifier, wpc, ticket>>

-----------------------------------------------------------------------------
WorkerStep(w) == Publish(w) \/ Exchange(w) \/ Write(w)
LoopStep == Wake \/ Read \/ Unset \/ Get \/ GetEmpty

Next ==
    \/ \E w \in Workers : Take(w) \/ WorkerStep(w)
    \/ LoopStep

Spec == Init /\ [][Next]_vars

(* Every thread that can run is scheduled eventually; that a worker has a  *)
(* response to deliver is up to the clients (no fairness on Take).         *)
Fairness == (\A w \in Workers : WF_vars(WorkerStep(w))) /\ WF_vars(LoopStep)
FairSpec == Spec /\ Fairness

-----------------------------------------------------------------------------
(* Type invariant. *)
TypeOK ==
    /\ in \in Nat \cup {-1} /\ out \in Nat \cup {-1}
    /\ ready \subseteq Nat
    /\ flag \in BOOLEAN /\ counter \in Nat /\ bytes \in Nat
    /\ wpc \in [Workers -> {"call", "publish", "exchange", "write"}]
    /\ ticket \in [Workers -> Nat \cup {-1}]
    /\ lpc \in {"wait", "read", "unset", "drain"}

Writing(w) == wpc[w] = "write"

(* The flag stands for exactly one notification under way: a worker about  *)
(* to write it, the counter holding it, or the loop about to lower the     *)
(* flag; never two of these, and no notification without the flag.         *)
OneNotification ==
    /\ \A v, w \in Workers : Writing(v) /\ Writing(w) => v = w
    /\ \A w \in Workers : Writing(w) => flag /\ counter = 0 /\ lpc # "unset"
    /\ counter \in {0, 1}
    /\ counter = 1 => flag /\ lpc # "unset"
    /\ lpc = "unset" => flag
    /\ flag => counter = 1 \/ lpc = "unset" \/ \E w \in Workers : Writing(w)

(* bytes_for_eventfd_notify is shared without synchronisation: the loop's  *)
(* read() stores into it, a worker's write() loads it.  The two never      *)
(* overlap, and the value stays 1, so no write can overflow the counter.   *)
NoBytesRace ==
    /\ lpc = "read" => \A w \in Workers : ~Writing(w)
    /\ bytes = 1

(* The loop never sleeps on a response: when it is in epoll_wait and a     *)
(* response is published, either the eventfd is readable or some worker    *)
(* has still to finish set_flag_and_notify().                              *)
NoLostWakeup ==
    lpc = "wait" /\ ready # {} =>
        counter > 0 \/ \E w \in Workers : wpc[w] \in {"exchange", "write"}

(* Where the tickets of the ring are; the loop reads a positive counter.   *)
QueueInv ==
    /\ out <= in /\ in <= out + Size
    /\ ready \subseteq (out + 1) .. in
    /\ \A w \in Workers : wpc[w] = "publish" => ticket[w] \in ((out + 1) .. in) \ ready
    /\ \A v, w \in Workers :
          wpc[v] = "publish" /\ wpc[w] = "publish" /\ ticket[v] = ticket[w] => v = w
    /\ lpc = "read" => counter = 1

(* The inductive invariant of the notified queue. *)
IndInv == TypeOK /\ QueueInv /\ OneNotification /\ NoBytesRace /\ NoLostWakeup

(* Every response a worker has claimed a ticket for is delivered.          *)
EventuallyDrained == \A s \in 0 .. MaxSeq : in >= s ~> out >= s
=============================================================================
