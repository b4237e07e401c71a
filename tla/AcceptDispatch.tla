--------------------------- MODULE AcceptDispatch ---------------------------
(***************************************************************************)
(* Server::Wait (server.cpp) accepts connections and deals them out to the *)
(* event loops: a bounded fd_queue per loop (SimpleMsgQueue over           *)
(* SimpleCircBuf, here as the BoundedFifo it implements), a Notifier per   *)
(* queue, and the callback AcceptFdCb (network_event_handler.cpp) that     *)
(* drains the queue and registers a read watcher for every socket.         *)
(***************************************************************************)
EXTENDS Integers, Sequences, FiniteSets

CONSTANTS
    LoopCount,      \* event_loop_count_
    QueueSize,      \* size of each fd_queue
    MaxFd           \* bound: number of connections clients open

ASSUME LoopAssumption ==
    LoopCount \in Nat \ {0} /\ QueueSize \in Nat /\ QueueSize >= 2 /\ MaxFd \in Nat

VARIABLES
    pending,        \* connections the kernel has, not yet accepted
    apc, fd, idx,   \* the accepting thread: where it is, fd, idx
    queue,          \* fd_queue of each loop
    flag, counter,  \* Notifier of each loop: flag_, the eventfd's counter
    lpc,            \* where each loop is
    watched         \* the sockets each loop has registered ReadCb for

vars == <<pending, apc, fd, idx, queue, flag, counter, lpc, watched>>

Loops == 0 .. (LoopCount - 1)
Fds == 1 .. MaxFd            \* sockets, in the order the kernel hands them out
NoFd == 0

Init ==
    /\ pending = Fds
    /\ apc = "accept" /\ fd = NoFd /\ idx = 0
    /\ queue = [l \in Loops |-> <<>>]
    /\ flag = [l \in Loops |-> FALSE] /\ counter = [l \in Loops |-> 0]
    /\ lpc = [l \in Loops |-> "wait"]
    /\ watched = [l \in Loops |-> {}]

-----------------------------------------------------------------------------
(* accept() returns a socket; idx %= event_loop_count_ *)
Accept ==
    /\ apc = "accept"
    /\ \E f \in pending :
          (\A g \in pending : f <= g) /\ fd' = f /\ pending' = pending \ {f}
    /\ idx' = idx % LoopCount
    /\ apc' = "put"
    /\ UNCHANGED <<queue, flag, counter, lpc, watched>>

(* Mutant: a full queue drops the connection. *)
PutDrops ==
    /\ apc = "put"
    /\ IF Len(queue[idx]) < QueueSize
       THEN queue' = [queue EXCEPT ![idx] = Append(@, fd)]
       ELSE UNCHANGED queue
    /\ apc' = "exchange" /\ fd' = NoFd
    /\ UNCHANGED <<pending, idx, flag, counter, lpc, watched>>

(* Put into the loop's queue; a full queue sends the socket to the next    *)
(* loop, round and round until one has room.                               *)
Put ==
    /\ apc = "put"
    /\ IF Len(queue[idx]) < QueueSize
       THEN /\ queue' = [queue EXCEPT ![idx] = Append(@, fd)]
            /\ apc' = "exchange" /\ fd' = NoFd /\ UNCHANGED idx
       ELSE /\ idx' = (idx + 1) % LoopCount
            /\ UNCHANGED <<queue, apc, fd>>
    /\ UNCHANGED <<pending, flag, counter, lpc, watched>>

(* set_flag_and_notify on that loop's queue, then ++idx. *)
Exchange ==
    /\ apc = "exchange"
    /\ flag' = [flag EXCEPT ![idx] = TRUE]
    /\ IF flag[idx]
       THEN apc' = "accept" /\ idx' = idx + 1
       ELSE apc' = "write" /\ UNCHANGED idx
    /\ UNCHANGED <<pending, fd, queue, counter, lpc, watched>>

(* Mutant: the index moves on before the notification is written. *)
WriteNextLoop ==
    /\ apc = "write"
    /\ counter' = [counter EXCEPT ![(idx + 1) % LoopCount] = 1]
    /\ apc' = "accept" /\ idx' = idx + 1
    /\ UNCHANGED <<pending, fd, queue, flag, lpc, watched>>

Write ==
    /\ apc = "write"
    /\ counter' = [counter EXCEPT ![idx] = 1]
    /\ apc' = "accept" /\ idx' = idx + 1
    /\ UNCHANGED <<pending, fd, queue, flag, lpc, watched>>

-----------------------------------------------------------------------------
(* The event loop: epoll_wait reports the eventfd, AcceptFdCb runs. *)
Wake(l) ==
    /\ lpc[l] = "wait" /\ counter[l] > 0
    /\ lpc' = [lpc EXCEPT ![l] = "read"]
    /\ UNCHANGED <<pending, apc, fd, idx, queue, flag, counter, watched>>

(* unset_flag_and_clear_notify: read the eventfd, then lower the flag. *)
Read(l) ==
    /\ lpc[l] = "read"
    /\ counter' = [counter EXCEPT ![l] = 0]
    /\ lpc' = [lpc EXCEPT ![l] = "unset"]
    /\ UNCHANGED <<pending, apc, fd, idx, queue, flag, watched>>

Unset(l) ==
    /\ lpc[l] = "unset"
    /\ flag' = [flag EXCEPT ![l] = FALSE]
    /\ lpc' = [lpc EXCEPT ![l] = "drain"]
    /\ UNCHANGED <<pending, apc, fd, idx, queue, counter, watched>>

(* Get, initialise socket_state_[fd], start a read watcher. *)
Register(l) ==
    /\ lpc[l] = "drain" /\ queue[l] # <<>>
    /\ watched' = [watched EXCEPT ![l] = @ \cup {Head(queue[l])}]
    /\ queue' = [queue EXCEPT ![l] = Tail(@)]
    /\ UNCHANGED <<pending, apc, fd, idx, flag, counter, lpc>>

(* Mutant: the callback returns before the queue is empty. *)
SleepEarly(l) ==
    /\ lpc[l] = "drain"
    /\ lpc' = [lpc EXCEPT ![l] = "wait"]
    /\ UNCHANGED <<pending, apc, fd, idx, queue, flag, counter, watched>>

(* Get returns -1: back to epoll_wait. *)
Sleep(l) ==
    /\ lpc[l] = "drain" /\ queue[l] = <<>>
    /\ lpc' = [lpc EXCEPT ![l] = "wait"]
    /\ UNCHANGED <<pending, apc, fd, idx, queue, flag, counter, watched>>

-----------------------------------------------------------------------------
AcceptorStep == Accept \/ Put \/ Exchange \/ Write
LoopStep(l) == Wake(l) \/ Read(l) \/ Unset(l) \/ Register(l) \/ Sleep(l)

Next == AcceptorStep \/ \E l \in Loops : LoopStep(l)

Spec == Init /\ [][Next]_vars

(* The accepting thread and the loop threads are scheduled; connections    *)
(* keep arriving as long as the kernel has some.                           *)
FairSpec == Spec /\ WF_vars(AcceptorStep) /\ \A l \in Loops : WF_vars(LoopStep(l))

-----------------------------------------------------------------------------
(* Type invariant; no queue outgrows its ring. *)
TypeOK ==
    /\ pending \subseteq Fds
    /\ apc \in {"accept", "put", "exchange", "write"}
    /\ fd \in Fds \cup {NoFd} /\ idx \in 0 .. LoopCount
    /\ queue \in [Loops -> Seq(Fds)] /\ \A l \in Loops : Len(queue[l]) <= QueueSize
    /\ flag \in [Loops -> BOOLEAN] /\ counter \in [Loops -> {0, 1}]
    /\ lpc \in [Loops -> {"wait", "read", "unset", "drain"}]
    /\ watched \in [Loops -> SUBSET Fds]

(* Where a socket can be between accept() and its watcher: the loops that  *)
(* watch it, and the slots of the queues that hold it.                     *)
Watchers(f) == {l \in Loops : f \in watched[l]}
Slots(f) ==
    {s \in Loops \X (1 .. QueueSize) :
        s[2] <= Len(queue[s[1]]) /\ queue[s[1]][s[2]] = f}

(* Number of places a socket is in. *)
Places(f) ==
    Cardinality(Watchers(f)) + Cardinality(Slots(f))
    + (IF f \in pending THEN 1 ELSE 0) + (IF fd = f THEN 1 ELSE 0)

(* Every connection is in exactly one place: no socket is dropped when the *)
(* queues are full, none is served by two loops.                           *)
ExactlyOnePlace == \A f \in Fds : Places(f) = 1

(* No loop sleeps on a socket in its queue unless its own notification is  *)
(* on the way, although the dispatcher's idx moves on from loop to loop.   *)
NoLostWakeup ==
    \A l \in Loops : lpc[l] = "wait" /\ queue[l] # <<>> =>
        counter[l] > 0 \/ (apc \in {"exchange", "write"} /\ idx = l)

(* A raised flag of a loop has its notification under way: the acceptor    *)
(* about to write it, the eventfd's counter, or the loop that has woken up *)
(* and not yet lowered the flag.                                           *)
FlagCovered ==
    \A l \in Loops : flag[l] =>
        \/ counter[l] > 0
        \/ lpc[l] \in {"read", "unset"}
        \/ apc = "write" /\ idx = l

(* Where the accepting thread is decides whether it holds a socket and     *)
(* whether idx has been reduced modulo event_loop_count_.                  *)
Acceptor ==
    /\ apc = "put" <=> fd # NoFd
    /\ apc # "accept" => idx \in Loops

(* A socket is nowhere but with the kernel, nowhere but with the acceptor, *)
(* with one loop only, or in one slot of one queue only.                   *)
WithKernel(f) == f \in pending /\ fd # f /\ Watchers(f) = {} /\ Slots(f) = {}
WithAcceptor(f) == f \notin pending /\ fd = f /\ Watchers(f) = {} /\ Slots(f) = {}
InQueue(f) == /\ f \notin pending /\ fd # f /\ Watchers(f) = {}
              /\ \E s \in Loops \X (1 .. QueueSize) : Slots(f) = {s}
WithLoop(f) == /\ f \notin pending /\ fd # f /\ Slots(f) = {}
               /\ \E l \in Loops : Watchers(f) = {l}

OnePlace == \A f \in Fds : WithKernel(f) \/ WithAcceptor(f) \/ InQueue(f) \/ WithLoop(f)

(* The inductive invariant behind ExactlyOnePlace and NoLostWakeup. *)
IndInv == TypeOK /\ Acceptor /\ FlagCovered /\ NoLostWakeup /\ OnePlace

(* Every connection ends up with an event loop. *)
EventuallyWatched == \A f \in Fds : <>(\E l \in Loops : f \in watched[l])
=============================================================================
