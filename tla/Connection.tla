----------------------------- MODULE Connection -----------------------------
(***************************************************************************)
(* Remote calls end to end: blocking clients (client_blocking_call.h), the *)
(* sockets of one event loop (network_event_handler.cpp, server.h), the    *)
(* workers (task.h, call.h, method_handler.h) and the way back.            *)
(*                                                                         *)
(* A request is a header (its length) followed by as many units, that      *)
(* arrive in pieces; a response is two units.  The rings and the notifiers *)
(* in between are those of RingSpec and NotifiedQueue: here a task ring of *)
(* TaskSlots tickets whose slots are handed back after the task has run,   *)
(* and a response queue of at most ResponseSlots.  The clients are         *)
(* external: any of them may leave at any time.                            *)
(***************************************************************************)
EXTENDS Util, Sequences, SequencesExt

CONSTANTS
    NumConns,           \* connections, each with its client
    Fds,                \* descriptor numbers accept() may return
    Workers,            \* the threads of the pool
    Lengths,            \* of the requests' bodies, in units
    InitSize,           \* RECEIVE_BUF_SIZE
    Limit,              \* a longer packet is a protocol error: 2 << 13
    TaskSlots, ResponseSlots,   \* sizes of the two rings
    ShortReads,         \* connections where a read() may get a part of a header
    ShortWrites,        \* connections where write() may take a part, or nothing
    MaxCalls,           \* bound: calls of all clients together
    MaxLeavers,         \* bound: clients that leave
    None,               \* no connection, task or answer
    Junk                \* a unit nobody sent

ASSUME ConnectionAssumption ==
    /\ NumConns \in Nat /\ IsFiniteSet(Workers)
    /\ Fds \subseteq Nat /\ IsFiniteSet(Fds)
    /\ Lengths \subseteq Nat \ {0} /\ Limit \in Nat /\ InitSize \in 1 .. Limit
    /\ TaskSlots \in Nat \ {0} /\ ResponseSlots \in Nat \ {0}
    /\ ShortReads \subseteq Nat /\ ShortWrites \subseteq Nat
    /\ MaxCalls \in Nat /\ MaxLeavers \in Nat

ASSUME NoneAssumption == None \notin Nat
ASSUME JunkAssumption ==
    /\ Junk \notin [req : [conn : Nat, call : Nat, length : Nat], unit : Nat]
    /\ Junk \notin [rsp : [conn : Nat, call : Nat, code : {"OK", "ERROR"}], unit : Nat]

VARIABLES
    client,         \* per connection: what its client is doing
    up, down,       \* units on their way to the server, and to the client
    backlog,        \* connections not accepted yet
    conn,           \* the connection behind each descriptor, or None
    sock,           \* SocketState of each descriptor: the receiving half
    out,            \* SocketState.output_buffer: the units not written yet
    watched,        \* descriptors with an active read watcher
    loop,           \* where the event loop is
    ticket, tasks,  \* the task ring: last ticket, tasks published and not taken
    running,        \* the task of each worker, or None
    responses,      \* the response queue
    crashed,        \* the server used memory past the end of a buffer and died
    split,          \* history: descriptors that ever had a packet arrive in parts
    orphaned,       \* history: descriptors closed with a request in the server
    spoilt          \* history: descriptors with a short or failed write

clientVars == <<client, up, down>>
socketVars == <<backlog, conn, sock, out, watched>>
poolVars   == <<ticket, tasks, running, responses>>
history    == <<crashed, split, orphaned, spoilt>>
vars == <<clientVars, socketVars, loop, poolVars, history>>

Conns == 1 .. NumConns          \* in the order in which they are made

(* The memory from receive_buf on; the buffer is its first `size' units. *)
EmptyBuffer == [i \in 1 .. (2 * Limit) |-> Junk]

Init ==
    /\ client = [c \in Conns |-> [pc |-> "new", calls |-> 0, length |-> None, sent |-> 0,
                                  failed |-> FALSE, answer |-> None]]
    /\ up = [c \in Conns |-> <<>>] /\ down = [c \in Conns |-> <<>>]
    /\ backlog = {}
    /\ conn = [f \in Fds |-> None]
    /\ sock = [f \in Fds |-> [length |-> 0, unread |-> 0, offset |-> 0,
                              size |-> InitSize, buf |-> EmptyBuffer]]
    /\ out = [f \in Fds |-> <<>>] /\ watched = {}
    /\ loop = [at |-> "idle", fd |-> -1]
    /\ ticket = 0 /\ tasks = <<>> /\ running = [w \in Workers |-> None] /\ responses = <<>>
    /\ crashed = FALSE /\ split = {} /\ orphaned = {} /\ spoilt = {}

-----------------------------------------------------------------------------
(* The wire. *)

Request(c) == [conn |-> c, call |-> client[c].calls, length |-> client[c].length]

(* The header is unit 0, the body the units from 1 on; the next number     *)
(* stands for the rest of a header of which a part was read.               *)
RequestUnits(r) == [i \in 1 .. (r.length + 1) |-> [req |-> r, unit |-> i - 1]]
HeaderRest(r) == [req |-> r, unit |-> r.length + 1]

(* What a worker answers; the code says whether the call succeeded. *)
Response(r, code) == [conn |-> r.conn, call |-> r.call, code |-> code]
ResponseUnits(r) == [i \in 1 .. 2 |-> [rsp |-> r, unit |-> i]]

Shut(c) == c \notin backlog /\ \A f \in Fds : conn[f] # c      \* closed by the server

-----------------------------------------------------------------------------
(* The blocking client. *)

Connects(c) == client[c].pc = "new" /\ \A d \in Conns : d < c => client[d].pc # "new"
MayGo == Cardinality({d \in Conns : client[d].pc = "gone"}) < MaxLeavers

(* CreateSocketAndConnect succeeds, at once or after select(). *)
Connect(c) ==
    /\ Connects(c)
    /\ client' = [client EXCEPT ![c].pc = "idle"]
    /\ backlog' = backlog \cup {c}
    /\ UNCHANGED <<up, down, conn, sock, out, watched, loop, poolVars, history>>

(* Refused, timed out, or an error of the socket: it is closed. *)
ConnectFails(c) ==
    /\ Connects(c) /\ MayGo
    /\ client' = [client EXCEPT ![c].pc = "gone"]
    /\ UNCHANGED <<up, down, socketVars, loop, poolVars, history>>

(* The call returns an error; the stream stays in the failed state. *)
CallFails(c) ==
    client' = [client EXCEPT ![c].pc = "idle", ![c].answer = None, ![c].failed = TRUE]

(* ClientBlockingCall up to the flush; a stream that failed before does    *)
(* not send anything.                                                      *)
Call(c) ==
    /\ client[c].pc = "idle"
    /\ MapThenSumSet(LAMBDA d : client[d].calls, Conns) < MaxCalls
    /\ \E length \in Lengths :
          client' = [client EXCEPT
                       ![c].calls = @ + 1, ![c].length = length, ![c].sent = 0,
                       ![c].answer = None,
                       ![c].pc = IF client[c].failed THEN "idle" ELSE "sending"]
    /\ UNCHANGED <<up, down, socketVars, loop, poolVars, history>>

(* One send() of sync(), and the arrival of what it took; what is sent to  *)
(* a closed connection is lost or refused.                                 *)
Send(c) ==
    /\ client[c].pc = "sending"
    /\ \/ \E n \in (client[c].sent + 1) .. (client[c].length + 1) :
             /\ up' = IF Shut(c) THEN up
                      ELSE [up EXCEPT ![c] =
                              @ \o SubSeq(RequestUnits(Request(c)), client[c].sent + 1, n)]
             /\ client' = [client EXCEPT ![c].sent = n,
                             ![c].pc = IF n = client[c].length + 1 THEN "waiting" ELSE "sending"]
       \/ Shut(c) /\ CallFails(c) /\ UNCHANGED up
    /\ UNCHANGED <<down, socketVars, loop, poolVars, history>>

(* The two units of one response. *)
Whole(u, v) == u # Junk /\ v # Junk /\ u.unit = 1 /\ v.unit = 2 /\ u.rsp = v.rsp

(* Length, contents, parse: the units of one response are understood, and  *)
(* its code becomes the status.  Of anything else the length is any        *)
(* number: the contents do not parse, which is an error, or they are still *)
(* being read, and what was read of them is left as junk.                  *)
Receive(c) ==
    /\ client[c].pc = "waiting" /\ Len(down[c]) >= 2
    /\ LET whole == Whole(down[c][1], down[c][2])
           rest == SubSeq(down[c], 3, Len(down[c]))
       IN  \/ /\ client' = [client EXCEPT ![c].pc = "idle",
                               ![c].answer = IF whole THEN down[c][1].rsp ELSE None]
             /\ down' = [down EXCEPT ![c] = rest]
          \/ /\ ~whole /\ down' = [down EXCEPT ![c] = <<Junk>> \o rest]
             /\ UNCHANGED client
    /\ UNCHANGED <<up, socketVars, loop, poolVars, history>>

(* recv() meets the end of the stream. *)
ReceiveEof(c) ==
    /\ client[c].pc = "waiting" /\ Len(down[c]) < 2 /\ Shut(c)
    /\ CallFails(c)
    /\ UNCHANGED <<up, down, socketVars, loop, poolVars, history>>

(* The client's process ends, or it closes the connection. *)
Leave(c) ==
    /\ client[c].pc \in {"idle", "sending", "waiting"}
    /\ MayGo
    /\ client' = [client EXCEPT ![c].pc = "gone", ![c].length = None, ![c].sent = 0,
                                ![c].answer = None]
    /\ down' = [down EXCEPT ![c] = <<>>]
    /\ UNCHANGED <<up, socketVars, loop, poolVars, history>>

-----------------------------------------------------------------------------
(* AcceptFdCb for the oldest connection; accept() gave it the lowest free  *)
(* number.  The lengths are reset, receive_buf_offset and the output       *)
(* buffer are not.                                                         *)
AcceptFdCb(c) ==
    /\ loop.at = "idle" /\ c \in backlog /\ \A d \in backlog : c <= d
    /\ \E f \in Fds :
          /\ conn[f] = None /\ \A g \in Fds : g < f => conn[g] # None
          /\ conn' = [conn EXCEPT ![f] = c]
          /\ sock' = [sock EXCEPT ![f].length = 0, ![f].unread = 0]
          /\ watched' = watched \cup {f}
    /\ backlog' = backlog \ {c}
    /\ UNCHANGED <<clientVars, out, loop, poolVars, history>>

(* Requests that came in on descriptor f and are still in the server. *)
InServer(f) ==
    \/ \E i \in DOMAIN tasks : tasks[i].fd = f
    \/ \E w \in Workers : running[w] # None /\ running[w].fd = f
    \/ \E i \in DOMAIN responses : responses[i].fd = f

(* Mutant: a socket with a request in the server is left open, and nobody  *)
(* closes it afterwards.                                                   *)
StopWatcherOnly(f) ==
    /\ watched' = watched \ {f}
    /\ conn' = IF InServer(f) THEN conn ELSE [conn EXCEPT ![f] = None]
    /\ up' = [up EXCEPT ![conn[f]] = <<>>]
    /\ UNCHANGED orphaned

(* StopWatcherAndCloseSocket: task_count is never incremented, so the      *)
(* descriptor is always closed.                                            *)
StopWatcherAndCloseSocket(f) ==
    /\ watched' = watched \ {f}
    /\ conn' = [conn EXCEPT ![f] = None]
    /\ up' = [up EXCEPT ![conn[f]] = <<>>]
    /\ orphaned' = IF InServer(f) THEN orphaned \cup {f} ELSE orphaned

(* ReadCb is called for descriptor f. *)
Readable(f) ==
    /\ loop.at = "idle" /\ f \in watched
    /\ up[conn[f]] # <<>> \/ client[conn[f]].pc = "gone"

(* End of stream where a header should start. *)
ReadEof(f) ==
    /\ Readable(f) /\ sock[f].length = 0 /\ up[conn[f]] = <<>>
    /\ StopWatcherAndCloseSocket(f)
    /\ UNCHANGED <<client, down, backlog, sock, out, loop, poolVars, crashed, split, spoilt>>

ReadsHeader(f) == Readable(f) /\ sock[f].length = 0 /\ up[conn[f]] # <<>>

(* What the next four bytes are taken for: the length of the packet that   *)
(* they head or, where a part of a header was read before, of any other.   *)
HeaderLengths(f) ==
    IF ~ReadsHeader(f) THEN {}
    ELSE LET u == Head(up[conn[f]]) IN
         IF u.unit = 0 THEN {u.req.length} ELSE (0 .. (Limit + 1)) \ {u.req.length}

(* Above the limit, and above the size of the buffer, which is not larger. *)
Refused(length) == length > Limit

(* A length above the limit is a protocol error. *)
ReadOversize(f) ==
    /\ \E length \in HeaderLengths(f) : Refused(length)
    /\ StopWatcherAndCloseSocket(f)
    /\ UNCHANGED <<client, down, backlog, sock, out, loop, poolVars, crashed, split, spoilt>>

(* A packet of the given length begins.  For one that is longer than the   *)
(* buffer there is a new buffer, of the power of two that is not above it. *)
AfterHeader(s, length) ==
    IF length > s.size
    THEN [s EXCEPT !.length = length, !.unread = length,
                   !.size = RoundDownPowOfTwo(length), !.offset = 0]
    ELSE [s EXCEPT !.length = length, !.unread = length]

(* Less than four bytes of the header have arrived: they are taken for the *)
(* number that has them as its first digits, and the rest for the packet   *)
(* or the next header.  The packet is refused or, with length 0, ended by  *)
(* a stale errno; or nothing of it has arrived.                            *)
ReadHeaderPart(f) ==
    /\ ReadsHeader(f) /\ conn[f] \in ShortReads
    /\ Len(up[conn[f]]) = 1 /\ Head(up[conn[f]]).unit = 0
    /\ LET r == Head(up[conn[f]]).req IN
       \E length \in 0 .. r.length :
          \/ /\ ~Refused(length)
             /\ sock' = [sock EXCEPT ![f] = AfterHeader(@, length)]
             /\ up' = [up EXCEPT ![conn[f]] = <<HeaderRest(r)>>]
             /\ split' = split \cup {f}
             /\ UNCHANGED <<conn, watched, orphaned>>
          \/ /\ Refused(length) \/ length = 0
             /\ StopWatcherAndCloseSocket(f)
             /\ UNCHANGED <<sock, split>>
    /\ UNCHANGED <<client, down, backlog, out, loop, poolVars, crashed, spoilt>>

(* The states of the socket in which ReadCb may reach the read of the      *)
(* body, and the units that have arrived of it.                            *)
AtBody(f) ==
    IF Readable(f) /\ sock[f].length # 0 THEN {sock[f]}
    ELSE {AfterHeader(sock[f], length) :
             length \in {l \in HeaderLengths(f) : ~Refused(l)}}
BodyUnits(f) == IF sock[f].length # 0 THEN up[conn[f]] ELSE Tail(up[conn[f]])
Got(f, s) == IF Len(BodyUnits(f)) < s.unread THEN Len(BodyUnits(f)) ELSE s.unread

Consumed(f, s) ==
    up' = [up EXCEPT ![conn[f]] = SubSeq(BodyUnits(f), Got(f, s) + 1, Len(BodyUnits(f)))]

(* Nothing is there, and errno says EAGAIN; at the end of the stream, and  *)
(* for a length of 0, it is left over from an earlier call and may say so  *)
(* too, time and again.                                                    *)
ReadNothing(f, s) ==
    /\ s \in AtBody(f) /\ Got(f, s) = 0
    /\ sock' = [sock EXCEPT ![f] = s]
    /\ Consumed(f, s)
    /\ UNCHANGED <<client, down, backlog, conn, out, watched, loop, poolVars, history>>

(* read() returned 0, and errno says something else. *)
ReadError(f, s) ==
    /\ s \in AtBody(f) /\ Got(f, s) = 0
    /\ client[conn[f]].pc = "gone" \/ s.unread = 0
    /\ sock' = [sock EXCEPT ![f] = s]
    /\ StopWatcherAndCloseSocket(f)
    /\ UNCHANGED <<client, down, backlog, out, loop, poolVars, crashed, split, spoilt>>

(* The socket after the units that were got are stored at the offset. *)
Stored(f, s) ==
    [s EXCEPT !.buf = [i \in DOMAIN s.buf |->
                         IF i \in (s.offset + 1) .. (s.offset + Got(f, s))
                         THEN BodyUnits(f)[i - s.offset] ELSE s.buf[i]]]

(* What is stored past the end of the buffer lands in memory that nobody   *)
(* uses, or does damage, after which anything may happen.                  *)
Overrun(f, s) ==
    /\ crashed' \in BOOLEAN
    /\ crashed' => s.offset + Got(f, s) > s.size

(* Part of a packet: the offset and the rest are counted from this read    *)
(* alone, as if it had been the first.                                     *)
ReadPart(f, s) ==
    /\ s \in AtBody(f) /\ Got(f, s) \in 1 .. (s.length - 1)
    /\ sock' = [sock EXCEPT ![f] = [Stored(f, s) EXCEPT !.offset = Got(f, s),
                                                        !.unread = s.length - Got(f, s)]]
    /\ Consumed(f, s) /\ Overrun(f, s)
    /\ split' = split \cup {f}
    /\ UNCHANGED <<client, down, backlog, conn, out, watched, loop, poolVars,
                   orphaned, spoilt>>

(* A whole packet in one read: on to getTaskObjectAndSeq. *)
ReadWhole(f, s) ==
    /\ s \in AtBody(f) /\ Got(f, s) = s.length /\ s.length # 0
    /\ sock' = [sock EXCEPT ![f] = Stored(f, s)]
    /\ Consumed(f, s) /\ Overrun(f, s)
    /\ loop' = [at |-> "submit", fd |-> f]
    /\ UNCHANGED <<client, down, backlog, conn, out, watched, poolVars,
                   split, orphaned, spoilt>>

(* The tickets whose slots are in use; the next ticket needs the slot of   *)
(* the one TaskSlots before it.                                            *)
Undone ==
    {tasks[i].ticket : i \in DOMAIN tasks} \cup
    {running[w].ticket : w \in {v \in Workers : running[v] # None}}
HasTaskSlot == (ticket + 1 - TaskSlots) \notin Undone

(* What the buffer holds is not looked at again after this. *)
ResetReceiveBufState(s) ==
    [s EXCEPT !.length = 0, !.unread = 0, !.offset = 0, !.buf = EmptyBuffer]

Publish(f, r) ==
    /\ tasks' = Append(tasks, [ticket |-> ticket + 1, fd |-> f, req |-> r])
    /\ ticket' = ticket + 1

(* What ParseFromArray finds in the buffer: the request whose units it     *)
(* holds, or a mixture.                                                    *)
Mixture == [conn |-> None, call |-> 0, length |-> 0]
Parsed(s) ==
    IF /\ s.buf[1] # Junk /\ s.buf[1].req.length = s.length
       /\ \A i \in 1 .. s.length : s.buf[i] = [req |-> s.buf[1].req, unit |-> i]
    THEN s.buf[1].req ELSE Mixture

(* Mutant: the offset is not reset after a request. *)
SubmitKeepsOffset ==
    LET f == loop.fd IN
    /\ loop.at = "submit" /\ HasTaskSlot
    /\ Publish(f, Parsed(sock[f]))
    /\ sock' = [sock EXCEPT ![f] = [@ EXCEPT !.length = 0, !.unread = 0, !.offset = 1]]
    /\ loop' = [at |-> "idle", fd |-> -1]
    /\ UNCHANGED <<clientVars, backlog, conn, out, watched, running, responses, history>>

(* The task is filled in and published; a mixture may happen to parse. *)
Submit ==
    LET f == loop.fd IN
    /\ loop.at = "submit" /\ HasTaskSlot
    /\ Publish(f, Parsed(sock[f]))
    /\ sock' = [sock EXCEPT ![f] = ResetReceiveBufState(@)]
    /\ loop' = [at |-> "idle", fd |-> -1]
    /\ UNCHANGED <<clientVars, backlog, conn, out, watched, running, responses, history>>

(* It does not parse: an empty task is published, the socket is closed. *)
SubmitUnparsed ==
    LET f == loop.fd IN
    /\ loop.at = "submit" /\ HasTaskSlot /\ Parsed(sock[f]) = Mixture
    /\ Publish(-1, Mixture)
    /\ StopWatcherAndCloseSocket(f)
    /\ sock' = [sock EXCEPT ![f] = ResetReceiveBufState(@)]
    /\ loop' = [at |-> "idle", fd |-> -1]
    /\ UNCHANGED <<client, down, backlog, out, running, responses, crashed, split, spoilt>>

-----------------------------------------------------------------------------
(* The workers: Task::operator().                                          *)

Take(w) ==
    /\ running[w] = None /\ tasks # <<>>
    /\ running' = [running EXCEPT ![w] = Head(tasks)]
    /\ tasks' = Tail(tasks)
    /\ UNCHANGED <<clientVars, socketVars, loop, ticket, responses, history>>

(* The call: the method is looked up and its parameters are parsed, which  *)
(* may fail, and the handler returns any status.                           *)
CallResults == {"OK", "ERROR"}

(* Mutant: a call that fails is not answered. *)
RunSilent(w) ==
    /\ running[w] # None
    /\ \/ UNCHANGED responses
       \/ /\ running[w].fd # -1 /\ Len(responses) < ResponseSlots
          /\ responses' = Append(responses, [fd |-> running[w].fd,
                                             rsp |-> Response(running[w].req, "OK")])
    /\ running' = [running EXCEPT ![w] = None]
    /\ UNCHANGED <<clientVars, socketVars, loop, ticket, tasks, history>>

(* The call, a response slot (waiting for one if need be), the response    *)
(* published; then the task's slot is handed back.                         *)
Run(w) ==
    /\ running[w] # None
    /\ \/ running[w].fd = -1 /\ UNCHANGED responses
       \/ /\ running[w].fd # -1 /\ Len(responses) < ResponseSlots
          /\ \E code \in CallResults :
                responses' = Append(responses, [fd |-> running[w].fd,
                                                rsp |-> Response(running[w].req, code)])
    /\ running' = [running EXCEPT ![w] = None]
    /\ UNCHANGED <<clientVars, socketVars, loop, ticket, tasks, history>>

-----------------------------------------------------------------------------
(* ResponseCb: one turn of its loop per response, until there is none.     *)

Responding == loop.at \in {"idle", "respond"} /\ responses # <<>>
Contents(f) == out[f] \o ResponseUnits(Head(responses).rsp)

(* Mutant: what was written is not consumed. *)
RespondUnconsumed ==
    LET f == Head(responses).fd IN
    /\ Responding /\ conn[f] # None
    /\ out' = [out EXCEPT ![f] = Contents(f)]
    /\ down' = IF client[conn[f]].pc = "gone" THEN down
               ELSE [down EXCEPT ![conn[f]] = @ \o Contents(f)]
    /\ responses' = Tail(responses)
    /\ loop' = [at |-> "respond", fd |-> -1]
    /\ UNCHANGED <<client, up, backlog, conn, sock, watched, ticket, tasks, running, history>>

(* write() takes the first n units, the rest stays in the buffer. *)
RespondWritten ==
    LET f == Head(responses).fd IN
    /\ Responding /\ conn[f] # None
    /\ \E n \in 1 .. Len(Contents(f)) :
          /\ conn[f] \in ShortWrites \/ n = Len(Contents(f))
          /\ out' = [out EXCEPT ![f] = SubSeq(Contents(f), n + 1, Len(Contents(f)))]
          /\ down' = IF client[conn[f]].pc = "gone" THEN down
                     ELSE [down EXCEPT ![conn[f]] = @ \o SubSeq(Contents(f), 1, n)]
          /\ spoilt' = IF n < Len(Contents(f)) THEN spoilt \cup {f} ELSE spoilt
    /\ responses' = Tail(responses)
    /\ loop' = [at |-> "respond", fd |-> -1]
    /\ UNCHANGED <<client, up, backlog, conn, sock, watched, ticket, tasks, running,
                   crashed, split, orphaned>>

(* write() returns -1, on a closed descriptor, because the peer is gone or *)
(* because the socket is full, and Consume(2^32 - 1) steps back by one     *)
(* unit or, in an empty buffer, past its end: what is then copied is read  *)
(* from anywhere, or nowhere.                                              *)
RespondFailed ==
    LET f == Head(responses).fd IN
    /\ Responding
    /\ conn[f] # None => client[conn[f]].pc = "gone" \/ conn[f] \in ShortWrites
    /\ out' = [out EXCEPT ![f] = <<Junk>>]
    /\ crashed' \in {FALSE, out[f] = <<>>}
    /\ spoilt' = spoilt \cup {f}
    /\ responses' = Tail(responses)
    /\ loop' = [at |-> "respond", fd |-> -1]
    /\ UNCHANGED <<clientVars, backlog, conn, sock, watched, ticket, tasks, running,
                   split, orphaned>>

RespondEnd ==
    /\ loop.at = "respond" /\ responses = <<>>
    /\ loop' = [at |-> "idle", fd |-> -1]
    /\ UNCHANGED <<clientVars, socketVars, poolVars, history>>

-----------------------------------------------------------------------------
ClientStep(c) == Send(c) \/ Receive(c) \/ ReceiveEof(c)
Reads(f) ==
    \/ ReadEof(f) \/ ReadOversize(f)
    \/ \E s \in AtBody(f) : ReadNothing(f, s) \/ ReadPart(f, s) \/ ReadWhole(f, s)
ReadCb(f) == Reads(f) \/ ReadHeaderPart(f) \/ \E s \in AtBody(f) : ReadError(f, s)
ResponseCb == RespondWritten \/ RespondFailed \/ RespondEnd
LoopStep ==
    \/ \E c \in Conns : AcceptFdCb(c)
    \/ \E f \in Fds : ReadCb(f)
    \/ Submit \/ SubmitUnparsed \/ ResponseCb
WorkerStep(w) == Take(w) \/ Run(w)

Next ==
    /\ ~crashed
    /\ \/ \E c \in Conns : Connect(c) \/ ConnectFails(c) \/ Call(c) \/ ClientStep(c) \/ Leave(c)
       \/ LoopStep
       \/ \E w \in Workers : WorkerStep(w)

Spec == Init /\ [][Next]_vars

(* Threads are scheduled; a client sends what it began to send and reads   *)
(* what it waits for; an iteration of the loop serves every ready source.  *)
(* No client has to connect, to call or to leave, and nothing says that a  *)
(* stale errno changes: ReadError is not fair.                             *)
Fairness ==
    /\ \A c \in Conns : WF_vars(~crashed /\ ClientStep(c)) /\ WF_vars(~crashed /\ AcceptFdCb(c))
    /\ \A f \in Fds : WF_vars(~crashed /\ Reads(f))
    /\ WF_vars(~crashed /\ (Submit \/ SubmitUnparsed)) /\ WF_vars(~crashed /\ ResponseCb)
    /\ \A w \in Workers : WF_vars(~crashed /\ WorkerStep(w))

FairSpec == Spec /\ Fairness

-----------------------------------------------------------------------------
InPool ==
    {tasks[i] : i \in DOMAIN tasks} \cup
    {running[w] : w \in {v \in Workers : running[v] # None}}

(* What the workers run is what was sent: a task holds a request whole, as *)
(* its client sent it, once, and its client waits for it or has left, or   *)
(* was given the answer to somebody else's request, or the rest of an      *)
(* earlier answer (see AnswersOwn).  Descriptors on which a header or a    *)
(* body once arrived in parts are excepted, for the next packet or the     *)
(* next connection on them finds the offset moved; and it is said up to    *)
(* the first damage done past the end of a buffer (see Overrun).           *)
RequestOnce ==
    \A t \in InPool : t.fd # -1 /\ t.fd \notin split =>
        /\ t.req # Mixture
        /\ \/ client[t.req.conn].pc = "gone" \/ t.fd \in orphaned \cup spoilt
           \/ client[t.req.conn].pc = "waiting" /\ client[t.req.conn].calls = t.req.call
        /\ \A u \in InPool : u.req = t.req => u = t

(* A client is sent the answers to its own calls, each once, and gets no   *)
(* answer of another connection that had the same descriptor before it,    *)
(* unless that one was closed with a request in the server, a header or a  *)
(* body arrived in parts, or a write() was short or failed.                *)
AnswersOwn ==
    \A f \in Fds \ (split \cup orphaned \cup spoilt) : conn[f] # None =>
        LET c == conn[f]
            own == {Response(Request(c), code) : code \in CallResults}
        IN  /\ client[c].answer \in own \cup {None}
            /\ down[c] \in {ResponseUnits(r) : r \in own} \cup {<<>>}
            /\ down[c] # <<>> => client[c].pc = "waiting"

(* Everyone waits: the loop for a task slot, the workers for a response    *)
(* slot, that only the loop can free.                                      *)
Gridlock ==
    /\ loop.at = "submit" /\ ~HasTaskSlot
    /\ Len(responses) = ResponseSlots
    /\ \A w \in Workers : running[w] # None

(* A call on an accepted connection returns, also when the server closes   *)
(* the connection; unless a header or a body arrived in parts, a write()   *)
(* was short or failed, the server died of a write past a buffer, or it is *)
(* gridlocked.  (Calls are bounded: in the end none is waiting.)           *)
CallReturns ==
    <>[](\/ \A c \in Conns : client[c].pc = "waiting" => c \in backlog
         \/ crashed \/ split # {} \/ spoilt # {} \/ Gridlock)

(* The descriptor of a client that left is closed, also with its requests  *)
(* in the server and with only parts of packets read; unless it left in    *)
(* the middle of a request, where a stale errno decides.                   *)
LeaverClosed ==
    <>[](\/ \A f \in Fds : conn[f] # None /\ client[conn[f]].pc = "gone" => sock[f].length # 0
         \/ crashed \/ Gridlock)

-----------------------------------------------------------------------------
(* What RequestOnce and AnswersOwn rest on, step by step. *)

Requests == [conn : Conns, call : Nat, length : Lengths]
Answers == [conn : Conns \cup {None}, call : Nat, code : CallResults]
UpUnits == [req : Requests, unit : Nat]
DownUnits == [rsp : Answers, unit : 1 .. 2] \cup {Junk}
Tasks == [ticket : Nat, fd : Fds \cup {-1}, req : Requests \cup {Mixture}]
Clients == [pc : {"new", "idle", "sending", "waiting", "gone"}, calls : Nat,
            length : Lengths \cup {None}, sent : Nat,
            failed : BOOLEAN, answer : Answers \cup {None}]
Sizes == {InitSize} \cup {RoundDownPowOfTwo(length) : length \in 0 .. Limit}
SocketStates == [length : 0 .. Limit, unread : 0 .. Limit, offset : 0 .. Limit,
                 size : Sizes, buf : [1 .. (2 * Limit) -> UpUnits \cup {Junk}]]

(* The types of the variables, as the declarations of the code have them:  *)
(* a length is that of a packet that is not refused, or 0, and the offset  *)
(* stays below it.                                                         *)
TypeOK ==
    /\ client \in [Conns -> Clients]
    /\ up \in [Conns -> Seq(UpUnits)] /\ down \in [Conns -> Seq(DownUnits)]
    /\ backlog \subseteq Conns /\ conn \in [Fds -> Conns \cup {None}]
    /\ sock \in [Fds -> SocketStates]
    /\ out \in [Fds -> Seq(DownUnits)] /\ watched \subseteq Fds
    /\ loop \in [at : {"idle", "submit", "respond"}, fd : Fds \cup {-1}]
    /\ ticket \in Nat /\ tasks \in Seq(Tasks) /\ running \in [Workers -> Tasks \cup {None}]
    /\ responses \in Seq([fd : Fds, rsp : Answers])
    /\ crashed \in BOOLEAN
    /\ split \subseteq Fds /\ orphaned \subseteq Fds /\ spoilt \subseteq Fds

(* Open descriptors are the watched ones; nothing is under way on a        *)
(* connection that is not open; what is being sent is a request, and not   *)
(* all of it is sent.                                                      *)
SocketsOpen ==
    /\ watched = {f \in Fds : conn[f] # None}
    /\ loop.at = "submit" => loop.fd \in watched
    /\ \A c \in Conns : client[c].pc = "new" =>
          Shut(c) /\ client[c].answer = None /\ down[c] = <<>>
    /\ \A c \in Conns : Shut(c) => up[c] = <<>>
    /\ \A c \in Conns : client[c].pc = "sending" =>
          client[c].length \in Lengths /\ client[c].sent <= client[c].length

(* Descriptor f shows traces of connection c: it is, or was, c's. *)
Trace(f, c) ==
    \/ conn[f] = c
    \/ \E i \in DOMAIN sock[f].buf :
          sock[f].buf[i] # Junk /\ sock[f].buf[i].req.conn = c
    \/ \E t \in InPool : t.fd = f /\ t.req.conn = c

(* A connection has one descriptor in its life. *)
OneDescriptor ==
    \A c \in Conns :
        /\ client[c].pc = "new" \/ c \in backlog => \A f \in Fds : ~Trace(f, c)
        /\ \A f, g \in Fds : Trace(f, c) /\ Trace(g, c) => f = g
        /\ \A i \in DOMAIN up[c] : up[c][i].req.conn = c

(* Every task in the pool has a slot of its own. *)
TicketsApart ==
    /\ \A t \in InPool : t.ticket <= ticket
    /\ \A i, j \in DOMAIN tasks : tasks[i].ticket = tasks[j].ticket => i = j
    /\ \A v, w \in Workers :
          /\ running[v] # None /\ running[w] # None
          /\ running[v].ticket = running[w].ticket
          => v = w
    /\ \A i \in DOMAIN tasks, w \in Workers :
          running[w] # None => running[w].ticket # tasks[i].ticket

(* q is part of a stream of whole requests, one behind the other. *)
Orderly(q) ==
    /\ \A i \in DOMAIN q : q[i].unit <= q[i].req.length
    /\ \A i, j \in DOMAIN q : i <= j =>
          IF j - i <= q[i].req.length - q[i].unit
          THEN q[j].req = q[i].req /\ q[j].unit = q[i].unit + (j - i)
          ELSE /\ q[i].req.call < q[j].req.call
               /\ j - i = q[i].req.length - q[i].unit + 1 => q[j].unit = 0

(* The stream to the server starts with a header if l is 0, otherwise with *)
(* the body of a packet of length l, and ends where the client stopped     *)
(* sending.                                                                *)
Ends(c, l) ==
    /\ \A i \in DOMAIN up[c] : up[c][i].req.call <= client[c].calls
    /\ up[c] # <<>> =>
          IF l = 0 THEN up[c][1].unit = 0
          ELSE up[c][1].unit = 1 /\ up[c][1].req.length = l
    /\ up[c] = <<>> =>
          /\ client[c].pc = "sending" =>
                IF l = 0 THEN client[c].sent = 0
                ELSE client[c].sent = 1 /\ client[c].length = l
          /\ client[c].pc \in {"idle", "waiting"} => l = 0
    /\ up[c] # <<>> =>
          LET last == up[c][Len(up[c])] IN
          /\ client[c].pc \in {"idle", "waiting"} => last.unit = last.req.length
          /\ client[c].pc = "sending" =>
                IF client[c].sent = 0
                THEN last.unit = last.req.length /\ last.req.call < client[c].calls
                ELSE last = [req |-> Request(c), unit |-> client[c].sent - 1]

Submitting(f) == loop.at = "submit" /\ loop.fd = f

(* What ReadCb expects next: a header, or a body of the length read. *)
Expected(f) == IF Submitting(f) THEN 0 ELSE sock[f].length

(* What is on its way to the server is a stream of requests, cut where     *)
(* ReadCb has got to.                                                      *)
Streams ==
    /\ \A c \in backlog : Orderly(up[c]) /\ Ends(c, 0)
    /\ \A f \in watched \ split : Orderly(up[conn[f]]) /\ Ends(conn[f], Expected(f))

(* Where no body arrived in parts, a packet is read from the start; the    *)
(* one to be submitted is whole, and later than those submitted before and *)
(* earlier than those on their way.                                        *)
WholeInBuffer ==
    /\ \A f \in Fds \ split :
          sock[f].offset = 0 /\ sock[f].unread = sock[f].length
    /\ \A f \in Fds \ split : Submitting(f) =>
          LET c == conn[f]
              r == sock[f].buf[1].req
          IN  /\ sock[f].buf[1] # Junk /\ r.conn = c /\ r.length = sock[f].length
              /\ \A k \in 1 .. sock[f].length : sock[f].buf[k] = [req |-> r, unit |-> k]
              /\ r.call <= client[c].calls
              /\ client[c].pc = "sending" => r.call < client[c].calls
              /\ \A i \in DOMAIN up[c] : r.call < up[c][i].req.call
              /\ \A t \in InPool : t.fd = f /\ t.req.conn = c => t.req.call < r.call

(* A task holds a request that was sent before what is on its way, once. *)
TasksWhole ==
    \A t \in InPool :
        /\ t.fd = -1 => t.req = Mixture
        /\ t.fd # -1 /\ t.fd \notin split =>
              /\ t.req # Mixture
              /\ \A u \in InPool : u.req = t.req => u = t
              /\ t.req.call <= client[t.req.conn].calls
              /\ client[t.req.conn].pc = "sending" => t.req.call < client[t.req.conn].calls
              /\ \A i \in DOMAIN up[t.req.conn] : t.req.call < up[t.req.conn][i].req.call

(* Nothing but the client's last request is on its way to the server. *)
LastOnly(c) ==
    client[c].pc # "gone" =>
        /\ client[c].pc = "idle" => up[c] = <<>>
        /\ \A i \in DOMAIN up[c] : up[c][i].req.call = client[c].calls

Sound == Fds \ (split \cup orphaned \cup spoilt)

Own(c) == {Response(Request(c), code) : code \in CallResults}

Tasked(f) == \E t \in InPool : t.fd = f
Answered(f) == \E i \in DOMAIN responses : responses[i].fd = f

(* On descriptor f, the last request of its client c is in one place only: *)
(* on its way, about to be submitted, in the pool, among the responses, or *)
(* on its way back.                                                        *)
OneCall(f, c) ==
    /\ LastOnly(c)
    /\ client[c].answer \in Own(c) \cup {None}
    /\ down[c] \in {ResponseUnits(r) : r \in Own(c)} \cup {<<>>}
    /\ Submitting(f) \/ Tasked(f) \/ Answered(f) \/ down[c] # <<>> =>
          client[c].pc = "waiting" /\ up[c] = <<>>
    /\ Submitting(f) => sock[f].buf[1].req.call = client[c].calls
    /\ Submitting(f) => ~Tasked(f) /\ ~Answered(f) /\ down[c] = <<>>
    /\ Tasked(f) => ~Answered(f) /\ down[c] = <<>>
    /\ Answered(f) => down[c] = <<>>
    /\ \A t, u \in InPool : t.fd = f /\ u.fd = f => t = u
    /\ \A t \in InPool : t.fd = f => t.req.call = client[c].calls
    /\ \A i, j \in DOMAIN responses : responses[i].fd = f /\ responses[j].fd = f => i = j
    /\ \A i \in DOMAIN responses : responses[i].fd = f => responses[i].rsp \in Own(c)

(* Where nothing of the kind that AnswersOwn excepts has happened, a       *)
(* client's calls are served one by one.                                   *)
Served ==
    /\ \A f \in Fds \ spoilt : out[f] = <<>>
    /\ \A c \in backlog : down[c] = <<>> /\ client[c].answer = None /\ LastOnly(c)
    /\ \A f \in Sound :
          /\ conn[f] = None => ~InServer(f)
          /\ \A t \in InPool : t.fd = f => t.req.conn = conn[f]
          /\ conn[f] # None => client[conn[f]].pc = "gone" \/ OneCall(f, conn[f])
          /\ conn[f] # None /\ client[conn[f]].pc = "gone" =>
                client[conn[f]].answer = None /\ down[conn[f]] = <<>>

IndInv ==
    /\ TypeOK /\ SocketsOpen /\ OneDescriptor /\ TicketsApart
    /\ Streams /\ WholeInBuffer /\ TasksWhole /\ Served
=============================================================================
