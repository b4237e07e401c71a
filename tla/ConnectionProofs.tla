-------------------------- MODULE ConnectionProofs --------------------------
(***************************************************************************)
(* Remote calls end to end: the workers run what the clients sent, each    *)
(* request whole and once, and a client is sent the answers to its own     *)
(* calls, for any number of connections, descriptors and workers, any      *)
(* sizes of the rings and any lengths of the requests.                     *)
(***************************************************************************)
EXTENDS Connection, SequenceTheorems, TLAPS

(* A body has at least one unit. *)
LEMMA BodyAssumption ==
    /\ Limit \in Nat /\ Limit >= 1
    /\ \A l \in Lengths : l \in Nat /\ l >= 1
  BY ConnectionAssumption

(* No connection is None, no descriptor is None or -1, no unit is Junk. *)
LEMMA Distinct ==
    /\ None \notin Conns /\ None \notin Fds /\ -1 \notin Fds
    /\ Junk \notin UpUnits
<1>1. UpUnits \subseteq [req : [conn : Nat, call : Nat, length : Nat], unit : Nat]
  BY BodyAssumption DEF UpUnits, Requests, Conns
<1>2. Conns \subseteq Nat /\ Fds \subseteq Nat /\ -1 \notin Nat
  BY ConnectionAssumption DEF Conns
<1>3. None \notin Conns /\ None \notin Fds /\ -1 \notin Fds
  BY <1>2, NoneAssumption
<1> QED
  BY <1>1, <1>3, JunkAssumption

(* The pool holds what it held before if nobody takes, runs or submits. *)
LEMMA SamePool ==
    ASSUME UNCHANGED <<tasks, running>>
    PROVE  InPool' = InPool
  BY DEF InPool

(* What is in the buffers stays whole if nobody reads, submits or sends. *)
LEMMA SameBuffers ==
    ASSUME WholeInBuffer, InPool' \subseteq InPool, UNCHANGED <<up, conn, sock, split>>,
           \A f \in Fds : Submitting(f)' =>
               Submitting(f) /\ client'[conn[f]] = client[conn[f]]
    PROVE  WholeInBuffer'
<1>1. \A f \in Fds \ split : sock[f].offset = 0 /\ sock[f].unread = sock[f].length
  BY DEF WholeInBuffer
<1>2. ASSUME NEW f \in Fds \ split, Submitting(f)'
      PROVE  LET c == conn[f]
                 r == sock[f].buf[1].req
             IN  /\ sock[f].buf[1] # Junk /\ r.conn = c /\ r.length = sock[f].length
                 /\ \A k \in 1 .. sock[f].length : sock[f].buf[k] = [req |-> r, unit |-> k]
                 /\ r.call <= client'[c].calls
                 /\ client'[c].pc = "sending" => r.call < client'[c].calls
                 /\ \A i \in DOMAIN up[c] : r.call < up[c][i].req.call
                 /\ \A t \in InPool : t.fd = f /\ t.req.conn = c => t.req.call < r.call
  <2>1. Submitting(f) /\ client'[conn[f]] = client[conn[f]]
    BY <1>2
  <2> QED
    BY <2>1 DEF WholeInBuffer
<1>3. up' = up /\ conn' = conn /\ sock' = sock /\ split' = split
  OBVIOUS
<1>4. \A f \in Fds \ split' : sock'[f].offset = 0 /\ sock'[f].unread = sock'[f].length
  BY <1>1, <1>3
<1> QED
  BY <1>2, <1>3, <1>4 DEF WholeInBuffer

(* Everything in the pool is a task. *)
LEMMA PoolTasks == ASSUME TypeOK PROVE InPool \subseteq Tasks
<1>1. \A i \in DOMAIN tasks : tasks[i] \in Tasks
  BY DEF TypeOK
<1>2. \A w \in Workers : running[w] # None => running[w] \in Tasks
  BY DEF TypeOK
<1> QED
  BY <1>1, <1>2 DEF InPool

(* The units on their way to the server. *)
LEMMA UpTyped ==
    ASSUME TypeOK, NEW c \in Conns
    PROVE  /\ up[c] \in Seq(UpUnits) /\ Len(up[c]) \in Nat
           /\ DOMAIN up[c] = 1 .. Len(up[c]) /\ (up[c] # <<>> => Len(up[c]) >= 1)
           /\ \A i \in DOMAIN up[c] :
                 /\ up[c][i] \in UpUnits /\ up[c][i].req \in Requests
                 /\ up[c][i].req.call \in Nat /\ up[c][i].req.conn \in Conns
                 /\ up[c][i].unit \in Nat
                 /\ up[c][i].req.length \in Nat /\ up[c][i].req.length >= 1
<1>1. up[c] \in Seq(UpUnits)
  BY DEF TypeOK
<1>2. /\ Len(up[c]) \in Nat /\ DOMAIN up[c] = 1 .. Len(up[c])
      /\ up[c] # <<>> => Len(up[c]) >= 1
  BY <1>1
<1>3. \A i \in DOMAIN up[c] : up[c][i] \in UpUnits
  BY <1>1
<1> QED
  BY <1>1, <1>2, <1>3, BodyAssumption DEF UpUnits, Requests

(* What a client sends is a piece of a request. *)
LEMMA RequestPiece ==
    ASSUME TypeOK, SocketsOpen, NEW c \in Conns, client[c].pc = "sending",
           NEW n \in (client[c].sent + 1) .. (client[c].length + 1)
    PROVE  LET p == SubSeq(RequestUnits(Request(c)), client[c].sent + 1, n)
           IN  /\ p \in Seq(UpUnits) /\ Len(p) = n - client[c].sent
               /\ \A i \in 1 .. (n - client[c].sent) :
                     p[i] = [req |-> Request(c), unit |-> client[c].sent + i - 1]
<1> DEFINE s == client[c].sent
           u == RequestUnits(Request(c))
<1>1. s \in Nat /\ s <= client[c].length /\ n \in Nat /\ s + 1 \in Int
  BY BodyAssumption DEF TypeOK, SocketsOpen, Clients
<1>2. Request(c) \in Requests
  BY DEF TypeOK, SocketsOpen, Request, Requests, Clients
<1>3. \A i \in (s + 1) .. n : u[i] = [req |-> Request(c), unit |-> i - 1]
  <2>1. Request(c).length = client[c].length /\ client[c].length \in Nat
    BY BodyAssumption DEF Request, SocketsOpen
  <2>2. n <= Request(c).length + 1
    BY <2>1
  <2> QED
    BY <1>1, <2>1, <2>2 DEF RequestUnits
<1> HIDE DEF s, u
<1>4. ASSUME NEW i \in (s + 1) .. n PROVE u[i] \in UpUnits
  <2>1. u[i] = [req |-> Request(c), unit |-> i - 1] /\ i - 1 \in Nat
    BY <1>1, <1>3, BodyAssumption
  <2> QED
    BY <1>2, <2>1 DEF UpUnits
<1>5. /\ SubSeq(u, s + 1, n) \in Seq(UpUnits)
      /\ Len(SubSeq(u, s + 1, n)) = n - s
      /\ \A i \in 1 .. (n - s) : SubSeq(u, s + 1, n)[i] = u[s + i]
  <2>1. n \in Int /\ s + 1 <= n
    BY <1>1 DEF s
  <2>2. /\ SubSeq(u, s + 1, n) \in Seq(UpUnits)
        /\ Len(SubSeq(u, s + 1, n)) = IF s + 1 <= n THEN n - (s + 1) + 1 ELSE 0
        /\ \A i \in 1 .. (n - (s + 1) + 1) : SubSeq(u, s + 1, n)[i] = u[(s + 1) + i - 1]
    BY <1>1, <1>4, <2>1, SubSeqProperties
  <2> QED
    BY <1>1, <2>1, <2>2
<1>6. \A i \in 1 .. (n - s) : SubSeq(u, s + 1, n)[i] = [req |-> Request(c), unit |-> s + i - 1]
  BY <1>1, <1>3, <1>5
<1> QED
  BY <1>5, <1>6 DEF s, u

(* The initial state. *)
LEMMA InitIndInv == Init => IndInv
<1> SUFFICES ASSUME Init PROVE IndInv
  OBVIOUS
<1>0. InPool = {}
  BY DEF Init, InPool
<1>1. TypeOK
  <2>1. EmptyBuffer \in [1 .. (2 * Limit) -> UpUnits \cup {Junk}]
    BY DEF EmptyBuffer
  <2>2. client \in [Conns -> Clients]
    BY BodyAssumption DEF Init, Clients
  <2>3. sock \in [Fds -> SocketStates]
    <3>1. InitSize \in Sizes /\ 0 \in 0 .. Limit
      BY BodyAssumption DEF Sizes
    <3>2. [length |-> 0, unread |-> 0, offset |-> 0, size |-> InitSize, buf |-> EmptyBuffer]
             \in SocketStates
      BY <2>1, <3>1 DEF SocketStates
    <3> QED
      BY <3>2 DEF Init
  <2>4. up \in [Conns -> Seq(UpUnits)] /\ down \in [Conns -> Seq(DownUnits)]
    BY DEF Init
  <2>5. out \in [Fds -> Seq(DownUnits)] /\ conn \in [Fds -> Conns \cup {None}]
    BY DEF Init
  <2>6. tasks \in Seq(Tasks) /\ responses \in Seq([fd : Fds, rsp : Answers])
    BY DEF Init
  <2> QED
    BY <2>2, <2>3, <2>4, <2>5, <2>6 DEF Init, TypeOK
<1>2. SocketsOpen
  BY Distinct DEF Init, SocketsOpen, Shut
<1>3. OneDescriptor
  <2>1. ASSUME NEW f \in Fds, NEW c \in Conns PROVE ~Trace(f, c)
    BY <1>0, Distinct DEF Init, Trace, EmptyBuffer
  <2> QED
    BY <2>1 DEF Init, OneDescriptor
<1>4. TicketsApart
  BY <1>0 DEF Init, TicketsApart
<1>5. Streams /\ WholeInBuffer
  BY DEF Init, Streams, WholeInBuffer, Submitting
<1>6. TasksWhole
  BY <1>0 DEF TasksWhole
<1>7. Served
  <2>1. ASSUME NEW f \in Fds PROVE ~InServer(f)
    BY DEF Init, InServer
  <2> QED
    BY <1>0, <2>1 DEF Init, Served, Sound
<1> QED
  BY <1>1, <1>2, <1>3, <1>4, <1>5, <1>6, <1>7 DEF IndInv

-----------------------------------------------------------------------------
(* What ReadCb expects is a number. *)
LEMMA ExpectedTyped == ASSUME TypeOK, NEW f \in Fds PROVE Expected(f) \in Nat
  BY BodyAssumption DEF TypeOK, SocketStates, Expected

(* What is said of a stream is about its units and its client only. *)
LEMMA SameStream ==
    ASSUME NEW d, up'[d] = up[d], client'[d] = client[d]
    PROVE  /\ Orderly(up[d])' = Orderly(up[d])
           /\ LastOnly(d)' = LastOnly(d)
           /\ \A h \in Nat : Ends(d, h)' = Ends(d, h)
<1>1. Orderly(up[d])' = Orderly(up[d])
  BY DEF Orderly
<1>2. LastOnly(d)' = LastOnly(d)
  BY DEF LastOnly
<1>3. Request(d)' = Request(d)
  BY DEF Request
<1>4. ASSUME NEW h \in Nat PROVE Ends(d, h)' = Ends(d, h)
  BY <1>3 DEF Ends
<1> QED
  BY <1>1, <1>2, <1>4

(* The account of a call is about its client, its descriptor and what the  *)
(* pool and the queue of responses hold.                                   *)
LEMMA SameCall ==
    ASSUME NEW d, NEW f, up'[d] = up[d], client'[d] = client[d], down'[d] = down[d],
           sock'[f] = sock[f], Submitting(f)' = Submitting(f), InPool' = InPool,
           responses' = responses
    PROVE  OneCall(f, d)' = OneCall(f, d)
<1>1. LastOnly(d)' = LastOnly(d)
  BY SameStream
<1>2. Own(d)' = Own(d)
  BY DEF Own, Request, Response
<1>3. Tasked(f)' = Tasked(f) /\ Answered(f)' = Answered(f)
  BY DEF Tasked, Answered
<1> QED
  BY <1>1, <1>2, <1>3 DEF OneCall

(* A step of one client leaves the server alone: what has to be shown is   *)
(* about this client only.                                                 *)
LEMMA ClientFrame ==
    ASSUME IndInv, TypeOK', NEW c \in Conns,
           \A d \in Conns : d # c =>
               client'[d] = client[d] /\ up'[d] = up[d] /\ down'[d] = down[d],
           UNCHANGED <<socketVars, loop, poolVars, history>>,
           client'[c].pc # "new",
           Shut(c) => up'[c] = <<>>,
           client'[c].pc = "sending" =>
               client'[c].length \in Lengths /\ client'[c].sent <= client'[c].length,
           \A i \in DOMAIN up'[c] : up'[c][i].req.conn = c,
           \A h \in Nat : ~Shut(c) /\ Orderly(up[c]) /\ Ends(c, h)
                             => Orderly(up[c])' /\ Ends(c, h)',
           client'[c].calls >= client[c].calls,
           client'[c].pc = "sending" =>
               client[c].pc = "sending" \/ client'[c].calls > client[c].calls,
           \A i \in DOMAIN up'[c] :
               \/ \E j \in DOMAIN up[c] : up'[c][i].req.call = up[c][j].req.call
               \/ client[c].pc = "sending" /\ up'[c][i].req.call = client[c].calls,
           c \in backlog => down'[c] = <<>> /\ client'[c].answer = None /\ LastOnly(c)',
           \A f \in Sound : conn[f] = c =>
               \/ client'[c].pc # "gone" /\ OneCall(f, c)'
               \/ client'[c].pc = "gone" /\ client'[c].answer = None /\ down'[c] = <<>>
    PROVE  IndInv'
<1> USE DEF IndInv
<1>0. InPool' = InPool
  BY SamePool DEF poolVars
<1>1. \A f \in Fds : InServer(f)' = InServer(f) /\ Submitting(f)' = Submitting(f)
                     /\ Expected(f)' = Expected(f)
  BY DEF poolVars, socketVars, InServer, Submitting, Expected
<1>2. \A d \in Conns : Shut(d)' = Shut(d)
  BY DEF Shut, socketVars
<1>3. \A f \in Fds, d \in Conns : Trace(f, d)' = Trace(f, d)
  BY <1>0 DEF Trace, socketVars
<1>4. SocketsOpen'
  BY <1>2 DEF SocketsOpen, socketVars
<1>5. OneDescriptor'
  BY <1>3 DEF OneDescriptor, socketVars
<1>6. TicketsApart'
  BY <1>0 DEF TicketsApart, poolVars
<1>7. \A d \in Conns : d # c => \A h \in Nat :
          Orderly(up[d])' = Orderly(up[d]) /\ Ends(d, h)' = Ends(d, h)
  BY SameStream
<1>8. Streams'
  <2>1. ASSUME NEW d \in backlog PROVE Orderly(up[d])' /\ Ends(d, 0)'
    BY <1>7, d \in Conns DEF TypeOK, Streams, Shut
  <2>2. ASSUME NEW f \in watched \ split
        PROVE  Orderly(up[conn[f]])' /\ Ends(conn[f], Expected(f))'
    <3>1. f \in Fds /\ conn[f] \in Conns /\ conn'[f] = conn[f] /\ ~Shut(conn[f])
      BY DEF TypeOK, SocketsOpen, Shut, socketVars
    <3>2. Expected(f) \in Nat /\ Expected(f)' = Expected(f)
      BY <1>1, <3>1, ExpectedTyped DEF Expected
    <3>3. Orderly(up[conn[f]]) /\ Ends(conn[f], Expected(f))
      BY DEF Streams
    <3> QED
      BY <3>1, <3>2, <3>3, <1>7
  <2> QED
    BY <2>1, <2>2 DEF Streams, socketVars, history
<1>9. WholeInBuffer'
  <2> SUFFICES ASSUME NEW f \in Fds \ split, Submitting(f)
               PROVE  LET r == sock[f].buf[1].req IN
                      /\ r.call <= client'[conn[f]].calls
                      /\ client'[conn[f]].pc = "sending" => r.call < client'[conn[f]].calls
                      /\ \A i \in DOMAIN up'[conn[f]] : r.call < up'[conn[f]][i].req.call
    BY <1>0, <1>1 DEF WholeInBuffer, socketVars, history
  <2>1. conn[f] \in Conns
    BY DEF SocketsOpen, TypeOK, Submitting
  <2> DEFINE r == sock[f].buf[1].req
  <2>2. /\ r.call <= client[conn[f]].calls
        /\ client[conn[f]].pc = "sending" => r.call < client[conn[f]].calls
        /\ \A i \in DOMAIN up[conn[f]] : r.call < up[conn[f]][i].req.call
    BY DEF WholeInBuffer
  <2>3. r.call \in Nat /\ client[c].calls \in Nat /\ client'[c].calls \in Nat
    <3>1. sock[f].buf \in [1 .. (2 * Limit) -> UpUnits \cup {Junk}]
      BY DEF TypeOK, SocketStates
    <3>2. 1 \in 1 .. (2 * Limit) /\ sock[f].buf[1] # Junk
      BY BodyAssumption DEF WholeInBuffer
    <3>3. sock[f].buf[1] \in UpUnits
      BY <3>1, <3>2
    <3> QED
      BY <3>3 DEF UpUnits, Requests, TypeOK, Clients
  <2>4. CASE conn[f] # c
    BY <2>1, <2>2, <2>4
  <2>5. CASE conn[f] = c
    BY <2>2, <2>3, <2>5
  <2> QED
    BY <2>4, <2>5
<1>10. TasksWhole'
  <2> SUFFICES ASSUME NEW t \in InPool, t.fd # -1, t.fd \notin split
               PROVE  LET d == t.req.conn IN
                      /\ t.req.call <= client'[d].calls
                      /\ client'[d].pc = "sending" => t.req.call < client'[d].calls
                      /\ \A i \in DOMAIN up'[d] : t.req.call < up'[d][i].req.call
    BY <1>0 DEF TasksWhole, history
  <2>1. t.req \in Requests
    BY PoolTasks DEF TasksWhole, Tasks
  <2>2. t.req.conn \in Conns /\ t.req.call \in Nat
    BY <2>1 DEF Requests
  <2>3. client[c].calls \in Nat /\ client'[c].calls \in Nat
    BY DEF TypeOK, Clients
  <2>4. LET d == t.req.conn IN
        /\ t.req.call <= client[d].calls
        /\ client[d].pc = "sending" => t.req.call < client[d].calls
        /\ \A i \in DOMAIN up[d] : t.req.call < up[d][i].req.call
    BY DEF TasksWhole
  <2>5. CASE t.req.conn # c
    BY <2>2, <2>4, <2>5
  <2>6. CASE t.req.conn = c
    BY <2>2, <2>3, <2>4, <2>6
  <2> QED
    BY <2>5, <2>6
<1>11. \A d \in Conns : d # c =>
          /\ LastOnly(d)' = LastOnly(d)
          /\ \A f \in Fds : OneCall(f, d)' = OneCall(f, d)
  <2> SUFFICES ASSUME NEW d \in Conns, d # c
               PROVE  /\ LastOnly(d)' = LastOnly(d)
                      /\ \A f \in Fds : OneCall(f, d)' = OneCall(f, d)
    OBVIOUS
  <2>1. up'[d] = up[d] /\ client'[d] = client[d] /\ down'[d] = down[d]
    OBVIOUS
  <2>2. sock' = sock /\ responses' = responses
    BY DEF poolVars, socketVars
  <2> QED
    BY <1>0, <1>1, <2>1, <2>2, SameStream, SameCall
<1>12. Served'
  <2>1. \A f \in Fds \ spoilt' : out'[f] = <<>>
    BY DEF Served, socketVars, history
  <2>2. \A d \in backlog' : down'[d] = <<>> /\ client'[d].answer = None /\ LastOnly(d)'
    <3> SUFFICES ASSUME NEW d \in backlog
                 PROVE  down'[d] = <<>> /\ client'[d].answer = None /\ LastOnly(d)'
      BY DEF socketVars
    <3>1. d \in Conns
      BY DEF TypeOK
    <3>2. down[d] = <<>> /\ client[d].answer = None /\ LastOnly(d)
      BY DEF Served
    <3> QED
      BY <1>11, <3>1, <3>2
  <2>3. ASSUME NEW f \in Sound'
        PROVE  /\ conn'[f] = None => ~InServer(f)'
               /\ \A t \in InPool' : t.fd = f => t.req.conn = conn'[f]
               /\ conn'[f] # None => client'[conn'[f]].pc = "gone" \/ OneCall(f, conn[f])'
               /\ conn'[f] # None /\ client'[conn'[f]].pc = "gone" =>
                     client'[conn'[f]].answer = None /\ down'[conn'[f]] = <<>>
    <3>1. f \in Sound /\ f \in Fds /\ conn'[f] = conn[f]
      BY DEF Sound, history, socketVars
    <3>2. /\ conn[f] = None => ~InServer(f)
          /\ \A t \in InPool : t.fd = f => t.req.conn = conn[f]
          /\ conn[f] # None => client[conn[f]].pc = "gone" \/ OneCall(f, conn[f])
          /\ conn[f] # None /\ client[conn[f]].pc = "gone" =>
                client[conn[f]].answer = None /\ down[conn[f]] = <<>>
      BY <3>1 DEF Served
    <3>3. conn[f] # None => conn[f] \in Conns
      BY <3>1 DEF TypeOK
    <3>4. CASE conn[f] = c
      BY <3>1, <3>2, <3>4, <1>0, <1>1
    <3>5. CASE conn[f] # c
      BY <3>1, <3>2, <3>3, <3>5, <1>0, <1>1, <1>11
    <3> QED
      BY <3>4, <3>5
  <2> QED
    BY <2>1, <2>2, <2>3 DEF Served
<1> QED
  BY <1>4, <1>5, <1>6, <1>8, <1>9, <1>10, <1>12

(* A call begins. *)
LEMMA CallInv == ASSUME IndInv, NEW c \in Conns, Call(c) PROVE IndInv'
<1> USE DEF IndInv
<1>1. PICK length \in Lengths :
          client' = [client EXCEPT
                       ![c].calls = @ + 1, ![c].length = length, ![c].sent = 0,
                       ![c].answer = None,
                       ![c].pc = IF client[c].failed THEN "idle" ELSE "sending"]
  BY DEF Call
<1>2. /\ client[c].pc = "idle" /\ client[c].calls \in Nat
      /\ client'[c].calls = client[c].calls + 1 /\ client'[c].length \in Lengths
      /\ client'[c].sent = 0 /\ client'[c].answer = None
      /\ client'[c].pc \in {"idle", "sending"}
      /\ \A d \in Conns : d # c => client'[d] = client[d]
  BY <1>1 DEF Call, TypeOK, Clients
<1>3. UNCHANGED <<up, down, socketVars, loop, poolVars, history>>
  BY DEF Call
<1>4. TypeOK'
  <2>0. client[c] \in Clients
    BY DEF TypeOK
  <2>1. client'[c] \in Clients
    <3> DEFINE p == IF client[c].failed THEN "idle" ELSE "sending"
    <3>1. client'[c] = [client[c] EXCEPT !.calls = @ + 1, !.length = length, !.sent = 0,
                          !.answer = None, !.pc = p]
      BY <1>1 DEF TypeOK
    <3>2. p \in {"idle", "sending"}
      OBVIOUS
    <3> HIDE DEF p
    <3>3. client[c].calls + 1 \in Nat /\ 0 \in Nat
      BY <2>0, BodyAssumption DEF Clients
    <3> QED
      BY <2>0, <3>1, <3>2, <3>3 DEF Clients
  <2>2. client' \in [Conns -> Clients]
    BY <1>1, <2>1 DEF TypeOK
  <2> QED
    BY <1>3, <2>2 DEF TypeOK, socketVars, poolVars, history
<1>5. ASSUME NEW h \in Nat, Orderly(up[c]), Ends(c, h)
      PROVE  Orderly(up[c])' /\ Ends(c, h)'
  <2>1. Orderly(up[c])'
    BY <1>3, <1>5 DEF Orderly
  <2>2. Ends(c, h)'
    BY <1>2, <1>3, <1>5, UpTyped, BodyAssumption DEF Ends
  <2> QED
    BY <2>1, <2>2
<1>6. ASSUME LastOnly(c) PROVE LastOnly(c)'
  BY <1>2, <1>3, <1>6 DEF LastOnly
<1>7. c \in backlog => down'[c] = <<>> /\ client'[c].answer = None /\ LastOnly(c)'
  BY <1>2, <1>3, <1>6 DEF Served
<1>8. ASSUME NEW f \in Sound, conn[f] = c PROVE OneCall(f, c)'
  <2>1. f \in Fds /\ OneCall(f, c)
    BY <1>2, <1>8, Distinct DEF Served, Sound
  <2>2. /\ ~Submitting(f) /\ ~Tasked(f) /\ ~Answered(f) /\ down[c] = <<>>
        /\ LastOnly(c)
    BY <1>2, <2>1 DEF OneCall
  <2>3. ~Submitting(f)' /\ ~Tasked(f)' /\ ~Answered(f)' /\ down'[c] = <<>>
    BY <1>3, <2>2 DEF Submitting, Tasked, Answered, InPool, poolVars
  <2> QED
    BY <1>2, <1>6, <2>2, <2>3 DEF OneCall, Tasked, Answered
<1>9. SocketsOpen /\ OneDescriptor
  OBVIOUS
<1> QED
  <2>1. \A d \in Conns : d # c =>
               client'[d] = client[d] /\ up'[d] = up[d] /\ down'[d] = down[d]
    BY <1>2, <1>3
  <2>2. Shut(c) => up'[c] = <<>>
    BY <1>3, <1>9 DEF SocketsOpen
  <2>3. \A i \in DOMAIN up'[c] : up'[c][i].req.conn = c
    BY <1>3, <1>9 DEF OneDescriptor
  <2> QED
    BY <1>2, <1>3, <1>4, <1>5, <1>7, <1>8, <2>1, <2>2, <2>3, BodyAssumption, ClientFrame

(* The answer, or what passes for one, ends the call. *)
LEMMA ReceivedInv ==
    ASSUME IndInv, NEW c \in Conns, client[c].pc = "waiting", Len(down[c]) >= 2,
           client' = [client EXCEPT ![c].pc = "idle",
                        ![c].answer = IF Whole(down[c][1], down[c][2])
                                      THEN down[c][1].rsp ELSE None],
           down' = [down EXCEPT ![c] = SubSeq(down[c], 3, Len(down[c]))],
           UNCHANGED <<up, socketVars, loop, poolVars, history>>
    PROVE  IndInv'
<1> USE DEF IndInv
<1> DEFINE u == down[c][1]
           a == IF Whole(u, down[c][2]) THEN u.rsp ELSE None
<1>1. /\ client[c].pc = "waiting" /\ Len(down[c]) >= 2
      /\ client' = [client EXCEPT ![c].pc = "idle", ![c].answer = a]
      /\ down' = [down EXCEPT ![c] = SubSeq(down[c], 3, Len(down[c]))]
      /\ UNCHANGED <<up, socketVars, loop, poolVars, history>>
  OBVIOUS
<1>2. down[c] \in Seq(DownUnits) /\ u \in DownUnits
  BY <1>1 DEF TypeOK
<1>3. a \in Answers \cup {None}
  BY <1>2 DEF DownUnits, Whole
<1> HIDE DEF a
<1>4. client[c] \in Clients /\ client'[c] = [client[c] EXCEPT !.pc = "idle", !.answer = a]
  BY <1>1 DEF TypeOK
<1>5. /\ client'[c] \in Clients
      /\ client'[c].pc = "idle" /\ client'[c].answer = a
      /\ client'[c].calls = client[c].calls /\ client'[c].sent = client[c].sent
      /\ client[c].calls \in Nat
  <2> DEFINE k == client[c]
  <2>1. k \in Clients
    BY <1>4
  <2> HIDE DEF k
  <2>2. /\ [k EXCEPT !.pc = "idle", !.answer = a] \in Clients
        /\ [k EXCEPT !.pc = "idle", !.answer = a].pc = "idle"
        /\ [k EXCEPT !.pc = "idle", !.answer = a].answer = a
        /\ [k EXCEPT !.pc = "idle", !.answer = a].calls = k.calls
        /\ [k EXCEPT !.pc = "idle", !.answer = a].sent = k.sent
        /\ k.calls \in Nat
    BY <1>3, <2>1 DEF Clients
  <2> QED
    BY <1>4, <2>2 DEF k
<1>6. \A d \in Conns : d # c =>
         client'[d] = client[d] /\ up'[d] = up[d] /\ down'[d] = down[d]
  BY <1>1 DEF TypeOK
<1>7. TypeOK'
  <2>1. client' \in [Conns -> Clients]
    BY <1>1, <1>5 DEF TypeOK
  <2>2. SubSeq(down[c], 3, Len(down[c])) \in Seq(DownUnits)
    BY <1>1, <1>2
  <2>3. down' \in [Conns -> Seq(DownUnits)]
    BY <1>1, <2>2 DEF TypeOK
  <2> QED
    BY <1>1, <2>1, <2>3 DEF TypeOK, socketVars, poolVars, history
<1>8. ASSUME NEW h \in Nat, Orderly(up[c]), Ends(c, h)
      PROVE  Orderly(up[c])' /\ Ends(c, h)'
  <2>1. Orderly(up[c])'
    BY <1>1, <1>8 DEF Orderly
  <2>2. Ends(c, h)'
    BY <1>1, <1>5, <1>8 DEF Ends
  <2> QED
    BY <2>1, <2>2
<1>9. c \notin backlog
  BY <1>1, <1>2 DEF Served
<1>10. ASSUME NEW f \in Sound, conn[f] = c PROVE OneCall(f, c)'
  <2>1. f \in Fds /\ OneCall(f, c)
    BY <1>1, <1>10, Distinct DEF Served, Sound
  <2>2. down[c] # <<>>
    BY <1>1, <1>2
  <2>3. PICK r \in Own(c) : down[c] = ResponseUnits(r)
    BY <2>1, <2>2 DEF OneCall
  <2>4. Len(down[c]) = 2 /\ u.rsp = r
    BY <2>3 DEF ResponseUnits
  <2>5. down'[c] = <<>>
    BY <1>1, <1>2, <2>4 DEF TypeOK
  <2>6. a \in Own(c) \cup {None}
    BY <2>4 DEF a
  <2>7. up[c] = <<>> /\ ~Submitting(f) /\ ~Tasked(f) /\ ~Answered(f)
    BY <2>1, <2>2 DEF OneCall
  <2>8. Own(c)' = Own(c)
    BY <1>5 DEF Own, Request, Response
  <2>9. ~Submitting(f)' /\ ~Tasked(f)' /\ ~Answered(f)' /\ up'[c] = <<>>
    BY <1>1, <2>7 DEF Submitting, Tasked, Answered, InPool, poolVars
  <2>10. LastOnly(c)'
    BY <1>5, <2>9 DEF LastOnly
  <2> QED
    BY <1>5, <2>5, <2>6, <2>8, <2>9, <2>10 DEF OneCall, Tasked, Answered
<1> QED
  <2>1. Shut(c) => up'[c] = <<>>
    BY <1>1 DEF SocketsOpen
  <2>2. \A i \in DOMAIN up'[c] : up'[c][i].req.conn = c
    BY <1>1 DEF OneDescriptor
  <2>3. \A i \in DOMAIN up'[c] : \E j \in DOMAIN up[c] : up'[c][i].req.call = up[c][j].req.call
    BY <1>1
  <2>4. client[c].pc # "new" /\ UNCHANGED <<socketVars, loop, poolVars, history>>
    BY <1>1
  <2>5. client'[c].pc = "idle" /\ client'[c].calls >= client[c].calls
    BY <1>5
  <2> QED
    BY <2>3, <2>4, <2>5, <1>6, <1>7, <1>8, <1>9, <1>10, <2>1, <2>2, ClientFrame

(* What is not a response may leave the client waiting. *)
LEMMA BlockedInv ==
    ASSUME IndInv, NEW c \in Conns, client[c].pc = "waiting", Len(down[c]) >= 2,
           ~Whole(down[c][1], down[c][2]), UNCHANGED client,
           down' = [down EXCEPT ![c] = <<Junk>> \o SubSeq(down[c], 3, Len(down[c]))],
           UNCHANGED <<up, socketVars, loop, poolVars, history>>
    PROVE  IndInv'
<1> USE DEF IndInv
<1>1. down[c] \in Seq(DownUnits) /\ down[c] # <<>>
  BY DEF TypeOK
<1>2. TypeOK'
  <2>1. SubSeq(down[c], 3, Len(down[c])) \in Seq(DownUnits) /\ <<Junk>> \in Seq(DownUnits)
    BY <1>1 DEF DownUnits
  <2>2. <<Junk>> \o SubSeq(down[c], 3, Len(down[c])) \in Seq(DownUnits)
    BY <2>1, ConcatProperties
  <2>3. down' \in [Conns -> Seq(DownUnits)]
    BY <2>2 DEF TypeOK
  <2> QED
    BY <2>3 DEF TypeOK, socketVars, poolVars, history
<1>3. \A d \in Conns : d # c =>
         client'[d] = client[d] /\ up'[d] = up[d] /\ down'[d] = down[d]
  BY DEF TypeOK
<1>4. c \notin backlog
  BY <1>1 DEF Served
<1>5. ASSUME NEW f \in Sound, conn[f] = c PROVE FALSE
  <2>1. OneCall(f, c)
    BY <1>5, Distinct DEF Served, Sound
  <2>2. PICK r \in Own(c) : down[c] = ResponseUnits(r)
    BY <1>1, <2>1 DEF OneCall
  <2>3. down[c][1] = [rsp |-> r, unit |-> 1] /\ down[c][2] = [rsp |-> r, unit |-> 2]
    BY <2>2 DEF ResponseUnits
  <2>4. r \in [conn : Nat, call : Nat, code : {"OK", "ERROR"}]
    BY DEF Own, Response, Request, CallResults, TypeOK, Clients, Conns
  <2>5. down[c][1] # Junk /\ down[c][2] # Junk
    BY <2>3, <2>4, JunkAssumption
  <2> QED
    BY <2>3, <2>5 DEF Whole
<1>6. ASSUME NEW h \in Nat, Orderly(up[c]), Ends(c, h)
      PROVE  Orderly(up[c])' /\ Ends(c, h)'
  BY <1>6, SameStream
<1>7. /\ Shut(c) => up'[c] = <<>>
      /\ \A i \in DOMAIN up'[c] : up'[c][i].req.conn = c
      /\ \A i \in DOMAIN up'[c] : \E j \in DOMAIN up[c] : up'[c][i].req.call = up[c][j].req.call
  BY DEF SocketsOpen, OneDescriptor
<1>8. client'[c].pc = "waiting" /\ client'[c].calls >= client[c].calls
  BY DEF TypeOK, Clients
<1> QED
  BY <1>2, <1>3, <1>4, <1>5, <1>6, <1>7, <1>8, ClientFrame

(* The answer, or what passes for one. *)
LEMMA ReceiveInv == ASSUME IndInv, NEW c \in Conns, Receive(c) PROVE IndInv'
  BY ReceivedInv, BlockedInv DEF Receive

(* A call on a closed connection fails. *)
LEMMA CallFailsInv ==
    ASSUME IndInv, NEW c \in Conns, Shut(c), client[c].pc # "new", CallFails(c),
           UNCHANGED <<up, down, socketVars, loop, poolVars, history>>
    PROVE  IndInv'
<1> USE DEF IndInv
<1>1. client[c] \in Clients
      /\ client'[c] = [client[c] EXCEPT !.pc = "idle", !.answer = None, !.failed = TRUE]
  BY DEF CallFails, TypeOK
<1>2. /\ client'[c] \in Clients /\ client'[c].pc = "idle"
      /\ client'[c].calls = client[c].calls /\ client[c].calls \in Nat
  BY <1>1 DEF Clients
<1>3. \A d \in Conns : d # c =>
         client'[d] = client[d] /\ up'[d] = up[d] /\ down'[d] = down[d]
  BY DEF CallFails, TypeOK
<1>4. TypeOK'
  <2>1. client' \in [Conns -> Clients]
    BY <1>2 DEF CallFails, TypeOK
  <2> QED
    BY <2>1 DEF TypeOK, socketVars, poolVars, history
<1>5. up'[c] = <<>> /\ up[c] = <<>>
  BY DEF SocketsOpen
<1>6. c \notin backlog /\ \A f \in Sound : conn[f] # c
  BY DEF Shut, Sound
<1> QED
  BY <1>2, <1>3, <1>4, <1>5, <1>6, ClientFrame

(* The end of the stream. *)
LEMMA ReceiveEofInv == ASSUME IndInv, NEW c \in Conns, ReceiveEof(c) PROVE IndInv'
  BY CallFailsInv DEF ReceiveEof

(* A client leaves. *)
LEMMA LeaveInv == ASSUME IndInv, NEW c \in Conns, Leave(c) PROVE IndInv'
<1> USE DEF IndInv
<1>1. /\ client[c].pc \in {"idle", "sending", "waiting"}
      /\ client' = [client EXCEPT ![c].pc = "gone", ![c].length = None, ![c].sent = 0,
                                  ![c].answer = None]
      /\ down' = [down EXCEPT ![c] = <<>>]
      /\ UNCHANGED <<up, socketVars, loop, poolVars, history>>
  BY DEF Leave
<1>2. client[c] \in Clients
      /\ client'[c] = [client[c] EXCEPT !.pc = "gone", !.length = None, !.sent = 0,
                                        !.answer = None]
  BY <1>1 DEF TypeOK
<1>3. /\ client'[c] \in Clients /\ client'[c].pc = "gone" /\ client'[c].answer = None
      /\ client'[c].calls = client[c].calls /\ client[c].calls \in Nat
  <2>1. 0 \in Nat
    BY BodyAssumption
  <2> QED
    BY <1>2, <2>1 DEF Clients
<1>4. \A d \in Conns : d # c =>
         client'[d] = client[d] /\ up'[d] = up[d] /\ down'[d] = down[d]
  BY <1>1 DEF TypeOK
<1>5. down'[c] = <<>>
  BY <1>1 DEF TypeOK
<1>6. TypeOK'
  <2>1. client' \in [Conns -> Clients]
    BY <1>1, <1>3 DEF TypeOK
  <2>2. down' \in [Conns -> Seq(DownUnits)]
    BY <1>1 DEF TypeOK
  <2> QED
    BY <1>1, <2>1, <2>2 DEF TypeOK, socketVars, poolVars, history
<1>7. ASSUME NEW h \in Nat, Orderly(up[c]), Ends(c, h)
      PROVE  Orderly(up[c])' /\ Ends(c, h)'
  <2>1. Orderly(up[c])'
    BY <1>1, <1>7 DEF Orderly
  <2>2. Ends(c, h)'
    BY <1>1, <1>3, <1>7 DEF Ends
  <2> QED
    BY <2>1, <2>2
<1>8. LastOnly(c)'
  BY <1>3 DEF LastOnly
<1> QED
  <2>1. Shut(c) => up'[c] = <<>>
    BY <1>1 DEF SocketsOpen
  <2>2. \A i \in DOMAIN up'[c] : up'[c][i].req.conn = c
    BY <1>1 DEF OneDescriptor
  <2>3. \A i \in DOMAIN up'[c] : \E j \in DOMAIN up[c] : up'[c][i].req.call = up[c][j].req.call
    BY <1>1
  <2>4. client[c].pc # "new" /\ UNCHANGED <<socketVars, loop, poolVars, history>>
    BY <1>1
  <2>5. client'[c].pc = "gone" /\ client'[c].calls >= client[c].calls /\ client'[c].answer = None
    BY <1>3
  <2> QED
    BY <2>3, <2>4, <2>5, <1>4, <1>5, <1>6, <1>7, <1>8, <2>1, <2>2, ClientFrame

(* The unit at l is the last of its packet: a later one is of another. *)
LEMMA AfterLast ==
    ASSUME NEW i \in Int, NEW j \in Int, NEW l \in Int, NEW x \in Int, NEW b \in Int,
           j > l, x + (l - i) = b
    PROVE  ~(j - i <= b - x) /\ (j - i = b - x + 1 => j = l + 1)
  OBVIOUS

(* A piece of a request continues the stream where the client had stopped. *)
LEMMA OrderlyConcat ==
    ASSUME NEW q \in Seq(UpUnits), NEW p \in Seq(UpUnits), NEW r \in Requests,
           NEW s \in Nat, NEW n \in Nat, s < n, n <= r.length + 1,
           Len(p) = n - s,
           \A i \in 1 .. (n - s) : p[i] = [req |-> r, unit |-> s + i - 1],
           Orderly(q),
           q # <<>> => IF s = 0
                       THEN q[Len(q)].unit = q[Len(q)].req.length /\ q[Len(q)].req.call < r.call
                       ELSE q[Len(q)] = [req |-> r, unit |-> s - 1]
    PROVE  Orderly(q \o p)
<1> DEFINE w == q \o p
           L == Len(q)
<1>0. /\ w \in Seq(UpUnits) /\ Len(w) = L + Len(p)
      /\ \A i \in 1 .. (L + Len(p)) : w[i] = IF i <= L THEN q[i] ELSE p[i - L]
  BY ConcatProperties
<1>1. L \in Nat /\ DOMAIN q = 1 .. L /\ DOMAIN w = 1 .. (L + (n - s))
  BY <1>0
<1> HIDE DEF w
<1>2. ASSUME NEW k \in (L + 1) .. (L + (n - s))
      PROVE  w[k].req = r /\ w[k].unit = s + (k - L) - 1
  <2>1. k - L \in 1 .. (n - s) /\ k \in 1 .. (L + Len(p)) /\ ~(k <= L)
    BY <1>1
  <2>2. w[k] = p[k - L]
    BY <1>0, <2>1
  <2>3. w[k] = [req |-> r, unit |-> s + (k - L) - 1]
    BY <2>1, <2>2
  <2> QED
    BY <2>3
<1>2a. ASSUME NEW k \in 1 .. L PROVE w[k] = q[k]
  <2>1. k \in 1 .. (L + Len(p)) /\ k <= L
    BY <1>1
  <2> QED
    BY <1>0, <2>1
<1>3. \A i \in 1 .. L : /\ q[i].unit \in Nat /\ q[i].req.call \in Nat
                         /\ q[i].req.length \in Nat /\ q[i].unit <= q[i].req.length
  <2>1. \A i \in 1 .. L : q[i] \in UpUnits
    OBVIOUS
  <2>2. \A u \in UpUnits : u.unit \in Nat /\ u.req \in Requests
    BY DEF UpUnits
  <2>3. \A x \in Requests : x.call \in Nat /\ x.length \in Nat
    BY BodyAssumption DEF Requests
  <2>4. \A i \in 1 .. L : q[i].unit <= q[i].req.length
    BY DEF Orderly
  <2> QED
    BY <2>1, <2>2, <2>3, <2>4
<1>4. r.call \in Nat /\ r.length \in Nat
  BY BodyAssumption DEF Requests
<1>4a. ASSUME NEW k \in 1 .. (L + (n - s)) PROVE w[k].unit <= w[k].req.length
  <2>1. CASE k <= L
    BY <1>1, <1>2a, <1>3, <2>1
  <2>2. CASE k > L
    <3>1. w[k].req = r /\ w[k].unit = s + (k - L) - 1 /\ s + (k - L) - 1 <= r.length
      BY <1>1, <1>2, <1>4, <2>2
    <3> QED
      BY <3>1
  <2> QED
    BY <1>1, <2>1, <2>2
<1> SUFFICES ASSUME NEW i \in 1 .. (L + (n - s)), NEW j \in 1 .. (L + (n - s)), i <= j
             PROVE  IF j - i <= w[i].req.length - w[i].unit
                    THEN w[j].req = w[i].req /\ w[j].unit = w[i].unit + (j - i)
                    ELSE /\ w[i].req.call < w[j].req.call
                         /\ j - i = w[i].req.length - w[i].unit + 1 => w[j].unit = 0
  BY <1>1, <1>4a DEF Orderly, w
<1>5. CASE j <= L
  <2>1. i \in 1 .. L /\ j \in 1 .. L
    BY <1>1, <1>5
  <2>2. i \in DOMAIN q /\ j \in DOMAIN q /\ w[i] = q[i] /\ w[j] = q[j]
    BY <1>1, <1>2a, <2>1
  <2> QED
    BY <2>2 DEF Orderly
<1>6. CASE i > L
  <2>1. /\ w[i].req = r /\ w[i].unit = s + (i - L) - 1
        /\ w[j].req = r /\ w[j].unit = s + (j - L) - 1
    BY <1>1, <1>2, <1>6
  <2>2. j - i <= r.length - w[i].unit /\ w[j].unit = w[i].unit + (j - i)
    BY <1>1, <1>4, <2>1
  <2> QED
    BY <2>1, <2>2
<1>7. CASE i <= L /\ j > L
  <2> DEFINE m == q[L]
  <2>0. i \in 1 .. L /\ L \in 1 .. L /\ j \in (L + 1) .. (L + (n - s)) /\ L >= 1
    BY <1>1, <1>7
  <2>1. /\ w[i] = q[i]
        /\ q[i].unit \in Nat /\ q[i].req.length \in Nat /\ q[i].req.call \in Nat
    BY <1>2a, <1>3, <2>0
  <2>1a. w[j].req = r /\ w[j].unit = s + (j - L) - 1
    BY <1>2, <2>0
  <2>1b. m.req.call \in Nat
    BY <1>3, <2>0
  <2>2. IF L - i <= q[i].req.length - q[i].unit
        THEN m.req = q[i].req /\ m.unit = q[i].unit + (L - i)
        ELSE q[i].req.call < m.req.call
    <3>1. i \in DOMAIN q /\ L \in DOMAIN q /\ i <= L
      BY <1>1, <1>7
    <3> QED
      BY <3>1 DEF Orderly
  <2>3. IF s = 0 THEN m.unit = m.req.length /\ m.req.call < r.call
        ELSE m.req = r /\ m.unit = s - 1
    BY <2>0
  <2>3a. L \in Nat /\ i \in Nat /\ j \in Nat
    BY <1>1
  <2> HIDE DEF m, L
  <2> DEFINE x == q[i].unit
           len == q[i].req.length
  <2>4. x \in Nat /\ w[i].unit = x /\ len \in Nat /\ w[i].req.length = len
    BY <2>1
  <2>4a. /\ IF L - i <= len - x THEN m.req = q[i].req /\ m.unit = x + (L - i)
                             ELSE q[i].req.call < m.req.call
         /\ i <= L /\ j > L /\ i \in Int /\ j \in Int /\ L \in Int /\ x \in Int
    BY <1>7, <2>2, <2>3a, <2>4
  <2>4b. m.req = q[i].req => m.req.length = len
    OBVIOUS
  <2> HIDE DEF x, len
  <2>5. CASE ~(L - i <= len - x)
    <3>1. ~(j - i <= len - x) /\ j - i # len - x + 1
      <4>1. /\ i \in Int /\ j \in Int /\ L \in Int /\ x \in Int /\ len \in Int
            /\ j > L
        BY <2>4, <2>4a
      <4> QED
        BY <2>5, <4>1
    <3>2. q[i].req.call < m.req.call /\ m.req.call <= r.call
      BY <1>4, <2>1b, <2>3, <2>4a, <2>5
    <3>3. w[i].req.call < w[j].req.call
      <4>1. w[i].req.call = q[i].req.call /\ w[j].req.call = r.call
        BY <2>1, <2>1a
      <4>2. \A a, b, d \in Nat : a < b /\ b <= d => a < d
        OBVIOUS
      <4>3. q[i].req.call \in Nat
        BY <2>1
      <4>4. q[i].req.call < r.call
        <5> HIDE DEF w
        <5> QED
          BY <1>4, <2>1b, <3>2, <4>2, <4>3, Zenon
      <4> QED
        BY <4>1, <4>4
    <3> QED
      BY <2>4, <3>1, <3>3
  <2>6. CASE L - i <= len - x /\ s = 0
    <3>1. x + (L - i) = len /\ q[i].req.call < r.call
      BY <2>3, <2>4a, <2>4b, <2>6
    <3>2. ~(j - i <= len - x) /\ (j - i = len - x + 1 => j = L + 1)
      BY <2>4, <2>4a, <3>1, AfterLast
    <3>3. j = L + 1 => w[j].unit = 0
      BY <2>1a, <2>3a, <2>6
    <3> QED
      BY <2>1, <2>1a, <2>4, <3>1, <3>2, <3>3
  <2>7. CASE L - i <= len - x /\ s # 0
    <3>1. x + (L - i) = s - 1 /\ q[i].req = r /\ len = r.length
      BY <2>3, <2>4a, <2>7 DEF len
    <3>2. j - L <= n - s
      BY <2>0, <2>3a
    <3>3. j - i <= len - x /\ s + (j - L) - 1 = x + (j - i)
      BY <1>4, <2>4, <2>4a, <3>1, <3>2
    <3> QED
      BY <2>1, <2>1a, <2>4, <3>1, <3>3
  <2> QED
    BY <2>5, <2>6, <2>7
<1> QED
  BY <1>1, <1>5, <1>6, <1>7

(* send() takes part of the request, or fails. *)
LEMMA SendInv == ASSUME IndInv, NEW c \in Conns, Send(c) PROVE IndInv'
<1> USE DEF IndInv
<1>0. SUFFICES
        ASSUME NEW n \in (client[c].sent + 1) .. (client[c].length + 1),
               up' = IF Shut(c) THEN up
                     ELSE [up EXCEPT ![c] =
                             @ \o SubSeq(RequestUnits(Request(c)), client[c].sent + 1, n)],
               client' = [client EXCEPT ![c].sent = n,
                            ![c].pc = IF n = client[c].length + 1 THEN "waiting" ELSE "sending"]
        PROVE  IndInv'
  BY CallFailsInv DEF Send
<1>0a. client[c].pc = "sending" /\ UNCHANGED <<down, socketVars, loop, poolVars, history>>
  BY DEF Send
<1> DEFINE r == Request(c)
           s == client[c].sent
           q == up[c]
           p == SubSeq(RequestUnits(r), s + 1, n)
           k == IF n = client[c].length + 1 THEN "waiting" ELSE "sending"
<1>1. /\ s \in Nat /\ s <= client[c].length /\ n \in Nat /\ s < n
      /\ client[c].length \in Nat /\ n <= client[c].length + 1
      /\ client[c].length \in Lengths /\ client[c] \in Clients /\ client[c].calls \in Nat
  BY <1>0a, BodyAssumption DEF TypeOK, SocketsOpen, Clients
<1>2. k \in {"waiting", "sending"} /\ (k = "sending" => n <= client[c].length)
      /\ (k = "waiting" => n = client[c].length + 1)
  BY <1>1, BodyAssumption
<1>3. client'[c] = [client[c] EXCEPT !.sent = n, !.pc = k]
  BY <1>0 DEF TypeOK
<1> HIDE DEF k
<1>4. /\ client'[c].pc = k /\ client'[c].sent = n
      /\ client'[c].calls = client[c].calls /\ client'[c].length = client[c].length
      /\ client'[c].answer = client[c].answer
  BY <1>1, <1>3 DEF Clients
<1>5. client'[c] \in Clients
  <2>1. n \in Nat
    BY <1>1, BodyAssumption
  <2> QED
    BY <1>1, <1>2, <1>3, <2>1 DEF Clients
<1>6. /\ p \in Seq(UpUnits) /\ Len(p) = n - s
      /\ \A i \in 1 .. (n - s) : p[i] = [req |-> r, unit |-> s + i - 1]
  BY <1>0a, RequestPiece
<1>7. r \in Requests /\ r.conn = c /\ r.call = client[c].calls /\ Request(c)' = r
      /\ r.length = client[c].length
  BY <1>1, <1>4 DEF Request, Requests
<1>8. up'[c] = IF Shut(c) THEN q ELSE q \o p
  BY <1>0 DEF TypeOK
<1>9. \A d \in Conns : d # c =>
         client'[d] = client[d] /\ up'[d] = up[d] /\ down'[d] = down[d]
  BY <1>0, <1>0a DEF TypeOK
<1>10. q \in Seq(UpUnits) /\ Len(q) \in Nat /\ DOMAIN q = 1 .. Len(q)
  BY UpTyped
<1> HIDE DEF p, r, s, q
<1>11. /\ q \o p \in Seq(UpUnits) /\ Len(q \o p) = Len(q) + (n - s)
       /\ DOMAIN (q \o p) = 1 .. (Len(q) + (n - s))
       /\ \A i \in 1 .. Len(q) : (q \o p)[i] = q[i]
       /\ \A i \in (Len(q) + 1) .. (Len(q) + (n - s)) :
             (q \o p)[i] = [req |-> r, unit |-> s + (i - Len(q)) - 1]
  <2>1. /\ q \o p \in Seq(UpUnits) /\ Len(q \o p) = Len(q) + Len(p)
        /\ \A i \in 1 .. (Len(q) + Len(p)) :
              (q \o p)[i] = IF i <= Len(q) THEN q[i] ELSE p[i - Len(q)]
    BY <1>6, <1>10, ConcatProperties
  <2>2. DOMAIN (q \o p) = 1 .. (Len(q) + (n - s)) /\ Len(q \o p) = Len(q) + (n - s)
    BY <1>6, <2>1
  <2>3. ASSUME NEW i \in 1 .. Len(q) PROVE (q \o p)[i] = q[i]
    <3>1. i \in 1 .. (Len(q) + Len(p)) /\ i <= Len(q)
      BY <1>1, <1>6, <1>10
    <3> QED
      BY <2>1, <3>1
  <2>4. ASSUME NEW i \in (Len(q) + 1) .. (Len(q) + (n - s))
        PROVE  (q \o p)[i] = [req |-> r, unit |-> s + (i - Len(q)) - 1]
    <3>1. /\ i \in 1 .. (Len(q) + Len(p)) /\ ~(i <= Len(q))
          /\ i - Len(q) \in 1 .. (n - s)
      BY <1>1, <1>6, <1>10
    <3> QED
      BY <1>6, <2>1, <3>1
  <2> QED
    BY <2>1, <2>2, <2>3, <2>4
<1>12. TypeOK'
  <2>1. client' \in [Conns -> Clients]
    BY <1>0, <1>5 DEF TypeOK
  <2>2. up'[c] \in Seq(UpUnits)
    BY <1>8, <1>10, <1>11
  <2>3. up' \in [Conns -> Seq(UpUnits)]
    BY <1>0, <2>2 DEF TypeOK
  <2> QED
    BY <1>0a, <2>1, <2>3 DEF TypeOK, socketVars, poolVars, history
<1>13. ASSUME NEW i \in DOMAIN up'[c]
       PROVE  \/ \E j \in DOMAIN q : up'[c][i] = q[j]
              \/ up'[c][i].req = r
  <2>1. CASE Shut(c)
    BY <1>8, <2>1
  <2>2. CASE ~Shut(c)
    <3>1. i \in 1 .. Len(q) \/ i \in (Len(q) + 1) .. (Len(q) + (n - s))
      BY <1>1, <1>8, <1>10, <1>11, <2>2
    <3>2. up'[c] = q \o p
      BY <1>8, <2>2
    <3>3. CASE i \in 1 .. Len(q)
      <4>1. i \in DOMAIN q /\ up'[c][i] = q[i]
        BY <1>10, <1>11, <3>2, <3>3
      <4> QED
        BY <4>1
    <3>4. CASE i \in (Len(q) + 1) .. (Len(q) + (n - s))
      <4>1. up'[c][i] = [req |-> r, unit |-> s + (i - Len(q)) - 1]
        BY <1>11, <3>2, <3>4
      <4> QED
        BY <4>1
    <3> QED
      BY <3>1, <3>3, <3>4
  <2> QED
    BY <2>1, <2>2
<1>14. ASSUME ~Shut(c), NEW h \in Nat, Orderly(up[c]), Ends(c, h)
       PROVE  Orderly(up[c])' /\ Ends(c, h)'
  <2>1. up'[c] = q \o p
    BY <1>8, <1>14
  <2>2. q # <<>> => IF s = 0
                    THEN q[Len(q)].unit = q[Len(q)].req.length /\ q[Len(q)].req.call < r.call
                    ELSE q[Len(q)] = [req |-> r, unit |-> s - 1]
    BY <1>0a, <1>7, <1>14 DEF Ends, r, s, q
  <2>3. Orderly(q \o p)
    BY <1>1, <1>6, <1>7, <1>10, <1>14, <2>2, OrderlyConcat DEF q
  <2>4. \A i \in DOMAIN up'[c] : up'[c][i].req.call <= client'[c].calls
    BY <1>1, <1>4, <1>7, <1>13, <1>14 DEF Ends, q
  <2>5. Len(up'[c]) >= 1 /\ up'[c] # <<>>
    BY <1>1, <1>10, <1>11, <2>1
  <2>6. IF h = 0 THEN up'[c][1].unit = 0
        ELSE up'[c][1].unit = 1 /\ up'[c][1].req.length = h
    <3>1. CASE q = <<>>
      <4>1. /\ IF h = 0 THEN s = 0 ELSE s = 1 /\ r.length = h
            /\ Len(q) = 0
        BY <1>0a, <1>7, <1>14, <3>1 DEF Ends, q, s
      <4>2. 1 \in (Len(q) + 1) .. (Len(q) + (n - s))
        BY <1>1, <4>1
      <4>3. up'[c][1] = [req |-> r, unit |-> s + (1 - Len(q)) - 1]
        BY <1>11, <2>1, <4>2
      <4> QED
        BY <1>1, <4>1, <4>3
    <3>2. CASE q # <<>>
      <4>1. 1 \in 1 .. Len(q)
        BY <1>10, <3>2
      <4> QED
        BY <1>11, <1>14, <2>1, <3>2, <4>1 DEF Ends, q
    <3> QED
      BY <3>1, <3>2
  <2>7. up'[c][Len(up'[c])] = [req |-> r, unit |-> n - 1]
    <3>1. /\ Len(up'[c]) \in (Len(q) + 1) .. (Len(q) + (n - s))
          /\ s + (Len(up'[c]) - Len(q)) - 1 = n - 1
      BY <1>1, <1>10, <1>11, <2>1
    <3> QED
      BY <1>11, <2>1, <3>1
  <2>8. client'[c].pc = "waiting" => n - 1 = client[c].length
    BY <1>1, <1>2, <1>4, BodyAssumption
  <2>9. Ends(c, h)'
    BY <1>1, <1>2, <1>4, <1>7, <2>4, <2>5, <2>6, <2>7, <2>8 DEF Ends
  <2> QED
    BY <2>1, <2>3, <2>9
<1>15. ASSUME LastOnly(c) PROVE LastOnly(c)'
  BY <1>0a, <1>2, <1>4, <1>7, <1>13, <1>15 DEF LastOnly, q
<1>16. c \in backlog => down'[c] = <<>> /\ client'[c].answer = None /\ LastOnly(c)'
  BY <1>0a, <1>4, <1>15 DEF Served
<1>17. ASSUME NEW f \in Sound, conn[f] = c PROVE OneCall(f, c)'
  <2>1. f \in Fds /\ OneCall(f, c)
    BY <1>0a, <1>17, Distinct DEF Served, Sound
  <2>2. /\ ~Submitting(f) /\ ~Tasked(f) /\ ~Answered(f) /\ down[c] = <<>>
        /\ LastOnly(c) /\ client[c].answer \in Own(c) \cup {None}
    BY <1>0a, <2>1 DEF OneCall
  <2>3. ~Submitting(f)' /\ ~Tasked(f)' /\ ~Answered(f)' /\ down'[c] = <<>>
    BY <1>0a, <2>2 DEF Submitting, Tasked, Answered, InPool, poolVars
  <2>4. Own(c)' = Own(c)
    BY <1>7 DEF Own, r
  <2> QED
    BY <1>4, <1>15, <2>2, <2>3, <2>4 DEF OneCall, Tasked, Answered
<1> QED
  <2>1. Shut(c) => up'[c] = <<>>
    BY <1>8 DEF SocketsOpen, q
  <2>2. \A i \in DOMAIN up'[c] : up'[c][i].req.conn = c
    BY <1>7, <1>13 DEF OneDescriptor, q
  <2>3. \A i \in DOMAIN up'[c] :
           \/ \E j \in DOMAIN up[c] : up'[c][i].req.call = up[c][j].req.call
           \/ up'[c][i].req.call = client[c].calls
    BY <1>7, <1>13 DEF q
  <2>4. client'[c].pc # "new" /\ client'[c].pc # "gone"
    BY <1>2, <1>4
  <2>5. client'[c].pc = "sending" => client'[c].length \in Lengths /\ client'[c].sent <= client'[c].length
    BY <1>1, <1>2, <1>4
  <2>6. client'[c].calls >= client[c].calls
    BY <1>1, <1>4
  <2> QED
    BY <1>0a, <1>9, <1>12, <1>14, <1>16, <1>17, <2>1, <2>2, <2>3, <2>4, <2>5, <2>6, ClientFrame

(* A client does not get a connection. *)
LEMMA ConnectFailsInv == ASSUME IndInv, NEW c \in Conns, ConnectFails(c) PROVE IndInv'
<1> USE DEF IndInv
<1>1. /\ client[c].pc = "new" /\ client' = [client EXCEPT ![c].pc = "gone"]
      /\ UNCHANGED <<up, down, socketVars, loop, poolVars, history>>
  BY DEF ConnectFails, Connects
<1>2. client[c] \in Clients /\ client'[c] = [client[c] EXCEPT !.pc = "gone"]
  BY <1>1 DEF TypeOK
<1>3. /\ client'[c] \in Clients /\ client'[c].pc = "gone"
      /\ client'[c].calls = client[c].calls /\ client[c].calls \in Nat
  BY <1>2 DEF Clients
<1>4. \A d \in Conns : d # c =>
         client'[d] = client[d] /\ up'[d] = up[d] /\ down'[d] = down[d]
  BY <1>1 DEF TypeOK
<1>5. TypeOK'
  <2>1. client' \in [Conns -> Clients]
    BY <1>1, <1>3 DEF TypeOK
  <2> QED
    BY <1>1, <2>1 DEF TypeOK, socketVars, poolVars, history
<1>6. Shut(c) /\ up'[c] = <<>> /\ c \notin backlog /\ \A f \in Sound : conn[f] # c
  BY <1>1 DEF SocketsOpen, Shut, Sound
<1> QED
  BY <1>1, <1>3, <1>4, <1>5, <1>6, ClientFrame

(* A client connects. *)
LEMMA ConnectInv == ASSUME IndInv, NEW c \in Conns, Connect(c) PROVE IndInv'
<1> USE DEF IndInv
<1>1. /\ client[c].pc = "new" /\ client' = [client EXCEPT ![c].pc = "idle"]
      /\ backlog' = backlog \cup {c}
      /\ UNCHANGED <<up, down, conn, sock, out, watched, loop, poolVars, history>>
  BY DEF Connect, Connects
<1>2. client[c] \in Clients /\ client'[c] = [client[c] EXCEPT !.pc = "idle"]
  BY <1>1 DEF TypeOK
<1>3. /\ client'[c] \in Clients /\ client'[c].pc = "idle" /\ client'[c].calls = client[c].calls
      /\ client'[c].answer = client[c].answer /\ client[c].calls \in Nat
  BY <1>2 DEF Clients
<1>4. \A d \in Conns : d # c => client'[d] = client[d]
  BY <1>1 DEF TypeOK
<1>5. Shut(c) /\ up[c] = <<>> /\ down[c] = <<>> /\ client[c].answer = None
  BY <1>1 DEF SocketsOpen
<1>6. TypeOK'
  <2>1. client' \in [Conns -> Clients]
    BY <1>1, <1>3 DEF TypeOK
  <2> QED
    BY <1>1, <2>1 DEF TypeOK, poolVars, history
<1>7. \A d \in Conns : d # c => Shut(d)' = Shut(d)
  BY <1>1 DEF Shut
<1>8. SocketsOpen'
  BY <1>1, <1>3, <1>4, <1>5, <1>7 DEF SocketsOpen
<1>9. InPool' = InPool
  BY <1>1, SamePool DEF poolVars
<1>10. \A f \in Fds : /\ InServer(f)' = InServer(f) /\ Submitting(f)' = Submitting(f)
                      /\ Expected(f)' = Expected(f)
                      /\ \A d \in Conns : Trace(f, d)' = Trace(f, d)
  BY <1>1, <1>9 DEF poolVars, InServer, Submitting, Expected, Trace
<1>11. OneDescriptor'
  BY <1>1, <1>3, <1>4, <1>10 DEF OneDescriptor
<1>12. TicketsApart'
  BY <1>1, <1>9 DEF TicketsApart, poolVars
<1>13. \A d \in Conns : d # c =>
          /\ Orderly(up[d])' = Orderly(up[d]) /\ LastOnly(d)' = LastOnly(d)
          /\ \A h \in Nat : Ends(d, h)' = Ends(d, h)
          /\ \A f \in Fds : OneCall(f, d)' = OneCall(f, d)
  <2>1. up' = up /\ down' = down /\ sock' = sock /\ responses' = responses
    BY <1>1 DEF poolVars
  <2> QED
    BY <1>4, <1>9, <1>10, <2>1, SameStream, SameCall
<1>14. \A f \in Fds : conn[f] # c
  BY <1>5 DEF Shut
<1>15. Streams'
  <2>1. Orderly(up[c])' /\ Ends(c, 0)'
    BY <1>1, <1>3, <1>5 DEF Orderly, Ends
  <2>2. ASSUME NEW d \in backlog' PROVE Orderly(up[d])' /\ Ends(d, 0)'
    BY <1>1, <1>13, <2>1 DEF Streams, TypeOK
  <2>3. ASSUME NEW f \in watched \ split
        PROVE  Orderly(up[conn[f]])' /\ Ends(conn[f], Expected(f))'
    <3>1. f \in Fds /\ conn[f] \in Conns /\ conn'[f] = conn[f] /\ conn[f] # c
      BY <1>1, <1>14 DEF TypeOK, SocketsOpen
    <3>2. Expected(f) \in Nat /\ Expected(f)' = Expected(f)
      BY <1>10, <3>1, ExpectedTyped DEF Expected
    <3>3. Orderly(up[conn[f]]) /\ Ends(conn[f], Expected(f))
      BY DEF Streams
    <3> QED
      BY <1>13, <3>1, <3>2, <3>3
  <2> QED
    BY <1>1, <2>2, <2>3 DEF Streams, history
<1>16. WholeInBuffer'
  <2>1. ASSUME NEW f \in Fds, Submitting(f)
        PROVE  client'[conn[f]] = client[conn[f]]
    BY <1>4, <1>14, <2>1 DEF SocketsOpen, TypeOK, Submitting
  <2>2. up' = up /\ sock' = sock /\ conn' = conn /\ split' = split
    BY <1>1 DEF history
  <2>3. \A f \in Fds : Submitting(f)' = Submitting(f)
    BY <1>10
  <2> QED
    BY <1>9, <2>1, <2>2, <2>3, SameBuffers
<1>17. TasksWhole'
  <2>1. ASSUME NEW t \in InPool, t.fd # -1, t.fd \notin split
        PROVE  /\ t.req.call <= client'[t.req.conn].calls
               /\ client'[t.req.conn].pc = "sending" =>
                     t.req.call < client'[t.req.conn].calls
    <3>1. t.req \in Requests
      BY <2>1, PoolTasks DEF TasksWhole, Tasks
    <3>2. t.req.conn \in Conns
      BY <3>1 DEF Requests
    <3> QED
      BY <1>3, <1>4, <2>1, <3>2 DEF TasksWhole
  <2> QED
    BY <1>1, <1>9, <2>1 DEF TasksWhole, history
<1>18. Served'
  <2>1. \A f \in Fds \ spoilt' : out'[f] = <<>>
    BY <1>1 DEF Served, history
  <2>2. ASSUME NEW d \in backlog'
        PROVE  down'[d] = <<>> /\ client'[d].answer = None /\ LastOnly(d)'
    <3>1. d \in Conns
      BY <1>1 DEF TypeOK
    <3>2. CASE d = c
      BY <1>1, <1>3, <1>5, <3>2 DEF LastOnly
    <3>3. CASE d # c
      BY <1>1, <1>4, <1>13, <3>1, <3>3 DEF Served
    <3> QED
      BY <3>2, <3>3
  <2>3. ASSUME NEW f \in Sound'
        PROVE  /\ conn'[f] = None => ~InServer(f)'
               /\ \A t \in InPool' : t.fd = f => t.req.conn = conn'[f]
               /\ conn'[f] # None => client'[conn'[f]].pc = "gone" \/ OneCall(f, conn[f])'
               /\ conn'[f] # None /\ client'[conn'[f]].pc = "gone" =>
                     client'[conn'[f]].answer = None /\ down'[conn'[f]] = <<>>
    <3>1. f \in Sound /\ f \in Fds /\ conn'[f] = conn[f]
      BY <1>1 DEF Sound, history
    <3>2. /\ conn[f] = None => ~InServer(f)
          /\ \A t \in InPool : t.fd = f => t.req.conn = conn[f]
          /\ conn[f] # None => client[conn[f]].pc = "gone" \/ OneCall(f, conn[f])
          /\ conn[f] # None /\ client[conn[f]].pc = "gone" =>
                client[conn[f]].answer = None /\ down[conn[f]] = <<>>
      BY <3>1 DEF Served
    <3>3. conn[f] # None => conn[f] \in Conns /\ conn[f] # c
      BY <1>14, <3>1 DEF TypeOK
    <3> QED
      BY <1>1, <1>4, <1>9, <1>10, <1>13, <3>1, <3>2, <3>3
  <2> QED
    BY <2>1, <2>2, <2>3 DEF Served
<1> QED
  BY <1>6, <1>8, <1>11, <1>12, <1>15, <1>16, <1>17, <1>18

-----------------------------------------------------------------------------
(* The connection behind an open descriptor. *)
LEMMA OpenConn ==
    ASSUME IndInv, NEW f \in watched
    PROVE  /\ f \in Fds /\ conn[f] \in Conns /\ conn[f] # None
           /\ ~Shut(conn[f]) /\ conn[f] \notin backlog /\ client[conn[f]].pc # "new"
           /\ \A g \in Fds : conn[g] = conn[f] => g = f
<1> USE DEF IndInv
<1>1. f \in Fds /\ conn[f] # None
  BY DEF SocketsOpen
<1>2. conn[f] \in Conns
  BY <1>1 DEF TypeOK
<1>3. \A g \in Fds : conn[g] = conn[f] => Trace(g, conn[f])
  BY DEF Trace
<1> QED
  BY <1>1, <1>2, <1>3 DEF OneDescriptor, Shut

(* A task on a descriptor without split bodies holds a request. *)
LEMMA TaskTyped ==
    ASSUME IndInv, NEW t \in InPool
    PROVE  /\ t \in Tasks
           /\ t.fd # -1 /\ t.fd \notin split =>
                 t.req \in Requests /\ t.req.conn \in Conns /\ t.req.call \in Nat
<1>1. t \in Tasks
  BY PoolTasks DEF IndInv
<1> QED
  BY <1>1 DEF IndInv, TasksWhole, Tasks, Requests

(* Closing a descriptor takes its connection off the books, and leaves all *)
(* other descriptors alone.                                                *)
LEMMA CloseFrame ==
    ASSUME IndInv, TypeOK', TicketsApart', NEW f \in watched,
           StopWatcherAndCloseSocket(f),
           UNCHANGED <<client, down, backlog, out, responses, split, spoilt>>,
           loop'.at = "idle", \A g \in Fds : g # f => ~Submitting(g),
           \A t \in InPool' : t \in InPool \/ (t.fd = -1 /\ t.req = Mixture),
           \A g \in Fds : g # f => sock'[g] = sock[g],
           \A i \in DOMAIN sock'[f].buf :
               /\ i \in DOMAIN sock[f].buf
               /\ sock'[f].buf[i] = Junk \/ sock'[f].buf[i] = sock[f].buf[i],
           f \notin split => /\ sock'[f].offset = 0
                             /\ sock'[f].unread = sock'[f].length
    PROVE  IndInv'
<1> USE DEF IndInv
<1> DEFINE c == conn[f]
<1>1. /\ f \in Fds /\ c \in Conns /\ c # None /\ ~Shut(c) /\ c \notin backlog
      /\ client[c].pc # "new" /\ \A g \in Fds : conn[g] = c => g = f
  BY OpenConn
<1>2. /\ watched' = watched \ {f}
      /\ conn' = [conn EXCEPT ![f] = None] /\ up' = [up EXCEPT ![c] = <<>>]
      /\ orphaned' = IF InServer(f) THEN orphaned \cup {f} ELSE orphaned
  BY DEF StopWatcherAndCloseSocket
<1>3. /\ conn'[f] = None /\ up'[c] = <<>>
      /\ \A g \in Fds : g # f => conn'[g] = conn[g]
      /\ \A d \in Conns : d # c => up'[d] = up[d]
  BY <1>1, <1>2 DEF TypeOK
<1> HIDE DEF c
<1>4. \A d \in Conns : d # c => Shut(d)' = Shut(d)
  BY <1>1, <1>3, Distinct DEF Shut, c
<1>5. SocketsOpen'
  <2>1. watched' = {g \in Fds : conn'[g] # None}
    BY <1>1, <1>2, <1>3 DEF SocketsOpen
  <2> QED
    BY <1>1, <1>3, <1>4, <2>1 DEF SocketsOpen
<1>6. \A g \in Fds, d \in Conns : Trace(g, d)' => Trace(g, d)
  <2> SUFFICES ASSUME NEW g \in Fds, NEW d \in Conns, Trace(g, d)' PROVE Trace(g, d)
    OBVIOUS
  <2>1. CASE conn'[g] = d
    <3>1. g # f
      BY <1>3, <2>1, Distinct
    <3> QED
      BY <1>3, <2>1, <3>1 DEF Trace
  <2>2. CASE \E i \in DOMAIN sock'[g].buf :
                sock'[g].buf[i] # Junk /\ sock'[g].buf[i].req.conn = d
    <3>1. \E i \in DOMAIN sock[g].buf : sock[g].buf[i] # Junk /\ sock[g].buf[i].req.conn = d
      BY <2>2
    <3> QED
      BY <3>1 DEF Trace
  <2>3. CASE \E t \in InPool' : t.fd = g /\ t.req.conn = d
    BY <2>3, Distinct DEF Trace
  <2> QED
    BY <2>1, <2>2, <2>3 DEF Trace
<1>7. OneDescriptor'
  <2>1. ASSUME NEW d \in Conns, NEW i \in DOMAIN up'[d] PROVE up'[d][i].req.conn = d
    BY <1>3, <2>1 DEF OneDescriptor
  <2> QED
    BY <1>6, <2>1 DEF OneDescriptor
<1>8. \A g \in Fds : g # f => Expected(g)' = Expected(g)
  BY DEF Expected, Submitting
<1>9. \A d \in Conns : d # c =>
          /\ Orderly(up[d])' = Orderly(up[d]) /\ LastOnly(d)' = LastOnly(d)
          /\ \A h \in Nat : Ends(d, h)' = Ends(d, h)
  <2> SUFFICES ASSUME NEW d \in Conns, d # c
               PROVE  /\ Orderly(up[d])' = Orderly(up[d]) /\ LastOnly(d)' = LastOnly(d)
                      /\ \A h \in Nat : Ends(d, h)' = Ends(d, h)
    OBVIOUS
  <2>1. up'[d] = up[d] /\ client' = client
    BY <1>3
  <2>2. Orderly(up[d])' = Orderly(up[d])
    BY <2>1 DEF Orderly
  <2>3. LastOnly(d)' = LastOnly(d)
    BY <2>1 DEF LastOnly
  <2>4. \A h \in Nat : Ends(d, h)' = Ends(d, h)
    BY <2>1 DEF Ends, Request
  <2> QED
    BY <2>2, <2>3, <2>4
<1>10. Streams'
  <2>1. ASSUME NEW d \in backlog PROVE Orderly(up[d])' /\ Ends(d, 0)'
    <3>1. d \in Conns /\ d # c /\ Orderly(up[d]) /\ Ends(d, 0)
      BY <1>1 DEF TypeOK, Streams
    <3> QED
      BY <1>9, <3>1
  <2>2. ASSUME NEW g \in watched' \ split
        PROVE  Orderly(up[conn[g]])' /\ Ends(conn[g], Expected(g))'
    <3>1. /\ g \in watched /\ g # f /\ g \in Fds /\ conn'[g] = conn[g]
          /\ conn[g] \in Conns /\ conn[g] # c
      BY <1>1, <1>2, <1>3 DEF TypeOK, SocketsOpen
    <3>2. Expected(g) \in Nat /\ Expected(g)' = Expected(g)
      BY <1>8, <3>1, ExpectedTyped DEF Expected
    <3>3. Orderly(up[conn[g]]) /\ Ends(conn[g], Expected(g))
      BY <2>2, <3>1 DEF Streams
    <3> QED
      BY <1>9, <3>1, <3>2, <3>3
  <2> QED
    BY <2>1, <2>2 DEF Streams
<1>11. WholeInBuffer'
  <2>1. \A g \in Fds : ~Submitting(g)'
    BY DEF Submitting
  <2>2. ASSUME NEW g \in Fds \ split
        PROVE  sock'[g].offset = 0 /\ sock'[g].unread = sock'[g].length
    BY DEF WholeInBuffer
  <2> QED
    BY <2>1, <2>2 DEF WholeInBuffer
<1>12. TasksWhole'
  <2> SUFFICES ASSUME NEW t \in InPool'
               PROVE  /\ t.fd = -1 => t.req = Mixture
                      /\ t.fd # -1 /\ t.fd \notin split =>
                         /\ t.req # Mixture
                         /\ \A u \in InPool' : u.req = t.req => u = t
                         /\ t.req.call <= client[t.req.conn].calls
                         /\ client[t.req.conn].pc = "sending" =>
                               t.req.call < client[t.req.conn].calls
                         /\ \A i \in DOMAIN up'[t.req.conn] :
                               t.req.call < up'[t.req.conn][i].req.call
    BY DEF TasksWhole
  <2>1. CASE t \notin InPool
    BY <2>1
  <2>2. CASE t \in InPool /\ (t.fd = -1 \/ t.fd \in split)
    BY <2>2 DEF TasksWhole
  <2>3. CASE t \in InPool /\ t.fd # -1 /\ t.fd \notin split
    <3>1. t.req.conn \in Conns /\ t.req # Mixture
      BY <2>3, TaskTyped DEF TasksWhole
    <3>2. \A i \in DOMAIN up'[t.req.conn] : t.req.call < up'[t.req.conn][i].req.call
      BY <1>3, <2>3, <3>1 DEF TasksWhole
    <3>3. \A u \in InPool' : u.req = t.req => u = t
      BY <2>3, <3>1 DEF TasksWhole
    <3> QED
      BY <2>3, <3>1, <3>2, <3>3 DEF TasksWhole
  <2> QED
    BY <2>1, <2>2, <2>3
<1>13. \A g \in Fds : (InServer(g)' => InServer(g)) /\ (Tasked(g)' => Tasked(g))
                      /\ Answered(g)' = Answered(g)
  <2>1. \A g \in Fds : Tasked(g)' => Tasked(g)
    BY Distinct DEF Tasked
  <2>2. \A g \in Fds : InServer(g) = (Tasked(g) \/ Answered(g))
    BY DEF InServer, Tasked, Answered, InPool
  <2>3. \A g \in Fds : InServer(g)' = (Tasked(g)' \/ Answered(g)')
    BY DEF InServer, Tasked, Answered, InPool
  <2>4. \A g \in Fds : Answered(g)' = Answered(g)
    BY DEF Answered
  <2> QED
    BY <2>1, <2>2, <2>3, <2>4
<1>14. ASSUME NEW g \in Fds, g # f, NEW d \in Conns, d # c, OneCall(g, d)
       PROVE  OneCall(g, d)'
  <2>1. ~Submitting(g)' /\ LastOnly(d)' /\ up'[d] = up[d] /\ Own(d)' = Own(d)
    BY <1>3, <1>9, <1>14 DEF OneCall, Submitting, Own, Request, Response
  <2>2. \A t \in InPool' : t.fd = g => t \in InPool
    BY Distinct
  <2> QED
    BY <1>13, <1>14, <2>1, <2>2 DEF OneCall
<1>15. Served'
  <2>1. ASSUME NEW d \in backlog PROVE LastOnly(d)'
    <3>1. d \in Conns /\ d # c /\ LastOnly(d)
      BY <1>1 DEF TypeOK, Served
    <3> QED
      BY <1>9, <3>1
  <2>2. ASSUME NEW g \in Sound'
        PROVE  /\ conn'[g] = None => ~InServer(g)'
               /\ \A t \in InPool' : t.fd = g => t.req.conn = conn'[g]
               /\ conn'[g] # None => client'[conn'[g]].pc = "gone" \/ OneCall(g, conn[g])'
               /\ conn'[g] # None /\ client'[conn'[g]].pc = "gone" =>
                     client'[conn'[g]].answer = None /\ down'[conn'[g]] = <<>>
    <3>1. g \in Sound /\ g \in Fds
      BY <1>2 DEF Sound
    <3>2. /\ conn[g] = None => ~InServer(g)
          /\ \A t \in InPool : t.fd = g => t.req.conn = conn[g]
          /\ conn[g] # None => client[conn[g]].pc = "gone" \/ OneCall(g, conn[g])
          /\ conn[g] # None /\ client[conn[g]].pc = "gone" =>
                client[conn[g]].answer = None /\ down[conn[g]] = <<>>
      BY <3>1 DEF Served
    <3>3. \A t \in InPool' : t.fd = g => t \in InPool
      BY <3>1, Distinct
    <3>4. CASE g = f
      <4>1. ~InServer(f)
        BY <1>2, <3>1, <3>4 DEF Sound
      <4>2. ~InServer(f)' /\ ~Tasked(f)'
        BY <1>1, <1>13, <4>1 DEF InServer, Tasked, InPool
      <4> QED
        BY <1>3, <3>4, <4>2 DEF Tasked
    <3>5. CASE g # f
      <4>1. conn'[g] = conn[g] /\ (conn[g] # None => conn[g] \in Conns /\ conn[g] # c)
        BY <1>1, <1>3, <3>1, <3>5 DEF TypeOK
      <4> QED
        BY <1>13, <1>14, <3>1, <3>2, <3>3, <3>5, <4>1
    <3> QED
      BY <3>4, <3>5
  <2> QED
    BY <2>1, <2>2 DEF Served
<1> QED
  BY <1>5, <1>7, <1>10, <1>11, <1>12, <1>15

(* How many units of a packet's header are at the start of the stream. *)
Header(f) == IF sock[f].length # 0 THEN 0 ELSE 1

(* The socket after the header was read. *)
LEMMA HeaderTyped ==
    ASSUME IndInv, NEW f \in Fds, NEW l \in 0 .. Limit
    PROVE  LET s == AfterHeader(sock[f], l) IN
           /\ s \in SocketStates /\ s.length = l /\ s.unread = l /\ s.buf = sock[f].buf
           /\ sock[f].offset = 0 => s.offset = 0
<1>1. sock[f] \in SocketStates
  BY DEF IndInv, TypeOK
<1>2. CASE l > sock[f].size
  <2> DEFINE z == RoundDownPowOfTwo(l)
  <2>1. AfterHeader(sock[f], l) =
           [sock[f] EXCEPT !.length = l, !.unread = l, !.size = z, !.offset = 0]
    BY <1>2 DEF AfterHeader
  <2>2. z \in Sizes /\ 0 \in 0 .. Limit
    BY BodyAssumption DEF Sizes
  <2> HIDE DEF z
  <2> QED
    BY <1>1, <2>1, <2>2 DEF SocketStates
<1>3. CASE ~(l > sock[f].size)
  <2>1. AfterHeader(sock[f], l) = [sock[f] EXCEPT !.length = l, !.unread = l]
    BY <1>3 DEF AfterHeader
  <2> QED
    BY <1>1, <2>1 DEF SocketStates
<1> QED
  BY <1>2, <1>3

(* ReadCb reads a header: of a length that is not above the limit, and on  *)
(* a descriptor where no packet arrived in parts that of the packet.       *)
LEMMA HeaderRead ==
    ASSUME IndInv, NEW f \in Fds, NEW l \in HeaderLengths(f)
    PROVE  /\ ReadsHeader(f) /\ l \in Nat /\ (~Refused(l) => l \in 0 .. Limit)
           /\ f \notin split => up[conn[f]][1].unit = 0 /\ l = up[conn[f]][1].req.length
<1> USE DEF IndInv
<1>1. ReadsHeader(f)
  BY DEF HeaderLengths
<1>2. f \in watched /\ conn[f] \in Conns /\ up[conn[f]] # <<>> /\ ~Submitting(f)
  BY <1>1, OpenConn DEF ReadsHeader, Readable, Submitting
<1> DEFINE q == up[conn[f]]
<1>3. /\ q \in Seq(UpUnits) /\ 1 \in DOMAIN q /\ Head(q) = q[1]
      /\ q[1].req.length \in Nat
  BY <1>2, UpTyped
<1>4. l \in IF q[1].unit = 0 THEN {q[1].req.length} ELSE (0 .. (Limit + 1)) \ {q[1].req.length}
  BY <1>1, <1>3 DEF HeaderLengths
<1>5. f \notin split => q[1].unit = 0
  <2> SUFFICES ASSUME f \notin split PROVE q[1].unit = 0
    OBVIOUS
  <2>1. Ends(conn[f], Expected(f)) /\ Expected(f) = 0
    BY <1>1, <1>2 DEF Streams, Expected, ReadsHeader
  <2> QED
    BY <1>2, <2>1 DEF Ends
<1>6. l \in Nat
  <2> HIDE DEF q
  <2> QED
    BY <1>3, <1>4, BodyAssumption
<1> QED
  BY <1>1, <1>4, <1>5, <1>6, BodyAssumption DEF Refused

(* The socket when its body is read. *)
LEMMA AtBodyTyped ==
    ASSUME IndInv, NEW f \in Fds, NEW s \in AtBody(f)
    PROVE  /\ Readable(f) /\ sock[f] \in SocketStates /\ s \in SocketStates
           /\ s.buf = sock[f].buf
           /\ s.unread \in Nat /\ s.unread <= Limit /\ s.length \in Nat /\ s.length <= Limit
           /\ s.offset \in Nat /\ s.offset <= Limit
           /\ sock[f].length # 0 => s = sock[f]
           /\ sock[f].length = 0 => up[conn[f]] # <<>>
           /\ f \notin split =>
                 /\ s.offset = 0 /\ s.unread = s.length /\ s.length >= 1
                 /\ up[conn[f]] # <<>> => /\ up[conn[f]][1].req.length = s.length
                                          /\ up[conn[f]][1].unit = 1 - Header(f)
<1> USE DEF IndInv
<1>1. sock[f] \in SocketStates
  BY DEF TypeOK
<1>2. f \notin split => sock[f].offset = 0 /\ sock[f].unread = sock[f].length
  BY DEF WholeInBuffer
<1>3. CASE sock[f].length # 0
  <2>1. Readable(f) /\ s = sock[f]
    BY <1>3 DEF AtBody, HeaderLengths, ReadsHeader
  <2>2. s.length \in Nat /\ s.length >= 1 /\ s.length <= Limit
    BY <1>1, <1>3, <2>1, BodyAssumption DEF SocketStates
  <2>3. ASSUME f \notin split, up[conn[f]] # <<>>
        PROVE  up[conn[f]][1].req.length = s.length /\ up[conn[f]][1].unit = 1 - Header(f)
    <3>1. f \in watched /\ Expected(f) = s.length
      BY <2>1 DEF Readable, Expected, Submitting
    <3>2. Ends(conn[f], s.length)
      BY <2>3, <3>1 DEF Streams
    <3> QED
      BY <1>3, <2>2, <2>3, <3>2 DEF Ends, Header
  <2> QED
    BY <1>1, <1>2, <1>3, <2>1, <2>2, <2>3, BodyAssumption DEF SocketStates
<1>4. CASE sock[f].length = 0
  <2>1. PICK l \in HeaderLengths(f) : ~Refused(l) /\ s = AfterHeader(sock[f], l)
    BY <1>4 DEF AtBody
  <2>2. /\ ReadsHeader(f) /\ l \in 0 .. Limit
        /\ f \notin split => up[conn[f]][1].unit = 0 /\ l = up[conn[f]][1].req.length
    BY <2>1, HeaderRead
  <2>3. /\ s \in SocketStates /\ s.length = l /\ s.unread = l /\ s.buf = sock[f].buf
        /\ sock[f].offset = 0 => s.offset = 0
    BY <2>1, <2>2, HeaderTyped
  <2>4. Readable(f) /\ up[conn[f]] # <<>> /\ Header(f) = 1
    BY <1>4, <2>2 DEF ReadsHeader, Header
  <2>5. f \notin split => l >= 1
    <3>1. conn[f] \in Conns
      BY <2>4, OpenConn DEF Readable
    <3>2. 1 \in DOMAIN up[conn[f]] /\ up[conn[f]][1].req.length >= 1
      BY <2>4, <3>1, UpTyped
    <3> QED
      BY <2>2, <3>2
  <2> QED
    BY <1>1, <1>2, <1>4, <2>2, <2>3, <2>4, <2>5, BodyAssumption DEF SocketStates
<1> QED
  BY <1>3, <1>4

(* A socket is closed at the end of the stream, or by a protocol error. *)
LEMMA ReadCloseInv ==
    ASSUME IndInv, NEW f \in Fds, Readable(f), StopWatcherAndCloseSocket(f),
           UNCHANGED <<client, down, backlog, out, loop, poolVars, crashed, split, spoilt>>,
           sock' = sock \/ \E s \in AtBody(f) : sock' = [sock EXCEPT ![f] = s]
    PROVE  IndInv'
<1> USE DEF IndInv
<1>0. f \in watched /\ loop.at = "idle" /\ conn[f] \in Conns
  BY OpenConn DEF Readable
<1>1. /\ sock'[f] \in SocketStates /\ sock'[f].buf = sock[f].buf
      /\ f \notin split => sock'[f].offset = 0 /\ sock'[f].unread = sock'[f].length
      /\ \A g \in Fds : g # f => sock'[g] = sock[g]
  <2>1. CASE sock' = sock
    BY <2>1 DEF TypeOK, WholeInBuffer
  <2>2. ASSUME NEW s \in AtBody(f), sock' = [sock EXCEPT ![f] = s]
        PROVE  /\ sock'[f] = s /\ s \in SocketStates /\ s.buf = sock[f].buf
               /\ f \notin split => s.offset = 0 /\ s.unread = s.length
               /\ \A g \in Fds : g # f => sock'[g] = sock[g]
    BY <2>2, AtBodyTyped DEF TypeOK
  <2> QED
    BY <2>1, <2>2
<1>2. TypeOK'
  <2>1. sock' \in [Fds -> SocketStates]
    BY <1>1 DEF TypeOK
  <2>2. up' \in [Conns -> Seq(UpUnits)] /\ conn' \in [Fds -> Conns \cup {None}]
        /\ watched' \subseteq Fds /\ orphaned' \subseteq Fds
    BY <1>0 DEF TypeOK, StopWatcherAndCloseSocket
  <2> QED
    BY <2>1, <2>2 DEF TypeOK, poolVars
<1>3. InPool' = InPool
  BY SamePool DEF poolVars
<1>4. TicketsApart'
  BY <1>3 DEF TicketsApart, poolVars
<1>6. loop'.at = "idle" /\ \A g \in Fds : ~Submitting(g)
  BY <1>0 DEF Submitting
<1>7. UNCHANGED responses
  BY DEF poolVars
<1>8. \A i \in DOMAIN sock'[f].buf : i \in DOMAIN sock[f].buf /\ sock'[f].buf[i] = sock[f].buf[i]
  BY <1>1
<1> QED
  BY <1>0, <1>1, <1>2, <1>3, <1>4, <1>6, <1>7, <1>8, CloseFrame

(* ReadCb closes a socket at the end of the stream. *)
LEMMA ReadEofInv == ASSUME IndInv, NEW f \in Fds, ReadEof(f) PROVE IndInv'
  BY ReadCloseInv DEF ReadEof

(* ReadCb closes a socket whose client announced too much. *)
LEMMA ReadOversizeInv == ASSUME IndInv, NEW f \in Fds, ReadOversize(f) PROVE IndInv'
  BY HeaderRead, ReadCloseInv DEF ReadOversize, ReadsHeader

(* ReadCb closes a socket that ends in the middle of a packet. *)
LEMMA ReadErrorInv ==
    ASSUME IndInv, NEW f \in Fds, NEW s \in AtBody(f), ReadError(f, s) PROVE IndInv'
  BY AtBodyTyped, ReadCloseInv DEF ReadError

(* A read moves units of the connection into the buffer of its descriptor, *)
(* and leaves all other descriptors alone.                                 *)
LEMMA ReadFrame ==
    ASSUME IndInv, TypeOK', NEW f \in watched, loop.at = "idle",
           UNCHANGED <<client, down, backlog, conn, out, watched, poolVars, orphaned, spoilt>>,
           \A d \in Conns : d # conn[f] => up'[d] = up[d],
           \A g \in Fds : g # f => sock'[g] = sock[g],
           \A i \in DOMAIN up'[conn[f]] : \E j \in DOMAIN up[conn[f]] :
               up'[conn[f]][i].req = up[conn[f]][j].req,
           \A i \in DOMAIN sock'[f].buf : i \in DOMAIN sock[f].buf /\
               \/ sock'[f].buf[i] = sock[f].buf[i]
               \/ \E j \in DOMAIN up[conn[f]] : sock'[f].buf[i] = up[conn[f]][j],
           split' = split \/ split' = split \cup {f},
           loop' = loop \/ loop' = [at |-> "submit", fd |-> f],
           f \notin split' =>
               /\ sock'[f].offset = 0 /\ sock'[f].unread = sock'[f].length
               /\ Orderly(up[conn[f]])' /\ Ends(conn[f], Expected(f))',
           f \notin split' /\ loop'.at = "submit" =>
               LET r == sock'[f].buf[1].req IN
               /\ sock'[f].buf[1] # Junk /\ r.length = sock'[f].length
               /\ \A k \in 1 .. sock'[f].length : sock'[f].buf[k] = [req |-> r, unit |-> k]
               /\ \E j \in DOMAIN up[conn[f]] : r = up[conn[f]][j].req
               /\ client[conn[f]].pc = "sending" => r.call < client[conn[f]].calls
               /\ \A i \in DOMAIN up'[conn[f]] : r.call < up'[conn[f]][i].req.call,
           f \in Sound' /\ client[conn[f]].pc # "gone" /\ OneCall(f, conn[f])
               => OneCall(f, conn[f])'
    PROVE  IndInv'
<1> USE DEF IndInv
<1> DEFINE c == conn[f]
<1>1. /\ f \in Fds /\ c \in Conns /\ c # None /\ ~Shut(c) /\ c \notin backlog
      /\ client[c].pc # "new" /\ \A g \in Fds : conn[g] = c => g = f
  BY OpenConn
<1>2. \A g \in Fds : g # f => ~Submitting(g)'
  BY DEF Submitting
<1>3. \A g \in Fds : ~Submitting(g)
  BY DEF Submitting
<1>4. InPool' = InPool
  BY SamePool DEF poolVars
<1>5. SocketsOpen'
  <2>1. \A d \in Conns : Shut(d)' = Shut(d)
    BY DEF Shut
  <2>2. loop'.at = "submit" => loop'.fd \in watched'
    OBVIOUS
  <2>3. \A d \in Conns : Shut(d)' => up'[d] = <<>>
    BY <1>1, <2>1 DEF SocketsOpen
  <2> QED
    BY <2>1, <2>2, <2>3 DEF SocketsOpen
<1>6. \A g \in Fds, d \in Conns : Trace(g, d)' => Trace(g, d)
  <2> SUFFICES ASSUME NEW g \in Fds, NEW d \in Conns, Trace(g, d)' PROVE Trace(g, d)
    OBVIOUS
  <2>1. CASE conn'[g] = d
    BY <2>1 DEF Trace
  <2>2. ASSUME NEW i \in DOMAIN sock'[g].buf,
               sock'[g].buf[i] # Junk, sock'[g].buf[i].req.conn = d
        PROVE  Trace(g, d)
    <3>1. CASE g # f \/ sock'[g].buf[i] = sock[g].buf[i]
      <4>1. i \in DOMAIN sock[g].buf /\ sock'[g].buf[i] = sock[g].buf[i]
        BY <2>2, <3>1
      <4> QED
        BY <2>2, <4>1 DEF Trace
    <3>2. CASE g = f /\ sock'[g].buf[i] # sock[g].buf[i]
      <4>1. PICK j \in DOMAIN up[c] : sock'[g].buf[i] = up[c][j]
        BY <2>2, <3>2
      <4>2. d = c
        BY <1>1, <2>2, <4>1 DEF OneDescriptor
      <4> QED
        BY <3>2, <4>2 DEF Trace
    <3> QED
      BY <3>1, <3>2
  <2>3. CASE \E t \in InPool' : t.fd = g /\ t.req.conn = d
    BY <1>4, <2>3 DEF Trace
  <2> QED
    BY <2>1, <2>2, <2>3 DEF Trace
<1>7. OneDescriptor'
  <2>1. ASSUME NEW d \in Conns, NEW i \in DOMAIN up'[d] PROVE up'[d][i].req.conn = d
    <3>1. CASE d # c
      BY <2>1, <3>1 DEF OneDescriptor
    <3>2. CASE d = c
      BY <1>1, <2>1, <3>2 DEF OneDescriptor
    <3> QED
      BY <3>1, <3>2
  <2> QED
    BY <1>6, <2>1 DEF OneDescriptor
<1>8. TicketsApart'
  BY <1>4 DEF TicketsApart, poolVars
<1>9. \A d \in Conns : d # c =>
          /\ Orderly(up[d])' = Orderly(up[d]) /\ LastOnly(d)' = LastOnly(d)
          /\ \A h \in Nat : Ends(d, h)' = Ends(d, h)
  <2> SUFFICES ASSUME NEW d \in Conns, d # c
               PROVE  /\ Orderly(up[d])' = Orderly(up[d]) /\ LastOnly(d)' = LastOnly(d)
                      /\ \A h \in Nat : Ends(d, h)' = Ends(d, h)
    OBVIOUS
  <2>1. up'[d] = up[d] /\ client' = client
    OBVIOUS
  <2> QED
    BY <2>1, SameStream
<1>10. Streams'
  <2>1. ASSUME NEW d \in backlog PROVE Orderly(up[d])' /\ Ends(d, 0)'
    <3>1. d \in Conns /\ d # c /\ Orderly(up[d]) /\ Ends(d, 0)
      BY <1>1 DEF TypeOK, Streams
    <3> QED
      BY <1>9, <3>1
  <2>2. ASSUME NEW g \in watched \ split', g # f
        PROVE  Orderly(up[conn[g]])' /\ Ends(conn[g], Expected(g))'
    <3>1. g \in Fds /\ conn'[g] = conn[g] /\ conn[g] \in Conns /\ conn[g] # c /\ g \notin split
      BY <1>1, <2>2 DEF TypeOK, SocketsOpen
    <3>2. Expected(g) \in Nat /\ Expected(g)' = Expected(g)
      BY <1>2, <1>3, <2>2, <3>1, ExpectedTyped DEF Expected
    <3>3. Orderly(up[conn[g]]) /\ Ends(conn[g], Expected(g))
      BY <2>2, <3>1 DEF Streams
    <3> QED
      BY <1>9, <3>1, <3>2, <3>3
  <2> QED
    BY <2>1, <2>2 DEF Streams
<1>11. WholeInBuffer'
  <2>1. ASSUME NEW g \in Fds \ split'
        PROVE  sock'[g].offset = 0 /\ sock'[g].unread = sock'[g].length
    <3>1. CASE g = f
      BY <2>1, <3>1
    <3>2. CASE g # f
      <4>1. g \in Fds \ split /\ sock'[g] = sock[g]
        BY <2>1, <3>2
      <4> QED
        BY <4>1 DEF WholeInBuffer
    <3> QED
      BY <3>1, <3>2
  <2>2. ASSUME f \notin split', loop'.at = "submit"
        PROVE  LET r == sock'[f].buf[1].req
               IN  /\ sock'[f].buf[1] # Junk /\ r.conn = c /\ r.length = sock'[f].length
                   /\ \A k \in 1 .. sock'[f].length : sock'[f].buf[k] = [req |-> r, unit |-> k]
                   /\ r.call <= client[c].calls
                   /\ client[c].pc = "sending" => r.call < client[c].calls
                   /\ \A i \in DOMAIN up'[c] : r.call < up'[c][i].req.call
                   /\ \A t \in InPool : t.fd = f /\ t.req.conn = c => t.req.call < r.call
    <3> DEFINE r == sock'[f].buf[1].req
    <3>1. PICK j \in DOMAIN up[c] : r = up[c][j].req
      BY <2>2
    <3>2. r.conn = c
      <4>1. up[c][j].req.conn = c
        BY <1>1 DEF OneDescriptor
      <4> QED
        BY <3>1, <4>1
    <3>3. r.call <= client[c].calls
      BY <2>2, <3>1 DEF Streams, Ends
    <3>4. ASSUME NEW t \in InPool, t.fd = f, t.req.conn = c PROVE t.req.call < r.call
      <4>1. t.fd # -1 /\ t.fd \notin split
        BY <1>1, <2>2, <3>4, Distinct
      <4>2. \A i \in DOMAIN up[t.req.conn] : t.req.call < up[t.req.conn][i].req.call
        BY <4>1 DEF TasksWhole
      <4> HIDE DEF r
      <4> QED
        BY <3>1, <3>4, <4>2
    <3> HIDE DEF r
    <3> QED
      BY <2>2, <3>2, <3>3, <3>4 DEF r
  <2>3. \A g \in Fds : Submitting(g)' => g = f /\ loop'.at = "submit"
    BY <1>2 DEF Submitting
  <2> SUFFICES ASSUME NEW g \in Fds \ split', Submitting(g)'
               PROVE  LET d == conn'[g]
                          r == sock'[g].buf[1].req
                      IN  /\ sock'[g].buf[1] # Junk /\ r.conn = d /\ r.length = sock'[g].length
                          /\ \A k \in 1 .. sock'[g].length : sock'[g].buf[k] = [req |-> r, unit |-> k]
                          /\ r.call <= client'[d].calls
                          /\ client'[d].pc = "sending" => r.call < client'[d].calls
                          /\ \A i \in DOMAIN up'[d] : r.call < up'[d][i].req.call
                          /\ \A t \in InPool' : t.fd = g /\ t.req.conn = d => t.req.call < r.call
    BY <2>1 DEF WholeInBuffer
  <2>4. g = f /\ f \notin split' /\ loop'.at = "submit"
    BY <2>3
  <2>5. conn'[g] = c /\ client' = client
    BY <2>4
  <2> QED
    BY <1>4, <2>2, <2>4, <2>5
<1>12. TasksWhole'
  <2> SUFFICES ASSUME NEW t \in InPool, t.fd # -1, t.fd \notin split',
                      NEW i \in DOMAIN up'[t.req.conn]
               PROVE  t.req.call < up'[t.req.conn][i].req.call
    BY <1>4 DEF TasksWhole
  <2>1. t.req.conn \in Conns /\ t.fd \notin split
    BY TaskTyped
  <2>2. \A j \in DOMAIN up[t.req.conn] : t.req.call < up[t.req.conn][j].req.call
    BY <2>1 DEF TasksWhole
  <2>3. \E j \in DOMAIN up[t.req.conn] : up'[t.req.conn][i].req = up[t.req.conn][j].req
    BY <2>1
  <2> QED
    BY <2>2, <2>3
<1>13. \A g \in Fds : InServer(g)' = InServer(g) /\ Tasked(g)' = Tasked(g)
                      /\ Answered(g)' = Answered(g)
  BY <1>4 DEF InServer, Tasked, Answered, poolVars
<1>14. ASSUME NEW g \in Fds, g # f, NEW d \in Conns, d # c, OneCall(g, d)
       PROVE  OneCall(g, d)'
  <2>1. ~Submitting(g)' /\ LastOnly(d)' /\ up'[d] = up[d] /\ Own(d)' = Own(d)
        /\ responses' = responses
    <3>1. LastOnly(d)' /\ ~Submitting(g)'
      BY <1>2, <1>9, <1>14 DEF OneCall
    <3>2. Own(d)' = Own(d)
      BY DEF Own, Request, Response
    <3> QED
      BY <1>14, <3>1, <3>2 DEF poolVars
  <2> QED
    BY <1>4, <1>13, <1>14, <2>1 DEF OneCall
<1>15. Served'
  <2>1. ASSUME NEW d \in backlog PROVE LastOnly(d)'
    <3>1. d \in Conns /\ d # c /\ LastOnly(d)
      BY <1>1 DEF TypeOK, Served
    <3> QED
      BY <1>9, <3>1
  <2>2. ASSUME NEW g \in Sound'
        PROVE  /\ conn'[g] = None => ~InServer(g)'
               /\ \A t \in InPool' : t.fd = g => t.req.conn = conn'[g]
               /\ conn'[g] # None => client'[conn'[g]].pc = "gone" \/ OneCall(g, conn[g])'
               /\ conn'[g] # None /\ client'[conn'[g]].pc = "gone" =>
                     client'[conn'[g]].answer = None /\ down'[conn'[g]] = <<>>
    <3>1. g \in Sound /\ g \in Fds
      BY DEF Sound
    <3>2. /\ conn[g] = None => ~InServer(g)
          /\ \A t \in InPool : t.fd = g => t.req.conn = conn[g]
          /\ conn[g] # None => client[conn[g]].pc = "gone" \/ OneCall(g, conn[g])
          /\ conn[g] # None /\ client[conn[g]].pc = "gone" =>
                client[conn[g]].answer = None /\ down[conn[g]] = <<>>
      BY <3>1 DEF Served
    <3>3. conn[g] # None => OneCall(g, conn[g])' \/ client[conn[g]].pc = "gone"
      <4>1. CASE g = f
        BY <2>2, <3>2, <4>1
      <4>2. CASE g # f
        <5>1. conn[g] # None => conn[g] \in Conns /\ conn[g] # c
          BY <1>1, <3>1, <4>2 DEF TypeOK
        <5> QED
          BY <1>14, <3>1, <3>2, <4>2, <5>1
      <4> QED
        BY <4>1, <4>2
    <3> QED
      BY <1>4, <1>13, <3>1, <3>2, <3>3
  <2> QED
    BY <2>1, <2>2 DEF Served
<1> QED
  BY <1>5, <1>7, <1>8, <1>10, <1>11, <1>12, <1>15

(* What is left of an orderly stream is orderly. *)
LEMMA OrderlySuffix ==
    ASSUME NEW q \in Seq(UpUnits), NEW p \in Seq(UpUnits), NEW k \in Nat,
           Len(p) = Len(q) - k, \A i \in 1 .. Len(p) : p[i] = q[k + i], Orderly(q)
    PROVE  Orderly(p)
<1>0. ASSUME NEW i \in DOMAIN p PROVE p[i].unit <= p[i].req.length
  <2>1. i \in 1 .. Len(p) /\ k + i \in DOMAIN q
    OBVIOUS
  <2> QED
    BY <2>1 DEF Orderly
<1> SUFFICES ASSUME NEW i \in DOMAIN p, NEW j \in DOMAIN p, i <= j
             PROVE  IF j - i <= p[i].req.length - p[i].unit
                    THEN p[j].req = p[i].req /\ p[j].unit = p[i].unit + (j - i)
                    ELSE /\ p[i].req.call < p[j].req.call
                         /\ j - i = p[i].req.length - p[i].unit + 1 => p[j].unit = 0
  BY <1>0 DEF Orderly
<1>1. /\ i \in Nat /\ j \in Nat /\ k + i \in DOMAIN q /\ k + j \in DOMAIN q
      /\ k + i <= k + j /\ (k + j) - (k + i) = j - i
      /\ p[i] = q[k + i] /\ p[j] = q[k + j]
  <2>1. DOMAIN p = 1 .. Len(p) /\ DOMAIN q = 1 .. Len(q) /\ Len(p) \in Nat /\ Len(q) \in Nat
    OBVIOUS
  <2>2. i \in Nat /\ j \in Nat /\ i \in 1 .. Len(p) /\ j \in 1 .. Len(p)
    BY <2>1
  <2>3. k + i \in 1 .. Len(q) /\ k + j \in 1 .. Len(q) /\ (k + j) - (k + i) = j - i
    BY <2>1, <2>2
  <2> QED
    BY <2>1, <2>2, <2>3
<1> QED
  BY <1>1 DEF Orderly

(* The units that ReadCb finds behind the header, and how many it takes. *)
LEMMA BodyTyped ==
    ASSUME IndInv, NEW f \in Fds, NEW s \in AtBody(f)
    PROVE  /\ f \in watched /\ loop.at = "idle" /\ conn[f] \in Conns
           /\ Header(f) \in {0, 1}
           /\ BodyUnits(f) \in Seq(UpUnits)
           /\ Len(BodyUnits(f)) = Len(up[conn[f]]) - Header(f)
           /\ \A i \in 1 .. Len(BodyUnits(f)) : BodyUnits(f)[i] = up[conn[f]][i + Header(f)]
           /\ Got(f, s) \in Nat /\ Got(f, s) <= Len(BodyUnits(f)) /\ Got(f, s) <= s.unread
           /\ Got(f, s) < s.unread => Got(f, s) = Len(BodyUnits(f))
<1> USE DEF IndInv
<1>1. f \in watched /\ loop.at = "idle" /\ conn[f] \in Conns
  BY AtBodyTyped, OpenConn DEF Readable
<1> DEFINE q == up[conn[f]]
<1>2. q \in Seq(UpUnits) /\ Len(q) \in Nat
  BY <1>1, UpTyped
<1>3. /\ BodyUnits(f) \in Seq(UpUnits) /\ Len(BodyUnits(f)) = Len(q) - Header(f)
      /\ \A i \in 1 .. Len(BodyUnits(f)) : BodyUnits(f)[i] = q[i + Header(f)]
  <2>1. CASE sock[f].length # 0
    BY <1>2, <2>1 DEF BodyUnits, Header
  <2>2. CASE sock[f].length = 0
    <3>1. q # <<>>
      BY <2>2, AtBodyTyped
    <3>2. /\ Tail(q) \in Seq(UpUnits) /\ Len(Tail(q)) = Len(q) - 1
          /\ \A i \in 1 .. Len(Tail(q)) : Tail(q)[i] = q[i + 1]
      BY <1>2, <3>1, HeadTailProperties
    <3>3. BodyUnits(f) = Tail(q) /\ Header(f) = 1
      BY <2>2 DEF BodyUnits, Header
    <3> QED
      BY <3>2, <3>3
  <2> QED
    BY <2>1, <2>2
<1>4. s.unread \in Nat
  BY AtBodyTyped
<1>5. Len(BodyUnits(f)) \in Nat
  BY <1>3
<1>6. /\ Got(f, s) \in Nat /\ Got(f, s) <= Len(BodyUnits(f)) /\ Got(f, s) <= s.unread
      /\ Got(f, s) < s.unread => Got(f, s) = Len(BodyUnits(f))
  BY <1>4, <1>5 DEF Got
<1>7. Header(f) \in {0, 1}
  BY DEF Header
<1> QED
  BY <1>1, <1>3, <1>6, <1>7

(* The buffer after the units were stored. *)
LEMMA StoredTyped ==
    ASSUME IndInv, NEW f \in Fds, NEW s \in AtBody(f)
    PROVE  /\ Stored(f, s) \in SocketStates
           /\ Stored(f, s).length = s.length /\ Stored(f, s).unread = s.unread
           /\ Stored(f, s).offset = s.offset
           /\ \A i \in DOMAIN Stored(f, s).buf : i \in DOMAIN sock[f].buf /\
                 \/ Stored(f, s).buf[i] = sock[f].buf[i]
                 \/ \E j \in DOMAIN up[conn[f]] : Stored(f, s).buf[i] = up[conn[f]][j]
           /\ f \notin split => \A i \in 1 .. Got(f, s) : Stored(f, s).buf[i] = BodyUnits(f)[i]
<1> USE DEF IndInv
<1> DEFINE q == up[conn[f]]
           b == BodyUnits(f)
           h == Header(f)
           N == 1 .. (2 * Limit)
           buf == [i \in DOMAIN s.buf |->
                     IF i \in (s.offset + 1) .. (s.offset + Got(f, s))
                     THEN b[i - s.offset] ELSE s.buf[i]]
<1>1. s \in SocketStates /\ s.buf = sock[f].buf
  BY AtBodyTyped
<1>2. s.buf \in [N -> UpUnits \cup {Junk}] /\ DOMAIN s.buf = N /\ s.offset \in Nat
  BY <1>1, BodyAssumption DEF SocketStates
<1>3. /\ h \in {0, 1} /\ b \in Seq(UpUnits) /\ Len(b) = Len(q) - h
      /\ \A i \in 1 .. Len(b) : b[i] = q[i + h]
      /\ Got(f, s) \in Nat /\ Got(f, s) <= Len(b) /\ Got(f, s) <= Limit /\ conn[f] \in Conns
  BY BodyTyped, AtBodyTyped, BodyAssumption
<1>4. q \in Seq(UpUnits) /\ Len(q) \in Nat /\ DOMAIN q = 1 .. Len(q)
  BY <1>3, UpTyped
<1>5. Stored(f, s) = [s EXCEPT !.buf = buf]
  BY DEF Stored
<1> HIDE DEF b, h, q
<1>6. ASSUME NEW i \in N
      PROVE  /\ buf[i] \in UpUnits \cup {Junk}
             /\ buf[i] = s.buf[i] \/ \E j \in DOMAIN q : buf[i] = q[j]
  <2>1. CASE i \in (s.offset + 1) .. (s.offset + Got(f, s))
    <3>1. i - s.offset \in 1 .. Len(b) /\ i - s.offset \in Nat
      BY <1>2, <1>3, <2>1
    <3>2. b[i - s.offset] \in UpUnits
      BY <1>3, <3>1
    <3>3. (i - s.offset) + h \in DOMAIN q /\ b[i - s.offset] = q[(i - s.offset) + h]
      <4>1. (i - s.offset) + h \in 1 .. Len(q)
        BY <1>3, <1>4, <3>1
      <4> QED
        BY <1>3, <1>4, <3>1, <4>1
    <3>4. buf[i] = b[i - s.offset]
      BY <1>2, <2>1
    <3> QED
      BY <3>2, <3>3, <3>4
  <2>2. CASE i \notin (s.offset + 1) .. (s.offset + Got(f, s))
    BY <1>2, <2>2
  <2> QED
    BY <2>1, <2>2
<1>7. buf \in [N -> UpUnits \cup {Junk}] /\ DOMAIN buf = N
  BY <1>2, <1>6
<1>8. ASSUME f \notin split, NEW i \in 1 .. Got(f, s) PROVE buf[i] = b[i]
  <2>1. s.offset = 0
    BY <1>8, AtBodyTyped
  <2>2. i \in N /\ i \in (s.offset + 1) .. (s.offset + Got(f, s)) /\ i - s.offset = i
    BY <1>3, <2>1, BodyAssumption
  <2> QED
    BY <1>2, <2>2
<1> HIDE DEF buf
<1>9. /\ Stored(f, s) \in SocketStates /\ Stored(f, s).buf = buf
      /\ Stored(f, s).length = s.length /\ Stored(f, s).unread = s.unread
      /\ Stored(f, s).offset = s.offset
  BY <1>1, <1>5, <1>7 DEF SocketStates
<1>10. \A i \in DOMAIN buf : i \in DOMAIN sock[f].buf /\
            \/ buf[i] = sock[f].buf[i]
            \/ \E j \in DOMAIN q : buf[i] = q[j]
  BY <1>1, <1>2, <1>6, <1>7
<1> QED
  BY <1>1, <1>8, <1>9, <1>10 DEF b, q

(* What is left on its way after a read. *)
LEMMA ConsumedTyped ==
    ASSUME IndInv, NEW f \in Fds, NEW s \in AtBody(f), Consumed(f, s)
    PROVE  LET q == up[conn[f]]
               p == up'[conn[f]]
               k == Header(f) + Got(f, s)
           IN  /\ up' \in [Conns -> Seq(UpUnits)]
               /\ \A d \in Conns : d # conn[f] => up'[d] = up[d]
               /\ p \in Seq(UpUnits) /\ Len(p) = Len(q) - k
               /\ \A i \in 1 .. Len(p) : p[i] = q[k + i]
               /\ \A i \in DOMAIN p : \E j \in DOMAIN q : p[i] = q[j]
<1> USE DEF IndInv
<1> DEFINE c == conn[f]
           q == up[c]
           b == BodyUnits(f)
           h == Header(f)
           G == Got(f, s)
           p == SubSeq(b, G + 1, Len(b))
<1>1. /\ h \in {0, 1} /\ b \in Seq(UpUnits) /\ Len(b) = Len(q) - h
      /\ \A i \in 1 .. Len(b) : b[i] = q[i + h]
      /\ G \in Nat /\ G <= Len(b) /\ c \in Conns
  BY BodyTyped
<1>2. q \in Seq(UpUnits) /\ Len(q) \in Nat /\ DOMAIN q = 1 .. Len(q)
  BY <1>1, UpTyped
<1>3. up' = [up EXCEPT ![c] = p]
  BY DEF Consumed
<1> HIDE DEF b, h, G
<1>4. /\ p \in Seq(UpUnits) /\ Len(p) = Len(b) - G
      /\ \A i \in 1 .. (Len(b) - G) : p[i] = b[G + i]
  <2>0. Len(b) \in Nat
    BY <1>1
  <2>1. \A i \in (G + 1) .. Len(b) : b[i] \in UpUnits
    BY <1>1
  <2>2. /\ p \in Seq(UpUnits)
        /\ Len(p) = IF G + 1 <= Len(b) THEN Len(b) - (G + 1) + 1 ELSE 0
        /\ \A i \in 1 .. (Len(b) - (G + 1) + 1) : p[i] = b[(G + 1) + i - 1]
    BY <1>1, <2>0, <2>1, SubSeqProperties
  <2> HIDE DEF p
  <2>3. Len(p) = Len(b) - G /\ (Len(b) - (G + 1)) + 1 = Len(b) - G
    BY <1>1, <2>0, <2>2
  <2>4. ASSUME NEW i \in 1 .. (Len(b) - G) PROVE p[i] = b[G + i]
    <3>1. (G + 1) + i - 1 = G + i
      BY <1>1
    <3> QED
      BY <2>2, <2>3, <3>1
  <2> QED
    BY <2>2, <2>3, <2>4
<1> HIDE DEF p
<1>5. ASSUME NEW i \in 1 .. Len(p)
      PROVE  p[i] = q[(h + G) + i] /\ (h + G) + i \in DOMAIN q
  <2>1. /\ i \in 1 .. (Len(b) - G) /\ G + i \in 1 .. Len(b)
        /\ (G + i) + h = (h + G) + i /\ (h + G) + i \in 1 .. Len(q)
    BY <1>1, <1>2, <1>4
  <2>2. p[i] = b[G + i] /\ b[G + i] = q[(G + i) + h]
    BY <1>1, <1>4, <2>1
  <2> QED
    BY <1>2, <2>1, <2>2
<1>6. /\ up'[c] = p /\ up' \in [Conns -> Seq(UpUnits)]
      /\ \A d \in Conns : d # c => up'[d] = up[d]
  BY <1>1, <1>3, <1>4 DEF TypeOK
<1>7. Len(p) = Len(q) - (h + G) /\ DOMAIN p = 1 .. Len(p)
  BY <1>1, <1>2, <1>4
<1> QED
  BY <1>4, <1>5, <1>6, <1>7 DEF h, G

(* A read that finds nothing behind the header. *)
LEMMA ReadNothingInv ==
    ASSUME IndInv, NEW f \in Fds, NEW s \in AtBody(f), ReadNothing(f, s) PROVE IndInv'
<1> USE DEF IndInv
<1> DEFINE c == conn[f]
           q == up[c]
<1>1. /\ Got(f, s) = 0 /\ sock' = [sock EXCEPT ![f] = s] /\ Consumed(f, s)
      /\ UNCHANGED <<client, down, backlog, conn, out, watched, loop, poolVars, history>>
  BY DEF ReadNothing
<1>2. f \in watched /\ loop.at = "idle" /\ c \in Conns
  BY <1>1, BodyTyped
<1>3. /\ sock'[f] = s /\ s \in SocketStates /\ s.buf = sock[f].buf
      /\ \A g \in Fds : g # f => sock'[g] = sock[g]
  BY <1>1, AtBodyTyped DEF TypeOK
<1>4. /\ up' \in [Conns -> Seq(UpUnits)]
      /\ \A d \in Conns : d # c => up'[d] = up[d]
      /\ \A i \in DOMAIN up'[c] : \E j \in DOMAIN up[c] : up'[c][i] = up[c][j]
      /\ up'[c] \in Seq(UpUnits) /\ Len(up'[c]) = Len(q) - (Header(f) + Got(f, s))
  BY <1>1, ConsumedTyped
<1>5. TypeOK'
  <2>1. sock' \in [Fds -> SocketStates]
    BY <1>1, <1>3 DEF TypeOK
  <2> QED
    BY <1>1, <1>4, <2>1 DEF TypeOK, poolVars, history
<1>6. ~Submitting(f)' /\ ~Submitting(f)
  BY <1>1, <1>2 DEF Submitting
<1>6a. f \notin split => Len(q) = Header(f) /\ q \in Seq(UpUnits) /\ up'[c] = <<>>
  <2> SUFFICES ASSUME f \notin split
               PROVE  Len(q) = Header(f) /\ q \in Seq(UpUnits) /\ up'[c] = <<>>
    OBVIOUS
  <2>1. Got(f, s) < s.unread
    BY <1>1, AtBodyTyped
  <2>2. Len(BodyUnits(f)) = 0 /\ Len(BodyUnits(f)) = Len(q) - Header(f) /\ Header(f) \in {0, 1}
    BY <1>1, <2>1, BodyTyped
  <2>3. q \in Seq(UpUnits) /\ Len(q) \in Nat
    BY <1>2, UpTyped
  <2> HIDE DEF q
  <2>4. Len(q) = Header(f)
    BY <2>2, <2>3
  <2>4a. Len(up'[c]) = 0
    BY <1>1, <1>4, <2>2, <2>4
  <2> QED
    BY <1>4, <2>3, <2>4, <2>4a
<1>7. ASSUME f \notin split
      PROVE  /\ sock'[f].offset = 0 /\ sock'[f].unread = sock'[f].length
             /\ Orderly(up[c])' /\ Ends(c, Expected(f))'
  <2>1. /\ sock'[f].offset = 0 /\ sock'[f].unread = sock'[f].length
        /\ s.length \in Nat /\ s.length >= 1
    BY <1>3, <1>7, AtBodyTyped
  <2>2. Orderly(up[c])'
    <3>1. DOMAIN up'[c] = {} /\ conn' = conn
      BY <1>1, <1>6a, <1>7
    <3> QED
      BY <3>1 DEF Orderly
  <2>3. Expected(f)' = s.length
    BY <1>3, <1>6 DEF Expected
  <2>4. Ends(c, Expected(f))
    BY <1>2, <1>7 DEF Streams
  <2>5. /\ client[c].pc = "sending" => client[c].sent = 1 /\ client[c].length = s.length
        /\ client[c].pc \notin {"idle", "waiting"}
    <3>1. CASE sock[f].length # 0
      <4>1. q = <<>> /\ Expected(f) = s.length
        BY <1>6, <1>6a, <1>7, <3>1, AtBodyTyped DEF Header, Expected
      <4> QED
        BY <2>1, <2>4, <4>1 DEF Ends
    <3>2. CASE sock[f].length = 0
      <4>1. q # <<>> /\ Len(q) = 1 /\ Expected(f) = 0
        BY <1>6, <1>6a, <1>7, <3>2, AtBodyTyped DEF Header, Expected
      <4>2. q[1].unit = 0 /\ q[1].req.length = s.length
        BY <1>7, <3>2, <4>1, AtBodyTyped DEF Header
      <4>3. /\ client[c].pc = "sending" /\ client[c].sent # 0 =>
                  q[1] = [req |-> Request(c), unit |-> client[c].sent - 1]
            /\ client[c].pc = "sending" /\ client[c].sent = 0 => q[1].unit = q[1].req.length
            /\ client[c].pc \in {"idle", "waiting"} => q[1].unit = q[1].req.length
        BY <2>4, <4>1 DEF Ends
      <4>4. client[c].sent \in Nat /\ Request(c).length = client[c].length
        BY <1>2 DEF TypeOK, Clients, Request
      <4> QED
        BY <2>1, <4>2, <4>3, <4>4
    <3> QED
      BY <3>1, <3>2
  <2>6. Ends(c, Expected(f))'
    BY <1>1, <1>6a, <1>7, <2>1, <2>3, <2>5 DEF Ends
  <2> QED
    BY <2>1, <2>2, <2>6
<1>8. ASSUME f \in Sound', OneCall(f, c) PROVE OneCall(f, c)'
  <2>0. up'[c] = <<>>
    BY <1>1, <1>6a, <1>8 DEF Sound, history
  <2>1. InPool' = InPool /\ responses' = responses /\ Own(c)' = Own(c)
    BY <1>1, SamePool DEF poolVars, Own, Request, Response
  <2>2. LastOnly(c)'
    BY <1>1, <2>0 DEF LastOnly
  <2> QED
    BY <1>1, <1>3, <1>6, <1>8, <2>0, <2>1, <2>2 DEF OneCall, Tasked, Answered
<1> QED
  <2>1. /\ UNCHANGED <<client, down, backlog, conn, out, watched, poolVars, orphaned, spoilt>>
        /\ split' = split /\ loop' = loop
    BY <1>1 DEF history
  <2>2. \A i \in DOMAIN sock'[f].buf :
           i \in DOMAIN sock[f].buf /\ sock'[f].buf[i] = sock[f].buf[i]
    BY <1>3
  <2>3. \A i \in DOMAIN up'[c] : \E j \in DOMAIN up[c] : up'[c][i].req = up[c][j].req
    BY <1>4
  <2> QED
    BY <1>2, <1>3, <1>4, <1>5, <1>7, <1>8, <2>1, <2>2, <2>3, ReadFrame

(* A read of part of a header. *)
LEMMA ReadHeaderPartInv == ASSUME IndInv, NEW f \in Fds, ReadHeaderPart(f) PROVE IndInv'
<1> USE DEF IndInv
<1> DEFINE c == conn[f]
           r == Head(up[c]).req
<1>1. /\ Readable(f) /\ up[c] # <<>>
      /\ UNCHANGED <<client, down, backlog, out, loop, poolVars, crashed, spoilt>>
  BY DEF ReadHeaderPart, ReadsHeader
<1>2. f \in watched /\ loop.at = "idle" /\ c \in Conns
  BY <1>1, OpenConn DEF Readable
<1>3. 1 \in DOMAIN up[c] /\ r = up[c][1].req /\ r \in Requests /\ r.length \in Nat
  BY <1>1, <1>2, UpTyped
<1>4. CASE StopWatcherAndCloseSocket(f) /\ UNCHANGED <<sock, split>>
  BY <1>1, <1>4, ReadCloseInv
<1>5. ASSUME NEW l \in 0 .. r.length, ~Refused(l),
             sock' = [sock EXCEPT ![f] = AfterHeader(sock[f], l)],
             up' = [up EXCEPT ![c] = <<HeaderRest(r)>>],
             split' = split \cup {f}, UNCHANGED <<conn, watched, orphaned>>
      PROVE  IndInv'
  <2>1. l \in 0 .. Limit
    BY <1>3, <1>5, BodyAssumption DEF Refused
  <2>2. /\ sock'[f] \in SocketStates /\ sock'[f].buf = sock[f].buf
        /\ \A g \in Fds : g # f => sock'[g] = sock[g]
    BY <1>5, <2>1, HeaderTyped DEF TypeOK
  <2>3. HeaderRest(r) \in UpUnits /\ HeaderRest(r).req = r
    BY <1>3 DEF HeaderRest, UpUnits
  <2> HIDE DEF r
  <2>4. /\ up' \in [Conns -> Seq(UpUnits)] /\ up'[c] = <<HeaderRest(r)>>
        /\ \A d \in Conns : d # c => up'[d] = up[d]
    BY <1>2, <1>5, <2>3 DEF TypeOK
  <2>5. \A i \in DOMAIN up'[c] : up'[c][i].req = up[c][1].req
    BY <1>3, <2>3, <2>4
  <2>6. TypeOK'
    <3>1. sock' \in [Fds -> SocketStates]
      BY <1>5, <2>2 DEF TypeOK
    <3> QED
      BY <1>1, <1>5, <2>4, <3>1 DEF TypeOK, poolVars
  <2>7. f \in split' /\ f \notin Sound'
    BY <1>5 DEF Sound
  <2> QED
    BY <1>1, <1>2, <1>3, <1>5, <2>2, <2>4, <2>5, <2>6, <2>7, ReadFrame
<1> QED
  BY <1>4, <1>5 DEF ReadHeaderPart

(* A read of part of a packet. *)
LEMMA ReadPartInv ==
    ASSUME IndInv, NEW f \in Fds, NEW s \in AtBody(f), ReadPart(f, s) PROVE IndInv'
<1> USE DEF IndInv
<1> DEFINE c == conn[f]
           z == [Stored(f, s) EXCEPT !.offset = Got(f, s), !.unread = s.length - Got(f, s)]
<1>1. /\ Got(f, s) \in 1 .. (s.length - 1) /\ Consumed(f, s) /\ crashed' \in BOOLEAN
      /\ sock' = [sock EXCEPT ![f] = z] /\ split' = split \cup {f}
      /\ UNCHANGED <<client, down, backlog, conn, out, watched, loop, poolVars,
                     orphaned, spoilt>>
  BY DEF ReadPart, Overrun
<1>2. f \in watched /\ loop.at = "idle" /\ c \in Conns
  BY <1>1, BodyTyped
<1>3. z \in SocketStates /\ z.buf = Stored(f, s).buf
  <2>1. Got(f, s) \in 0 .. Limit /\ s.length - Got(f, s) \in 0 .. Limit
    BY <1>1, AtBodyTyped, BodyAssumption
  <2>2. Stored(f, s) \in SocketStates
    BY <1>1, StoredTyped
  <2> QED
    BY <2>1, <2>2 DEF SocketStates
<1> HIDE DEF z
<1>4. sock'[f] = z /\ \A g \in Fds : g # f => sock'[g] = sock[g]
  BY <1>1 DEF TypeOK
<1>5. /\ up' \in [Conns -> Seq(UpUnits)]
      /\ \A d \in Conns : d # c => up'[d] = up[d]
      /\ \A i \in DOMAIN up'[c] : \E j \in DOMAIN up[c] : up'[c][i] = up[c][j]
  BY <1>1, ConsumedTyped
<1>6. TypeOK'
  <2>1. sock' \in [Fds -> SocketStates]
    BY <1>1, <1>3 DEF TypeOK
  <2> QED
    BY <1>1, <1>5, <2>1 DEF TypeOK, poolVars
<1>7. \A i \in DOMAIN sock'[f].buf : i \in DOMAIN sock[f].buf /\
         \/ sock'[f].buf[i] = sock[f].buf[i]
         \/ \E j \in DOMAIN up[c] : sock'[f].buf[i] = up[c][j]
  BY <1>1, <1>3, <1>4, StoredTyped
<1>8. /\ UNCHANGED <<client, down, backlog, conn, out, watched, poolVars, orphaned, spoilt>>
      /\ split' = split \cup {f} /\ f \in split' /\ f \notin Sound' /\ loop' = loop
  BY <1>1 DEF Sound
<1> QED
  BY <1>2, <1>4, <1>5, <1>6, <1>7, <1>8, ReadFrame

(* The body that ReadCb reads in one piece is that of one request, whose   *)
(* units are all there; what is left starts with the next header.          *)
LEMMA WholeBody ==
    ASSUME IndInv, NEW f \in Fds \ split, NEW s \in AtBody(f), Got(f, s) = s.length
    PROVE  LET q == up[conn[f]]
               r == q[1].req
               k == Header(f) + s.length
           IN  /\ q \in Seq(UpUnits) /\ k <= Len(q) /\ k \in Nat
               /\ DOMAIN q = 1 .. Len(q) /\ Len(q) \in Nat /\ 1 \in DOMAIN q
               /\ \A i \in 1 .. s.length : BodyUnits(f)[i] = [req |-> r, unit |-> i]
               /\ \A i \in DOMAIN q : i > k => r.call < q[i].req.call
               /\ k < Len(q) => q[k + 1].unit = 0
               /\ q[k].req = r /\ q[k].unit = s.length
               /\ r.call \in Nat /\ r.length = s.length /\ Orderly(q) /\ Ends(conn[f], Expected(f))
<1> USE DEF IndInv
<1> DEFINE q == up[conn[f]]
           r == q[1].req
           h == Header(f)
           k == h + s.length
<1>1. /\ f \in watched /\ loop.at = "idle" /\ conn[f] \in Conns /\ h \in {0, 1}
      /\ Len(BodyUnits(f)) = Len(q) - h /\ s.length <= Len(BodyUnits(f))
      /\ s.length \in Nat /\ s.length >= 1
      /\ \A i \in 1 .. Len(BodyUnits(f)) : BodyUnits(f)[i] = q[i + h]
  BY BodyTyped, AtBodyTyped
<1>2. /\ q \in Seq(UpUnits) /\ Len(q) \in Nat /\ DOMAIN q = 1 .. Len(q)
      /\ \A i \in DOMAIN q : q[i] \in UpUnits /\ q[i].req.call \in Nat
  BY <1>1, UpTyped
<1>3. k \in Nat /\ k <= Len(q) /\ 1 \in DOMAIN q /\ k \in DOMAIN q /\ h \in Int
  BY <1>1, <1>2
<1>4. Orderly(q) /\ Ends(conn[f], Expected(f))
  BY <1>1 DEF Streams
<1>5. q # <<>>
  BY <1>3
<1>6. q[1].unit = 1 - h /\ r.length = s.length
  BY <1>5, AtBodyTyped
<1> HIDE DEF q, h
<1>7. ASSUME NEW j \in DOMAIN q
      PROVE  IF j <= k THEN q[j].req = r /\ q[j].unit = (1 - h) + (j - 1)
             ELSE r.call < q[j].req.call /\ (j = k + 1 => q[j].unit = 0)
  <2>1. 1 \in DOMAIN q /\ 1 <= j /\ j \in Nat
    BY <1>2, <1>3
  <2>2. IF j - 1 <= s.length - (1 - h)
        THEN q[j].req = r /\ q[j].unit = (1 - h) + (j - 1)
        ELSE r.call < q[j].req.call /\ (j - 1 = s.length - (1 - h) + 1 => q[j].unit = 0)
    BY <1>4, <1>6, <2>1 DEF Orderly
  <2>3. /\ (j - 1 <= s.length - (1 - h)) <=> (j <= k)
        /\ (j - 1 = s.length - (1 - h) + 1) <=> (j = k + 1)
    <3>1. s.length \in Nat /\ h \in Int /\ j \in Int
      BY <1>1, <1>3, <2>1
    <3> QED
      BY <3>1
  <2> QED
    BY <2>2, <2>3
<1>8. ASSUME NEW i \in 1 .. s.length PROVE BodyUnits(f)[i] = [req |-> r, unit |-> i]
  <2>1. i + h \in DOMAIN q /\ i + h <= k /\ (1 - h) + ((i + h) - 1) = i
        /\ i \in 1 .. Len(BodyUnits(f))
    BY <1>1, <1>2, <1>3
  <2>2. q[i + h].req = r /\ q[i + h].unit = i
    BY <1>7, <2>1
  <2>3. q[i + h] \in UpUnits
    BY <1>2, <2>1
  <2>4. q[i + h] = [req |-> r, unit |-> i]
    BY <2>2, <2>3 DEF UpUnits
  <2> QED
    BY <1>1, <2>1, <2>4
<1>9. q[k].req = r /\ q[k].unit = s.length
  <2>1. (1 - h) + (k - 1) = s.length /\ k <= k
    BY <1>1, <1>3
  <2> QED
    BY <1>3, <1>7, <2>1
<1>10. k < Len(q) => q[k + 1].unit = 0
  <2> SUFFICES ASSUME k < Len(q) PROVE q[k + 1].unit = 0
    OBVIOUS
  <2>1. k + 1 \in DOMAIN q /\ ~(k + 1 <= k)
    BY <1>2, <1>3
  <2> QED
    BY <1>7, <2>1
<1>11. \A i \in DOMAIN q : i > k => r.call < q[i].req.call
  BY <1>2, <1>3, <1>7
<1> QED
  BY <1>2, <1>3, <1>4, <1>6, <1>8, <1>9, <1>10, <1>11 DEF q, h

(* A whole packet is read. *)
LEMMA ReadWholeInv ==
    ASSUME IndInv, NEW f \in Fds, NEW s \in AtBody(f), ReadWhole(f, s) PROVE IndInv'
<1> USE DEF IndInv
<1> DEFINE c == conn[f]
           q == up[c]
           r == q[1].req
           k == Header(f) + s.length
<1>1. /\ Got(f, s) = s.length /\ Consumed(f, s) /\ crashed' \in BOOLEAN
      /\ sock' = [sock EXCEPT ![f] = Stored(f, s)]
      /\ loop' = [at |-> "submit", fd |-> f]
      /\ UNCHANGED <<client, down, backlog, conn, out, watched, poolVars,
                     split, orphaned, spoilt>>
  BY DEF ReadWhole, Overrun
<1>2. f \in watched /\ loop.at = "idle" /\ c \in Conns
  BY <1>1, BodyTyped
<1>3. /\ sock'[f] = Stored(f, s) /\ Stored(f, s) \in SocketStates
      /\ \A g \in Fds : g # f => sock'[g] = sock[g]
  BY <1>1, StoredTyped DEF TypeOK
<1>4. /\ up' \in [Conns -> Seq(UpUnits)]
      /\ \A d \in Conns : d # c => up'[d] = up[d]
      /\ \A i \in DOMAIN up'[c] : \E j \in DOMAIN up[c] : up'[c][i] = up[c][j]
      /\ up'[c] \in Seq(UpUnits) /\ Len(up'[c]) = Len(q) - k
      /\ \A i \in 1 .. Len(up'[c]) : up'[c][i] = q[k + i]
  BY <1>1, ConsumedTyped
<1>5. TypeOK'
  <2>1. sock' \in [Fds -> SocketStates]
    BY <1>1, <1>3 DEF TypeOK
  <2>2. loop' \in [at : {"idle", "submit", "respond"}, fd : Fds \cup {-1}]
    BY <1>1
  <2> QED
    BY <1>1, <1>4, <2>1, <2>2 DEF TypeOK, poolVars
<1>6. \A i \in DOMAIN sock'[f].buf : i \in DOMAIN sock[f].buf /\
         \/ sock'[f].buf[i] = sock[f].buf[i]
         \/ \E j \in DOMAIN up[c] : sock'[f].buf[i] = up[c][j]
  BY <1>1, <1>3, StoredTyped
<1>7. Submitting(f)' /\ loop'.at = "submit" /\ split' = split /\ conn' = conn
      /\ client' = client
  BY <1>1 DEF Submitting
<1>8. ASSUME f \notin split
      PROVE  /\ q \in Seq(UpUnits) /\ k <= Len(q) /\ k \in Nat
             /\ DOMAIN q = 1 .. Len(q) /\ Len(q) \in Nat /\ 1 \in DOMAIN q
             /\ \A i \in 1 .. s.length : BodyUnits(f)[i] = [req |-> r, unit |-> i]
             /\ \A i \in DOMAIN q : i > k => r.call < q[i].req.call
             /\ k < Len(q) => q[k + 1].unit = 0
             /\ q[k].req = r /\ q[k].unit = s.length
             /\ r.call \in Nat /\ r.length = s.length /\ Orderly(q) /\ Ends(c, Expected(f))
  BY <1>1, <1>8, WholeBody
<1> HIDE DEF k
<1>9. ASSUME f \notin split
      PROVE  \A i \in 1 .. s.length : sock'[f].buf[i] = [req |-> r, unit |-> i]
  BY <1>1, <1>3, <1>8, <1>9, StoredTyped
<1>10. ASSUME f \notin split
       PROVE  sock'[f].buf[1] # Junk /\ sock'[f].buf[1].req = r
  <2>1. sock'[f].buf[1] = [req |-> r, unit |-> 1] /\ BodyUnits(f)[1] = [req |-> r, unit |-> 1]
    <3>1. 1 \in 1 .. s.length
      BY <1>10, AtBodyTyped
    <3> QED
      BY <1>8, <1>9, <1>10, <3>1
  <2>2. BodyUnits(f)[1] \in UpUnits
    <3>1. BodyUnits(f) \in Seq(UpUnits) /\ 1 <= s.length /\ s.length <= Len(BodyUnits(f))
          /\ s.length \in Nat
      BY <1>1, <1>10, BodyTyped, AtBodyTyped
    <3> QED
      BY <3>1
  <2> QED
    BY <2>1, <2>2, Distinct
<1>11. ASSUME f \notin split, NEW i \in DOMAIN up'[c] PROVE r.call < up'[c][i].req.call
  <2>1. /\ i \in 1 .. Len(up'[c]) /\ i \in Nat
    BY <1>4, <1>11
  <2>2. k + i \in DOMAIN q /\ k + i > k /\ up'[c][i] = q[k + i]
    BY <1>4, <1>8, <1>11, <2>1
  <2> QED
    BY <1>8, <1>11, <2>2
<1>12. ASSUME f \notin split, client[c].pc = "sending"
       PROVE  r.call < client[c].calls /\ (k = Len(q) => client[c].sent = 0)
  <2> DEFINE m == q[Len(q)]
  <2>1. q # <<>> /\ Len(q) \in DOMAIN q
    BY <1>8, <1>12
  <2>2. /\ client[c].sent = 0 => m.unit = m.req.length /\ m.req.call < client[c].calls
        /\ client[c].sent # 0 => m.unit = client[c].sent - 1
        /\ m.req.call <= client[c].calls
    <3>1. Ends(c, Expected(f))
      BY <1>8, <1>12
    <3>2. up[c] # <<>> /\ Len(up[c]) \in DOMAIN up[c] /\ client[c].pc = "sending"
      BY <1>12, <2>1
    <3> HIDE DEF c
    <3> QED
      BY <3>1, <3>2 DEF Ends
  <2>3. client[c].sent \in Nat /\ client[c].sent <= client[c].length /\ client[c].calls \in Nat
        /\ m.req.call \in Nat
    BY <1>2, <1>12, <2>1, UpTyped, BodyAssumption DEF TypeOK, SocketsOpen, Clients
  <2>4. CASE k = Len(q)
    <3>1. m.unit = r.length /\ m.req = r
      BY <1>8, <1>12, <2>4
    <3>1a. client[c].sent # 0 => m = [req |-> Request(c), unit |-> client[c].sent - 1]
      <4>1. Ends(c, Expected(f))
        BY <1>8, <1>12
      <4>2. up[c] # <<>> /\ client[c].pc = "sending"
        BY <1>12, <2>1
      <4> HIDE DEF c
      <4> QED
        BY <4>1, <4>2 DEF Ends
    <3>1b. client[c].length \in Nat
      BY <1>2, <1>12, BodyAssumption DEF SocketsOpen
    <3>2. client[c].sent = 0
      <4> SUFFICES ASSUME client[c].sent # 0 PROVE FALSE
        OBVIOUS
      <4>1. m.unit = client[c].sent - 1 /\ m.req.length = client[c].length
        BY <3>1a DEF Request
      <4>2. m.unit = m.req.length
        BY <3>1
      <4> HIDE DEF m
      <4> QED
        BY <2>3, <3>1b, <4>1, <4>2
    <3> QED
      BY <2>2, <3>1, <3>2
  <2>5. CASE k # Len(q)
    <3>1. Len(q) > k
      BY <1>8, <1>12, <2>5
    <3>2. r.call < m.req.call
      BY <1>8, <1>12, <2>1, <3>1
    <3>3. r.call \in Nat
      BY <1>8, <1>12
    <3>4. r.call < client[c].calls
      <4> HIDE DEF m, r, c
      <4> QED
        BY <2>2, <2>3, <3>2, <3>3
    <3> QED
      BY <2>5, <3>4
  <2> QED
    BY <2>4, <2>5
<1>13. ASSUME f \notin split PROVE Orderly(up[c])' /\ Ends(c, Expected(f))'
  <2>1. Orderly(up'[c])
    <3>1. q \in Seq(UpUnits) /\ k \in Nat /\ Orderly(q)
      BY <1>8, <1>13
    <3>2. /\ up'[c] \in Seq(UpUnits) /\ Len(up'[c]) = Len(q) - k
          /\ \A i \in 1 .. Len(up'[c]) : up'[c][i] = q[k + i]
      BY <1>4
    <3> HIDE DEF q, c
    <3> QED
      BY <3>1, <3>2, OrderlySuffix
  <2>2. Expected(f)' = 0
    BY <1>7 DEF Expected
  <2>3. \A i \in DOMAIN up'[c] : up'[c][i].req.call <= client[c].calls
    BY <1>4, <1>8, <1>13 DEF Ends
  <2>4. ASSUME up'[c] # <<>>
        PROVE  /\ up'[c][1].unit = 0 /\ up'[c][Len(up'[c])] = q[Len(q)] /\ q # <<>>
    <3>1. Len(up'[c]) \in Nat /\ Len(up'[c]) >= 1
      BY <1>4, <2>4
    <3>2. /\ 1 \in 1 .. Len(up'[c]) /\ Len(up'[c]) \in 1 .. Len(up'[c]) /\ k < Len(q)
          /\ k + Len(up'[c]) = Len(q) /\ q # <<>>
      <4>1. Len(up'[c]) = Len(q) - k /\ k \in Nat /\ Len(q) \in Nat
        BY <1>4, <1>8, <1>13
      <4>2. 1 \in DOMAIN q
        BY <1>8, <1>13
      <4>3. q # <<>>
        BY <4>2
      <4> HIDE DEF q
      <4> QED
        BY <3>1, <4>1, <4>3
    <3>3. up'[c][1] = q[k + 1] /\ up'[c][Len(up'[c])] = q[k + Len(up'[c])]
      BY <1>4, <3>2
    <3> QED
      BY <1>8, <1>13, <3>2, <3>3
  <2>5. up'[c] = <<>> => k = Len(q)
    BY <1>4, <1>8, <1>13
  <2>6. Request(c)' = Request(c)
    BY <1>7 DEF Request
  <2>7. Ends(c, 0)'
    BY <1>7, <1>8, <1>12, <1>13, <2>3, <2>4, <2>5, <2>6 DEF Ends
  <2> QED
    BY <1>7, <2>1, <2>2, <2>7
<1>14. ASSUME f \in Sound', client[c].pc # "gone", OneCall(f, c) PROVE OneCall(f, c)'
  <2>0. f \notin split
    BY <1>7, <1>14 DEF Sound
  <2>1. q # <<>> /\ r.call = client[c].calls /\ client[c].pc # "idle"
    <3>1. LastOnly(c)
      BY <1>14 DEF OneCall
    <3>2. 1 \in DOMAIN q
      BY <1>8, <2>0
    <3>3. q # <<>>
      BY <3>2
    <3> HIDE DEF c
    <3> QED
      BY <1>14, <3>1, <3>2, <3>3 DEF LastOnly
  <2>2. /\ ~Tasked(f) /\ ~Answered(f) /\ down[c] = <<>>
        /\ client[c].answer \in Own(c) \cup {None} /\ LastOnly(c)
    BY <1>14, <2>1 DEF OneCall
  <2>3. up'[c] = <<>>
    <3>1. \A i \in DOMAIN up'[c] : up'[c][i].req.call = client[c].calls
      BY <1>4, <1>14, <2>2 DEF LastOnly
    <3>2. ASSUME NEW i \in DOMAIN up'[c] PROVE FALSE
      <4>1. r.call < up'[c][i].req.call
        BY <1>11, <2>0
      <4>2. up'[c][i].req.call = r.call /\ r.call \in Nat
        BY <1>8, <2>0, <2>1, <3>1
      <4> HIDE DEF r, c
      <4> QED
        BY <4>1, <4>2
    <3> QED
      BY <1>4, <3>2
  <2>4. client[c].pc = "waiting"
    <3>1. client[c].pc # "sending"
      BY <1>8, <1>12, <2>0, <2>1
    <3>2. client[c].pc # "new"
      BY <1>2, OpenConn
    <3> QED
      BY <1>2, <1>14, <2>1, <3>1, <3>2 DEF TypeOK, Clients
  <2>5. ~Tasked(f)' /\ ~Answered(f)' /\ down'[c] = <<>> /\ Own(c)' = Own(c)
    BY <1>1, <1>7, <2>2, SamePool DEF Tasked, Answered, poolVars, Own, Request, Response
  <2>6. LastOnly(c)'
    BY <1>7, <2>3 DEF LastOnly
  <2>7. sock'[f].buf[1].req.call = client[c].calls
    BY <1>10, <2>0, <2>1
  <2> QED
    BY <1>7, <2>2, <2>3, <2>4, <2>5, <2>6, <2>7 DEF OneCall, Tasked, Answered
<1> QED
  <2>1. UNCHANGED <<client, down, backlog, conn, out, watched, poolVars, orphaned, spoilt>>
    BY <1>1
  <2>2. f \notin split' =>
           /\ sock'[f].offset = 0 /\ sock'[f].unread = sock'[f].length
           /\ Orderly(up[c])' /\ Ends(c, Expected(f))'
    BY <1>1, <1>3, <1>7, <1>13, StoredTyped, AtBodyTyped
  <2>3. f \notin split' =>
           LET x == sock'[f].buf[1].req IN
           /\ sock'[f].buf[1] # Junk /\ x.length = sock'[f].length
           /\ \A i \in 1 .. sock'[f].length : sock'[f].buf[i] = [req |-> x, unit |-> i]
           /\ \E j \in DOMAIN up[c] : x = up[c][j].req
           /\ client[c].pc = "sending" => x.call < client[c].calls
           /\ \A i \in DOMAIN up'[c] : x.call < up'[c][i].req.call
    <3> SUFFICES ASSUME f \notin split
                 PROVE  LET x == sock'[f].buf[1].req IN
                        /\ sock'[f].buf[1] # Junk /\ x.length = sock'[f].length
                        /\ \A i \in 1 .. sock'[f].length : sock'[f].buf[i] = [req |-> x, unit |-> i]
                        /\ \E j \in DOMAIN up[c] : x = up[c][j].req
                        /\ client[c].pc = "sending" => x.call < client[c].calls
                        /\ \A i \in DOMAIN up'[c] : x.call < up'[c][i].req.call
      BY <1>7
    <3>1. sock'[f].buf[1] # Junk /\ sock'[f].buf[1].req = r
      BY <1>10
    <3>2. 1 \in DOMAIN q /\ r.length = s.length /\ sock'[f].length = s.length
      BY <1>3, <1>8, StoredTyped
    <3> QED
      BY <1>9, <1>11, <1>12, <3>1, <3>2
  <2> QED
    BY <1>1, <1>2, <1>3, <1>4, <1>5, <1>6, <1>7, <1>14, <2>1, <2>2, <2>3, ReadFrame

(* A connection is accepted: it gets a descriptor that shows traces of     *)
(* earlier connections at most.                                            *)
LEMMA AcceptFdCbInv == ASSUME IndInv, NEW c \in Conns, AcceptFdCb(c) PROVE IndInv'
<1> USE DEF IndInv
<1>1. PICK f \in Fds :
          /\ conn[f] = None /\ conn' = [conn EXCEPT ![f] = c]
          /\ sock' = [sock EXCEPT ![f].length = 0, ![f].unread = 0]
          /\ watched' = watched \cup {f}
  BY DEF AcceptFdCb
<1>2. /\ loop.at = "idle" /\ c \in backlog /\ backlog' = backlog \ {c}
      /\ UNCHANGED <<client, up, down, out, loop, poolVars, history>>
  BY DEF AcceptFdCb, clientVars
<1>3. conn'[f] = c /\ \A g \in Fds : g # f => conn'[g] = conn[g]
  BY <1>1 DEF TypeOK
<1>4. /\ sock[f] \in SocketStates
      /\ sock'[f] = [sock[f] EXCEPT !.length = 0, !.unread = 0]
      /\ \A g \in Fds : g # f => sock'[g] = sock[g]
  BY <1>1 DEF TypeOK
<1>5. /\ sock'[f].length = 0 /\ sock'[f].unread = 0 /\ sock'[f].offset = sock[f].offset
      /\ sock'[f].buf = sock[f].buf
  BY <1>4 DEF SocketStates
<1>6. TypeOK'
  <2>1. 0 \in 0 .. Limit
    BY BodyAssumption
  <2>2. sock'[f] \in SocketStates
    BY <1>4, <2>1 DEF SocketStates
  <2>3. sock' \in [Fds -> SocketStates] /\ conn' \in [Fds -> Conns \cup {None}]
    BY <1>1, <2>2 DEF TypeOK
  <2> QED
    BY <1>1, <1>2, <2>3 DEF TypeOK, poolVars, history
<1>7. InPool' = InPool
  BY <1>2, SamePool DEF poolVars
<1>8. \A g \in Fds : ~Submitting(g) /\ ~Submitting(g)' /\ InServer(g)' = InServer(g)
                     /\ Tasked(g)' = Tasked(g) /\ Answered(g)' = Answered(g)
  BY <1>2, <1>7 DEF Submitting, InServer, Tasked, Answered, poolVars
<1>9. ~Shut(c) /\ client[c].pc # "new" /\ \A g \in Fds : conn[g] # c
  <2>1. \A g \in Fds : ~Trace(g, c)
    BY <1>2 DEF OneDescriptor
  <2> QED
    BY <1>2, <2>1 DEF Shut, Trace, SocketsOpen
<1>10. \A d \in Conns : Shut(d)' = Shut(d)
  <2> SUFFICES ASSUME NEW d \in Conns PROVE Shut(d)' = Shut(d)
    OBVIOUS
  <2>1. CASE d = c
    BY <1>2, <1>3, <1>9, <2>1 DEF Shut
  <2>2. CASE d # c
    <3>1. (d \notin backlog') = (d \notin backlog)
      BY <1>2, <2>2
    <3>2. conn[f] # d /\ conn'[f] # d
      BY <1>1, <1>3, <2>2, Distinct
    <3>3. (\A g \in Fds : conn'[g] # d) = (\A g \in Fds : conn[g] # d)
      BY <1>3, <3>2
    <3> QED
      BY <3>1, <3>3 DEF Shut
  <2> QED
    BY <2>1, <2>2
<1>11. SocketsOpen'
  <2>1. watched' = {g \in Fds : conn'[g] # None}
    BY <1>1, <1>3, Distinct DEF SocketsOpen
  <2>2. loop'.at # "submit"
    BY <1>2
  <2> QED
    BY <1>2, <1>10, <2>1, <2>2 DEF SocketsOpen
<1>12. \A g \in Fds, d \in Conns : Trace(g, d)' => Trace(g, d) \/ (g = f /\ d = c)
  <2> SUFFICES ASSUME NEW g \in Fds, NEW d \in Conns, Trace(g, d)'
               PROVE  Trace(g, d) \/ (g = f /\ d = c)
    OBVIOUS
  <2>1. sock'[g].buf = sock[g].buf
    BY <1>4, <1>5
  <2>2. conn'[g] = d => conn[g] = d \/ (g = f /\ d = c)
    BY <1>3
  <2> QED
    BY <1>7, <2>1, <2>2 DEF Trace
<1>13. OneDescriptor'
  <2>1. \A g \in Fds : ~Trace(g, c)
    BY <1>2 DEF OneDescriptor
  <2> QED
    BY <1>2, <1>9, <1>12, <2>1 DEF OneDescriptor
<1>14. TicketsApart'
  BY <1>2, <1>7 DEF TicketsApart, poolVars
<1>15. \A d \in Conns :
          /\ Orderly(up[d])' = Orderly(up[d]) /\ LastOnly(d)' = LastOnly(d)
          /\ \A h \in Nat : Ends(d, h)' = Ends(d, h)
  BY <1>2 DEF Orderly, LastOnly, Ends, Request
<1>16. Streams'
  <2>1. ASSUME NEW d \in backlog PROVE Orderly(up[d])' /\ Ends(d, 0)'
    BY <1>15 DEF TypeOK, Streams
  <2>2. ASSUME NEW g \in watched' \ split'
        PROVE  Orderly(up[conn[g]])' /\ Ends(conn[g], Expected(g))'
    <3>1. CASE g = f
      <4>1. Expected(f)' = 0
        BY <1>5 DEF Expected
      <4> QED
        BY <1>2, <1>3, <2>1, <3>1, <4>1
    <3>2. CASE g # f
      <4>1. /\ g \in watched \ split /\ g \in Fds /\ conn'[g] = conn[g]
            /\ conn[g] \in Conns
        BY <1>1, <1>2, <1>3, <3>2 DEF TypeOK, SocketsOpen, history
      <4>2. Expected(g) \in Nat /\ Expected(g)' = Expected(g)
        BY <1>4, <1>8, <3>2, <4>1, ExpectedTyped DEF Expected
      <4>3. Orderly(up[conn[g]]) /\ Ends(conn[g], Expected(g))
        BY <4>1 DEF Streams
      <4> QED
        BY <1>15, <4>1, <4>2, <4>3
    <3> QED
      BY <3>1, <3>2
  <2> QED
    BY <1>2, <2>1, <2>2 DEF Streams
<1>17. WholeInBuffer'
  <2>1. ASSUME NEW g \in Fds \ split
        PROVE  sock'[g].offset = 0 /\ sock'[g].unread = sock'[g].length
    <3>1. sock[g].offset = 0 /\ sock[g].unread = sock[g].length
      BY DEF WholeInBuffer
    <3>2. CASE g = f
      BY <1>5, <3>1, <3>2
    <3>3. CASE g # f
      BY <1>4, <3>1, <3>3
    <3> QED
      BY <3>2, <3>3
  <2> QED
    BY <1>2, <1>8, <2>1 DEF WholeInBuffer, history
<1>18. TasksWhole'
  BY <1>2, <1>7 DEF TasksWhole, history
<1>19. ASSUME NEW g \in Fds, NEW d \in Conns, OneCall(g, d) PROVE OneCall(g, d)'
  <2>1. ~Submitting(g)' /\ LastOnly(d)' /\ up' = up /\ down' = down /\ client' = client
        /\ Own(d)' = Own(d) /\ responses' = responses
    BY <1>2, <1>8, <1>15, <1>19 DEF OneCall, Own, Request, Response, poolVars
  <2> QED
    BY <1>7, <1>8, <1>19, <2>1 DEF OneCall
<1>20. ASSUME ~InServer(f) PROVE OneCall(f, c)'
  <2>1. down[c] = <<>> /\ client[c].answer = None /\ LastOnly(c)
    BY <1>2 DEF Served
  <2>2. ~Tasked(f) /\ ~Answered(f)
    BY <1>20 DEF InServer, Tasked, Answered, InPool
  <2>3. ~Submitting(f)' /\ ~Tasked(f)' /\ ~Answered(f)' /\ LastOnly(c)'
    BY <1>8, <1>15, <2>1, <2>2
  <2> QED
    BY <1>2, <2>1, <2>3 DEF OneCall, Tasked, Answered
<1>21. Served'
  <2>1. \A g \in Fds \ spoilt' : out'[g] = <<>>
    BY <1>2 DEF Served, history
  <2>2. \A d \in backlog' : down'[d] = <<>> /\ client'[d].answer = None /\ LastOnly(d)'
    BY <1>2, <1>15 DEF Served, TypeOK
  <2>3. ASSUME NEW g \in Sound'
        PROVE  /\ conn'[g] = None => ~InServer(g)'
               /\ \A t \in InPool' : t.fd = g => t.req.conn = conn'[g]
               /\ conn'[g] # None => client'[conn'[g]].pc = "gone" \/ OneCall(g, conn[g])'
               /\ conn'[g] # None /\ client'[conn'[g]].pc = "gone" =>
                     client'[conn'[g]].answer = None /\ down'[conn'[g]] = <<>>
    <3>1. g \in Sound /\ g \in Fds
      BY <1>2 DEF Sound, history
    <3>2. /\ conn[g] = None => ~InServer(g)
          /\ \A t \in InPool : t.fd = g => t.req.conn = conn[g]
          /\ conn[g] # None => client[conn[g]].pc = "gone" \/ OneCall(g, conn[g])
          /\ conn[g] # None /\ client[conn[g]].pc = "gone" =>
                client[conn[g]].answer = None /\ down[conn[g]] = <<>>
      BY <3>1 DEF Served
    <3>3. CASE g = f
      <4>1. ~InServer(f) /\ ~Tasked(f)'
        BY <1>1, <1>8, <3>2, <3>3 DEF InServer, Tasked, InPool
      <4>2. OneCall(f, c)'
        BY <1>20, <4>1
      <4>3. down'[c] = <<>> /\ client'[c].answer = None
        BY <1>2 DEF Served
      <4> QED
        BY <1>3, <3>3, <4>1, <4>2, <4>3, Distinct DEF Tasked
    <3>4. CASE g # f
      <4>1. conn'[g] = conn[g] /\ (conn[g] # None => conn[g] \in Conns)
        BY <1>3, <3>1, <3>4 DEF TypeOK
      <4>2. down' = down /\ client' = client
        BY <1>2
      <4> QED
        BY <1>7, <1>8, <1>19, <3>1, <3>2, <4>1, <4>2
    <3> QED
      BY <3>3, <3>4
  <2> QED
    BY <2>1, <2>2, <2>3 DEF Served
<1> QED
  BY <1>6, <1>11, <1>13, <1>14, <1>16, <1>17, <1>18, <1>21

-----------------------------------------------------------------------------
(* A published task is in the pool, with a ticket of its own. *)
LEMMA Published ==
    ASSUME IndInv, NEW f \in Fds \cup {-1}, NEW r \in Requests \cup {Mixture},
           Publish(f, r), running' = running
    PROVE  /\ tasks' \in Seq(Tasks) /\ ticket' \in Nat
           /\ InPool' = InPool \cup {[ticket |-> ticket + 1, fd |-> f, req |-> r]}
           /\ TicketsApart'
<1> DEFINE t == [ticket |-> ticket + 1, fd |-> f, req |-> r]
<1>1. ticket \in Nat /\ tasks \in Seq(Tasks) /\ tasks' = Append(tasks, t) /\ ticket' = ticket + 1
  BY DEF IndInv, TypeOK, Publish
<1>2. t \in Tasks /\ t.ticket = ticket + 1
  BY <1>1 DEF Tasks
<1> HIDE DEF t
<1>3. tasks' \in Seq(Tasks) /\ ticket' \in Nat
  BY <1>1, <1>2
<1>4. /\ Len(tasks) \in Nat /\ DOMAIN tasks = 1 .. Len(tasks)
      /\ DOMAIN tasks' = 1 .. (Len(tasks) + 1)
      /\ \A i \in DOMAIN tasks : tasks'[i] = tasks[i]
      /\ tasks'[Len(tasks) + 1] = t
  BY <1>1, <1>2
<1>5. \A i \in DOMAIN tasks' : i \in DOMAIN tasks \/ i = Len(tasks) + 1
  BY <1>4
<1>6. InPool' = InPool \cup {t}
  <2>1. {tasks'[i] : i \in DOMAIN tasks'} = {tasks[i] : i \in DOMAIN tasks} \cup {t}
    BY <1>4
  <2> QED
    BY <2>1 DEF InPool
<1>7. \A u \in InPool : u.ticket \in Nat /\ u.ticket <= ticket
  BY PoolTasks DEF IndInv, TicketsApart, Tasks
<1>8. /\ \A i \in DOMAIN tasks : tasks[i] \in InPool
      /\ \A w \in Workers : running[w] # None => running[w] \in InPool
  BY DEF InPool
<1>9. TicketsApart'
  <2>1. \A u \in InPool' : u.ticket <= ticket'
    BY <1>1, <1>2, <1>6, <1>7
  <2>2. ASSUME NEW i \in DOMAIN tasks', NEW j \in DOMAIN tasks',
               tasks'[i].ticket = tasks'[j].ticket
        PROVE  i = j
    <3>1. \A k \in DOMAIN tasks : tasks[k].ticket # t.ticket
      BY <1>1, <1>2, <1>7, <1>8
    <3> QED
      BY <1>4, <1>5, <2>2, <3>1 DEF IndInv, TicketsApart
  <2>3. ASSUME NEW i \in DOMAIN tasks', NEW w \in Workers, running[w] # None
        PROVE  running[w].ticket # tasks'[i].ticket
    <3>1. running[w].ticket # t.ticket
      BY <1>1, <1>2, <1>7, <1>8, <2>3
    <3> QED
      BY <1>4, <1>5, <2>3, <3>1 DEF IndInv, TicketsApart
  <2> QED
    BY <2>1, <2>2, <2>3 DEF IndInv, TicketsApart
<1> QED
  BY <1>3, <1>6, <1>9 DEF t

(* What is parsed was in the buffer; a whole packet is parsed. *)
LEMMA ParsedTyped ==
    ASSUME IndInv, NEW f \in Fds
    PROVE  /\ Parsed(sock[f]) \in Requests \cup {Mixture}
           /\ Parsed(sock[f]) # Mixture => Trace(f, Parsed(sock[f]).conn)
           /\ f \notin split /\ Submitting(f) =>
                 /\ Parsed(sock[f]) = sock[f].buf[1].req
                 /\ Parsed(sock[f]) \in Requests /\ Parsed(sock[f]) # Mixture
<1> DEFINE s == sock[f]
<1>1. /\ s.buf \in [1 .. (2 * Limit) -> UpUnits \cup {Junk}]
      /\ 1 \in DOMAIN s.buf
  BY BodyAssumption DEF IndInv, TypeOK, SocketStates
<1>2. s.buf[1] # Junk => s.buf[1].req \in Requests
  BY <1>1 DEF UpUnits
<1>3. Mixture \notin Requests
  BY Distinct DEF Mixture, Requests
<1>4. Parsed(s) \in Requests \cup {Mixture}
  BY <1>2 DEF Parsed
<1>5. Parsed(s) # Mixture => Trace(f, Parsed(s).conn)
  BY <1>1 DEF Parsed, Trace
<1>6. f \notin split /\ Submitting(f) => Parsed(s) = s.buf[1].req /\ s.buf[1] # Junk
  BY DEF IndInv, WholeInBuffer, Parsed
<1> QED
  BY <1>2, <1>3, <1>4, <1>5, <1>6

(* The socket after its packet is taken. *)
LEMMA ResetTyped ==
    ASSUME IndInv, NEW f \in Fds, sock' = [sock EXCEPT ![f] = ResetReceiveBufState(@)]
    PROVE  /\ sock' \in [Fds -> SocketStates]
           /\ \A g \in Fds : g # f => sock'[g] = sock[g]
           /\ sock'[f].length = 0 /\ sock'[f].unread = 0 /\ sock'[f].offset = 0
           /\ DOMAIN sock'[f].buf = DOMAIN sock[f].buf
           /\ \A i \in DOMAIN sock'[f].buf : sock'[f].buf[i] = Junk
<1>1. sock \in [Fds -> SocketStates] /\ sock[f] \in SocketStates
  BY DEF IndInv, TypeOK
<1>2. sock'[f] = [sock[f] EXCEPT !.length = 0, !.unread = 0, !.offset = 0, !.buf = EmptyBuffer]
  BY <1>1 DEF ResetReceiveBufState
<1>3. /\ EmptyBuffer \in [1 .. (2 * Limit) -> UpUnits \cup {Junk}]
      /\ \A i \in DOMAIN EmptyBuffer : EmptyBuffer[i] = Junk
      /\ 0 \in 0 .. Limit
  BY BodyAssumption DEF EmptyBuffer
<1>4. /\ sock'[f].length = 0 /\ sock'[f].unread = 0 /\ sock'[f].offset = 0
      /\ sock'[f].buf = EmptyBuffer
      /\ DOMAIN sock[f].buf = 1 .. (2 * Limit)
  BY <1>1, <1>2 DEF SocketStates
<1>5. sock'[f] \in SocketStates
  BY <1>1, <1>2, <1>3 DEF SocketStates
<1>6. sock' \in [Fds -> SocketStates] /\ \A g \in Fds : g # f => sock'[g] = sock[g]
  BY <1>1, <1>5
<1> QED
  BY <1>3, <1>4, <1>6

(* A packet that does not parse, on a descriptor where a body arrived in   *)
(* parts: the socket is closed.                                            *)
LEMMA SubmitUnparsedInv == ASSUME IndInv, SubmitUnparsed PROVE IndInv'
<1> USE DEF IndInv
<1> DEFINE f == loop.fd
           t == [ticket |-> ticket + 1, fd |-> -1, req |-> Mixture]
<1>1. /\ loop.at = "submit" /\ Publish(-1, Mixture) /\ StopWatcherAndCloseSocket(f)
      /\ sock' = [sock EXCEPT ![f] = ResetReceiveBufState(@)]
      /\ loop' = [at |-> "idle", fd |-> -1]
      /\ UNCHANGED <<client, down, backlog, out, running, responses, crashed, split, spoilt>>
  BY DEF SubmitUnparsed
<1>2. f \in watched /\ f \in Fds /\ conn[f] \in Conns
  BY <1>1, OpenConn DEF SocketsOpen
<1>3. /\ tasks' \in Seq(Tasks) /\ ticket' \in Nat /\ InPool' = InPool \cup {t}
      /\ TicketsApart'
  BY <1>1, Published
<1>4. /\ sock' \in [Fds -> SocketStates]
      /\ \A g \in Fds : g # f => sock'[g] = sock[g]
      /\ sock'[f].length = 0 /\ sock'[f].unread = 0 /\ sock'[f].offset = 0
      /\ DOMAIN sock'[f].buf = DOMAIN sock[f].buf
      /\ \A i \in DOMAIN sock'[f].buf : sock'[f].buf[i] = Junk
  BY <1>1, <1>2, ResetTyped
<1>5. TypeOK'
  <2>1. up' \in [Conns -> Seq(UpUnits)] /\ conn' \in [Fds -> Conns \cup {None}]
        /\ watched' \subseteq Fds /\ orphaned' \subseteq Fds
    BY <1>1, <1>2 DEF TypeOK, StopWatcherAndCloseSocket
  <2>2. loop' \in [at : {"idle", "submit", "respond"}, fd : Fds \cup {-1}]
    BY <1>1
  <2> QED
    BY <1>1, <1>3, <1>4, <2>1, <2>2 DEF TypeOK
<1>6. t.fd = -1 /\ t.req = Mixture
  OBVIOUS
<1>7. loop'.at = "idle" /\ \A g \in Fds : g # f => ~Submitting(g)
  BY <1>1 DEF Submitting
<1> HIDE DEF f, t
<1>8. \A u \in InPool' : u \in InPool \/ (u.fd = -1 /\ u.req = Mixture)
  BY <1>3, <1>6
<1> QED
  BY <1>1, <1>2, <1>3, <1>4, <1>5, <1>7, <1>8, CloseFrame

(* A packet becomes a task: the request it holds is in the pool, once. *)
LEMMA SubmitInv == ASSUME IndInv, Submit PROVE IndInv'
<1> USE DEF IndInv
<1>0. loop.at = "submit" /\ loop.fd \in watched
  BY DEF Submit, SocketsOpen
<1>0a. PICK f \in Fds, c \in Conns : f = loop.fd /\ c = conn[f]
  BY <1>0, OpenConn
<1> DEFINE r == Parsed(sock[f])
           t == [ticket |-> ticket + 1, fd |-> f, req |-> r]
<1>1. /\ loop.at = "submit" /\ Publish(f, r)
      /\ sock' = [sock EXCEPT ![f] = ResetReceiveBufState(@)]
      /\ loop' = [at |-> "idle", fd |-> -1]
      /\ UNCHANGED <<client, up, down, backlog, conn, out, watched, running, responses, history>>
  BY <1>0a DEF Submit, clientVars
<1>2. /\ f \in watched /\ f \in Fds /\ c \in Conns /\ c # None /\ c \notin backlog
      /\ f # -1 /\ \A g \in Fds : conn[g] = c => g = f
  BY <1>0, <1>0a, OpenConn, Distinct
<1>3. Submitting(f) /\ \A g \in Fds : ~Submitting(g)' /\ (g # f => ~Submitting(g))
  BY <1>0a, <1>1 DEF Submitting
<1>4. /\ r \in Requests \cup {Mixture} /\ (r # Mixture => Trace(f, r.conn))
      /\ f \notin split => r = sock[f].buf[1].req /\ r \in Requests /\ r # Mixture
  BY <1>2, <1>3, ParsedTyped
<1>5. /\ tasks' \in Seq(Tasks) /\ ticket' \in Nat /\ InPool' = InPool \cup {t}
      /\ TicketsApart'
  BY <1>1, <1>2, <1>4, Published
<1>6. /\ sock' \in [Fds -> SocketStates]
      /\ \A g \in Fds : g # f => sock'[g] = sock[g]
      /\ sock'[f].length = 0 /\ sock'[f].unread = 0 /\ sock'[f].offset = 0
      /\ DOMAIN sock'[f].buf = DOMAIN sock[f].buf
      /\ \A i \in DOMAIN sock'[f].buf : sock'[f].buf[i] = Junk
  BY <1>1, <1>2, ResetTyped
<1>7. t.fd = f /\ t.req = r
  OBVIOUS
<1>8. f \notin split =>
         /\ r.conn = c /\ r.call <= client[c].calls
         /\ client[c].pc = "sending" => r.call < client[c].calls
         /\ \A i \in DOMAIN up[c] : r.call < up[c][i].req.call
         /\ \A u \in InPool : u.fd = f /\ u.req.conn = c => u.req.call < r.call
  BY <1>0a, <1>2, <1>3, <1>4 DEF WholeInBuffer
<1>9. r.call \in Nat /\ (r # Mixture => r.conn \in Conns) /\ (r = Mixture => r.conn = None)
  BY <1>4 DEF Requests, Mixture
<1> HIDE DEF r, t
<1>10. TypeOK'
  <2>1. loop' \in [at : {"idle", "submit", "respond"}, fd : Fds \cup {-1}]
    BY <1>1
  <2> QED
    BY <1>1, <1>5, <1>6, <2>1 DEF TypeOK, history
<1>11. SocketsOpen'
  <2>1. \A d \in Conns : Shut(d)' = Shut(d)
    BY <1>1 DEF Shut
  <2>2. loop'.at # "submit"
    BY <1>1
  <2> QED
    BY <1>1, <2>1, <2>2 DEF SocketsOpen
<1>12. \A g \in Fds, d \in Conns : Trace(g, d)' => Trace(g, d)
  <2> SUFFICES ASSUME NEW g \in Fds, NEW d \in Conns, Trace(g, d)' PROVE Trace(g, d)
    OBVIOUS
  <2>1. CASE conn'[g] = d
    BY <1>1, <2>1 DEF Trace
  <2>2. CASE \E i \in DOMAIN sock'[g].buf :
                sock'[g].buf[i] # Junk /\ sock'[g].buf[i].req.conn = d
    <3>1. g # f
      BY <1>6, <2>2
    <3> QED
      BY <1>6, <2>2, <3>1 DEF Trace
  <2>3. CASE \E u \in InPool' : u.fd = g /\ u.req.conn = d
    <3>1. PICK u \in InPool' : u.fd = g /\ u.req.conn = d
      BY <2>3
    <3>2. CASE u = t
      <4>1. g = f /\ r # Mixture /\ r.conn = d
        BY <1>7, <1>9, <3>1, <3>2, Distinct
      <4> QED
        BY <1>4, <4>1
    <3>3. CASE u # t
      BY <1>5, <3>1, <3>3 DEF Trace
    <3> QED
      BY <3>2, <3>3
  <2> QED
    BY <2>1, <2>2, <2>3 DEF Trace
<1>13. OneDescriptor'
  BY <1>1, <1>12 DEF OneDescriptor
<1>14. \A d \in Conns :
          /\ Orderly(up[d])' = Orderly(up[d]) /\ LastOnly(d)' = LastOnly(d)
          /\ \A h \in Nat : Ends(d, h)' = Ends(d, h)
  BY <1>1 DEF Orderly, LastOnly, Ends, Request
<1>15. Streams'
  <2>1. ASSUME NEW d \in backlog PROVE Orderly(up[d])' /\ Ends(d, 0)'
    BY <1>14 DEF TypeOK, Streams
  <2>2. ASSUME NEW g \in watched \ split
        PROVE  Orderly(up[conn[g]])' /\ Ends(conn[g], Expected(g))'
    <3>1. g \in Fds /\ conn'[g] = conn[g] /\ conn[g] \in Conns
      BY <1>1 DEF TypeOK, SocketsOpen
    <3>2. Expected(g) \in Nat /\ Expected(g)' = Expected(g)
      BY <1>3, <1>6, <3>1, ExpectedTyped DEF Expected
    <3>3. Orderly(up[conn[g]]) /\ Ends(conn[g], Expected(g))
      BY DEF Streams
    <3> QED
      BY <1>14, <3>1, <3>2, <3>3
  <2> QED
    BY <1>1, <2>1, <2>2 DEF Streams, history
<1>16. WholeInBuffer'
  <2>1. ASSUME NEW g \in Fds \ split
        PROVE  sock'[g].offset = 0 /\ sock'[g].unread = sock'[g].length
    BY <1>6 DEF WholeInBuffer
  <2> QED
    BY <1>1, <1>3, <2>1 DEF WholeInBuffer, history
<1>17. ASSUME NEW u \in InPool, u.req = r,
              (u.fd # -1 /\ u.fd \notin split) \/ f \notin split
       PROVE  FALSE
  <2>1. r # Mixture /\ u.fd # -1
    BY <1>4, <1>17 DEF TasksWhole
  <2>2. u.fd \in Fds /\ r.conn \in Conns
    BY <1>9, <2>1, TaskTyped DEF Tasks
  <2>3. Trace(f, r.conn) /\ Trace(u.fd, r.conn)
    BY <1>4, <1>17, <2>1 DEF Trace
  <2>4. u.fd = f
    BY <1>2, <2>2, <2>3 DEF OneDescriptor
  <2> QED
    BY <1>8, <1>9, <1>17, <2>4
<1>18. TasksWhole'
  <2> SUFFICES ASSUME NEW x \in InPool'
               PROVE  /\ x.fd = -1 => x.req = Mixture
                      /\ x.fd # -1 /\ x.fd \notin split =>
                         /\ x.req # Mixture
                         /\ \A u \in InPool' : u.req = x.req => u = x
                         /\ x.req.call <= client[x.req.conn].calls
                         /\ client[x.req.conn].pc = "sending" =>
                               x.req.call < client[x.req.conn].calls
                         /\ \A i \in DOMAIN up[x.req.conn] :
                               x.req.call < up[x.req.conn][i].req.call
    BY <1>1 DEF TasksWhole, history
  <2>1. CASE x = t
    <3>1. \A u \in InPool' : f \notin split /\ u.req = r => u = t
      BY <1>5, <1>17
    <3> QED
      BY <1>2, <1>4, <1>7, <1>8, <2>1, <3>1
  <2>2. CASE x # t
    <3>1. x \in InPool
      BY <1>5, <2>2
    <3>2. \A u \in InPool' : x.fd # -1 /\ x.fd \notin split /\ u.req = x.req => u = x
      BY <1>5, <1>7, <1>17, <3>1 DEF TasksWhole
    <3> QED
      BY <3>1, <3>2 DEF TasksWhole
  <2> QED
    BY <2>1, <2>2
<1>19. \A g \in Fds : g # f => /\ Tasked(g)' = Tasked(g) /\ Answered(g)' = Answered(g)
                               /\ InServer(g)' = InServer(g)
  <2> SUFFICES ASSUME NEW g \in Fds, g # f
               PROVE  /\ Tasked(g)' = Tasked(g) /\ Answered(g)' = Answered(g)
                      /\ InServer(g)' = InServer(g)
    OBVIOUS
  <2>1. Tasked(g)' = Tasked(g)
    BY <1>5, <1>7 DEF Tasked
  <2>2. Answered(g)' = Answered(g)
    BY <1>1 DEF Answered
  <2>3. InServer(g) = (Tasked(g) \/ Answered(g))
    BY DEF InServer, Tasked, Answered, InPool
  <2>4. InServer(g)' = (Tasked(g)' \/ Answered(g)')
    BY DEF InServer, Tasked, Answered, InPool
  <2> QED
    BY <2>1, <2>2, <2>3, <2>4
<1>20. ASSUME NEW g \in Fds, g # f, NEW d \in Conns, OneCall(g, d) PROVE OneCall(g, d)'
  <2>1. ~Submitting(g)' /\ LastOnly(d)' /\ up' = up /\ down' = down /\ client' = client
        /\ Own(d)' = Own(d) /\ responses' = responses
    BY <1>1, <1>3, <1>14, <1>20 DEF OneCall, Own, Request, Response
  <2>2. \A u \in InPool' : u.fd = g => u \in InPool
    BY <1>5, <1>7, <1>20
  <2> QED
    BY <1>19, <1>20, <2>1, <2>2 DEF OneCall
<1>21. ASSUME f \notin split, OneCall(f, c) PROVE OneCall(f, c)'
  <2>1. /\ client[c].pc = "waiting" /\ up[c] = <<>> /\ ~Tasked(f) /\ ~Answered(f)
        /\ down[c] = <<>> /\ r.call = client[c].calls
        /\ LastOnly(c) /\ client[c].answer \in Own(c) \cup {None}
    BY <1>3, <1>4, <1>21 DEF OneCall
  <2>2. /\ LastOnly(c)' /\ Own(c)' = Own(c) /\ up' = up /\ down' = down /\ client' = client
        /\ ~Answered(f)' /\ ~Submitting(f)'
    BY <1>1, <1>2, <1>3, <1>14, <2>1 DEF Own, Request, Response, Answered
  <2>3. \A u \in InPool' : u.fd = f => u = t
    BY <1>5, <2>1 DEF Tasked
  <2>4. \A u \in InPool' : u.fd = f => u.req.call = client[c].calls
    BY <1>7, <2>1, <2>3
  <2> QED
    BY <2>1, <2>2, <2>3, <2>4 DEF OneCall, Answered
<1>22. Served'
  <2>1. \A g \in Fds \ spoilt' : out'[g] = <<>>
    BY <1>1 DEF Served, history
  <2>2. \A d \in backlog' : down'[d] = <<>> /\ client'[d].answer = None /\ LastOnly(d)'
    BY <1>1, <1>14 DEF Served, TypeOK
  <2>3. ASSUME NEW g \in Sound'
        PROVE  /\ conn'[g] = None => ~InServer(g)'
               /\ \A u \in InPool' : u.fd = g => u.req.conn = conn'[g]
               /\ conn'[g] # None => client'[conn'[g]].pc = "gone" \/ OneCall(g, conn[g])'
               /\ conn'[g] # None /\ client'[conn'[g]].pc = "gone" =>
                     client'[conn'[g]].answer = None /\ down'[conn'[g]] = <<>>
    <3>1. g \in Sound /\ g \in Fds /\ g \notin split
      BY <1>1 DEF Sound, history
    <3>2. /\ conn[g] = None => ~InServer(g)
          /\ \A u \in InPool : u.fd = g => u.req.conn = conn[g]
          /\ conn[g] # None => client[conn[g]].pc = "gone" \/ OneCall(g, conn[g])
          /\ conn[g] # None /\ client[conn[g]].pc = "gone" =>
                client[conn[g]].answer = None /\ down[conn[g]] = <<>>
      BY <3>1 DEF Served
    <3>3. conn' = conn /\ client' = client /\ down' = down
      BY <1>1
    <3>4. \A u \in InPool' : u.fd = g => u.req.conn = conn[g]
      BY <1>0a, <1>5, <1>7, <1>8, <3>1, <3>2
    <3>5. CASE g = f
      BY <1>0a, <1>2, <1>21, <3>1, <3>2, <3>3, <3>4, <3>5
    <3>6. CASE g # f
      <4>1. conn[g] # None => conn[g] \in Conns
        BY <3>1 DEF TypeOK
      <4> QED
        BY <1>19, <1>20, <3>1, <3>2, <3>3, <3>4, <3>6, <4>1
    <3> QED
      BY <3>5, <3>6
  <2> QED
    BY <2>1, <2>2, <2>3 DEF Served
<1> QED
  BY <1>5, <1>10, <1>11, <1>13, <1>15, <1>16, <1>18, <1>22

-----------------------------------------------------------------------------
(* A step behind the sockets: tasks are taken or run, responses are made   *)
(* or written.  What has to be shown is about the calls of the clients.    *)
LEMMA ServerFrame ==
    ASSUME IndInv, TypeOK', TicketsApart', InPool' \subseteq InPool,
           UNCHANGED <<client, up, backlog, conn, sock, watched, split, orphaned>>,
           loop' = loop \/ (loop.at # "submit" /\ loop'.at # "submit"),
           \A d \in Conns : (\A f \in Fds : conn[f] # d) => down'[d] = down[d],
           \A f \in Fds \ spoilt' : out'[f] = <<>>,
           \A f \in Sound' :
               /\ f \in Sound
               /\ conn[f] = None => ~InServer(f)'
               /\ conn[f] # None /\ client[conn[f]].pc # "gone" /\ OneCall(f, conn[f])
                  => OneCall(f, conn[f])'
               /\ conn[f] # None /\ client[conn[f]].pc = "gone"
                  => down'[conn[f]] = down[conn[f]]
    PROVE  IndInv'
<1> USE DEF IndInv
<1>1. \A f \in Fds : Submitting(f)' = Submitting(f) /\ Expected(f)' = Expected(f)
  BY DEF Submitting, Expected
<1>2. \A d \in Conns : Shut(d)' = Shut(d)
  BY DEF Shut
<1>3. SocketsOpen'
  <2>1. ASSUME NEW d \in Conns, client[d].pc = "new" PROVE down'[d] = <<>>
    BY <2>1 DEF SocketsOpen, Shut
  <2>2. loop'.at = "submit" => loop'.fd \in watched
    BY DEF SocketsOpen
  <2> QED
    BY <1>2, <2>1, <2>2 DEF SocketsOpen
<1>4. \A f \in Fds, d \in Conns : Trace(f, d)' => Trace(f, d)
  BY DEF Trace
<1>5. OneDescriptor'
  BY <1>4 DEF OneDescriptor
<1>6. \A d \in Conns :
          /\ Orderly(up[d])' = Orderly(up[d]) /\ LastOnly(d)' = LastOnly(d)
          /\ \A h \in Nat : Ends(d, h)' = Ends(d, h)
  BY DEF Orderly, LastOnly, Ends, Request
<1>7. Streams'
  <2>1. ASSUME NEW d \in backlog PROVE Orderly(up[d])' /\ Ends(d, 0)'
    BY <1>6 DEF TypeOK, Streams
  <2>2. ASSUME NEW g \in watched \ split
        PROVE  Orderly(up[conn[g]])' /\ Ends(conn[g], Expected(g))'
    <3>1. g \in Fds /\ conn'[g] = conn[g] /\ conn[g] \in Conns
      BY DEF TypeOK, SocketsOpen
    <3>2. Expected(g) \in Nat /\ Expected(g)' = Expected(g)
      BY <1>1, <3>1, ExpectedTyped DEF Expected
    <3>3. Orderly(up[conn[g]]) /\ Ends(conn[g], Expected(g))
      BY DEF Streams
    <3> QED
      BY <1>6, <3>1, <3>2, <3>3
  <2> QED
    BY <2>1, <2>2 DEF Streams
<1>8. WholeInBuffer'
  BY <1>1, SameBuffers
<1>9. TasksWhole'
  BY DEF TasksWhole
<1>10. Served'
  <2>1. ASSUME NEW d \in backlog
        PROVE  down'[d] = <<>> /\ client'[d].answer = None /\ LastOnly(d)'
    <3>1. d \in Conns /\ down[d] = <<>> /\ client[d].answer = None /\ LastOnly(d)
      BY DEF TypeOK, Served
    <3>2. \A f \in Fds : conn[f] # d
      BY <3>1 DEF OneDescriptor, Trace
    <3> QED
      BY <1>6, <3>1, <3>2
  <2>2. ASSUME NEW f \in Sound'
        PROVE  /\ conn'[f] = None => ~InServer(f)'
               /\ \A t \in InPool' : t.fd = f => t.req.conn = conn'[f]
               /\ conn'[f] # None => client'[conn'[f]].pc = "gone" \/ OneCall(f, conn[f])'
               /\ conn'[f] # None /\ client'[conn'[f]].pc = "gone" =>
                     client'[conn'[f]].answer = None /\ down'[conn'[f]] = <<>>
    <3>1. /\ \A t \in InPool : t.fd = f => t.req.conn = conn[f]
          /\ conn[f] # None => client[conn[f]].pc = "gone" \/ OneCall(f, conn[f])
          /\ conn[f] # None /\ client[conn[f]].pc = "gone" =>
                client[conn[f]].answer = None /\ down[conn[f]] = <<>>
      BY DEF Served
    <3>2. \A t \in InPool' : t.fd = f => t.req.conn = conn'[f]
      BY <3>1
    <3>3. /\ conn[f] = None => ~InServer(f)'
          /\ conn[f] # None /\ client[conn[f]].pc # "gone" /\ OneCall(f, conn[f])
             => OneCall(f, conn[f])'
          /\ conn[f] # None /\ client[conn[f]].pc = "gone"
             => down'[conn[f]] = down[conn[f]]
      OBVIOUS
    <3> QED
      BY <3>1, <3>2, <3>3
  <2> QED
    BY <2>1, <2>2 DEF Served
<1> QED
  BY <1>3, <1>5, <1>7, <1>8, <1>9, <1>10

(* A worker takes a task: the pool holds what it held. *)
LEMMA TakeInv == ASSUME IndInv, NEW w \in Workers, Take(w) PROVE IndInv'
<1> USE DEF IndInv
<1>1. /\ running[w] = None /\ tasks # <<>> /\ tasks \in Seq(Tasks)
      /\ running' = [running EXCEPT ![w] = Head(tasks)] /\ tasks' = Tail(tasks)
      /\ UNCHANGED <<clientVars, socketVars, loop, ticket, responses, history>>
  BY DEF Take, TypeOK
<1>2. /\ Len(tasks) \in Nat /\ 1 \in DOMAIN tasks /\ Head(tasks) = tasks[1]
      /\ tasks[1] \in Tasks /\ tasks' \in Seq(Tasks)
      /\ DOMAIN tasks = 1 .. Len(tasks) /\ DOMAIN tasks' = 1 .. (Len(tasks) - 1)
      /\ \A i \in DOMAIN tasks' : tasks'[i] = tasks[i + 1]
  BY <1>1
<1>3. /\ running'[w] = tasks[1] /\ \A v \in Workers : v # w => running'[v] = running[v]
      /\ running' \in [Workers -> Tasks \cup {None}]
  BY <1>1, <1>2 DEF TypeOK
<1>4. \A i \in DOMAIN tasks' : i \in Nat /\ i + 1 \in DOMAIN tasks /\ i + 1 # 1
  BY <1>2
<1>5. TypeOK'
  BY <1>1, <1>2, <1>3 DEF TypeOK, clientVars, socketVars, history
<1>6. InPool' \subseteq InPool
  <2>1. \A i \in DOMAIN tasks' : tasks'[i] \in InPool
    BY <1>2, <1>4 DEF InPool
  <2>2. \A v \in Workers : running'[v] # None => running'[v] \in InPool
    BY <1>2, <1>3 DEF InPool
  <2> QED
    BY <2>1, <2>2 DEF InPool
<1>7. TicketsApart'
  <2>1. \A t \in InPool' : t.ticket <= ticket'
    BY <1>1, <1>6 DEF TicketsApart
  <2>2. ASSUME NEW i \in DOMAIN tasks', NEW j \in DOMAIN tasks',
               tasks'[i].ticket = tasks'[j].ticket
        PROVE  i = j
    <3>1. i + 1 = j + 1
      BY <1>2, <1>4, <2>2 DEF TicketsApart
    <3> QED
      BY <1>4, <3>1
  <2>3. ASSUME NEW v \in Workers, NEW x \in Workers, running'[v] # None, running'[x] # None,
               running'[v].ticket = running'[x].ticket
        PROVE  v = x
    BY <1>2, <1>3, <2>3 DEF TicketsApart
  <2>4. ASSUME NEW i \in DOMAIN tasks', NEW v \in Workers, running'[v] # None
        PROVE  running'[v].ticket # tasks'[i].ticket
    <3>1. CASE v = w
      BY <1>2, <1>3, <1>4, <3>1 DEF TicketsApart
    <3>2. CASE v # w
      BY <1>2, <1>3, <1>4, <2>4, <3>2 DEF TicketsApart
    <3> QED
      BY <3>1, <3>2
  <2> QED
    BY <2>1, <2>2, <2>3, <2>4 DEF TicketsApart
<1>8. \A f \in Fds : /\ Tasked(f)' => Tasked(f)
                     /\ Answered(f)' = Answered(f) /\ (InServer(f)' => InServer(f))
  <2>1. \A f \in Fds : (Tasked(f)' => Tasked(f)) /\ Answered(f)' = Answered(f)
    BY <1>1, <1>6 DEF Tasked, Answered
  <2>2. \A f \in Fds : InServer(f) = (Tasked(f) \/ Answered(f))
    BY DEF InServer, Tasked, Answered, InPool
  <2>3. \A f \in Fds : InServer(f)' = (Tasked(f)' \/ Answered(f)')
    BY DEF InServer, Tasked, Answered, InPool
  <2> QED
    BY <2>1, <2>2, <2>3
<1>9. ASSUME NEW f \in Fds, NEW c \in Conns, OneCall(f, c) PROVE OneCall(f, c)'
  <2>1. /\ Submitting(f)' = Submitting(f) /\ LastOnly(c)' = LastOnly(c) /\ Own(c)' = Own(c)
        /\ client' = client /\ up' = up /\ down' = down /\ responses' = responses
        /\ sock' = sock
    BY <1>1 DEF Submitting, LastOnly, Own, Request, Response, clientVars, socketVars
  <2> QED
    BY <1>6, <1>8, <1>9, <2>1 DEF OneCall
<1>10. UNCHANGED <<client, up, down, backlog, conn, sock, out, watched, split, orphaned, spoilt>>
  BY <1>1 DEF clientVars, socketVars, history
<1>11. \A f \in Fds \ spoilt' : out'[f] = <<>>
  BY <1>10 DEF Served
<1>12. ASSUME NEW f \in Sound'
       PROVE  /\ f \in Sound
              /\ conn[f] = None => ~InServer(f)'
              /\ conn[f] # None /\ client[conn[f]].pc # "gone" /\ OneCall(f, conn[f])
                 => OneCall(f, conn[f])'
              /\ conn[f] # None /\ client[conn[f]].pc = "gone"
                 => down'[conn[f]] = down[conn[f]]
  <2>1. f \in Sound /\ f \in Fds /\ conn' = conn
    BY <1>10 DEF Sound
  <2>2. conn[f] # None => conn[f] \in Conns
    BY <2>1 DEF TypeOK
  <2>3. conn[f] = None => ~InServer(f)'
    BY <1>8, <2>1 DEF Served
  <2> QED
    BY <1>9, <1>10, <2>1, <2>2, <2>3
<1> QED
  BY <1>1, <1>5, <1>6, <1>7, <1>10, <1>11, <1>12, ServerFrame

(* A worker runs its task: the response takes the place of the request. *)
LEMMA RunInv == ASSUME IndInv, NEW w \in Workers, Run(w) PROVE IndInv'
<1> USE DEF IndInv
<1> DEFINE R == [fd : Fds, rsp : Answers]
<1>1. PICK x \in InPool : x = running[w] /\ x # None
  BY DEF Run, InPool
<1>2. /\ running' = [running EXCEPT ![w] = None] /\ tasks' = tasks
      /\ UNCHANGED <<clientVars, socketVars, loop, ticket, history>>
      /\ \/ x.fd = -1 /\ responses' = responses
         \/ x.fd # -1 /\ \E code \in CallResults :
               responses' = Append(responses, [fd |-> x.fd, rsp |-> Response(x.req, code)])
  BY <1>1 DEF Run
<1>3. UNCHANGED <<client, up, down, backlog, conn, sock, out, watched, loop,
                  crashed, split, orphaned, spoilt>>
  BY <1>2 DEF clientVars, socketVars, history
<1>4. /\ running'[w] = None /\ \A v \in Workers : v # w => running'[v] = running[v]
      /\ running' \in [Workers -> Tasks \cup {None}]
  BY <1>2 DEF TypeOK
<1>5. InPool' = InPool \ {x}
  <2>1. \A i \in DOMAIN tasks : tasks[i] # x
    BY <1>1 DEF TicketsApart
  <2>2. \A v \in Workers : v # w /\ running[v] # None => running[v] # x
    BY <1>1 DEF TicketsApart
  <2>3. InPool' = {tasks[i] : i \in DOMAIN tasks} \cup
                  {running[v] : v \in {z \in Workers : z # w /\ running[z] # None}}
    BY <1>2, <1>4 DEF InPool
  <2>4. InPool = {tasks[i] : i \in DOMAIN tasks} \cup {x} \cup
                 {running[v] : v \in {z \in Workers : z # w /\ running[z] # None}}
    BY <1>1 DEF InPool
  <2> QED
    BY <2>1, <2>2, <2>3, <2>4
<1>6. TicketsApart'
  <2>1. \A t \in InPool' : t.ticket <= ticket'
    BY <1>2, <1>5 DEF TicketsApart
  <2>2. \A v \in Workers : running'[v] # None => v # w /\ running'[v] = running[v]
    BY <1>4
  <2> QED
    BY <1>2, <2>1, <2>2 DEF TicketsApart
<1>7. x \in Tasks /\ x.fd \in Fds \cup {-1} /\ x.req \in Requests \cup {Mixture}
  BY PoolTasks DEF Tasks
<1>8. \A code \in CallResults : Response(x.req, code) \in Answers
  BY <1>7 DEF Response, Answers, Requests, Mixture
<1>9. /\ responses \in Seq(R) /\ responses' \in Seq(R)
      /\ DOMAIN responses = 1 .. Len(responses) /\ Len(responses) \in Nat
      /\ \A i \in DOMAIN responses : i \in DOMAIN responses' /\ responses'[i] = responses[i]
      /\ \A i \in DOMAIN responses' : i \in DOMAIN responses \/
            /\ i = Len(responses) + 1 /\ responses'[i].fd = x.fd /\ x.fd # -1
            /\ \E code \in CallResults : responses'[i].rsp = Response(x.req, code)
  <2>1. responses \in Seq(R)
    BY DEF TypeOK
  <2>2. CASE responses' = responses
    BY <2>1, <2>2
  <2>3. CASE responses' # responses
    <3>1. PICK code \in CallResults :
             responses' = Append(responses, [fd |-> x.fd, rsp |-> Response(x.req, code)])
      BY <1>2, <2>3
    <3> DEFINE y == [fd |-> x.fd, rsp |-> Response(x.req, code)]
    <3>2. y \in R /\ y.fd = x.fd /\ y.rsp = Response(x.req, code) /\ x.fd # -1
      BY <1>2, <1>7, <1>8, <2>3
    <3> HIDE DEF y, R
    <3>3. responses' = Append(responses, y)
      BY <3>1 DEF y
    <3> QED
      BY <2>1, <3>2, <3>3
  <2> QED
    BY <2>2, <2>3
<1>10. TypeOK'
  BY <1>2, <1>3, <1>4, <1>9 DEF TypeOK
<1> HIDE DEF R
<1>11. \A f \in Fds : f # x.fd =>
          Tasked(f)' = Tasked(f) /\ Answered(f)' = Answered(f) /\ InServer(f)' = InServer(f)
  <2> SUFFICES ASSUME NEW f \in Fds, f # x.fd
               PROVE  /\ Tasked(f)' = Tasked(f) /\ Answered(f)' = Answered(f)
                      /\ InServer(f)' = InServer(f)
    OBVIOUS
  <2>1. Tasked(f)' = Tasked(f)
    BY <1>5 DEF Tasked
  <2>2. Answered(f)' = Answered(f)
    BY <1>9 DEF Answered
  <2>3. InServer(f) = (Tasked(f) \/ Answered(f))
    BY DEF InServer, Tasked, Answered, InPool
  <2>4. InServer(f)' = (Tasked(f)' \/ Answered(f)')
    BY DEF InServer, Tasked, Answered, InPool
  <2> QED
    BY <2>1, <2>2, <2>3, <2>4
<1>12. \A f \in Fds, c \in Conns :
          Submitting(f)' = Submitting(f) /\ LastOnly(c)' = LastOnly(c) /\ Own(c)' = Own(c)
  BY <1>3 DEF Submitting, LastOnly, Own, Request, Response
<1>13. ASSUME NEW f \in Fds, f # x.fd, NEW c \in Conns, OneCall(f, c) PROVE OneCall(f, c)'
  <2>1. \A i \in DOMAIN responses' : responses'[i].fd = f =>
           i \in DOMAIN responses /\ responses'[i] = responses[i]
    BY <1>9, <1>13
  <2> QED
    BY <1>3, <1>5, <1>11, <1>12, <1>13, <2>1 DEF OneCall
<1>14. ASSUME NEW f \in Fds, f = x.fd, NEW c \in Conns, OneCall(f, c), x.req.conn = c
       PROVE  OneCall(f, c)'
  <2>1. Tasked(f)
    BY <1>1, <1>14 DEF Tasked
  <2>2. /\ client[c].pc = "waiting" /\ up[c] = <<>> /\ ~Answered(f) /\ down[c] = <<>>
        /\ ~Submitting(f) /\ x.req.call = client[c].calls
        /\ \A t \in InPool : t.fd = f => t = x
        /\ LastOnly(c) /\ client[c].answer \in Own(c) \cup {None}
    BY <1>1, <1>14, <2>1 DEF OneCall
  <2>3. ~Tasked(f)' /\ ~Submitting(f)' /\ LastOnly(c)'
    BY <1>5, <1>12, <2>2 DEF Tasked
  <2>4. ASSUME NEW i \in DOMAIN responses', responses'[i].fd = f
        PROVE  i = Len(responses) + 1 /\ responses'[i].rsp \in Own(c)
    <3>1. i \notin DOMAIN responses
      BY <1>9, <2>2, <2>4 DEF Answered
    <3>2. PICK code \in CallResults : responses'[i].rsp = Response(x.req, code)
      BY <1>9, <3>1
    <3>3. Response(x.req, code) = Response(Request(c), code)
      BY <1>14, <2>2 DEF Response, Request
    <3> QED
      BY <1>9, <3>1, <3>2, <3>3 DEF Own
  <2> QED
    BY <1>3, <1>12, <2>2, <2>3, <2>4 DEF OneCall, Tasked
<1>15. \A f \in Fds \ spoilt' : out'[f] = <<>>
  BY <1>3 DEF Served
<1>16. ASSUME NEW f \in Sound'
       PROVE  /\ f \in Sound
              /\ conn[f] = None => ~InServer(f)'
              /\ conn[f] # None /\ client[conn[f]].pc # "gone" /\ OneCall(f, conn[f])
                 => OneCall(f, conn[f])'
              /\ conn[f] # None /\ client[conn[f]].pc = "gone"
                 => down'[conn[f]] = down[conn[f]]
  <2>1. f \in Sound /\ f \in Fds /\ conn' = conn
    BY <1>3 DEF Sound
  <2>2. conn[f] # None => conn[f] \in Conns
    BY <2>1 DEF TypeOK
  <2>3. CASE f = x.fd
    <3>1. x.req.conn = conn[f]
      BY <1>1, <2>1, <2>3 DEF Served
    <3>2. InServer(f)
      BY <1>1, <2>3 DEF InServer
    <3>3. conn[f] # None
      BY <2>1, <3>2 DEF Served
    <3> QED
      BY <1>3, <1>14, <2>1, <2>2, <2>3, <3>1, <3>3
  <2>4. CASE f # x.fd
    <3>1. conn[f] = None => ~InServer(f)'
      BY <1>11, <2>1, <2>4 DEF Served
    <3> QED
      BY <1>3, <1>13, <2>1, <2>2, <2>4, <3>1
  <2> QED
    BY <2>3, <2>4
<1> QED
  <2>1. InPool' \subseteq InPool
    BY <1>5
  <2> QED
    BY <1>3, <1>6, <1>10, <1>15, <1>16, <2>1, ServerFrame

-----------------------------------------------------------------------------
(* The response at the head of the queue is taken off it. *)
LEMMA Popped ==
    ASSUME IndInv, responses # <<>>, responses' = Tail(responses)
    PROVE  /\ responses' \in Seq([fd : Fds, rsp : Answers])
           /\ 1 \in DOMAIN responses /\ Head(responses) = responses[1]
           /\ responses[1].fd \in Fds /\ responses[1].rsp \in Answers
           /\ \A i \in DOMAIN responses' : /\ i \in Nat /\ i + 1 \in DOMAIN responses
                                           /\ i + 1 # 1 /\ responses'[i] = responses[i + 1]
           /\ \A i \in DOMAIN responses :
                 i = 1 \/ (i - 1 \in DOMAIN responses' /\ responses'[i - 1] = responses[i])
<1> DEFINE R == [fd : Fds, rsp : Answers]
<1>1. responses \in Seq(R)
  BY DEF IndInv, TypeOK
<1>2. \A y \in R : y.fd \in Fds /\ y.rsp \in Answers
  OBVIOUS
<1> HIDE DEF R
<1>3. /\ Len(responses) \in Nat /\ DOMAIN responses = 1 .. Len(responses)
      /\ 1 \in DOMAIN responses /\ Head(responses) = responses[1] /\ responses[1] \in R
      /\ responses' \in Seq(R) /\ DOMAIN responses' = 1 .. (Len(responses) - 1)
      /\ \A i \in DOMAIN responses' : responses'[i] = responses[i + 1]
  BY <1>1
<1>4. \A i \in DOMAIN responses' : i \in Nat /\ i + 1 \in DOMAIN responses /\ i + 1 # 1
  BY <1>3
<1>5. ASSUME NEW i \in DOMAIN responses, i # 1
      PROVE  i - 1 \in DOMAIN responses' /\ responses'[i - 1] = responses[i]
  <2>1. i - 1 \in DOMAIN responses' /\ (i - 1) + 1 = i
    BY <1>3, <1>5
  <2> QED
    BY <1>3, <2>1
<1> QED
  BY <1>2, <1>3, <1>4, <1>5 DEF R

(* A response on another descriptor does not matter to a call. *)
LEMMA OtherPopped ==
    ASSUME IndInv, responses # <<>>, responses' = Tail(responses),
           UNCHANGED <<client, up, conn, sock, tasks, running>>,
           loop.at \in {"idle", "respond"}, loop'.at \in {"idle", "respond"},
           NEW f \in Fds, f # responses[1].fd
    PROVE  /\ Answered(f)' = Answered(f) /\ InServer(f)' = InServer(f)
           /\ \A c \in Conns : down'[c] = down[c] /\ OneCall(f, c) => OneCall(f, c)'
<1>1. /\ \A i \in DOMAIN responses' : /\ i \in Nat /\ i + 1 \in DOMAIN responses
                                      /\ responses'[i] = responses[i + 1]
      /\ \A i \in DOMAIN responses :
            i = 1 \/ (i - 1 \in DOMAIN responses' /\ responses'[i - 1] = responses[i])
  BY Popped
<1>2. InPool' = InPool /\ Tasked(f)' = Tasked(f)
  BY SamePool DEF Tasked
<1>3. Answered(f)' = Answered(f)
  BY <1>1 DEF Answered
<1>4. InServer(f)' = InServer(f)
  <2>1. InServer(f) = (Tasked(f) \/ Answered(f))
    BY DEF InServer, Tasked, Answered, InPool
  <2>2. InServer(f)' = (Tasked(f)' \/ Answered(f)')
    BY DEF InServer, Tasked, Answered, InPool
  <2> QED
    BY <1>2, <1>3, <2>1, <2>2
<1>5. ASSUME NEW c \in Conns, down'[c] = down[c], OneCall(f, c) PROVE OneCall(f, c)'
  <2>1. ~Submitting(f)' /\ LastOnly(c)' = LastOnly(c) /\ Own(c)' = Own(c)
    BY DEF Submitting, LastOnly, Own, Request, Response
  <2>2. ASSUME NEW i \in DOMAIN responses', NEW j \in DOMAIN responses',
               responses'[i].fd = f, responses'[j].fd = f
        PROVE  i = j
    <3>1. i + 1 = j + 1
      BY <1>1, <1>5, <2>2 DEF OneCall
    <3> QED
      BY <1>1, <3>1
  <2>3. \A i \in DOMAIN responses' : responses'[i].fd = f => responses'[i].rsp \in Own(c)
    BY <1>1, <1>5 DEF OneCall
  <2> QED
    BY <1>2, <1>3, <1>5, <2>1, <2>2, <2>3 DEF OneCall
<1> QED
  BY <1>3, <1>4, <1>5

(* The units of a response. *)
LEMMA ResponseTyped ==
    ASSUME NEW r \in Answers
    PROVE  /\ ResponseUnits(r) \in Seq(DownUnits) /\ Len(ResponseUnits(r)) = 2
           /\ ResponseUnits(r) # <<>>
           /\ <<>> \o ResponseUnits(r) = ResponseUnits(r)
           /\ SubSeq(ResponseUnits(r), 1, 2) = ResponseUnits(r)
<1> DEFINE q == ResponseUnits(r)
<1>1. q \in [1 .. 2 -> DownUnits]
  BY DEF ResponseUnits, DownUnits
<1> HIDE DEF q
<1>2. q \in Seq(DownUnits) /\ Len(q) = 2
  <2>1. q \in Seq(DownUnits)
    BY <1>1, SeqDef
  <2>2. Len(q) \in Nat /\ 1 .. Len(q) = 1 .. 2
    BY <1>1, <2>1, LenProperties
  <2>3. 2 \in 1 .. Len(q) /\ 3 \notin 1 .. Len(q)
    BY <2>2
  <2>4. \A n \in Nat : 2 \in 1 .. n /\ 3 \notin 1 .. n => n = 2
    OBVIOUS
  <2> QED
    BY <2>1, <2>2, <2>3, <2>4
<1>3. <<>> \o q = q
  BY <1>2, ConcatEmptySeq
<1>4. SubSeq(q, 1, 2) = q
  BY <1>2, SubSeqFull
<1> QED
  BY <1>2, <1>3, <1>4 DEF q

(* An answer is written, in full or in part. *)
LEMMA RespondWrittenInv == ASSUME IndInv, RespondWritten PROVE IndInv'
<1> USE DEF IndInv
<1>0. responses # <<>> /\ loop.at \in {"idle", "respond"} /\ responses' = Tail(responses)
      /\ loop' = [at |-> "respond", fd |-> -1]
  BY DEF RespondWritten, Responding
<1>1. PICK f \in Fds : f = responses[1].fd
  BY <1>0, Popped
<1>2. PICK r \in Answers : r = responses[1].rsp
  BY <1>0, Popped
<1>3. f = Head(responses).fd /\ r = Head(responses).rsp
  BY <1>0, <1>1, <1>2, Popped
<1>4. PICK q : q = out[f] \o ResponseUnits(r)
  OBVIOUS
<1>5. q = Contents(f)
  BY <1>3, <1>4 DEF Contents
<1>6. PICK n \in 1 .. Len(q) :
         /\ out' = [out EXCEPT ![f] = SubSeq(q, n + 1, Len(q))]
         /\ down' = IF client[conn[f]].pc = "gone" THEN down
                    ELSE [down EXCEPT ![conn[f]] = @ \o SubSeq(q, 1, n)]
         /\ spoilt' = IF n < Len(q) THEN spoilt \cup {f} ELSE spoilt
  BY <1>3, <1>5 DEF RespondWritten
<1>7. /\ conn[f] # None
      /\ UNCHANGED <<client, up, backlog, conn, sock, watched, ticket, tasks, running,
                     crashed, split, orphaned>>
  BY <1>3 DEF RespondWritten
<1>8. PICK c \in Conns : c = conn[f] /\ \A g \in Fds : conn[g] = c => g = f
  <2>1. f \in watched
    BY <1>7 DEF SocketsOpen
  <2> QED
    BY <2>1, OpenConn
<1>9. q \in Seq(DownUnits) /\ Len(q) \in Nat /\ n \in Nat /\ n <= Len(q)
  BY <1>4, <1>6, ResponseTyped DEF TypeOK
<1>10. SubSeq(q, 1, n) \in Seq(DownUnits) /\ SubSeq(q, n + 1, Len(q)) \in Seq(DownUnits)
  BY <1>6, <1>9
<1>11. TypeOK'
  <2>1. out' \in [Fds -> Seq(DownUnits)]
    BY <1>6, <1>10 DEF TypeOK
  <2>2. down[c] \o SubSeq(q, 1, n) \in Seq(DownUnits)
    BY <1>10 DEF TypeOK
  <2>3. down' \in [Conns -> Seq(DownUnits)]
    BY <1>6, <1>8, <2>2 DEF TypeOK
  <2>4. loop' \in [at : {"idle", "submit", "respond"}, fd : Fds \cup {-1}]
    BY <1>0
  <2>5. responses' \in Seq([fd : Fds, rsp : Answers])
    BY <1>0, Popped
  <2>6. spoilt' \subseteq Fds
    BY <1>6 DEF TypeOK
  <2> QED
    BY <1>7, <2>1, <2>3, <2>4, <2>5, <2>6 DEF TypeOK
<1>12. InPool' = InPool
  BY <1>7, SamePool
<1>13. TicketsApart'
  BY <1>7, <1>12 DEF TicketsApart
<1>14. /\ \A d \in Conns : d # c => down'[d] = down[d]
       /\ client[c].pc = "gone" => down'[c] = down[c]
       /\ client[c].pc # "gone" => down'[c] = down[c] \o SubSeq(q, 1, n)
  BY <1>6, <1>8 DEF TypeOK
<1>15. spoilt \subseteq spoilt' /\ (f \notin spoilt' => n = Len(q) /\ f \notin spoilt)
  BY <1>6, <1>9
<1>16. f \notin spoilt' => q = ResponseUnits(r) /\ n = 2
  <2> SUFFICES ASSUME f \notin spoilt' PROVE q = ResponseUnits(r) /\ n = 2
    OBVIOUS
  <2>1. out[f] = <<>>
    BY <1>15 DEF Served
  <2> QED
    BY <1>4, <1>15, <2>1, ResponseTyped
<1>17. ASSUME NEW g \in Fds \ spoilt' PROVE out'[g] = <<>>
  <2>1. CASE g # f
    BY <1>6, <1>15, <2>1 DEF TypeOK, Served
  <2>2. CASE g = f
    <3>1. out'[f] = SubSeq(q, n + 1, Len(q)) /\ n = Len(q)
      BY <1>6, <1>15, <1>17, <2>2 DEF TypeOK
    <3>2. SubSeq(q, Len(q) + 1, Len(q)) = <<>>
      BY <1>9
    <3> QED
      BY <2>2, <3>1, <3>2
  <2> QED
    BY <2>1, <2>2
<1>18. ASSUME f \in Sound', client[c].pc # "gone", OneCall(f, c) PROVE OneCall(f, c)'
  <2>1. 1 \in DOMAIN responses /\ Answered(f)
    BY <1>0, <1>1, Popped DEF Answered
  <2>2. /\ client[c].pc = "waiting" /\ up[c] = <<>> /\ ~Tasked(f) /\ down[c] = <<>>
        /\ \A i \in DOMAIN responses : responses[i].fd = f => i = 1
        /\ r \in Own(c) /\ LastOnly(c) /\ client[c].answer \in Own(c) \cup {None}
    BY <1>1, <1>2, <1>18, <2>1 DEF OneCall
  <2>3. down'[c] = ResponseUnits(r)
    <3>1. f \notin spoilt'
      BY <1>18 DEF Sound
    <3>2. down'[c] = <<>> \o ResponseUnits(r)
      BY <1>14, <1>16, <1>18, <2>2, <3>1, ResponseTyped
    <3> QED
      BY <3>2, ResponseTyped
  <2>4. ~Answered(f)'
    <3>1. \A i \in DOMAIN responses' : i + 1 \in DOMAIN responses /\ i + 1 # 1
                                       /\ responses'[i] = responses[i + 1]
      BY <1>0, Popped
    <3> QED
      BY <2>2, <3>1 DEF Answered
  <2>5. ~Tasked(f)' /\ ~Submitting(f)' /\ LastOnly(c)' /\ Own(c)' = Own(c)
    BY <1>0, <1>7, <1>12, <2>2 DEF Tasked, Submitting, LastOnly, Own, Request, Response
  <2> QED
    BY <1>7, <2>2, <2>3, <2>4, <2>5 DEF OneCall, Tasked, Answered
<1>19. ASSUME NEW g \in Sound'
       PROVE  /\ g \in Sound
              /\ conn[g] = None => ~InServer(g)'
              /\ conn[g] # None /\ client[conn[g]].pc # "gone" /\ OneCall(g, conn[g])
                 => OneCall(g, conn[g])'
              /\ conn[g] # None /\ client[conn[g]].pc = "gone"
                 => down'[conn[g]] = down[conn[g]]
  <2>1. g \in Sound /\ g \in Fds /\ conn' = conn
    BY <1>7, <1>15 DEF Sound
  <2>2. CASE g = f
    BY <1>7, <1>8, <1>14, <1>18, <2>1, <2>2
  <2>3. CASE g # f
    <3>1. conn[g] # None => conn[g] \in Conns /\ conn[g] # c
      BY <1>8, <2>1, <2>3 DEF TypeOK
    <3>2. /\ InServer(g)' = InServer(g)
          /\ \A d \in Conns : down'[d] = down[d] /\ OneCall(g, d) => OneCall(g, d)'
      BY <1>0, <1>1, <1>7, <2>1, <2>3, OtherPopped
    <3>3. conn[g] = None => ~InServer(g)
      BY <2>1 DEF Served
    <3> QED
      BY <1>14, <2>1, <3>1, <3>2, <3>3
  <2> QED
    BY <2>2, <2>3
<1> QED
  <2>1. \A d \in Conns : (\A g \in Fds : conn[g] # d) => down'[d] = down[d]
    BY <1>8, <1>14
  <2>2. loop.at # "submit" /\ loop'.at # "submit"
    BY <1>0
  <2> QED
    BY <1>7, <1>11, <1>12, <1>13, <1>17, <1>19, <2>1, <2>2, ServerFrame

(* An answer cannot be written. *)
LEMMA RespondFailedInv == ASSUME IndInv, RespondFailed PROVE IndInv'
<1> USE DEF IndInv
<1>0. responses # <<>> /\ loop.at \in {"idle", "respond"} /\ responses' = Tail(responses)
      /\ loop' = [at |-> "respond", fd |-> -1]
  BY DEF RespondFailed, Responding
<1>1. PICK f \in Fds : f = responses[1].fd /\ f = Head(responses).fd
  BY <1>0, Popped
<1>2. /\ out' = [out EXCEPT ![f] = <<Junk>>] /\ spoilt' = spoilt \cup {f}
      /\ crashed' \in BOOLEAN
      /\ UNCHANGED <<client, up, down, backlog, conn, sock, watched, ticket, tasks, running,
                     split, orphaned>>
  BY <1>1 DEF RespondFailed, clientVars
<1>3. TypeOK'
  <2>1. <<Junk>> \in Seq(DownUnits)
    BY DEF DownUnits
  <2>2. out' \in [Fds -> Seq(DownUnits)]
    BY <1>2, <2>1 DEF TypeOK
  <2>3. loop' \in [at : {"idle", "submit", "respond"}, fd : Fds \cup {-1}]
    BY <1>0
  <2>4. responses' \in Seq([fd : Fds, rsp : Answers])
    BY <1>0, Popped
  <2> QED
    BY <1>2, <2>2, <2>3, <2>4 DEF TypeOK
<1>4. InPool' = InPool
  BY <1>2, SamePool
<1>5. TicketsApart'
  BY <1>2, <1>4 DEF TicketsApart
<1>6. \A g \in Fds \ spoilt' : out'[g] = <<>>
  BY <1>2 DEF TypeOK, Served
<1>7. ASSUME NEW g \in Sound'
      PROVE  /\ g \in Sound
             /\ conn[g] = None => ~InServer(g)'
             /\ conn[g] # None /\ client[conn[g]].pc # "gone" /\ OneCall(g, conn[g])
                => OneCall(g, conn[g])'
             /\ conn[g] # None /\ client[conn[g]].pc = "gone"
                => down'[conn[g]] = down[conn[g]]
  <2>1. g \in Sound /\ g \in Fds /\ conn' = conn /\ g # f
    BY <1>2 DEF Sound
  <2>2. /\ InServer(g)' = InServer(g)
        /\ \A d \in Conns : down'[d] = down[d] /\ OneCall(g, d) => OneCall(g, d)'
    BY <1>0, <1>1, <1>2, <2>1, OtherPopped
  <2>3. conn[g] = None => ~InServer(g)
    BY <2>1 DEF Served
  <2>4. conn[g] # None => conn[g] \in Conns
    BY <2>1 DEF TypeOK
  <2> QED
    BY <1>2, <2>1, <2>2, <2>3, <2>4
<1> QED
  <2>1. loop.at # "submit" /\ loop'.at # "submit"
    BY <1>0
  <2> QED
    BY <1>2, <1>3, <1>4, <1>5, <1>6, <1>7, <2>1, ServerFrame

(* ResponseCb returns. *)
LEMMA RespondEndInv == ASSUME IndInv, RespondEnd PROVE IndInv'
<1> USE DEF IndInv
<1>1. /\ loop.at = "respond" /\ loop' = [at |-> "idle", fd |-> -1]
      /\ UNCHANGED <<client, up, down, backlog, conn, sock, out, watched, ticket, tasks,
                     running, responses, crashed, split, orphaned, spoilt>>
  BY DEF RespondEnd, clientVars, socketVars, poolVars, history
<1>2. TypeOK'
  <2>1. loop' \in [at : {"idle", "submit", "respond"}, fd : Fds \cup {-1}]
    BY <1>1
  <2> QED
    BY <1>1, <2>1 DEF TypeOK
<1>3. InPool' = InPool
  BY <1>1, SamePool
<1>4. TicketsApart'
  BY <1>1, <1>3 DEF TicketsApart
<1>5. \A f \in Fds \ spoilt' : out'[f] = <<>>
  BY <1>1 DEF Served
<1>6. \A f \in Fds : InServer(f)' = InServer(f) /\ Tasked(f)' = Tasked(f)
                     /\ Answered(f)' = Answered(f) /\ ~Submitting(f) /\ ~Submitting(f)'
  BY <1>1, <1>3 DEF InServer, Tasked, Answered, Submitting
<1>7. ASSUME NEW f \in Fds, NEW c \in Conns, OneCall(f, c) PROVE OneCall(f, c)'
  <2>1. LastOnly(c)' = LastOnly(c) /\ Own(c)' = Own(c)
    BY <1>1 DEF LastOnly, Own, Request, Response
  <2> QED
    BY <1>1, <1>3, <1>6, <1>7, <2>1 DEF OneCall
<1>8. ASSUME NEW f \in Sound'
      PROVE  /\ f \in Sound
             /\ conn[f] = None => ~InServer(f)'
             /\ conn[f] # None /\ client[conn[f]].pc # "gone" /\ OneCall(f, conn[f])
                => OneCall(f, conn[f])'
             /\ conn[f] # None /\ client[conn[f]].pc = "gone"
                => down'[conn[f]] = down[conn[f]]
  <2>1. f \in Sound /\ f \in Fds /\ conn' = conn
    BY <1>1 DEF Sound
  <2>2. conn[f] # None => conn[f] \in Conns
    BY <2>1 DEF TypeOK
  <2>3. conn[f] = None => ~InServer(f)'
    BY <1>6, <2>1 DEF Served
  <2> QED
    BY <1>1, <1>7, <2>1, <2>2, <2>3
<1> QED
  BY <1>1, <1>2, <1>3, <1>4, <1>5, <1>8, ServerFrame

-----------------------------------------------------------------------------
(* Every step keeps the invariant. *)
LEMMA NextInv == IndInv /\ [Next]_vars => IndInv'
<1> SUFFICES ASSUME IndInv, [Next]_vars PROVE IndInv'
  OBVIOUS
<1>1. ASSUME NEW c \in Conns, Connect(c) \/ ConnectFails(c) PROVE IndInv'
  BY <1>1, ConnectInv, ConnectFailsInv
<1>2. ASSUME NEW c \in Conns, Call(c) PROVE IndInv'
  BY <1>2, CallInv
<1>3. ASSUME NEW c \in Conns, ClientStep(c) PROVE IndInv'
  BY <1>3, SendInv, ReceiveInv, ReceiveEofInv DEF ClientStep
<1>4. ASSUME NEW c \in Conns, Leave(c) PROVE IndInv'
  BY <1>4, LeaveInv
<1>5. ASSUME NEW c \in Conns, AcceptFdCb(c) PROVE IndInv'
  BY <1>5, AcceptFdCbInv
<1>6. ASSUME NEW f \in Fds, ReadCb(f) PROVE IndInv'
  <2>1. ASSUME NEW s \in AtBody(f),
               ReadNothing(f, s) \/ ReadPart(f, s) \/ ReadWhole(f, s) \/ ReadError(f, s)
        PROVE  IndInv'
    BY <2>1, ReadNothingInv, ReadPartInv, ReadWholeInv, ReadErrorInv
  <2> QED
    BY <1>6, <2>1, ReadEofInv, ReadOversizeInv, ReadHeaderPartInv DEF ReadCb, Reads
<1>7. CASE Submit
  BY <1>7, SubmitInv
<1>8. CASE SubmitUnparsed
  BY <1>8, SubmitUnparsedInv
<1>9. CASE ResponseCb
  BY <1>9, RespondWrittenInv, RespondFailedInv, RespondEndInv DEF ResponseCb
<1>10. ASSUME NEW w \in Workers, WorkerStep(w) PROVE IndInv'
  BY <1>10, TakeInv, RunInv DEF WorkerStep
<1>11. CASE UNCHANGED vars
  <2>1. UNCHANGED <<client, up, down, backlog, conn, sock, out, watched, loop, ticket, tasks,
                    running, responses, crashed, split, orphaned, spoilt>>
    BY <1>11 DEF vars, clientVars, socketVars, poolVars, history
  <2>2. InPool' = InPool
    BY <2>1, SamePool
  <2>3. TypeOK' /\ TicketsApart'
    BY <2>1, <2>2 DEF IndInv, TypeOK, TicketsApart
  <2>4. \A f \in Fds \ spoilt' : out'[f] = <<>>
    BY <2>1 DEF IndInv, Served
  <2>5. ASSUME NEW f \in Sound'
        PROVE  /\ f \in Sound
               /\ conn[f] = None => ~InServer(f)'
               /\ conn[f] # None /\ client[conn[f]].pc # "gone" /\ OneCall(f, conn[f])
                  => OneCall(f, conn[f])'
               /\ conn[f] # None /\ client[conn[f]].pc = "gone"
                  => down'[conn[f]] = down[conn[f]]
    <3>1. f \in Sound /\ f \in Fds
      BY <2>1 DEF Sound
    <3>2. conn[f] = None => ~InServer(f)'
      BY <2>1, <3>1 DEF IndInv, Served, InServer
    <3>3. OneCall(f, conn[f])' = OneCall(f, conn[f])
      BY <2>1, <2>2 DEF OneCall, LastOnly, Own, Request, Response, Submitting, Tasked, Answered
    <3> QED
      BY <2>1, <3>1, <3>2, <3>3
  <2> QED
    BY <2>1, <2>2, <2>3, <2>4, <2>5, ServerFrame
<1> QED
  BY <1>1, <1>2, <1>3, <1>4, <1>5, <1>6, <1>7, <1>8, <1>9, <1>10, <1>11 DEF Next, LoopStep

(* In every state that client, loop and workers can reach: the types, the  *)
(* sockets that are open, one descriptor per connection, one ticket per    *)
(* task, streams in order, packets and tasks whole, one place per call;    *)
(* for requests of any length, those longer than the buffer made for them  *)
(* included, up to the first write past its end that does damage.          *)
THEOREM Invariance == Spec => []IndInv
<1> QED
  BY InitIndInv, NextInv, PTL DEF Spec

(* What Submit puts into the task ring and a worker takes out of it is a   *)
(* request whole, as its client sent it, and in the pool once; its client  *)
(* waits for it or has left.  Excepted are descriptors on which ReadCb     *)
(* once got a header or a body in parts, and all that follows damage done  *)
(* past the end of a buffer.                                               *)
THEOREM RequestsRunOnce == Spec => []RequestOnce
<1>1. IndInv => RequestOnce
  <2> SUFFICES ASSUME IndInv, NEW t \in InPool, t.fd # -1, t.fd \notin split
               PROVE  /\ t.req # Mixture
                      /\ \/ client[t.req.conn].pc = "gone" \/ t.fd \in orphaned \cup spoilt
                         \/ /\ client[t.req.conn].pc = "waiting"
                            /\ client[t.req.conn].calls = t.req.call
                      /\ \A u \in InPool : u.req = t.req => u = t
    BY DEF RequestOnce
  <2>1. t.req # Mixture /\ \A u \in InPool : u.req = t.req => u = t
    BY DEF IndInv, TasksWhole
  <2>2. CASE t.fd \notin orphaned \cup spoilt
    <3>1. t.fd \in Sound /\ t.fd \in Fds
      BY <2>2, TaskTyped DEF Sound, Tasks
    <3>2. Tasked(t.fd) /\ InServer(t.fd)
      BY DEF Tasked, InServer, InPool
    <3>3. t.req.conn = conn[t.fd] /\ conn[t.fd] # None
      BY <3>1, <3>2 DEF IndInv, Served
    <3>4. client[conn[t.fd]].pc = "gone" \/ OneCall(t.fd, conn[t.fd])
      BY <3>1, <3>3 DEF IndInv, Served
    <3> QED
      BY <2>1, <3>2, <3>3, <3>4 DEF OneCall
  <2> QED
    BY <2>1, <2>2
<1> QED
  BY Invariance, <1>1, PTL

(* What ResponseCb writes to a client is the answer to its own last call,  *)
(* once, also when the descriptor was another client's before; unless that *)
(* one was closed with a request in the server, a header or a body arrived *)
(* in parts, or a write() was short or failed.                             *)
THEOREM AnswersReachOwner == Spec => []AnswersOwn
<1>1. IndInv => AnswersOwn
  <2> SUFFICES ASSUME IndInv, NEW f \in Sound, conn[f] # None
               PROVE  LET c == conn[f] IN
                      /\ client[c].answer \in Own(c) \cup {None}
                      /\ down[c] \in {ResponseUnits(r) : r \in Own(c)} \cup {<<>>}
                      /\ down[c] # <<>> => client[c].pc = "waiting"
    BY DEF AnswersOwn, Sound, Own
  <2>1. client[conn[f]].pc = "gone" \/ OneCall(f, conn[f])
    BY DEF IndInv, Served
  <2>2. CASE client[conn[f]].pc = "gone"
    BY <2>2 DEF IndInv, Served
  <2>3. CASE OneCall(f, conn[f])
    BY <2>3 DEF OneCall
  <2> QED
    BY <2>1, <2>2, <2>3
<1> QED
  BY Invariance, <1>1, PTL
=============================================================================
