------------------------ MODULE AcceptDispatchProofs ------------------------
(***************************************************************************)
(* The dispatch of accepted sockets (Server::Wait with AcceptFdCb) keeps   *)
(* every connection in exactly one place and loses no wake-up, for any     *)
(* number of event loops, any queue size and any number of connections.    *)
(***************************************************************************)
EXTENDS AcceptDispatch, FiniteSetTheorems, TLAPS

USE LoopAssumption DEF Loops, Fds, NoFd

(* idx %= event_loop_count_ names a loop. *)
LEMMA ModIsLoop == ASSUME NEW i \in Nat PROVE i % LoopCount \in Loops
  OBVIOUS

(* A queue's slots are counted by the ring's size. *)
LEMMA SlotsMember ==
    ASSUME TypeOK, NEW f, NEW l \in Loops, NEW i \in Nat
    PROVE  <<l, i>> \in Slots(f) <=> i \in 1 .. Len(queue[l]) /\ queue[l][i] = f
<1>1. queue[l] \in Seq(Fds) /\ Len(queue[l]) \in Nat /\ Len(queue[l]) <= QueueSize
  BY DEF TypeOK
<1> QED
  BY <1>1 DEF Slots

(* Nobody but the accepting thread and the loops touch a socket's place. *)
LEMMA SamePlaces ==
    ASSUME OnePlace, UNCHANGED <<pending, fd, queue, watched>>
    PROVE  OnePlace'
<1>1. ASSUME NEW f \in Fds PROVE Watchers(f)' = Watchers(f) /\ Slots(f)' = Slots(f)
  BY DEF Watchers, Slots
<1> QED
  BY <1>1 DEF OnePlace, WithKernel, WithAcceptor, InQueue, WithLoop

(* The server starts with every connection still with the kernel. *)
LEMMA InitIndInv == Init => IndInv
<1> SUFFICES ASSUME Init PROVE IndInv
  OBVIOUS
<1>1. TypeOK /\ Acceptor /\ FlagCovered /\ NoLostWakeup
  BY DEF Init, TypeOK, Acceptor, FlagCovered, NoLostWakeup
<1>2. OnePlace
  <2> SUFFICES ASSUME NEW f \in Fds PROVE WithKernel(f)
    BY DEF OnePlace
  <2>1. Watchers(f) = {}
    BY DEF Init, Watchers
  <2>2. Slots(f) = {}
    BY DEF Init, Slots
  <2> QED
    BY <2>1, <2>2 DEF Init, WithKernel
<1> QED
  BY <1>1, <1>2 DEF IndInv

(* The accepted socket moves from the kernel to the acceptor. *)
LEMMA AcceptInv == ASSUME IndInv, Accept PROVE IndInv'
<1> USE DEF IndInv
<1>0. idx' \in Loops
  <2>1. idx \in Nat /\ idx' = idx % LoopCount
    BY DEF Accept, TypeOK
  <2> QED
    BY <2>1, ModIsLoop
<1>1. TypeOK'
  BY <1>0 DEF Accept, TypeOK
<1>2. Acceptor' /\ FlagCovered' /\ NoLostWakeup'
  BY <1>0 DEF Accept, TypeOK, Acceptor, FlagCovered, NoLostWakeup
<1>3. OnePlace'
  <2> SUFFICES ASSUME NEW f \in Fds
               PROVE  (WithKernel(f) \/ WithAcceptor(f) \/ InQueue(f) \/ WithLoop(f))'
    BY DEF OnePlace
  <2>1. Watchers(f)' = Watchers(f) /\ Slots(f)' = Slots(f)
    BY DEF Watchers, Slots, Accept
  <2>2. fd = NoFd /\ fd' \in pending /\ pending' = pending \ {fd'}
    BY DEF Accept, Acceptor
  <2> QED
    BY <2>1, <2>2 DEF OnePlace, WithKernel, WithAcceptor, InQueue, WithLoop
<1> QED
  BY <1>1, <1>2, <1>3

(* A put that finds room moves the socket into one slot; one that does not *)
(* leaves it with the acceptor.                                            *)
LEMMA PutInv == ASSUME IndInv, Put PROVE IndInv'
<1> USE DEF IndInv
<1>1. idx \in Loops /\ fd \in Fds
  BY DEF Acceptor, TypeOK, Put
<1>2. CASE Len(queue[idx]) < QueueSize
  <2>1. /\ queue' = [queue EXCEPT ![idx] = Append(queue[idx], fd)]
        /\ apc' = "exchange" /\ fd' = NoFd /\ idx' = idx
        /\ UNCHANGED <<pending, flag, counter, lpc, watched>>
    BY <1>2 DEF Put
  <2>2. queue[idx] \in Seq(Fds) /\ Len(queue[idx]) \in Nat
    BY <1>1 DEF TypeOK
  <2>3. /\ queue'[idx] \in Seq(Fds) /\ Len(queue'[idx]) = Len(queue[idx]) + 1
        /\ \A i \in 1 .. Len(queue[idx]) : queue'[idx][i] = queue[idx][i]
        /\ queue'[idx][Len(queue[idx]) + 1] = fd
        /\ \A l \in Loops \ {idx} : queue'[l] = queue[l]
    BY <1>1, <2>1, <2>2 DEF TypeOK
  <2>4. TypeOK'
    BY <1>1, <1>2, <2>1, <2>2, <2>3 DEF TypeOK
  <2>5. Acceptor' /\ FlagCovered' /\ NoLostWakeup'
    BY <1>1, <2>1, <2>3 DEF Acceptor, FlagCovered, NoLostWakeup, Put
  <2>6. OnePlace'
    <3> SUFFICES ASSUME NEW f \in Fds
                 PROVE  (WithKernel(f) \/ WithAcceptor(f) \/ InQueue(f) \/ WithLoop(f))'
      BY DEF OnePlace
    <3>1. Watchers(f)' = Watchers(f)
      BY <2>1 DEF Watchers
    <3>2. CASE f = fd
      <4>1. Slots(f) = {} /\ Watchers(f) = {} /\ f \notin pending
        BY <3>2 DEF OnePlace, WithKernel, WithAcceptor, InQueue, WithLoop
      <4>2. <<idx, Len(queue[idx]) + 1>> \in Loops \X (1 .. QueueSize)
        BY <1>1, <1>2, <2>2
      <4>3. \A l \in Loops : \A i \in 1 .. QueueSize :
              i <= Len(queue'[l]) /\ queue'[l][i] = f
              <=> l = idx /\ i = Len(queue[idx]) + 1
        <5> SUFFICES ASSUME NEW l \in Loops, NEW i \in 1 .. QueueSize
                     PROVE  i <= Len(queue'[l]) /\ queue'[l][i] = f
                            <=> l = idx /\ i = Len(queue[idx]) + 1
          OBVIOUS
        <5>1. ~ (i <= Len(queue[l]) /\ queue[l][i] = f)
          <6>1. <<l, i>> \notin Slots(f) /\ <<l, i>> \in Loops \X (1 .. QueueSize)
            BY <4>1
          <6> QED
            BY <6>1 DEF Slots
        <5>2. CASE l # idx
          BY <5>1, <5>2, <2>3
        <5>3. CASE l = idx /\ i \in 1 .. Len(queue[idx])
          <6>1. i <= Len(queue[l]) /\ queue'[l][i] = queue[l][i] /\ i # Len(queue[idx]) + 1
            BY <5>3, <2>2, <2>3
          <6> QED
            BY <5>1, <6>1
        <5>4. CASE l = idx /\ i = Len(queue[idx]) + 1
          BY <5>4, <2>2, <2>3, <3>2
        <5>5. CASE l = idx /\ i > Len(queue[idx]) + 1
          <6>1. ~(i <= Len(queue'[l]))
            BY <5>5, <2>2, <2>3
          <6> QED
            BY <5>5, <6>1, <2>2
        <5>6. i \in 1 .. Len(queue[idx]) \/ i = Len(queue[idx]) + 1 \/ i > Len(queue[idx]) + 1
          BY <2>2
        <5> QED
          BY <5>2, <5>3, <5>4, <5>5, <5>6, Zenon
      <4>4. Slots(f)' = {<<idx, Len(queue[idx]) + 1>>}
        BY <4>2, <4>3 DEF Slots
      <4> QED
        BY <4>1, <4>2, <4>4, <3>1, <2>1, <3>2 DEF InQueue
    <3>3. CASE f # fd
      <4>1. \A l \in Loops : \A i \in 1 .. QueueSize :
              i <= Len(queue'[l]) /\ queue'[l][i] = f
              <=> i <= Len(queue[l]) /\ queue[l][i] = f
        <5> SUFFICES ASSUME NEW l \in Loops, NEW i \in 1 .. QueueSize
                     PROVE  i <= Len(queue'[l]) /\ queue'[l][i] = f
                            <=> i <= Len(queue[l]) /\ queue[l][i] = f
          OBVIOUS
        <5>1. CASE l # idx
          BY <5>1, <2>3
        <5>2. CASE l = idx /\ i \in 1 .. Len(queue[idx])
          <6>1. /\ queue'[l][i] = queue[l][i] /\ i <= Len(queue[l])
                /\ i <= Len(queue'[l])
            BY <5>2, <2>2, <2>3
          <6> QED
            BY <6>1
        <5>3. CASE l = idx /\ i = Len(queue[idx]) + 1
          BY <5>3, <2>2, <2>3, <3>3
        <5>4. CASE l = idx /\ i > Len(queue[idx]) + 1
          <6>1. ~(i <= Len(queue'[l])) /\ ~(i <= Len(queue[l]))
            BY <5>4, <2>2, <2>3
          <6> QED
            BY <6>1
        <5> QED
          BY <5>1, <5>2, <5>3, <5>4, <2>2
      <4>2. Slots(f)' = Slots(f)
        BY <4>1 DEF Slots
      <4> QED
        BY <4>2, <3>1, <3>3, <2>1 DEF OnePlace, WithKernel, WithAcceptor, InQueue, WithLoop
    <3> QED
      BY <3>2, <3>3
  <2> QED
    BY <2>4, <2>5, <2>6
<1>3. CASE ~(Len(queue[idx]) < QueueSize)
  <2>1. idx' = (idx + 1) % LoopCount /\ UNCHANGED <<queue, apc, fd, pending, flag, counter, lpc, watched>>
    BY <1>3 DEF Put
  <2>2. idx' \in Loops /\ apc = "put"
    <3>1. idx + 1 \in Nat
      BY <1>1
    <3> QED
      BY <2>1, <3>1, ModIsLoop DEF Put
  <2>3. TypeOK'
    BY <2>1, <2>2 DEF TypeOK
  <2>4. Acceptor' /\ FlagCovered' /\ NoLostWakeup'
    BY <2>1, <2>2 DEF Acceptor, FlagCovered, NoLostWakeup
  <2>5. OnePlace'
    BY <2>1, SamePlaces
  <2> QED
    BY <2>3, <2>4, <2>5
<1> QED
  BY <1>2, <1>3

(* Whoever finds the flag up relies on the notification under way. *)
LEMMA ExchangeInv == ASSUME IndInv, Exchange PROVE IndInv'
<1> USE DEF IndInv
<1>1. TypeOK'
  BY DEF Exchange, TypeOK, Acceptor
<1>2. Acceptor'
  BY DEF Exchange, TypeOK, Acceptor
<1>3. FlagCovered' /\ NoLostWakeup'
  BY DEF Exchange, TypeOK, Acceptor, FlagCovered, NoLostWakeup
<1>4. OnePlace'
  BY SamePlaces DEF Exchange
<1> QED
  BY <1>1, <1>2, <1>3, <1>4

(* The counter takes over from the acceptor before idx moves on. *)
LEMMA WriteInv == ASSUME IndInv, Write PROVE IndInv'
<1> USE DEF IndInv
<1>1. TypeOK' /\ Acceptor'
  BY DEF Write, TypeOK, Acceptor
<1>2. FlagCovered' /\ NoLostWakeup'
  BY DEF Write, TypeOK, Acceptor, FlagCovered, NoLostWakeup
<1>3. OnePlace'
  BY SamePlaces DEF Write
<1> QED
  BY <1>1, <1>2, <1>3

(* The counter stays up until the loop reads it. *)
LEMMA WakeInv == ASSUME IndInv, NEW l \in Loops, Wake(l) PROVE IndInv'
<1> USE DEF IndInv
<1>1. TypeOK' /\ Acceptor'
  BY DEF Wake, TypeOK, Acceptor
<1>2. FlagCovered' /\ NoLostWakeup'
  BY DEF Wake, TypeOK, FlagCovered, NoLostWakeup
<1>3. OnePlace'
  BY SamePlaces DEF Wake
<1> QED
  BY <1>1, <1>2, <1>3

(* The notification moves from the counter to the loop. *)
LEMMA ReadInv == ASSUME IndInv, NEW l \in Loops, Read(l) PROVE IndInv'
<1> USE DEF IndInv
<1>1. TypeOK' /\ Acceptor'
  BY DEF Read, TypeOK, Acceptor
<1>2. FlagCovered' /\ NoLostWakeup'
  BY DEF Read, TypeOK, FlagCovered, NoLostWakeup
<1>3. OnePlace'
  BY SamePlaces DEF Read
<1> QED
  BY <1>1, <1>2, <1>3

(* The loop lowers the flag and will drain its queue. *)
LEMMA UnsetInv == ASSUME IndInv, NEW l \in Loops, Unset(l) PROVE IndInv'
<1> USE DEF IndInv
<1>1. TypeOK' /\ Acceptor'
  BY DEF Unset, TypeOK, Acceptor
<1>2. FlagCovered' /\ NoLostWakeup'
  BY DEF Unset, TypeOK, FlagCovered, NoLostWakeup
<1>3. OnePlace'
  BY SamePlaces DEF Unset
<1> QED
  BY <1>1, <1>2, <1>3

(* A loop sleeps on an empty queue. *)
LEMMA SleepInv == ASSUME IndInv, NEW l \in Loops, Sleep(l) PROVE IndInv'
<1> USE DEF IndInv
<1>1. TypeOK' /\ Acceptor'
  BY DEF Sleep, TypeOK, Acceptor
<1>2. FlagCovered' /\ NoLostWakeup'
  BY DEF Sleep, TypeOK, FlagCovered, NoLostWakeup
<1>3. OnePlace'
  BY SamePlaces DEF Sleep
<1> QED
  BY <1>1, <1>2, <1>3

(* The head of the queue moves to the loop's watchers, the others move up  *)
(* by one slot.                                                            *)
LEMMA RegisterInv == ASSUME IndInv, NEW l \in Loops, Register(l) PROVE IndInv'
<1> USE DEF IndInv
<1>1. /\ queue[l] \in Seq(Fds) /\ queue[l] # <<>>
      /\ Len(queue[l]) \in Nat \ {0} /\ Len(queue[l]) <= QueueSize
      /\ Head(queue[l]) = queue[l][1] /\ queue[l][1] \in Fds
  <2>1. queue[l] \in Seq(Fds) /\ queue[l] # <<>> /\ Len(queue[l]) <= QueueSize
    BY DEF Register, TypeOK
  <2> QED
    BY <2>1
<1>2. /\ queue'[l] \in Seq(Fds) /\ Len(queue'[l]) = Len(queue[l]) - 1
      /\ \A i \in 1 .. Len(queue[l]) - 1 : queue'[l][i] = queue[l][i + 1]
      /\ \A m \in Loops \ {l} : queue'[m] = queue[m]
  <2>1. queue' = [queue EXCEPT ![l] = Tail(queue[l])]
    BY DEF Register
  <2> QED
    BY <1>1, <2>1 DEF TypeOK
<1>3. /\ watched' = [watched EXCEPT ![l] = watched[l] \cup {queue[l][1]}]
      /\ UNCHANGED <<pending, apc, fd, idx, flag, counter, lpc>>
      /\ lpc[l] = "drain"
  BY <1>1 DEF Register
<1>4. TypeOK'
  BY <1>1, <1>2, <1>3 DEF TypeOK, Register
<1>5. Acceptor' /\ FlagCovered' /\ NoLostWakeup'
  BY <1>2, <1>3 DEF Acceptor, FlagCovered, NoLostWakeup
<1>6. OnePlace'
  <2> SUFFICES ASSUME NEW f \in Fds
               PROVE  (WithKernel(f) \/ WithAcceptor(f) \/ InQueue(f) \/ WithLoop(f))'
    BY DEF OnePlace
  <2>1. \A m \in Loops : \A i \in 1 .. QueueSize :
          <<m, i>> \in Slots(f)'
          <=> \/ m = l /\ <<l, i + 1>> \in Slots(f)
              \/ m # l /\ <<m, i>> \in Slots(f)
    <3> SUFFICES ASSUME NEW m \in Loops, NEW i \in 1 .. QueueSize
                 PROVE  <<m, i>> \in Slots(f)'
          <=> \/ m = l /\ <<l, i + 1>> \in Slots(f)
              \/ m # l /\ <<m, i>> \in Slots(f)
      OBVIOUS
    <3>1. <<m, i>> \in Slots(f)' <=> i <= Len(queue'[m]) /\ queue'[m][i] = f
      BY DEF Slots
    <3>2. <<m, i>> \in Slots(f) <=> i <= Len(queue[m]) /\ queue[m][i] = f
      BY DEF Slots
    <3>3. CASE m # l
      BY <3>1, <3>2, <3>3, <1>2
    <3>4. CASE m = l
      <4>1. i + 1 \in Nat /\ TypeOK
        OBVIOUS
      <4>2. <<l, i + 1>> \in Slots(f) <=> i + 1 \in 1 .. Len(queue[l]) /\ queue[l][i + 1] = f
        BY <4>1, SlotsMember
      <4>3. i <= Len(queue'[l]) <=> i + 1 <= Len(queue[l])
        <5>1. Len(queue'[l]) = Len(queue[l]) - 1 /\ Len(queue[l]) \in Nat
          BY <1>1, <1>2
        <5> QED
          BY <5>1
      <4>4. CASE i + 1 <= Len(queue[l])
        <5>1. i \in 1 .. Len(queue[l]) - 1
          BY <4>4, <1>1
        <5>2. queue'[l][i] = queue[l][i + 1]
          BY <5>1, <1>2
        <5> QED
          BY <3>1, <3>4, <4>2, <4>3, <4>4, <5>2, <1>1
      <4>5. CASE ~(i + 1 <= Len(queue[l]))
        BY <3>1, <3>4, <4>2, <4>3, <4>5, <1>1
      <4> QED
        BY <4>4, <4>5
    <3> QED
      BY <3>3, <3>4
  <2>2. \A m \in Loops : m \in Watchers(f)' <=> m \in Watchers(f) \/ (m = l /\ f = queue[l][1])
    BY <1>3 DEF Watchers, TypeOK
  <2>3. f = queue[l][1] <=> <<l, 1>> \in Slots(f)
    <3>1. 1 \in Nat /\ TypeOK
      OBVIOUS
    <3>2. <<l, 1>> \in Slots(f) <=> 1 \in 1 .. Len(queue[l]) /\ queue[l][1] = f
      BY <3>1, SlotsMember
    <3> QED
      BY <3>2, <1>1
  <2>4. \A s : s \in Slots(f) => \E m \in Loops, i \in 1 .. QueueSize : s = <<m, i>>
    BY DEF Slots
  <2>5. \A s : s \in Slots(f)' => \E m \in Loops, i \in 1 .. QueueSize : s = <<m, i>>
    BY DEF Slots
  <2>6. CASE Slots(f) = {}
    <3>1. Slots(f)' = {} /\ f # queue[l][1]
      BY <2>6, <2>1, <2>3, <2>5
    <3>2. Watchers(f)' = Watchers(f)
      BY <2>2, <3>1 DEF Watchers
    <3> QED
      BY <3>1, <3>2, <2>6, <1>3 DEF OnePlace, WithKernel, WithAcceptor, InQueue, WithLoop
  <2>7. CASE Slots(f) # {}
    <3>1. PICK s \in Loops \X (1 .. QueueSize) : Slots(f) = {s}
      BY <2>7 DEF OnePlace, WithKernel, WithAcceptor, InQueue, WithLoop
    <3>2. Watchers(f) = {} /\ f \notin pending /\ fd # f
      BY <2>7 DEF OnePlace, WithKernel, WithAcceptor, InQueue, WithLoop
    <3>3. PICK k \in Loops, j \in 1 .. QueueSize : s = <<k, j>>
      BY <3>1
    <3>4. \A m \in Loops : \A i \in Nat : <<m, i>> \in Slots(f) <=> m = k /\ i = j
      BY <3>1, <3>3
    <3>5. CASE k = l /\ j = 1
      <4>1. f = queue[l][1]
        BY <3>4, <3>5, <2>3
      <4>2. Slots(f)' = {}
        <5>1. ASSUME NEW m \in Loops, NEW i \in 1 .. QueueSize PROVE <<m, i>> \notin Slots(f)'
          <6>1. i + 1 \in Nat /\ i + 1 # j /\ i \in Nat
            BY <3>5
          <6>2. <<l, i + 1>> \notin Slots(f)
            BY <6>1, <3>4
          <6>3. m # l => <<m, i>> \notin Slots(f)
            BY <6>1, <3>4, <3>5
          <6> QED
            BY <6>2, <6>3, <2>1
        <5> QED
          BY <5>1, <2>5
      <4>3. Watchers(f)' = {l}
        BY <2>2, <3>2, <4>1 DEF Watchers
      <4> QED
        BY <4>2, <4>3, <3>2, <1>3 DEF WithLoop
    <3>6. CASE k = l /\ j # 1
      <4>1. f # queue[l][1]
        BY <3>4, <3>6, <2>3
      <4>2. j - 1 \in 1 .. QueueSize
        BY <3>6
      <4>3. \A m \in Loops : \A i \in 1 .. QueueSize :
              <<m, i>> \in Slots(f)' <=> m = l /\ i = j - 1
        <5> SUFFICES ASSUME NEW m \in Loops, NEW i \in 1 .. QueueSize
                     PROVE  <<m, i>> \in Slots(f)' <=> m = l /\ i = j - 1
          OBVIOUS
        <5>1. i + 1 \in Nat /\ i \in Nat /\ (i + 1 = j <=> i = j - 1)
          OBVIOUS
        <5>2. <<l, i + 1>> \in Slots(f) <=> i + 1 = j
          BY <5>1, <3>4, <3>6
        <5>3. m # l => <<m, i>> \notin Slots(f)
          BY <5>1, <3>4, <3>6
        <5> QED
          BY <5>1, <5>2, <5>3, <2>1
      <4>4. Slots(f)' = {<<l, j - 1>>}
        BY <4>2, <4>3, <2>5
      <4>5. Watchers(f)' = {}
        BY <2>2, <3>2, <4>1 DEF Watchers
      <4> QED
        BY <4>2, <4>4, <4>5, <3>2, <1>3 DEF InQueue
    <3>7. CASE k # l
      <4>1. f # queue[l][1]
        BY <3>4, <3>7, <2>3
      <4>2. \A m \in Loops : \A i \in 1 .. QueueSize :
              <<m, i>> \in Slots(f)' <=> m = k /\ i = j
        <5> SUFFICES ASSUME NEW m \in Loops, NEW i \in 1 .. QueueSize
                     PROVE  <<m, i>> \in Slots(f)' <=> m = k /\ i = j
          OBVIOUS
        <5>1. i + 1 \in Nat /\ i \in Nat
          OBVIOUS
        <5>2. <<l, i + 1>> \notin Slots(f)
          BY <5>1, <3>4, <3>7
        <5> QED
          BY <5>1, <5>2, <2>1, <3>4, <3>7
      <4>3. Slots(f)' = {<<k, j>>}
        BY <4>2, <2>5
      <4>4. Watchers(f)' = {}
        BY <2>2, <3>2, <4>1 DEF Watchers
      <4> QED
        BY <4>3, <4>4, <3>2, <1>3 DEF InQueue
    <3> QED
      BY <3>5, <3>6, <3>7
  <2> QED
    BY <2>6, <2>7
<1> QED
  BY <1>4, <1>5, <1>6

-----------------------------------------------------------------------------
(* IndInv is an inductive invariant of the dispatcher and its loops. *)
THEOREM Invariance == Spec => []IndInv
<1>1. Init => IndInv
  BY InitIndInv
<1>2. IndInv /\ [Next]_vars => IndInv'
  <2> SUFFICES ASSUME IndInv, [Next]_vars PROVE IndInv'
    OBVIOUS
  <2>1. ASSUME AcceptorStep PROVE IndInv'
    BY <2>1, AcceptInv, PutInv, ExchangeInv, WriteInv DEF AcceptorStep
  <2>2. ASSUME NEW l \in Loops, LoopStep(l) PROVE IndInv'
    BY <2>2, WakeInv, ReadInv, UnsetInv, RegisterInv, SleepInv DEF LoopStep
  <2>3. CASE UNCHANGED vars
    <3>1. OnePlace'
      BY <2>3, SamePlaces DEF vars, IndInv
    <3> QED
      BY <2>3, <3>1 DEF vars, IndInv, TypeOK, Acceptor, FlagCovered, NoLostWakeup
  <2> QED
    BY <2>1, <2>2, <2>3 DEF Next
<1> QED
  BY <1>1, <1>2, PTL DEF Spec

(* One place for every socket, counted. *)
LEMMA OnePlaceCount == OnePlace => ExactlyOnePlace
<1> SUFFICES ASSUME OnePlace, NEW f \in Fds PROVE Places(f) = 1
  BY DEF ExactlyOnePlace
<1>1. Cardinality({}) = 0 /\ \A x : Cardinality({x}) = 1
  BY FS_EmptySet, FS_Singleton
<1>2. CASE WithKernel(f)
  BY <1>1, <1>2 DEF WithKernel, Places
<1>3. CASE WithAcceptor(f)
  BY <1>1, <1>3 DEF WithAcceptor, Places
<1>4. CASE InQueue(f)
  <2>1. Cardinality(Slots(f)) = 1
    BY <1>1, <1>4 DEF InQueue
  <2> QED
    BY <1>1, <1>4, <2>1 DEF InQueue, Places
<1>5. CASE WithLoop(f)
  <2>1. Cardinality(Watchers(f)) = 1
    BY <1>1, <1>5 DEF WithLoop
  <2> QED
    BY <1>1, <1>5, <2>1 DEF WithLoop, Places
<1> QED
  BY <1>2, <1>3, <1>4, <1>5 DEF OnePlace

(* No connection is dropped when the queues are full, none is handed to    *)
(* two loops: Server::Wait's round over the fd_queues loses and            *)
(* duplicates nothing.                                                     *)
THEOREM SocketInOnePlace == Spec => []ExactlyOnePlace
<1>1. IndInv => ExactlyOnePlace
  BY OnePlaceCount DEF IndInv
<1> QED
  BY <1>1, Invariance, PTL

(* No loop sleeps in epoll_wait on a queued socket unless its own          *)
(* notification is on the way, although idx moves on from loop to loop.    *)
THEOREM DispatchWakesLoop == Spec => []NoLostWakeup
<1>1. IndInv => NoLostWakeup
  BY DEF IndInv
<1> QED
  BY <1>1, Invariance, PTL
=============================================================================
