--------------------------- MODULE CircBufProofs ---------------------------
(***************************************************************************)
(* CircBuf is race free for any number of threads and any ring size: the   *)
(* invariant IndInv of CircBuf is inductive and implies the properties,    *)
(* and the code implements the ticket queue RingSpec.                      *)
(***************************************************************************)
EXTENDS CircBuf, TLAPS

(* The ring index of circbuf.h, seq & mask_, always names a slot. *)
LEMMA IdxType == \A s \in Int : Idx(s) \in Slots
  BY SizeAssumption DEF Idx, Slots

(* Quotient and remainder. *)
LEMMA DivMod ==
  \A s \in Int : s \div Size \in Int /\ s = Size * (s \div Size) + Idx(s)
  BY SizeAssumption DEF Idx

(* Sequence numbers less than a lap apart use different slots. *)
LEMMA IdxDistinct ==
  ASSUME NEW a \in Int, NEW b \in Int, a # b, a < b + Size, b < a + Size
  PROVE  Idx(a) # Idx(b)
<1> DEFINE q == (a \div Size) - (b \div Size)
<1>1. SUFFICES ASSUME Idx(a) = Idx(b) PROVE FALSE
  OBVIOUS
<1>2. q \in Int /\ a - b = Size * q
  <2>1. a \div Size \in Int /\ b \div Size \in Int
    BY DivMod
  <2>2. a = Size * (a \div Size) + Idx(a) /\ b = Size * (b \div Size) + Idx(b)
    BY DivMod
  <2>3. Idx(a) \in Int
    BY IdxType, SizeAssumption DEF Slots
  <2> QED
    BY <2>1, <2>2, <2>3, <1>1, SizeAssumption
<1> HIDE DEF q
<1>3. q < 1
  BY <1>2, SizeAssumption
<1>4. q > -1
  BY <1>2, SizeAssumption
<1>5. q = 0
  BY <1>2, <1>3, <1>4
<1> QED
  BY <1>2, <1>5, SizeAssumption

(* A lap later the same slot comes round again. *)
LEMMA IdxLap == ASSUME NEW s \in Int PROVE Idx(s - Size) = Idx(s)
<1> DEFINE a == s \div Size
           b == (s - Size) \div Size
           ra == Idx(s)
           rb == Idx(s - Size)
<1>1. a \in Int /\ b \in Int /\ s = Size * a + ra /\ s - Size = Size * b + rb
  BY DivMod, SizeAssumption
<1>2. ra \in 0 .. (Size - 1) /\ rb \in 0 .. (Size - 1)
  BY IdxType, SizeAssumption DEF Slots
<1> HIDE DEF a, b, ra, rb
<1> DEFINE q == a - b - 1
<1>3. q \in Int /\ rb - ra = Size * q
  BY <1>1, <1>2, SizeAssumption
<1> HIDE DEF q
<1>4. q < 1 /\ q > -1
  BY <1>2, <1>3, SizeAssumption
<1>5. q = 0
  BY <1>3, <1>4
<1>6. ra = rb
  BY <1>2, <1>3, <1>5, SizeAssumption
<1> QED
  BY <1>6 DEF ra, rb

-----------------------------------------------------------------------------
USE DEF Indices, Threads, PHolds, CHolds, ProducerLabels, ConsumerLabels,
        ProducerLoop, ConsumerLoop, ProducerHolds, ConsumerHolds

(* The constructor establishes the invariant. *)
LEMMA InitIndInv == Init => IndInv
  BY SizeAssumption
  DEF Init, NoTask, Slots, IndInv, TypeOK, IndexInv, ProducerInv, ConsumerInv,
      ClaimedOnce, NoTaskLost

(* The slots that are in somebody's hands, or hold a task nobody has       *)
(* claimed yet, are all different.                                         *)
LEMMA SlotsApart ==
  ASSUME IndInv
  PROVE  /\ \A p \in Producers : \A s \in (out + 1) .. in :
               PHolds(p) /\ next[p] # s => Idx(next[p]) # Idx(s)
         /\ \A c \in Consumers : \A s \in (out + 1) .. in :
               CHolds(c) => Idx(next[c]) # Idx(s)
         /\ \A c, d \in Consumers :
               CHolds(c) /\ CHolds(d) /\ c # d => Idx(next[c]) # Idx(next[d])
<1> USE SizeAssumption DEF IndInv, TypeOK, IndexInv
<1>1. ASSUME NEW p \in Producers, NEW s \in (out + 1) .. in, PHolds(p), next[p] # s
      PROVE  Idx(next[p]) # Idx(s)
  BY <1>1, IdxDistinct DEF ProducerInv
<1>2. ASSUME NEW c \in Consumers, NEW s \in (out + 1) .. in, CHolds(c)
      PROVE  Idx(next[c]) # Idx(s)
  BY <1>2, IdxDistinct DEF ConsumerInv
<1>3. ASSUME NEW c \in Consumers, NEW d \in Consumers, CHolds(c), CHolds(d), c # d
      PROVE  Idx(next[c]) # Idx(next[d])
  BY <1>3, IdxDistinct DEF ConsumerInv, ClaimedOnce
<1> QED
  BY <1>1, <1>2, <1>3

-----------------------------------------------------------------------------
(* The steps that touch neither a slot nor in_ and out_ only move a local  *)
(* variable or a cached index: each preserves the invariant at once.       *)
LEMMA PBeginInv == ASSUME IndInv, NEW p \in Producers, PBegin(p) PROVE IndInv'
  BY SizeAssumption, ThreadAssumption, ProductionAssumption, IdxType
  DEF PBegin, Goto, shared, IndInv, TypeOK, IndexInv, ProducerInv,
      ConsumerInv, ClaimedOnce, NoTaskLost

LEMMA PLoadInv == ASSUME IndInv, NEW p \in Producers, PLoad(p) PROVE IndInv'
  BY SizeAssumption, ThreadAssumption, ProductionAssumption, IdxType
  DEF PLoad, Goto, shared, IndInv, TypeOK, IndexInv, ProducerInv,
      ConsumerInv, ClaimedOnce, NoTaskLost

LEMMA PCheckOutInv == ASSUME IndInv, NEW p \in Producers, PCheckOut(p) PROVE IndInv'
  BY SizeAssumption, ThreadAssumption, ProductionAssumption, IdxType
  DEF PCheckOut, Goto, shared, IndInv, TypeOK, IndexInv, ProducerInv,
      ConsumerInv, ClaimedOnce, NoTaskLost

LEMMA PCheckFreeInv == ASSUME IndInv, NEW p \in Producers, PCheckFree(p) PROVE IndInv'
  BY SizeAssumption, ThreadAssumption, ProductionAssumption, IdxType
  DEF PCheckFree, Goto, shared, IndInv, TypeOK, IndexInv, ProducerInv,
      ConsumerInv, ClaimedOnce, NoTaskLost

LEMMA PUpdateLoadInv == ASSUME IndInv, NEW p \in Producers, PUpdateLoad(p) PROVE IndInv'
  BY SizeAssumption, ThreadAssumption, ProductionAssumption, IdxType
  DEF PUpdateLoad, Goto, shared, IndInv, TypeOK, IndexInv, ProducerInv,
      ConsumerInv, ClaimedOnce, NoTaskLost

LEMMA PUpdateStoreInv ==
  ASSUME IndInv, NEW p \in Producers, PUpdateStore(p) PROVE IndInv'
<1> USE SizeAssumption, ThreadAssumption, ProductionAssumption, IdxType
    DEF PUpdateStore, IndInv, TypeOK, Goto
<1>1. cache_out' \in Indices /\ cache_out' <= out
  BY DEF ProducerInv
<1>2. CASE call[p] = "poll"
  <2>1. Return(p)
    BY <1>2 DEF Retry
  <2>2. TypeOK' /\ IndexInv'
    BY <1>1, <2>1 DEF IndexInv, Return
  <2>3. ProducerInv'
    BY <2>1 DEF ProducerInv, Return
  <2>4. ConsumerInv' /\ ClaimedOnce' /\ NoTaskLost'
    BY <2>1 DEF ConsumerInv, ClaimedOnce, NoTaskLost, Return
  <2> QED
    BY <2>2, <2>3, <2>4
<1>3. CASE call[p] = "take"
  <2>1. /\ UNCHANGED next
        /\ Goto(p, IF Production = "SINGLE" THEN "chkOut" ELSE "load")
    BY <1>3 DEF Retry
  <2>2. TypeOK' /\ IndexInv'
    BY <1>1, <2>1 DEF IndexInv
  <2>3. ProducerInv'
    BY <2>1 DEF ProducerInv
  <2>4. ConsumerInv' /\ ClaimedOnce' /\ NoTaskLost'
    BY <2>1 DEF ConsumerInv, ClaimedOnce, NoTaskLost
  <2> QED
    BY <2>2, <2>3, <2>4
<1> QED
  BY <1>2, <1>3

LEMMA CBeginInv == ASSUME IndInv, NEW c \in Consumers, CBegin(c) PROVE IndInv'
  BY SizeAssumption, ThreadAssumption, ProductionAssumption, IdxType
  DEF CBegin, Goto, shared, IndInv, TypeOK, IndexInv, ProducerInv,
      ConsumerInv, ClaimedOnce, NoTaskLost

LEMMA CLoadInv == ASSUME IndInv, NEW c \in Consumers, CLoad(c) PROVE IndInv'
  BY SizeAssumption, ThreadAssumption, ProductionAssumption, IdxType
  DEF CLoad, Goto, shared, IndInv, TypeOK, IndexInv, ProducerInv,
      ConsumerInv, ClaimedOnce, NoTaskLost

LEMMA CCheckInInv == ASSUME IndInv, NEW c \in Consumers, CCheckIn(c) PROVE IndInv'
  BY SizeAssumption, ThreadAssumption, ProductionAssumption, IdxType
  DEF CCheckIn, Goto, shared, IndInv, TypeOK, IndexInv, ProducerInv,
      ConsumerInv, ClaimedOnce, NoTaskLost

LEMMA CCheckFreeInv == ASSUME IndInv, NEW c \in Consumers, CCheckFree(c) PROVE IndInv'
  BY SizeAssumption, ThreadAssumption, ProductionAssumption, IdxType
  DEF CCheckFree, Goto, shared, IndInv, TypeOK, IndexInv, ProducerInv,
      ConsumerInv, ClaimedOnce, NoTaskLost

LEMMA CUpdateLoadInv == ASSUME IndInv, NEW c \in Consumers, CUpdateLoad(c) PROVE IndInv'
  BY SizeAssumption, ThreadAssumption, ProductionAssumption, IdxType
  DEF CUpdateLoad, Goto, shared, IndInv, TypeOK, IndexInv, ProducerInv,
      ConsumerInv, ClaimedOnce, NoTaskLost

LEMMA CUpdateStoreInv == ASSUME IndInv, NEW c \in Consumers, CUpdateStore(c) PROVE IndInv'
  BY SizeAssumption, ThreadAssumption, ProductionAssumption, IdxType
  DEF CUpdateStore, Goto, shared, IndInv, TypeOK, IndexInv, ProducerInv,
      ConsumerInv, ClaimedOnce, NoTaskLost

LEMMA CWaitInv == ASSUME IndInv, NEW c \in Consumers, CWait(c) PROVE IndInv'
  BY SizeAssumption, ThreadAssumption, ProductionAssumption, IdxType
  DEF CWait, Goto, Return, shared, IndInv, TypeOK, IndexInv, ProducerInv,
      ConsumerInv, ClaimedOnce, NoTaskLost

LEMMA CIsEmptyFirstInv == ASSUME IndInv, NEW c \in Consumers, CIsEmptyFirst(c) PROVE IndInv'
  BY SizeAssumption, ThreadAssumption, ProductionAssumption, IdxType
  DEF CIsEmptyFirst, Goto, shared, IndInv, TypeOK, IndexInv, ProducerInv,
      ConsumerInv, ClaimedOnce, NoTaskLost

LEMMA CIsEmptySecondInv == ASSUME IndInv, NEW c \in Consumers, CIsEmptySecond(c) PROVE IndInv'
  BY SizeAssumption, ThreadAssumption, ProductionAssumption, IdxType
  DEF CIsEmptySecond, Goto, Return, shared, IndInv, TypeOK, IndexInv, ProducerInv,
      ConsumerInv, ClaimedOnce, NoTaskLost

-----------------------------------------------------------------------------
(* A successful claim: in_ moves by one, the slot passed both tests. *)
LEMMA PClaimInv == ASSUME IndInv, NEW p \in Producers, PClaim(p) PROVE IndInv'
<1> USE SizeAssumption, ThreadAssumption, ProductionAssumption, IdxType
    DEF IndInv, TypeOK, Goto
<1>1. CASE in' = in
  BY <1>1 DEF PClaim, IndexInv, ProducerInv, ConsumerInv, ClaimedOnce, NoTaskLost
<1>2. CASE in' # in
  <2>1. /\ pc[p] = "claim" /\ in = next[p] - 1 /\ in' = next[p]
        /\ pc' = [pc EXCEPT ![p] = "fill"]
        /\ UNCHANGED <<out, cache_in, cache_out, isFree, task, next, tmp, call, start>>
    BY <1>2 DEF PClaim, ProducerInv
  <2>2. next[p] <= out + Size /\ isFree[Idx(next[p])]
    BY <2>1 DEF ProducerInv
  <2>3. TypeOK' /\ IndexInv'
    BY <2>1, <2>2 DEF IndexInv
  <2>4. ProducerInv'
    BY <2>1, <2>2 DEF ProducerInv, IndexInv
  <2>5. ASSUME NEW c \in Consumers, CHolds(c)
        PROVE  in' < next[c] + Size
    <3>1. next[c] # next[p] - Size
      BY <2>1, <2>2, <2>5, IdxLap DEF ConsumerInv
    <3> QED
      BY <2>1, <2>5, <3>1 DEF ConsumerInv
  <2>6. ConsumerInv'
    BY <2>1, <2>5 DEF ConsumerInv
  <2>7. ClaimedOnce'
    BY <2>1 DEF ClaimedOnce, ProducerInv
  <2>8. NoTaskLost'
    BY <2>1 DEF NoTaskLost, IndexInv
  <2> QED
    BY <2>3, <2>4, <2>6, <2>7, <2>8
<1> QED
  BY <1>1, <1>2

(* Writing the task disturbs no slot that somebody else will read. *)
LEMMA PFillInv == ASSUME IndInv, NEW p \in Producers, PFill(p) PROVE IndInv'
<1> USE SizeAssumption, ThreadAssumption, IdxType
    DEF PFill, IndInv, TypeOK, Goto
<1>1. next[p] \in (out + 1) .. in
  BY DEF ProducerInv
<1>2. TypeOK' /\ IndexInv' /\ ClaimedOnce'
  BY DEF IndexInv, ClaimedOnce
<1>3. ProducerInv'
  BY <1>1, SlotsApart DEF ProducerInv, ClaimedOnce
<1>4. ConsumerInv'
  BY <1>1, SlotsApart DEF ConsumerInv
<1>5. NoTaskLost'
  BY <1>1, SlotsApart DEF NoTaskLost
<1> QED
  BY <1>2, <1>3, <1>4, <1>5

(* publish() turns a filled slot over to the consumers. *)
LEMMA PPublishInv == ASSUME IndInv, NEW p \in Producers, PPublish(p) PROVE IndInv'
<1> USE SizeAssumption, ThreadAssumption, IdxType
    DEF PPublish, Return, IndInv, TypeOK, Goto
<1>1. next[p] \in (out + 1) .. in /\ task[Idx(next[p])] = next[p]
  BY DEF ProducerInv
<1>2. TypeOK' /\ IndexInv' /\ ClaimedOnce'
  BY DEF IndexInv, ClaimedOnce
<1>3. ASSUME NEW q \in Producers, q # p, PHolds(q)
      PROVE  Idx(next[q]) # Idx(next[p])
  BY <1>1, <1>3, SlotsApart DEF ProducerInv, ClaimedOnce
<1>4. ASSUME NEW q \in Producers, pc[q] = "claim", in = next[q] - 1
      PROVE  Idx(next[q]) # Idx(next[p])
  BY <1>1, <1>4, IdxDistinct DEF ProducerInv
<1>5. ProducerInv'
  BY <1>3, <1>4 DEF ProducerInv
<1>6. ConsumerInv'
  BY DEF ConsumerInv
<1>7. NoTaskLost'
  BY <1>1, SlotsApart DEF NoTaskLost
<1> QED
  BY <1>2, <1>5, <1>6, <1>7

(* A consumer's claim: the slot it saw taken is the published one. *)
LEMMA CClaimInv == ASSUME IndInv, NEW c \in Consumers, CClaim(c) PROVE IndInv'
<1> USE SizeAssumption, ThreadAssumption, IdxType
    DEF IndInv, TypeOK, Goto
<1>1. CASE out' = out
  BY <1>1 DEF CClaim, IndexInv, ProducerInv, ConsumerInv, ClaimedOnce, NoTaskLost
<1>2. CASE out' # out
  <2>1. /\ pc[c] = "claim" /\ out = next[c] - 1 /\ out' = next[c]
        /\ pc' = [pc EXCEPT ![c] = "use"]
        /\ UNCHANGED <<in, cache_in, cache_out, isFree, task, next, tmp, call, start>>
    BY <1>2 DEF CClaim
  <2>2. next[c] <= in /\ ~isFree[Idx(next[c])]
    BY <2>1 DEF ConsumerInv
  <2>3. next[c] \in (out + 1) .. in
    BY <2>1, <2>2
  <2>4. \A p \in Producers : PHolds(p) => next[p] # next[c]
    BY <2>2 DEF ProducerInv
  <2>5. task[Idx(next[c])] = next[c]
    BY <2>3, <2>4 DEF NoTaskLost
  <2>6. TypeOK' /\ IndexInv'
    BY <2>1, <2>2 DEF IndexInv
  <2>7. ProducerInv'
    BY <2>1, <2>4 DEF ProducerInv
  <2>8. ConsumerInv'
    BY <2>1, <2>2, <2>5 DEF ConsumerInv, IndexInv
  <2>9. ClaimedOnce'
    BY <2>1 DEF ClaimedOnce, ConsumerInv
  <2>10. NoTaskLost'
    BY <2>1 DEF NoTaskLost
  <2> QED
    BY <2>6, <2>7, <2>8, <2>9, <2>10
<1> QED
  BY <1>1, <1>2

(* Moving the task out disturbs no slot that somebody else will read. *)
LEMMA CUseInv == ASSUME IndInv, NEW c \in Consumers, CUse(c) PROVE IndInv'
<1> USE SizeAssumption, ThreadAssumption, IdxType
    DEF CUse, NoTask, IndInv, TypeOK, Goto
<1>1. TypeOK' /\ IndexInv' /\ ClaimedOnce'
  BY DEF IndexInv, ClaimedOnce
<1>2. ProducerInv'
  BY SlotsApart DEF ProducerInv
<1>3. ConsumerInv'
  BY SlotsApart DEF ConsumerInv
<1>4. NoTaskLost'
  BY SlotsApart DEF NoTaskLost
<1> QED
  BY <1>1, <1>2, <1>3, <1>4

(* consumer_done() frees a slot nobody else relies on being taken. *)
LEMMA CDoneInv == ASSUME IndInv, NEW c \in Consumers, CDone(c) PROVE IndInv'
<1> USE SizeAssumption, ThreadAssumption, IdxType
    DEF CDone, Return, IndInv, TypeOK, Goto
<1>1. TypeOK' /\ IndexInv' /\ ClaimedOnce'
  BY DEF IndexInv, ClaimedOnce
<1>2. ProducerInv'
  BY DEF ProducerInv
<1>3. ASSUME NEW d \in Consumers, pc[d] = "claim", out = next[d] - 1
      PROVE  Idx(next[d]) # Idx(next[c])
  BY <1>3, SlotsApart DEF ConsumerInv
<1>4. ConsumerInv'
  BY <1>3, SlotsApart DEF ConsumerInv
<1>5. NoTaskLost'
  BY SlotsApart DEF NoTaskLost
<1> QED
  BY <1>1, <1>2, <1>4, <1>5

-----------------------------------------------------------------------------
(* IndInv is preserved by every step of every thread. *)
LEMMA NextIndInv == IndInv /\ [Next]_vars => IndInv'
<1> SUFFICES ASSUME IndInv, [Next]_vars PROVE IndInv'
  OBVIOUS
<1>1. ASSUME NEW p \in Producers, PBegin(p) \/ PStep(p) PROVE IndInv'
  BY <1>1, PBeginInv, PLoadInv, PCheckOutInv, PCheckFreeInv, PClaimInv,
     PUpdateLoadInv, PUpdateStoreInv, PFillInv, PPublishInv
  DEF PStep
<1>2. ASSUME NEW c \in Consumers, CStep(c) PROVE IndInv'
  BY <1>2, CBeginInv, CLoadInv, CCheckInInv, CCheckFreeInv, CClaimInv,
     CUpdateLoadInv, CUpdateStoreInv, CWaitInv, CIsEmptyFirstInv,
     CIsEmptySecondInv, CUseInv, CDoneInv
  DEF CStep
<1>3. CASE UNCHANGED vars
  BY <1>3 DEF vars, IndInv, TypeOK, IndexInv, ProducerInv, ConsumerInv,
              ClaimedOnce, NoTaskLost
<1> QED
  BY <1>1, <1>2, <1>3 DEF Next

(* circbuf.h keeps its inductive invariant for every number of producers   *)
(* and consumers, every ring size and every wait strategy of a consumer.   *)
THEOREM Invariance == Spec => []IndInv
<1>1. Init => IndInv
  BY InitIndInv
<1>2. IndInv /\ [Next]_vars => IndInv'
  BY NextIndInv
<1> QED
  BY <1>1, <1>2, PTL DEF Spec

(* Type correctness of the ring. *)
THEOREM TypeCorrect == Spec => []TypeOK
<1>1. IndInv => TypeOK
  BY DEF IndInv
<1> QED
  BY <1>1, Invariance, PTL

(* No two threads of circbuf.h ever own the same slot at the same time, so *)
(* the unsynchronised accesses to task_ and isFree_ cannot race.           *)
THEOREM RaceFreedom == Spec => []SlotExclusive
<1>1. IndInv => SlotExclusive
  <2> SUFFICES ASSUME IndInv PROVE SlotExclusive
    OBVIOUS
  <2>1. \A p \in Producers : PHolds(p) => next[p] \in (out + 1) .. in
    BY DEF IndInv, ProducerInv, TypeOK
  <2> QED
    BY <2>1, SlotsApart DEF SlotExclusive, IndInv, ClaimedOnce
<1> QED
  BY <1>1, Invariance, PTL

(* The assert()s of mutil_producer_next, publish and consumer_done hold.   *)
THEOREM AssertionsNeverFail == Spec => []AssertsHold
<1>1. IndInv => AssertsHold
  BY DEF IndInv, ProducerInv, ConsumerInv, AssertsHold
<1> QED
  BY <1>1, Invariance, PTL

(* Every consumer gets the task published under its sequence number, and   *)
(* no claimed task is lost before a consumer claims it.                    *)
THEOREM Delivery == Spec => [](ReadsOwnTask /\ NoTaskLost)
<1>1. IndInv => ReadsOwnTask /\ NoTaskLost
  BY DEF IndInv, ConsumerInv, ReadsOwnTask
<1> QED
  BY <1>1, Invariance, PTL

(* A noblock get_move() that returns -1 left nothing behind that had been  *)
(* claimed before it was called, whichever way is_empty() orders its loads *)
THEOREM NoblockComplete == Spec => NoblockMissesNothing
<1> DEFINE Complete ==
      \A c \in Consumers :
          c \in NoblockConsumers /\ ~CHolds(c) /\ pc[c] # "idle" /\ pc'[c] = "idle"
             => out >= start[c]
<1>1. IndInv /\ [Next]_vars => [Complete]_vars
  <2> SUFFICES ASSUME IndInv, Next, NEW c \in NoblockConsumers,
                      ~CHolds(c), pc[c] # "idle", pc'[c] = "idle"
               PROVE  out >= start[c]
    BY ThreadAssumption
  <2> USE DEF IndInv, TypeOK, Goto
  <2>1. c \in Consumers /\ c \notin Producers
    BY ThreadAssumption
  <2>2. ASSUME NEW p \in Producers, PBegin(p) \/ PStep(p) PROVE FALSE
    BY <2>1, <2>2 DEF PStep, PBegin, PLoad, PCheckOut, PCheckFree, PClaim,
       PUpdateLoad, PUpdateStore, Retry, Return, PFill, PPublish
  <2>3. ASSUME NEW d \in Consumers, CStep(d) PROVE d = c /\ CIsEmptySecond(c)
    BY <2>1, <2>3 DEF CStep, CBegin, CLoad, CCheckIn, CCheckFree, CClaim, CUpdateLoad,
       CUpdateStore, CWait, CIsEmptyFirst, CIsEmptySecond, Return, CUse, CDone
  <2>4. CIsEmptySecond(c)
    BY <2>2, <2>3 DEF Next
  <2>5. CASE pc[c] = "emptyOut"
    BY <2>1, <2>4, <2>5 DEF CIsEmptySecond, ConsumerInv
  <2>6. CASE pc[c] = "emptyIn"
    BY <2>1, <2>4, <2>6 DEF CIsEmptySecond, ConsumerInv
  <2> QED
    BY <2>4, <2>5, <2>6 DEF CIsEmptySecond
<1> QED
  BY <1>1, Invariance, PTL DEF Spec, NoblockMissesNothing

-----------------------------------------------------------------------------
(* The refinement of RingSpec. *)

USE DEF Holds, PHolds, CHolds, ProducerHolds, ConsumerHolds, Threads,
        ProducerLabels, ConsumerLabels, ProducerLoop, ConsumerLoop, Indices

(* A producer never stands at a consumer's label, so holding is PHolds for *)
(* a producer and CHolds for a consumer.                                   *)
LEMMA HoldsByRole ==
  ASSUME TypeOK
  PROVE  /\ \A p \in Producers : Holds(p) <=> PHolds(p)
         /\ \A c \in Consumers : Holds(c) <=> CHolds(c)
  BY DEF TypeOK

(* A step that neither moves an index nor changes who holds which slot is  *)
(* invisible to the callers of the ring.                                   *)
LEMMA InvisibleStep ==
  ASSUME TypeOK, TypeOK', in' = in, out' = out,
         \A t \in Threads : Holds(t)' <=> Holds(t),
         \A t \in Threads : Holds(t) => next'[t] = next[t]
  PROVE  UNCHANGED Ring!vars
<1>1. Owner' = Owner
  BY DEF Owner
<1>2. \A p \in Producers : (PHolds(p)' <=> PHolds(p)) /\ (PHolds(p) => next'[p] = next[p])
  BY DEF TypeOK
<1>3. Ready' = Ready
  BY <1>2 DEF Ready
<1> QED
  BY <1>1, <1>3 DEF Ring!vars

(* A step that changes what one thread holds changes the owner of exactly  *)
(* that thread.                                                            *)
LEMMA OwnerStep ==
  ASSUME NEW t \in Threads, NEW v,
         \A u \in Threads \ {t} : (Holds(u)' <=> Holds(u)) /\ next'[u] = next[u],
         (IF Holds(t) THEN next[t] ELSE -1)' = v
  PROVE  Owner' = [Owner EXCEPT ![t] = v]
<1> HIDE DEF Holds
<1> QED
  BY DEF Owner

(* The constructor is the initial state of the ticket queue. *)
LEMMA InitRefines == Init => Ring!Init
<1> SUFFICES ASSUME Init PROVE Ring!Init
  OBVIOUS
<1>1. Owner = [t \in Producers \cup Consumers |-> -1]
  BY DEF Init, Owner
<1>2. Ready = {}
  BY DEF Init, Ready
<1> QED
  BY <1>1, <1>2 DEF Init, Ring!Init, Ring!None

(* in_.compare_exchange_weak, or the store to single_in_, draws a ticket.  *)
LEMMA PClaimRefines ==
  ASSUME IndInv, IndInv', NEW p \in Producers, PClaim(p)
  PROVE  Ring!Claim(p) \/ UNCHANGED Ring!vars
<1> USE SizeAssumption, ThreadAssumption, ProductionAssumption
    DEF IndInv, TypeOK, Goto
<1>1. CASE in' = in
  <2>1. pc' = [pc EXCEPT ![p] = "load"] /\ out' = out /\ next' = next
    BY <1>1 DEF PClaim, ProducerInv
  <2> QED
    BY <1>1, <2>1, InvisibleStep DEF PClaim
<1>2. CASE in' # in
  <2>1. /\ pc[p] = "claim" /\ in = next[p] - 1 /\ in' = next[p]
        /\ pc' = [pc EXCEPT ![p] = "fill"]
        /\ out' = out /\ next' = next
    BY <1>2 DEF PClaim, ProducerInv
  <2>2. next[p] <= out + Size /\ isFree[Idx(next[p])] /\ next[p] = in + 1
    BY <2>1 DEF ProducerInv
  <2>3. Owner' = [Owner EXCEPT ![p] = in + 1] /\ Owner[p] = -1
    <3>1. \A u \in Threads \ {p} : (Holds(u)' <=> Holds(u)) /\ next'[u] = next[u]
      BY <2>1
    <3>2. (IF Holds(p) THEN next[p] ELSE -1)' = in + 1
      BY <2>1, <2>2
    <3>3. Owner' = [Owner EXCEPT ![p] = in + 1]
      BY <3>1, <3>2, OwnerStep
    <3> QED
      BY <2>1, <3>3 DEF Owner
  <2>4. Ready' = Ready
    BY <2>1, <2>2 DEF Ready, IndexInv
  <2>5. ASSUME NEW c \in Consumers PROVE Owner[c] # in + 1 - Size \/ Owner[c] = -1
    <3>1. SUFFICES ASSUME CHolds(c), next[c] = in + 1 - Size PROVE FALSE
      BY DEF Owner
    <3>2. next[c] = next[p] - Size
      BY <2>2, <3>1
    <3>3. Idx(next[c]) = Idx(next[p])
      BY <3>2, IdxLap
    <3> QED
      BY <2>2, <3>1, <3>3 DEF ConsumerInv
  <2>6. in < out + Size
    BY <2>2
  <2>7. in' = in + 1
    BY <2>1, <2>2
  <2> QED
    BY <2>1, <2>3, <2>4, <2>5, <2>6, <2>7, Zenon DEF Ring!Claim, Ring!None
<1> QED
  BY <1>1, <1>2

(* publish() publishes the ticket. *)
LEMMA PPublishRefines ==
  ASSUME IndInv, IndInv', NEW p \in Producers, PPublish(p)
  PROVE  Ring!Publish(p)
<1> USE ThreadAssumption DEF IndInv, TypeOK, PPublish, Return, Goto
<1>1. next[p] \in (out + 1) .. in /\ next[p] # -1
  BY DEF ProducerInv
<1>2. Owner[p] = next[p] /\ Owner' = [Owner EXCEPT ![p] = -1]
  BY DEF Owner
<1>3. Ready' = Ready \cup {next[p]}
  BY <1>1 DEF Ready, ClaimedOnce
<1> QED
  BY <1>1, <1>2, <1>3 DEF Ring!Publish, Ring!None

(* out_.compare_exchange_weak draws the oldest published ticket. *)
LEMMA CClaimRefines ==
  ASSUME IndInv, IndInv', NEW c \in Consumers, CClaim(c)
  PROVE  Ring!Take(c) \/ UNCHANGED Ring!vars
<1> USE ThreadAssumption DEF IndInv, TypeOK, Goto
<1>1. CASE out' = out
  <2>1. pc' = [pc EXCEPT ![c] = "chkIn"] /\ pc[c] = "claim" /\ in' = in
    BY <1>1 DEF CClaim
  <2>2. \A t \in Threads : t # c => next'[t] = next[t]
    BY <1>1 DEF CClaim
  <2> QED
    BY <1>1, <2>1, <2>2, InvisibleStep
<1>2. CASE out' # out
  <2>1. /\ pc[c] = "claim" /\ out = next[c] - 1 /\ out' = next[c]
        /\ pc' = [pc EXCEPT ![c] = "use"]
        /\ in' = in /\ next' = next
    BY <1>2 DEF CClaim
  <2>2. next[c] <= in /\ ~isFree[Idx(next[c])] /\ next[c] = out + 1
    BY <2>1 DEF ConsumerInv
  <2>3. out + 1 \in Ready
    BY <2>1, <2>2 DEF Ready, ProducerInv
  <2>4. Ready' = Ready \ {out + 1}
    BY <2>1, <2>2 DEF Ready
  <2>5. Owner' = [Owner EXCEPT ![c] = out + 1] /\ Owner[c] = -1
    <3>1. \A u \in Threads \ {c} : (Holds(u)' <=> Holds(u)) /\ next'[u] = next[u]
      BY <2>1
    <3>2. (IF Holds(c) THEN next[c] ELSE -1)' = out + 1
      BY <2>1, <2>2
    <3>3. Owner' = [Owner EXCEPT ![c] = out + 1]
      BY <3>1, <3>2, OwnerStep
    <3> QED
      BY <2>1, <3>3 DEF Owner
  <2>6. in' = in /\ out' = out + 1
    BY <2>1, <2>2
  <2> QED
    BY <2>3, <2>4, <2>5, <2>6, Zenon DEF Ring!Take, Ring!None
<1> QED
  BY <1>1, <1>2

(* consumer_done() hands the ticket back. *)
LEMMA CDoneRefines ==
  ASSUME IndInv, IndInv', NEW c \in Consumers, CDone(c)
  PROVE  Ring!HandBack(c)
<1> USE ThreadAssumption DEF IndInv, TypeOK, CDone, Return, Goto
<1>0. Owner[c] = next[c]
  BY DEF Owner
<1>1. Owner' = [Owner EXCEPT ![c] = -1]
  <2>1. \A u \in Threads \ {c} : (Holds(u)' <=> Holds(u)) /\ next'[u] = next[u]
    OBVIOUS
  <2>2. (IF Holds(c) THEN next[c] ELSE -1)' = -1
    OBVIOUS
  <2> QED
    BY <2>1, <2>2, OwnerStep
<1>2. next[c] # -1
  BY SizeAssumption DEF ConsumerInv, IndexInv
<1>3. Ready' = Ready
  BY DEF Ready
<1> QED
  BY <1>0, <1>1, <1>2, <1>3 DEF Ring!HandBack, Ring!None

(* Every other step of a producer is invisible. *)
LEMMA ProducerInvisible ==
  ASSUME IndInv, IndInv', NEW p \in Producers,
         \/ PBegin(p) \/ PLoad(p) \/ PCheckOut(p) \/ PCheckFree(p)
         \/ PUpdateLoad(p) \/ PUpdateStore(p) \/ PFill(p)
  PROVE  UNCHANGED Ring!vars
<1> USE ThreadAssumption DEF Goto, Return, Retry, shared
<1>1. TypeOK /\ TypeOK'
  BY DEF IndInv
<1>2. in' = in /\ out' = out
  BY DEF PBegin, PLoad, PCheckOut, PCheckFree, PUpdateLoad, PUpdateStore, PFill
<1>3. \A t \in Threads : Holds(t)' <=> Holds(t)
  BY <1>1 DEF PBegin, PLoad, PCheckOut, PCheckFree, PUpdateLoad, PUpdateStore, PFill, TypeOK
<1>4. \A t \in Threads : Holds(t) => next'[t] = next[t]
  BY <1>1 DEF PBegin, PLoad, PCheckOut, PCheckFree, PUpdateLoad, PUpdateStore, PFill, TypeOK
<1> QED
  BY <1>1, <1>2, <1>3, <1>4, InvisibleStep

(* Every other step of a consumer is invisible. *)
LEMMA ConsumerInvisible ==
  ASSUME IndInv, IndInv', NEW c \in Consumers,
         \/ CBegin(c) \/ CLoad(c) \/ CCheckIn(c) \/ CCheckFree(c)
         \/ CUpdateLoad(c) \/ CUpdateStore(c) \/ CWait(c)
         \/ CIsEmptyFirst(c) \/ CIsEmptySecond(c) \/ CUse(c)
  PROVE  UNCHANGED Ring!vars
<1> USE ThreadAssumption DEF Goto, Return, shared
<1>1. TypeOK /\ TypeOK'
  BY DEF IndInv
<1>2. in' = in /\ out' = out
  BY DEF CBegin, CLoad, CCheckIn, CCheckFree, CUpdateLoad, CUpdateStore, CWait,
         CIsEmptyFirst, CIsEmptySecond, CUse
<1>3. \A t \in Threads : Holds(t)' <=> Holds(t)
  BY <1>1 DEF CBegin, CLoad, CCheckIn, CCheckFree, CUpdateLoad, CUpdateStore, CWait,
         CIsEmptyFirst, CIsEmptySecond, CUse, TypeOK
<1>4. \A t \in Threads : Holds(t) => next'[t] = next[t]
  BY <1>1 DEF CBegin, CLoad, CCheckIn, CCheckFree, CUpdateLoad, CUpdateStore, CWait,
         CIsEmptyFirst, CIsEmptySecond, CUse, TypeOK
<1> QED
  BY <1>1, <1>2, <1>3, <1>4, InvisibleStep

(* circbuf.h implements the ticket queue, for every number of threads and  *)
(* every ring size: tasks come out in the order their slots were claimed,  *)
(* each exactly once, and at most Size of them are outstanding.            *)
THEOREM Refinement == Spec => ImplementsRing
<1>1. Init => Ring!Init
  BY InitRefines
<1>2. IndInv /\ IndInv' /\ [Next]_vars => [Ring!Next]_Ring!vars
  <2> SUFFICES ASSUME IndInv, IndInv', [Next]_vars
               PROVE  Ring!Next \/ UNCHANGED Ring!vars
    OBVIOUS
  <2>1. ASSUME NEW p \in Producers, PBegin(p) \/ PStep(p)
        PROVE  Ring!Next \/ UNCHANGED Ring!vars
    <3>1. Ring!Claim(p) \/ Ring!Publish(p) \/ UNCHANGED Ring!vars
      BY <2>1, PClaimRefines, PPublishRefines, ProducerInvisible DEF PStep
    <3> QED
      BY <3>1 DEF Ring!Next
  <2>2. ASSUME NEW c \in Consumers, CStep(c)
        PROVE  Ring!Next \/ UNCHANGED Ring!vars
    <3>1. Ring!Take(c) \/ Ring!HandBack(c) \/ UNCHANGED Ring!vars
      BY <2>2, CClaimRefines, CDoneRefines, ConsumerInvisible DEF CStep
    <3> QED
      BY <3>1 DEF Ring!Next
  <2>3. CASE UNCHANGED vars
    BY <2>3 DEF vars, Ring!vars, Ready, Owner
  <2> QED
    BY <2>1, <2>2, <2>3 DEF Next
<1> QED
  BY <1>1, <1>2, Invariance, PTL DEF Spec, ImplementsRing, Ring!Spec
=============================================================================
