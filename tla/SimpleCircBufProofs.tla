------------------------ MODULE SimpleCircBufProofs ------------------------
(***************************************************************************)
(* The single-producer single-consumer ring of simple_circbuf.h is free of *)
(* slot races and implements a bounded FIFO, for every power-of-two size,  *)
(* every width of the indices and across their wrap-around.                *)
(***************************************************************************)
EXTENDS SimpleCircBuf, SequenceTheorems, TLAPS

(* Facts about % that the provers do not know for a symbolic divisor.      *)

(* Quotient and remainder. *)
LEMMA DivMod ==
    ASSUME NEW x \in Int, NEW n \in Nat \ {0}
    PROVE  x \div n \in Int /\ x % n \in 0 .. (n - 1) /\ x = (n * (x \div n)) + (x % n)
  OBVIOUS

(* The remainder is unique. *)
LEMMA ModIs ==
    ASSUME NEW n \in Nat \ {0}, NEW q \in Int, NEW r \in 0 .. (n - 1)
    PROVE  ((n * q) + r) % n = r
  OBVIOUS

(* Adding a multiple of the divisor changes nothing. *)
LEMMA ModMultiple ==
    ASSUME NEW x \in Int, NEW n \in Nat \ {0}, NEW k \in Int
    PROVE  (x + (n * k)) % n = x % n
<1> DEFINE q == x \div n
           r == x % n
<1>1. q \in Int /\ r \in 0 .. (n - 1) /\ x = (n * q) + r
  BY DivMod
<1> HIDE DEF q, r
<1>2. x + (n * k) = (n * (q + k)) + r /\ q + k \in Int
  BY <1>1
<1>3. ((n * (q + k)) + r) % n = r
  BY <1>1, <1>2, ModIs
<1> QED
  BY <1>2, <1>3 DEF r

(* The remainder of a difference of two reduced numbers. *)
LEMMA ModSmall ==
    ASSUME NEW n \in Nat \ {0}, NEW a \in (1 - n) .. (n - 1)
    PROVE  a % n = IF a >= 0 THEN a ELSE a + n
  OBVIOUS

(* Adding less than the divisor wraps at most once. *)
LEMMA ModAdd ==
    ASSUME NEW x \in Int, NEW n \in Nat \ {0}, NEW d \in 0 .. (n - 1)
    PROVE  (x + d) % n = IF (x % n) + d >= n THEN (x % n) + d - n ELSE (x % n) + d
<1> DEFINE q == x \div n
           r == x % n
<1>1. q \in Int /\ r \in 0 .. (n - 1) /\ x = (n * q) + r
  BY DivMod
<1> HIDE DEF q, r
<1>2. CASE r + d >= n
  <2>1. x + d = (n * (q + 1)) + (r + d - n) /\ q + 1 \in Int /\ r + d - n \in 0 .. (n - 1)
    BY <1>1, <1>2
  <2>2. ((n * (q + 1)) + (r + d - n)) % n = r + d - n
    BY <2>1, ModIs
  <2> QED
    BY <1>1, <1>2, <2>1, <2>2 DEF r
<1>3. CASE ~(r + d >= n)
  <2>1. x + d = (n * q) + (r + d) /\ r + d \in 0 .. (n - 1)
    BY <1>1, <1>3
  <2>2. ((n * q) + (r + d)) % n = r + d
    BY <1>1, <2>1, ModIs
  <2> QED
    BY <1>1, <1>3, <2>1, <2>2 DEF r
<1> QED
  BY <1>2, <1>3

(* Fewer than n consecutive numbers have different remainders. *)
LEMMA ModDiffers ==
    ASSUME NEW x \in Int, NEW n \in Nat \ {0}, NEW d \in 1 .. (n - 1)
    PROVE  (x + d) % n # x % n
<1>1. x % n \in 0 .. (n - 1) /\ d \in 0 .. (n - 1)
  BY DivMod
<1>2. (x + d) % n = IF (x % n) + d >= n THEN (x % n) + d - n ELSE (x % n) + d
  BY <1>1, ModAdd
<1> QED
  BY <1>1, <1>2

-----------------------------------------------------------------------------
(* The indices of the ring.                                                *)

USE SizeAssumption

(* % is only applied to positive divisors, of which one divides the other. *)
LEMMA Divisors ==
    /\ Size \in Nat \ {0} /\ Width \in Nat \ {0}
    /\ \E k \in Int : Width = Size * k
<1>1. Size \in Nat \ {0} /\ Width \in Nat \ {0} /\ Width \in Int
  OBVIOUS
<1>2. Width \div Size \in Int /\ Width = (Size * (Width \div Size)) + (Width % Size)
  BY <1>1, DivMod
<1> QED
  BY <1>1, <1>2

(* i & mask_ does not see the wrap-around of the index type, because the   *)
(* ring's size divides the number of its values.                           *)
LEMMA MaskWraps ==
    ASSUME NEW x \in Int, NEW j \in Int
    PROVE  /\ (x % Width) + j \in Int
           /\ ((x % Width) + j) % Size = (x + j) % Size
<1> DEFINE q == x \div Width
           r == x % Width
<1>1. q \in Int /\ r \in Int /\ x = (Width * q) + r
  <2>1. q \in Int /\ r \in 0 .. (Width - 1) /\ x = (Width * q) + r
    BY DivMod, Divisors, Zenon
  <2> HIDE DEF q, r
  <2> QED
    BY <2>1
<1>2. PICK k \in Int : Width = Size * k
  BY Divisors
<1> HIDE DEF q, r
<1>3. k * q \in Int /\ Width * q = Size * (k * q)
  BY <1>1, <1>2
<1>4. r + j \in Int /\ x + j = (r + j) + (Size * (k * q))
  BY <1>1, <1>3
<1>5. ((r + j) + (Size * (k * q))) % Size = (r + j) % Size
  BY <1>3, <1>4, ModMultiple, Divisors
<1> QED
  BY <1>4, <1>5 DEF r

(* In particular for i & mask_ itself. *)
LEMMA MaskOf == ASSUME NEW x \in Int PROVE Mask(x % Width) = x % Size
<1>1. ((x % Width) + 0) % Size = (x + 0) % Size
  <2>1. 0 \in Int
    OBVIOUS
  <2> QED
    BY <2>1, MaskWraps
<1>2. x % Width \in Int /\ (x % Width) + 0 = x % Width /\ x + 0 = x
  BY DivMod, Divisors
<1> QED
  BY <1>1, <1>2 DEF Mask

(* in_ - out_ without %. *)
Distance(i, o) == IF i >= o THEN i - o ELSE i - o + Width

(* The distance of two reduced indices in unsigned arithmetic. *)
LEMMA UsedIs ==
    ASSUME NEW i \in 0 .. (Width - 1), NEW o \in 0 .. (Width - 1)
    PROVE  /\ (i - o) % Width = Distance(i, o)
           /\ Distance(i, o) \in 0 .. (Width - 1)
<1>1. i - o \in (1 - Width) .. (Width - 1) /\ Width \in Nat \ {0}
  OBVIOUS
<1>2. (i - o) % Width = IF i - o >= 0 THEN i - o ELSE i - o + Width
  BY <1>1, ModSmall
<1> QED
  BY <1>2 DEF Distance

(* ++ on a reduced index. *)
LEMMA Increment ==
    ASSUME NEW i \in 0 .. (Width - 1)
    PROVE  (i + 1) % Width = IF i = Width - 1 THEN 0 ELSE i + 1
<1>1. i % Width = i
  <2>1. i \in (1 - Width) .. (Width - 1) /\ Width \in Nat \ {0}
    OBVIOUS
  <2> QED
    BY <2>1, ModSmall
<1>2. (i + 1) % Width = IF (i % Width) + 1 >= Width THEN (i % Width) + 1 - Width ELSE (i % Width) + 1
  <2>1. i \in Int /\ 1 \in 0 .. (Width - 1) /\ Width \in Nat \ {0}
    OBVIOUS
  <2> QED
    BY <2>1, ModAdd
<1> QED
  BY <1>1, <1>2

(* The slots of the ring, counted from the consumer's: the producer's slot *)
(* is Used slots ahead.                                                    *)
LEMMA SlotsFromOut ==
    ASSUME TypeOK
    PROVE  /\ Used \in 0 .. Size
           /\ \A j \in Int : Mask((out + j) % Width) = (out + j) % Size
           /\ Mask(out) = out % Size
           /\ Mask(in) = (out + Used) % Size
           /\ Mask(in) \in Slots /\ Mask(out) \in Slots
<1>1. in \in 0 .. (Width - 1) /\ out \in 0 .. (Width - 1) /\ Used <= Size
  BY DEF TypeOK
<1>2. Used = Distance(in, out) /\ Used \in 0 .. (Width - 1)
  BY <1>1, UsedIs DEF Used
<1>3. \A j \in Int : Mask((out + j) % Width) = (out + j) % Size
  <2> SUFFICES ASSUME NEW j \in Int PROVE Mask((out + j) % Width) = (out + j) % Size
    OBVIOUS
  <2>1. out + j \in Int
    BY <1>1
  <2> QED
    BY <2>1, MaskOf
<1>4. (out + Used) % Size = in % Size
  <2>1. CASE in >= out
    <3>1. out + Used = in
      BY <1>1, <1>2, <2>1 DEF Distance
    <3> QED
      BY <3>1
  <2>2. CASE ~(in >= out)
    <3>1. out + Used = in + Width
      BY <1>1, <1>2, <2>2 DEF Distance
    <3>2. PICK k \in Int : Width = Size * k
      BY Divisors
    <3>3. in \in Int
      BY <1>1
    <3>4. (in + (Size * k)) % Size = in % Size
      BY <3>2, <3>3, ModMultiple, Divisors
    <3> QED
      BY <3>1, <3>2, <3>4
  <2> QED
    BY <2>1, <2>2
<1>5. in % Size \in Slots /\ out % Size \in Slots
  <2>1. in \in Int /\ out \in Int
    BY <1>1
  <2> QED
    BY <2>1, DivMod, Divisors DEF Slots
<1> QED
  BY <1>1, <1>2, <1>3, <1>4, <1>5 DEF Mask

(* The producer's slot holds none of the values in the ring, unless the    *)
(* ring is full.                                                           *)
LEMMA FreeSlot ==
    ASSUME TypeOK, Used < Size, NEW j \in 0 .. (Used - 1)
    PROVE  (out + j) % Size # Mask(in)
<1>1. Used \in 0 .. Size /\ Mask(in) = (out + Used) % Size
  BY SlotsFromOut
<1>2. out + j \in Int /\ Used - j \in 1 .. (Size - 1)
  BY <1>1 DEF TypeOK
<1>3. ((out + j) + (Used - j)) % Size # (out + j) % Size
  <2> DEFINE x == out + j
             d == Used - j
  <2>1. x \in Int /\ d \in 1 .. (Size - 1)
    BY <1>2
  <2> HIDE DEF x, d
  <2>2. (x + d) % Size # x % Size
    BY <2>1, ModDiffers, Divisors
  <2> QED
    BY <2>2 DEF x, d
<1>4. (out + j) + (Used - j) = out + Used
  BY <1>1 DEF TypeOK
<1> QED
  BY <1>1, <1>3, <1>4

-----------------------------------------------------------------------------
(* Initialised or re-initialised, the ring is empty. *)
LEMMA EmptyUsed == (0 - 0) % Width = 0
<1>1. 0 \in 0 .. (Width - 1)
  OBVIOUS
<1> QED
  BY <1>1, UsedIs DEF Distance

(* The constructor leaves an empty ring. *)
LEMMA InitIndInv == Init => IndInv
<1> SUFFICES ASSUME Init PROVE IndInv
  OBVIOUS
<1>1. Default \in Values
  <2>1. 0 \in Slots
    BY DEF Slots
  <2>2. buffer[0] \in Values
    BY <2>1 DEF Init
  <2> QED
    BY <2>2 DEF Default
<1>2. Used = 0
  BY EmptyUsed DEF Init, Used
<1> QED
  BY <1>1, <1>2 DEF Init, IndInv, TypeOK, PutHasRoom, GetHasValue, PutWritten, GetMoved

(* ReInit while nobody is inside Put or Get. *)
LEMMA ReInitInv == ASSUME IndInv, ReInit PROVE IndInv'
<1>1. Used' = 0
  BY EmptyUsed DEF ReInit, Used
<1> QED
  BY <1>1 DEF ReInit, IndInv, TypeOK, PutHasRoom, GetHasValue, PutWritten, GetMoved

(* A Put that passed its test has room; the consumer can only make more.   *)
LEMMA PutBeginInv == ASSUME IndInv, NEW v \in Values, PutBegin(v) PROVE IndInv'
<1>1. Used' = Used /\ Used \in 0 .. Size /\ Used # Size
  BY SlotsFromOut DEF PutBegin, Used, IndInv
<1> QED
  BY <1>1 DEF PutBegin, IndInv, TypeOK, PutHasRoom, GetHasValue, PutWritten, GetMoved

(* The write touches a slot that holds no value. *)
LEMMA PutWriteInv == ASSUME IndInv, PutWrite PROVE IndInv'
<1> USE DEF IndInv
<1>1. Used' = Used /\ Mask(in)' = Mask(in) /\ Mask(out)' = Mask(out)
  BY DEF PutWrite, Used, Mask
<1>2. Mask(in) \in Slots /\ Mask(out) \in Slots
  BY SlotsFromOut
<1>3. TypeOK'
  BY <1>1, <1>2 DEF PutWrite, TypeOK
<1>4. PutHasRoom' /\ GetHasValue'
  BY <1>1 DEF PutWrite, PutHasRoom, GetHasValue
<1>5. PutWritten'
  BY <1>1, <1>2 DEF PutWrite, PutWritten, TypeOK
<1>6. GetMoved'
  <2> SUFFICES ASSUME cpc = "advance" PROVE GetMoved'
    BY DEF PutWrite, GetMoved
  <2>1. Used > 0 /\ Used < Size /\ Used \in 0 .. Size
    BY SlotsFromOut DEF PutWrite, GetHasValue, PutHasRoom
  <2>2. Mask(out) # Mask(in)
    <3>1. 0 \in 0 .. (Used - 1)
      BY <2>1
    <3>2. (out + 0) % Size # Mask(in)
      BY <2>1, <3>1, FreeSlot
    <3>3. out + 0 = out
      BY DEF TypeOK
    <3> QED
      BY <3>2, <3>3 DEF Mask
  <2> QED
    BY <1>1, <1>2, <2>2 DEF PutWrite, GetMoved, TypeOK
<1> QED
  BY <1>3, <1>4, <1>5, <1>6

(* ++in_ makes one value more, also when in_ wraps. *)
LEMMA PutAdvanceUsed ==
    ASSUME IndInv, PutAdvance PROVE in' \in 0 .. (Width - 1) /\ Used' = Used + 1
<1> USE DEF IndInv
<1>1. in \in 0 .. (Width - 1) /\ out \in 0 .. (Width - 1) /\ out' = out
  BY DEF TypeOK, PutAdvance
<1>2. in' = IF in = Width - 1 THEN 0 ELSE in + 1
  BY <1>1, Increment DEF PutAdvance
<1>3. in' \in 0 .. (Width - 1)
  BY <1>1, <1>2
<1>4. Used = Distance(in, out) /\ Used' = Distance(in', out) /\ Used \in 0 .. Size
  BY <1>1, <1>3, UsedIs, SlotsFromOut DEF Used
<1>5. Used < Size
  BY DEF PutAdvance, PutHasRoom
<1> QED
  BY <1>1, <1>2, <1>3, <1>4, <1>5 DEF Distance

(* The value put is in the ring and the producer idle. *)
LEMMA PutAdvanceInv == ASSUME IndInv, PutAdvance PROVE IndInv'
<1> USE DEF IndInv
<1>1. in' \in 0 .. (Width - 1) /\ Used' = Used + 1 /\ Used \in 0 .. Size /\ Used < Size
  BY PutAdvanceUsed, SlotsFromOut DEF PutAdvance, PutHasRoom
<1>2. Default \in Values
  BY DEF Default, TypeOK
<1>3. Mask(out)' = Mask(out)
  BY DEF Mask, PutAdvance
<1> QED
  BY <1>1, <1>2, <1>3
  DEF PutAdvance, TypeOK, PutHasRoom, GetHasValue, PutWritten, GetMoved

(* A Get that passed its test has a value; the producer can only add some. *)
LEMMA GetBeginInv == ASSUME IndInv, GetBegin PROVE IndInv'
<1> USE DEF IndInv
<1>1. in \in 0 .. (Width - 1) /\ out \in 0 .. (Width - 1)
  BY DEF TypeOK
<1>2. Used = Distance(in, out) /\ Used' = Used /\ in # out
  BY <1>1, UsedIs DEF Used, GetBegin
<1>3. Used > 0
  BY <1>1, <1>2 DEF Distance
<1> QED
  BY <1>2, <1>3 DEF GetBegin, TypeOK, PutHasRoom, GetHasValue, PutWritten, GetMoved

(* The value moved out is the one at out_. *)
LEMMA GetReadInv == ASSUME IndInv, GetRead PROVE IndInv'
<1> USE DEF IndInv
<1>1. Used' = Used /\ Mask(in)' = Mask(in) /\ Mask(out)' = Mask(out) /\ Mask(out) \in Slots
  BY SlotsFromOut DEF GetRead, Used, Mask
<1> QED
  BY <1>1 DEF GetRead, TypeOK, PutHasRoom, GetHasValue, PutWritten, GetMoved

(* ++out_ makes one value less, also when out_ wraps. *)
LEMMA GetAdvanceUsed ==
    ASSUME IndInv, GetAdvance PROVE out' \in 0 .. (Width - 1) /\ Used' = Used - 1
<1> USE DEF IndInv
<1>1. in \in 0 .. (Width - 1) /\ out \in 0 .. (Width - 1) /\ in' = in
  BY DEF TypeOK, GetAdvance
<1>2. out' = IF out = Width - 1 THEN 0 ELSE out + 1
  BY <1>1, Increment DEF GetAdvance
<1>3. out' \in 0 .. (Width - 1)
  BY <1>1, <1>2
<1>4. Used = Distance(in, out) /\ Used' = Distance(in, out') /\ Used \in 0 .. Size
  BY <1>1, <1>3, UsedIs, SlotsFromOut DEF Used
<1>5. Used > 0
  BY DEF GetAdvance, GetHasValue
<1> QED
  BY <1>1, <1>2, <1>3, <1>4, <1>5 DEF Distance

(* The slot is free again and the consumer idle. *)
LEMMA GetAdvanceInv == ASSUME IndInv, GetAdvance PROVE IndInv'
<1> USE DEF IndInv
<1>1. out' \in 0 .. (Width - 1) /\ Used' = Used - 1 /\ Used \in 0 .. Size
  BY GetAdvanceUsed, SlotsFromOut
<1>2. Default \in Values
  BY DEF Default, TypeOK
<1>3. Mask(in)' = Mask(in)
  BY DEF Mask, GetAdvance
<1> QED
  BY <1>1, <1>2, <1>3
  DEF GetAdvance, TypeOK, PutHasRoom, GetHasValue, PutWritten, GetMoved

-----------------------------------------------------------------------------
(* IndInv is an inductive invariant of the ring. *)
THEOREM Invariance == Spec => []IndInv
<1>1. Init => IndInv
  BY InitIndInv
<1>2. IndInv /\ [Next]_vars => IndInv'
  <2> SUFFICES ASSUME IndInv, [Next]_vars PROVE IndInv'
    OBVIOUS
  <2>1. CASE Next
    BY <2>1, ReInitInv, PutBeginInv, PutWriteInv, PutAdvanceInv, GetBeginInv, GetReadInv,
       GetAdvanceInv DEF Next
  <2>2. CASE UNCHANGED vars
    BY <2>2 DEF vars, IndInv, TypeOK, PutHasRoom, GetHasValue, PutWritten, GetMoved, Used, Mask
  <2> QED
    BY <2>1, <2>2
<1> QED
  BY <1>1, <1>2, PTL DEF Spec

(* The producer never writes the slot that the consumer reads: the test of *)
(* Put stays true while out_ moves, across every wrap-around.              *)
THEOREM SlotsExclusive == Spec => []NoSlotRace
<1>1. IndInv => NoSlotRace
  <2> SUFFICES ASSUME IndInv, ppc = "write", cpc = "read" PROVE Mask(in) # Mask(out)
    BY DEF NoSlotRace
  <2>1. TypeOK /\ Used < Size /\ Used > 0 /\ Used \in 0 .. Size
    BY SlotsFromOut DEF IndInv, PutHasRoom, GetHasValue
  <2>2. 0 \in 0 .. (Used - 1)
    BY <2>1
  <2>3. (out + 0) % Size # Mask(in)
    BY <2>1, <2>2, FreeSlot
  <2>4. out + 0 = out
    BY <2>1 DEF TypeOK
  <2> QED
    BY <2>3, <2>4 DEF Mask
<1> QED
  BY <1>1, Invariance, PTL

-----------------------------------------------------------------------------
(* The ring implements BoundedFifo.                                        *)

(* The contents are the Used slots from out_ on. *)
LEMMA ContentsIs ==
    ASSUME TypeOK
    PROVE  /\ Contents \in Seq(Values) /\ Len(Contents) = Used
           /\ \A i \in 1 .. Used : Contents[i] = buffer[(out + (i - 1)) % Size]
<1>1. Used \in 0 .. Size /\ Used \in Nat
  BY SlotsFromOut
<1>2. ASSUME NEW i \in 1 .. Used
      PROVE  /\ Mask((out + i - 1) % Width) = (out + (i - 1)) % Size
             /\ buffer[Mask((out + i - 1) % Width)] \in Values
  <2>1. i - 1 \in Int /\ out + i - 1 = out + (i - 1) /\ out + (i - 1) \in Int
    BY <1>1 DEF TypeOK
  <2>2. Mask((out + (i - 1)) % Width) = (out + (i - 1)) % Size
    BY <2>1, SlotsFromOut
  <2>3. (out + (i - 1)) % Size \in Slots
    BY <2>1, DivMod, Divisors DEF Slots
  <2> QED
    BY <2>1, <2>2, <2>3 DEF TypeOK
<1>3. Contents \in [1 .. Used -> Values]
  BY <1>2 DEF Contents
<1>4. Contents \in Seq(Values) /\ Len(Contents) = Used
  BY <1>1, <1>3
<1>5. \A i \in 1 .. Used : Contents[i] = buffer[(out + (i - 1)) % Size]
  BY <1>2 DEF Contents
<1> QED
  BY <1>4, <1>5

(* A ring without values. *)
LEMMA ContentsEmpty == ASSUME TypeOK, Used = 0 PROVE Contents = <<>>
<1>1. Contents \in Seq(Values) /\ Len(Contents) = 0
  BY ContentsIs
<1> QED
  BY <1>1

(* Initially the queue is empty. *)
LEMMA InitRefines == Init => Fifo!Init
<1> SUFFICES ASSUME Init PROVE Fifo!Init
  OBVIOUS
<1>1. TypeOK /\ Used = 0
  BY InitIndInv, EmptyUsed DEF Init, IndInv, Used
<1>2. Contents = <<>> /\ got \in Values
  BY <1>1, ContentsEmpty DEF TypeOK
<1> QED
  BY <1>2 DEF Fifo!Init

(* ReInit clears the queue. *)
LEMMA ReInitRefines == ASSUME IndInv, ReInit PROVE Fifo!Clear
<1>1. TypeOK' /\ Used' = 0 /\ got' = got
  BY ReInitInv, EmptyUsed DEF ReInit, IndInv, Used
<1>2. Contents' = <<>>
  <2>1. Contents' = [i \in 1 .. 0 |-> (buffer[Mask((out + i - 1) % Width)])']
    BY <1>1 DEF Contents
  <2> QED
    BY <2>1
<1> QED
  BY <1>1, <1>2 DEF Fifo!Clear

(* The write of a Put is not visible before ++in_. *)
LEMMA PutWriteRefines == ASSUME IndInv, PutWrite PROVE UNCHANGED Fifo!vars
<1> USE DEF IndInv
<1>1. TypeOK /\ Used < Size /\ Used \in 0 .. Size /\ Mask(in) \in Slots
  BY SlotsFromOut DEF PutWrite, PutHasRoom
<1>2. Used' = Used /\ got' = got /\ out' = out /\ buffer' = [buffer EXCEPT ![Mask(in)] = pval]
  BY DEF PutWrite, Used
<1>3. ASSUME NEW i \in 1 .. Used
      PROVE  buffer'[Mask((out' + i - 1) % Width)] = buffer[Mask((out + i - 1) % Width)]
  <2>1. i - 1 \in Int /\ i - 1 \in 0 .. (Used - 1) /\ out + i - 1 = out + (i - 1)
    BY <1>1 DEF TypeOK
  <2>2. Mask((out + (i - 1)) % Width) = (out + (i - 1)) % Size
    BY <1>1, <2>1, SlotsFromOut
  <2>3. (out + (i - 1)) % Size # Mask(in)
    BY <1>1, <2>1, FreeSlot
  <2>4. Mask((out + i - 1) % Width) # Mask(in)
    BY <2>1, <2>2, <2>3
  <2> QED
    BY <1>2, <2>4 DEF TypeOK, Mask
<1>4. Contents' = Contents
  BY <1>2, <1>3 DEF Contents
<1> QED
  BY <1>2, <1>4 DEF Fifo!vars

(* ++in_ appends the value. *)
LEMMA PutAdvanceRefines == ASSUME IndInv, PutAdvance PROVE Fifo!Put(pval)
<1> USE DEF IndInv
<1>1. /\ TypeOK /\ Used < Size /\ Used \in 0 .. Size /\ pval \in Values
      /\ buffer[(out + Used) % Size] = pval
  BY SlotsFromOut DEF PutAdvance, PutHasRoom, PutWritten, TypeOK
<1>2. TypeOK' /\ Used' = Used + 1 /\ got' = got /\ out' = out /\ buffer' = buffer
  BY PutAdvanceInv, PutAdvanceUsed DEF PutAdvance
<1>3. /\ Contents \in Seq(Values) /\ Len(Contents) = Used
      /\ \A i \in 1 .. Used : Contents[i] = buffer[(out + (i - 1)) % Size]
  BY <1>1, ContentsIs
<1>4. /\ Contents' \in Seq(Values) /\ Len(Contents') = Used + 1
      /\ \A i \in 1 .. (Used + 1) : Contents'[i] = buffer[(out + (i - 1)) % Size]
  <2>1. (/\ Contents \in Seq(Values) /\ Len(Contents) = Used
         /\ \A i \in 1 .. Used : Contents[i] = buffer[(out + (i - 1)) % Size])'
    BY <1>2, ContentsIs, PTL
  <2> QED
    BY <2>1, <1>2
<1> HIDE DEF IndInv
<1>5. Contents' = Append(Contents, pval)
  <2> DEFINE c == Contents
             d == Append(Contents, pval)
             e == Contents'
  <2>1. /\ d \in Seq(Values) /\ Len(d) = Used + 1
        /\ \A i \in 1 .. Used : d[i] = c[i]
        /\ d[Used + 1] = pval
    BY <1>1, <1>3, AppendProperties
  <2>2. ASSUME NEW i \in 1 .. (Used + 1) PROVE e[i] = d[i]
    <3>1. CASE i \in 1 .. Used
      BY <3>1, <1>3, <1>4, <2>1
    <3>2. CASE i = Used + 1
      <4>1. i - 1 = Used
        BY <3>2, <1>1
      <4> QED
        BY <3>2, <4>1, <1>1, <1>4, <2>1
    <3>3. i \in 1 .. Used \/ i = Used + 1
      BY <1>1
    <3> QED
      BY <3>1, <3>2, <3>3
  <2>3. e \in Seq(Values) /\ Len(e) = Len(d)
    BY <1>4, <2>1
  <2> HIDE DEF c, d, e
  <2>4. e = d
    BY <2>1, <2>2, <2>3, SeqEqual
  <2> QED
    BY <2>4 DEF d, e
<1> QED
  BY <1>1, <1>2, <1>3, <1>5 DEF Fifo!Put

(* ++out_ removes the oldest value, which Get returns. *)
LEMMA GetAdvanceRefines == ASSUME IndInv, GetAdvance PROVE Fifo!Get
<1> USE DEF IndInv
<1>1. /\ TypeOK /\ Used > 0 /\ Used \in 0 .. Size /\ out \in Int
      /\ buffer[(out + 0) % Size] = data
  <2>1. out + 0 = out /\ out \in Int
    BY DEF TypeOK
  <2> QED
    BY <2>1, SlotsFromOut DEF GetAdvance, GetHasValue, GetMoved
<1>2. /\ TypeOK' /\ Used' = Used - 1 /\ got' = data /\ out' = (out + 1) % Width
      /\ buffer' = buffer
  BY GetAdvanceInv, GetAdvanceUsed DEF GetAdvance
<1>3. /\ Contents \in Seq(Values) /\ Len(Contents) = Used
      /\ \A i \in 1 .. Used : Contents[i] = buffer[(out + (i - 1)) % Size]
  BY <1>1, ContentsIs
<1>4. /\ Contents' \in Seq(Values) /\ Len(Contents') = Used - 1
      /\ \A i \in 1 .. (Used - 1) : Contents'[i] = buffer[(((out + 1) % Width) + (i - 1)) % Size]
  <2>1. (/\ Contents \in Seq(Values) /\ Len(Contents) = Used
         /\ \A i \in 1 .. Used : Contents[i] = buffer[(out + (i - 1)) % Size])'
    BY <1>2, ContentsIs, PTL
  <2> QED
    BY <2>1, <1>2
<1> HIDE DEF IndInv
<1>5. ASSUME NEW i \in 1 .. (Used - 1)
      PROVE  Contents'[i] = buffer[(out + i) % Size]
  <2>1. i - 1 \in Int /\ out + 1 \in Int /\ (out + 1) + (i - 1) = out + i
    BY <1>1
  <2>2. (((out + 1) % Width) + (i - 1)) % Size = ((out + 1) + (i - 1)) % Size
    BY <2>1, MaskWraps
  <2> QED
    BY <2>1, <2>2, <1>4
<1>6. Contents # <<>> /\ Head(Contents) = data
  <2>1. Contents # <<>> /\ Head(Contents) = Contents[1]
    BY <1>1, <1>3
  <2>2. 1 \in 1 .. Used /\ 1 - 1 = 0
    BY <1>1
  <2> QED
    BY <2>1, <2>2, <1>1, <1>3
<1>7. Contents' = Tail(Contents)
  <2> DEFINE c == Contents
             d == Tail(Contents)
             e == Contents'
  <2>1. /\ d \in Seq(Values) /\ Len(d) = Used - 1
        /\ \A i \in 1 .. (Used - 1) : d[i] = c[i + 1]
    BY <1>1, <1>3, <1>6, HeadTailProperties
  <2>2. ASSUME NEW i \in 1 .. (Used - 1) PROVE e[i] = d[i]
    <3>1. i + 1 \in 1 .. Used /\ (i + 1) - 1 = i
      BY <1>1
    <3>2. c[i + 1] = buffer[(out + i) % Size]
      BY <3>1, <1>3
    <3> QED
      BY <3>2, <1>5, <2>1
  <2>3. e \in Seq(Values) /\ Len(e) = Len(d)
    BY <1>4, <2>1
  <2> HIDE DEF c, d, e
  <2>4. e = d
    BY <2>1, <2>2, <2>3, SeqEqual
  <2> QED
    BY <2>4 DEF d, e
<1> QED
  BY <1>2, <1>6, <1>7 DEF Fifo!Get

(* The other steps change nothing that callers of the ring see. *)
LEMMA InvisibleStep ==
    ASSUME UNCHANGED <<in, out, buffer, got>> PROVE UNCHANGED Fifo!vars
  BY DEF Fifo!vars, Contents, Used, Mask

(* simple_circbuf.h implements a bounded FIFO queue: nothing is lost,      *)
(* duplicated or reordered, for every size, index width and interleaving.  *)
THEOREM Refinement == Spec => ImplementsFifo
<1>1. Init => Fifo!Init
  BY InitRefines
<1>2. IndInv /\ [Next]_vars => [Fifo!Next]_Fifo!vars
  <2> SUFFICES ASSUME IndInv, [Next]_vars PROVE Fifo!Next \/ UNCHANGED Fifo!vars
    OBVIOUS
  <2>1. CASE ReInit
    BY <2>1, ReInitRefines DEF Fifo!Next
  <2>2. CASE PutWrite
    BY <2>2, PutWriteRefines
  <2>3. CASE PutAdvance
    <3>1. pval \in Values
      BY DEF IndInv, TypeOK
    <3> QED
      BY <2>3, <3>1, PutAdvanceRefines DEF Fifo!Next
  <2>4. CASE GetAdvance
    BY <2>4, GetAdvanceRefines DEF Fifo!Next
  <2>5. CASE (\E v \in Values : PutBegin(v)) \/ GetBegin \/ GetRead
    BY <2>5, InvisibleStep DEF PutBegin, GetBegin, GetRead
  <2>6. CASE UNCHANGED vars
    BY <2>6, InvisibleStep DEF vars
  <2> QED
    BY <2>1, <2>2, <2>3, <2>4, <2>5, <2>6 DEF Next
<1> QED
  BY <1>1, <1>2, Invariance, PTL DEF Spec, ImplementsFifo, Fifo!Spec
=============================================================================
