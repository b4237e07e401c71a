--------------------------- MODULE ResponseProofs ---------------------------
(***************************************************************************)
(* The way of a response back to its client.  The output buffer of         *)
(* output_buffer.h hands the peer every byte once and in order, for all    *)
(* sizes, offsets and lengths that fit its integers; before it, the queue  *)
(* that ResponseCb drains and its notification protocol (notifier.h) lose  *)
(* no wake-up, for any number of workers and any queue size.               *)
(***************************************************************************)
EXTENDS OutputBuffer, NotifiedQueue, FiniteSetTheorems, TLAPS

(* Natural numbers are well ordered: finite sets of numbers are well       *)
(* founded by inclusion, and 0 .. k is one for each k.                     *)
LEMMA Least ==
    ASSUME NEW T \in SUBSET Nat, T # {}
    PROVE  \E m \in T : \A k \in T : m <= k
<1> DEFINE U == {0 .. k : k \in T}
<1>1. IsWellFoundedOn(StrictSubsetOrdering(Nat), FiniteSubsetsOf(Nat))
  BY FS_StrictSubsetOrderingWellFounded
<1>2. \A k \in Nat : 0 .. k \in FiniteSubsetsOf(Nat)
  BY FS_Interval DEF FiniteSubsetsOf
<1>3. U \subseteq FiniteSubsetsOf(Nat) /\ U # {}
  BY <1>2
<1> HIDE DEF U
<1>4. PICK X \in U : \A Y \in U : <<Y, X>> \notin StrictSubsetOrdering(Nat)
  BY <1>1, <1>3, WFMin
<1>5. PICK m \in T : X = 0 .. m
  BY DEF U
<1>6. ASSUME NEW k \in T, k < m PROVE FALSE
  <2>1. 0 .. k \in U
    BY DEF U
  <2>2. /\ 0 .. k \subseteq 0 .. m /\ 0 .. k # 0 .. m
        /\ 0 .. k \in SUBSET Nat /\ 0 .. m \in SUBSET Nat
    BY <1>6
  <2>3. <<0 .. k, 0 .. m>> \in StrictSubsetOrdering(Nat)
    BY <2>2 DEF StrictSubsetOrdering
  <2> QED
    BY <1>4, <1>5, <2>1, <2>3
<1> QED
  BY <1>6

-----------------------------------------------------------------------------
(* The powers of two.  The first n + 1 of them: *)
Powers(g, n) ==
    /\ g \in [0 .. n -> Nat]
    /\ \A i \in 0 .. n : g[i] = IF i = 0 THEN 1 ELSE 2 * g[i - 1]

(* There are n + 1 of them, for every n. *)
LEMMA PowersExist == \A n \in Nat : \E g : Powers(g, n)
<1> DEFINE T == {n \in Nat : ~\E g : Powers(g, n)}
<1> SUFFICES ASSUME T # {} PROVE FALSE
  OBVIOUS
<1>1. PICK m \in T : \A k \in T : m <= k
  <2> T \in SUBSET Nat
    OBVIOUS
  <2> HIDE DEF T
  <2> QED
    BY Least
<1>2. m # 0
  <2>1. Powers([i \in 0 .. 0 |-> 1], 0)
    BY DEF Powers
  <2> QED
    BY <2>1
<1>3. m \in Nat /\ m - 1 \in Nat /\ m - 1 \notin T
  BY <1>1, <1>2
<1>4. PICK g : Powers(g, m - 1)
  BY <1>3
<1> DEFINE h == [i \in 0 .. m |-> IF i = m THEN 2 * g[m - 1] ELSE g[i]]
<1>5. m - 1 \in 0 .. (m - 1)
  BY <1>3
<1>6. \A i \in 0 .. m : i # m => i \in 0 .. (m - 1)
  BY <1>3
<1>7. h \in [0 .. m -> Nat]
  BY <1>4, <1>5, <1>6 DEF Powers
<1>8. ASSUME NEW i \in 0 .. m PROVE h[i] = IF i = 0 THEN 1 ELSE 2 * h[i - 1]
  <2>1. CASE i = m
    BY <1>2, <1>3, <1>5, <2>1
  <2>2. CASE i # m
    <3>1. i \in 0 .. (m - 1) /\ h[i] = g[i]
      BY <1>6, <2>2
    <3>2. CASE i = 0
      BY <1>4, <3>1, <3>2 DEF Powers
    <3>3. CASE i # 0
      <4>1. i - 1 \in 0 .. m /\ i - 1 # m
        BY <1>3, <3>1, <3>3
      <4>2. h[i - 1] = g[i - 1]
        BY <4>1
      <4> QED
        BY <1>4, <3>1, <3>3, <4>2 DEF Powers
    <3> QED
      BY <3>2, <3>3
  <2> QED
    BY <2>1, <2>2
<1>9. Powers(h, m)
  <2> HIDE DEF h
  <2> QED
    BY <1>7, <1>8 DEF Powers
<1> QED
  BY <1>9

(* They are the same ones, however many. *)
LEMMA PowersUnique ==
    ASSUME NEW m \in Nat, NEW n \in Nat, NEW g, Powers(g, m), NEW h, Powers(h, n)
    PROVE  \A i \in Nat : i <= m /\ i <= n => g[i] = h[i]
<1> DEFINE T == {i \in Nat : i <= m /\ i <= n /\ g[i] # h[i]}
<1> SUFFICES ASSUME T # {} PROVE FALSE
  OBVIOUS
<1>1. PICK l \in T : \A k \in T : l <= k
  <2> T \in SUBSET Nat
    OBVIOUS
  <2> HIDE DEF T
  <2> QED
    BY Least
<1>2. l \in 0 .. m /\ l \in 0 .. n
  OBVIOUS
<1>3. l # 0
  BY <1>2 DEF Powers
<1>4. l - 1 \in Nat /\ l - 1 \notin T /\ l - 1 <= m /\ l - 1 <= n
  BY <1>1, <1>3
<1>5. g[l - 1] = h[l - 1]
  BY <1>4
<1> QED
  BY <1>2, <1>3, <1>5 DEF Powers

(* Pow2 is what its definition says. *)
LEMMA Pow2Def ==
    /\ Pow2 \in [Nat -> Nat]
    /\ \A n \in Nat : Pow2[n] = IF n = 0 THEN 1 ELSE 2 * Pow2[n - 1]
<1> DEFINE G(n) == CHOOSE g : Powers(g, n)
           f == [n \in Nat |-> G(n)[n]]
<1>1. \A n \in Nat : Powers(G(n), n)
  BY PowersExist
<1> HIDE DEF G
<1>2. ASSUME NEW n \in Nat
      PROVE  f[n] \in Nat /\ f[n] = IF n = 0 THEN 1 ELSE 2 * f[n - 1]
  <2>1. n \in 0 .. n /\ f[n] = G(n)[n]
    OBVIOUS
  <2>2. CASE n = 0
    BY <1>1, <2>1, <2>2 DEF Powers
  <2>3. CASE n # 0
    <3>1. n - 1 \in Nat /\ n - 1 <= n /\ n - 1 <= n - 1
      BY <2>3
    <3>2. f[n - 1] = G(n - 1)[n - 1]
      BY <3>1
    <3>3. G(n)[n - 1] = G(n - 1)[n - 1]
      BY <1>1, <3>1, PowersUnique
    <3> QED
      BY <1>1, <2>1, <2>3, <3>2, <3>3 DEF Powers
  <2> QED
    BY <2>2, <2>3
<1>3. f = [n \in Nat |-> IF n = 0 THEN 1 ELSE 2 * f[n - 1]]
  BY <1>2
<1>4. \E p : p = [n \in Nat |-> IF n = 0 THEN 1 ELSE 2 * p[n - 1]]
  BY <1>3, Zenon
<1>5. Pow2 = [n \in Nat |-> IF n = 0 THEN 1 ELSE 2 * Pow2[n - 1]]
  BY <1>4, Zenon DEF Pow2
<1> DEFINE T == {n \in Nat : Pow2[n] \notin Nat}
<1>6. \A n \in Nat : Pow2[n] = IF n = 0 THEN 1 ELSE 2 * Pow2[n - 1]
  BY <1>5
<1>7. T = {}
  <2> SUFFICES ASSUME T # {} PROVE FALSE
    OBVIOUS
  <2>1. PICK l \in T : \A k \in T : l <= k
    <3> T \in SUBSET Nat
      OBVIOUS
    <3> HIDE DEF T
    <3> QED
      BY Least
  <2>2. l # 0
    BY <1>6
  <2>3. l - 1 \in Nat /\ l - 1 \notin T
    BY <2>1, <2>2
  <2> QED
    BY <1>6, <2>2, <2>3
<1> QED
  BY <1>5, <1>6, <1>7

(* They grow. *)
LEMMA Pow2Grows ==
    ASSUME NEW m \in Nat, NEW n \in Nat, m <= n
    PROVE  0 < Pow2[m] /\ Pow2[m] <= Pow2[n]
<1>1. \A k \in Nat : Pow2[k] \in Nat /\ Pow2[k + 1] = 2 * Pow2[k]
  BY Pow2Def
<1>2. Pow2[0] = 1
  BY Pow2Def
<1> DEFINE T == {k \in Nat : ~(0 < Pow2[k] /\ (m <= k => Pow2[m] <= Pow2[k]))}
<1>3. SUFFICES ASSUME T # {} PROVE FALSE
  OBVIOUS
<1>4. PICK l \in T : \A k \in T : l <= k
  <2> T \in SUBSET Nat
    OBVIOUS
  <2> HIDE DEF T
  <2> QED
    BY <1>3, Least
<1>5. l \in Nat /\ l # 0 /\ l # m
  <2>1. l # 0
    BY <1>2
  <2>2. CASE l = m
    <3>1. l - 1 \in Nat /\ l - 1 \notin T
      BY <1>4, <2>1
    <3>2. Pow2[(l - 1) + 1] = 2 * Pow2[l - 1] /\ 0 < Pow2[l - 1] /\ Pow2[l - 1] \in Nat
      BY <1>1, <3>1
    <3>3. 0 < Pow2[l]
      BY <3>1, <3>2
    <3>4. Pow2[l] \in Nat
      BY <1>1
    <3> QED
      BY <2>2, <3>3, <3>4
  <2> QED
    BY <2>1, <2>2
<1>6. l - 1 \in Nat /\ l - 1 \notin T /\ (m <= l => m <= l - 1)
  BY <1>4, <1>5
<1>7. Pow2[(l - 1) + 1] = 2 * Pow2[l - 1] /\ (l - 1) + 1 = l
  BY <1>1, <1>6
<1>8. 0 < Pow2[l - 1] /\ (m <= l => Pow2[m] <= Pow2[l - 1])
  BY <1>6
<1>9. Pow2[m] \in Nat /\ Pow2[l - 1] \in Nat
  BY <1>1, <1>6
<1> QED
  BY <1>7, <1>8, <1>9

(* Resize makes as much room as it is asked for: roundup_pow_of_two is a   *)
(* power of two and never less than its argument, as long as the argument  *)
(* fits the width.                                                         *)
LEMMA RoundUpEnough ==
    ASSUME NEW x \in Nat, x # 0, x <= Pow2[Bits]
    PROVE  /\ RoundUpPowOfTwo(x) \in Nat /\ RoundUpPowOfTwo(x) >= x
           /\ \E m \in 0 .. Bits : RoundUpPowOfTwo(x) = Pow2[m]
<1> USE BitsAssumption
<1> DEFINE T == {k \in 0 .. Bits : x - 1 < Pow2[k]}
<1>1. \A k \in Nat : Pow2[k] \in Nat
  BY Pow2Def
<1>2. T \in SUBSET Nat /\ Bits \in T
  BY <1>1
<1>3. PICK m \in T : \A k \in T : m <= k
  <2> HIDE DEF T
  <2> QED
    BY <1>2, Least
<1>4. m \in Nat /\ m <= Bits /\ x - 1 < Pow2[m]
  OBVIOUS
<1>5. {k \in 0 .. (Bits - 1) : Pow2[k] <= x - 1} = 0 .. (m - 1)
  <2>1. ASSUME NEW k \in 0 .. (Bits - 1), Pow2[k] <= x - 1 PROVE k \in 0 .. (m - 1)
    <3>1. CASE k >= m
      <4>1. Pow2[m] <= Pow2[k] /\ Pow2[m] \in Nat /\ Pow2[k] \in Nat
        BY <1>1, <1>4, <3>1, Pow2Grows
      <4> QED
        BY <1>4, <2>1, <4>1
    <3> QED
      BY <1>4, <3>1
  <2>2. ASSUME NEW k \in 0 .. (m - 1)
        PROVE  k \in 0 .. (Bits - 1) /\ Pow2[k] <= x - 1
    <3>1. k \in 0 .. (Bits - 1) /\ k \notin T /\ k \in 0 .. Bits /\ k \in Nat
      BY <1>3, <1>4
    <3> QED
      BY <1>1, <3>1
  <2> QED
    BY <2>1, <2>2
<1>6. Cardinality(0 .. (m - 1)) = m
  BY <1>4, FS_Interval
<1>7. RoundUpPowOfTwo(x) = Pow2[m]
  BY <1>5, <1>6 DEF RoundUpPowOfTwo, FindLastSetBit
<1> QED
  BY <1>1, <1>4, <1>7

-----------------------------------------------------------------------------
(* get_empty_buffer and its caller: the n bytes are appended, in a buffer  *)
(* that is large enough, and no byte in use is lost.                       *)
LEMMA Appends ==
    ASSUME NEW b, Sound(b), NEW n \in Nat, NEW f \in Nat, b.used + n <= Width
    PROVE  LET r == Appended(b, n, f) IN
           /\ Sound(r) /\ r.used = b.used + n /\ r.consumed = b.consumed
           /\ \A i \in 0 .. (b.used - 1) : r.bytes[i] = b.bytes[i]
           /\ \A i \in b.used .. (b.used + n - 1) : r.bytes[i] = f + (i - b.used)
<1> DEFINE g == Grown(b, n)
           r == Appended(b, n, f)
<1>0. /\ b = [bytes |-> b.bytes, size |-> b.size, used |-> b.used, consumed |-> b.consumed]
      /\ b.size \in Nat /\ b.bytes \in [0 .. (b.size - 1) -> Nat]
      /\ b.used \in Nat /\ b.used <= b.size /\ b.consumed \in Nat
  BY DEF Sound
<1>1. /\ Sound(g) /\ g.used = b.used /\ g.consumed = b.consumed /\ b.used + n <= g.size
      /\ \A i \in 0 .. (b.used - 1) : g.bytes[i] = b.bytes[i]
  <2>1. CASE n > b.size - b.used
    <3> DEFINE s == RoundUpPowOfTwo(b.used + n)
    <3>1. b.used + n \in Nat /\ b.used + n # 0 /\ b.size + (n - (b.size - b.used)) = b.used + n
      BY <1>0, <2>1
    <3>2. s \in Nat /\ s >= b.used + n
      BY <3>1, RoundUpEnough DEF Width
    <3> DEFINE w == [i \in 0 .. (s - 1) |-> IF i < b.size THEN b.bytes[i] ELSE Garbage]
    <3>3. g = [b EXCEPT !.size = s, !.bytes = w]
      BY <2>1, <3>1 DEF Grown, Resize
    <3> HIDE DEF s
    <3>4. w \in [0 .. (s - 1) -> Nat]
      BY <1>0, <3>2 DEF Garbage
    <3>5. \A i \in 0 .. (b.used - 1) : w[i] = b.bytes[i]
      BY <1>0, <3>1, <3>2
    <3> HIDE DEF w, g
    <3>6. g = [bytes |-> w, size |-> s, used |-> b.used, consumed |-> b.consumed]
      BY <1>0, <3>3
    <3> QED
      BY <1>0, <3>1, <3>2, <3>4, <3>5, <3>6 DEF Sound
  <2>2. CASE ~(n > b.size - b.used)
    <3>1. g = b
      BY <2>2 DEF Grown
    <3>2. b.used + n <= b.size
      BY <1>0, <2>2
    <3> QED
      BY <3>1, <3>2
  <2> QED
    BY <2>1, <2>2
<1>2. r = Filled(g, n, f)
  BY DEF Appended
<1> HIDE DEF g
<1>3. /\ g = [bytes |-> g.bytes, size |-> g.size, used |-> g.used, consumed |-> g.consumed]
      /\ g.size \in Nat /\ g.bytes \in [0 .. (g.size - 1) -> Nat]
      /\ g.used \in Nat /\ g.used <= g.size /\ g.consumed \in Nat
  BY <1>1 DEF Sound
<1> DEFINE w == [i \in DOMAIN g.bytes |->
                    IF i \in g.used .. (g.used + n - 1) THEN f + (i - g.used) ELSE g.bytes[i]]
<1>4. r = [bytes |-> w, size |-> g.size, used |-> g.used + n, consumed |-> g.consumed]
  BY <1>2, <1>3 DEF Filled
<1>5. /\ \A i \in 0 .. (g.size - 1) :
            w[i] = IF i \in g.used .. (g.used + n - 1) THEN f + (i - g.used) ELSE g.bytes[i]
      /\ DOMAIN w = 0 .. (g.size - 1) /\ w = [i \in 0 .. (g.size - 1) |-> w[i]]
  BY <1>3
<1> HIDE DEF w, r
<1>6. w \in [0 .. (g.size - 1) -> Nat]
  BY <1>3, <1>5
<1>7. Sound(r)
  BY <1>1, <1>3, <1>4, <1>6 DEF Sound
<1>8. \A i \in 0 .. (b.used - 1) : w[i] = b.bytes[i]
  BY <1>0, <1>1, <1>3, <1>5
<1>9. \A i \in b.used .. (b.used + n - 1) : w[i] = f + (i - b.used)
  BY <1>0, <1>1, <1>3, <1>5
<1> QED
  BY <1>1, <1>4, <1>7, <1>8, <1>9 DEF r

(* AdjustBuffer keeps what is unsent, whichever way it moves it, and       *)
(* leaves no consumed prefix longer than MAX_CONSUME_OFFSET.               *)
LEMMA Adjusts ==
    ASSUME NEW b, Sound(b), b.consumed <= b.used
    PROVE  LET r == AdjustBuffer(b) IN
           /\ Sound(r) /\ Unsent(r) = Unsent(b)
           /\ r.consumed <= r.used /\ r.consumed <= b.consumed
           /\ r.consumed <= MaxConsumeOffset
           /\ \A i \in 0 .. (Unsent(b) - 1) :
                 r.bytes[r.consumed + i] = b.bytes[b.consumed + i]
<1> USE BufferAssumption, BitsAssumption
<1> DEFINE r == AdjustBuffer(b)
           u == Unsent(b)
<1>0. /\ b = [bytes |-> b.bytes, size |-> b.size, used |-> b.used, consumed |-> b.consumed]
      /\ b.size \in Nat /\ b.bytes \in [0 .. (b.size - 1) -> Nat]
      /\ b.used \in Nat /\ b.used <= b.size /\ b.consumed \in Nat
  BY DEF Sound
<1>1. u \in Nat /\ u = b.used - b.consumed /\ u <= b.size
  BY <1>0 DEF Unsent
<1>2. CASE b.used = b.consumed
  <2>1. r = [bytes |-> b.bytes, size |-> b.size, used |-> 0, consumed |-> 0]
    BY <1>0, <1>2 DEF AdjustBuffer
  <2>2. u = 0
    BY <1>0, <1>2 DEF Unsent
  <2> HIDE DEF r
  <2> QED
    BY <1>0, <2>1, <2>2 DEF Sound, Unsent, r
<1>3. CASE b.used # b.consumed /\ b.consumed > MaxConsumeOffset
  <2> DEFINE w == IF u > b.consumed THEN MoveLeft(b) ELSE CopyLeft(b)
  <2>1. r = [bytes |-> w, size |-> b.size, used |-> u, consumed |-> 0]
    BY <1>0, <1>3 DEF AdjustBuffer
  <2>2. w = [i \in 0 .. (b.size - 1) |-> IF i < u THEN b.bytes[b.consumed + i] ELSE b.bytes[i]]
    <3>1. CASE u > b.consumed
      BY <1>0, <3>1 DEF MoveLeft
    <3>2. CASE ~(u > b.consumed)
      <4>1. u <= b.consumed
        BY <1>0, <1>1, <3>2
      <4> QED
        BY <1>0, <3>2, <4>1 DEF CopyLeft
    <3> QED
      BY <3>1, <3>2
  <2> HIDE DEF w, r, u
  <2>3. w \in [0 .. (b.size - 1) -> Nat]
    <3>1. ASSUME NEW i \in 0 .. (b.size - 1), i < u PROVE b.bytes[b.consumed + i] \in Nat
      <4>1. b.consumed + i \in 0 .. (b.size - 1)
        BY <1>0, <1>1, <3>1
      <4> QED
        BY <1>0, <4>1
    <3> QED
      BY <1>0, <2>2, <3>1
  <2>4. \A i \in 0 .. (u - 1) : w[i] = b.bytes[b.consumed + i]
    BY <1>0, <1>1, <2>2
  <2>5. \A i \in 0 .. (u - 1) : 0 + i = i
    BY <1>1
  <2> QED
    BY <1>0, <1>1, <2>1, <2>3, <2>4, <2>5 DEF Sound, Unsent, r, u
<1>4. CASE b.used # b.consumed /\ ~(b.consumed > MaxConsumeOffset)
  <2>1. r = b
    BY <1>4 DEF AdjustBuffer
  <2> QED
    BY <1>0, <1>4, <2>1
<1> QED
  BY <1>2, <1>3, <1>4

(* Consume: the offset stays in its width, and does not wrap as long as it *)
(* stays below it.                                                         *)
LEMMA Consumes ==
    ASSUME NEW b, Sound(b), NEW n \in Nat
    PROVE  LET r == Consume(b, n) IN
           /\ Sound(r) /\ r.used = b.used /\ r.size = b.size /\ r.bytes = b.bytes
           /\ r.consumed \in 0 .. (Width - 1)
           /\ b.consumed + n < Width => r.consumed = b.consumed + n
<1>0. /\ b = [bytes |-> b.bytes, size |-> b.size, used |-> b.used, consumed |-> b.consumed]
      /\ b.consumed \in Nat
  BY DEF Sound
<1>1. Width \in Nat /\ 0 < Width
  BY Pow2Def, Pow2Grows, BufferAssumption, BitsAssumption DEF Width
<1> DEFINE c == (b.consumed + n) % Width
<1>2. c \in 0 .. (Width - 1) /\ (b.consumed + n < Width => c = b.consumed + n)
  <2>1. \A a, m \in Nat : 0 < m => a % m \in 0 .. (m - 1) /\ (a < m => a % m = a)
    OBVIOUS
  <2>2. b.consumed + n \in Nat
    BY <1>0
  <2> QED
    BY <1>1, <2>1, <2>2
<1> HIDE DEF c
<1>3. Consume(b, n) = [bytes |-> b.bytes, size |-> b.size, used |-> b.used, consumed |-> c]
  BY <1>0 DEF Consume, c
<1>4. c \in Nat
  BY <1>1, <1>2
<1> QED
  BY <1>2, <1>3, <1>4 DEF Sound

(* Both parts of a response are appended after what is unsent. *)
LEMMA ResponseAppended ==
    ASSUME BufferInv, ~failed, produced < MaxProduced, NEW n \in BodyLengths
    PROVE  LET w == WithResponse(n) IN
           /\ Sound(w) /\ w.consumed = buf.consumed /\ w.consumed <= w.used
           /\ Unsent(w) = produced + HeaderLength + n - sent
           /\ w.used <= produced + HeaderLength + n /\ w.used < Width
           /\ \A i \in 0 .. (Unsent(w) - 1) : w.bytes[w.consumed + i] = sent + 1 + i
<1> DEFINE u == buf.used
           c == buf.consumed
           h == Appended(buf, HeaderLength, produced + 1)
           w == WithResponse(n)
<1>1. /\ Sound(buf) /\ u \in Nat /\ c \in Nat /\ c <= u /\ c <= sent
      /\ u - c = produced - sent /\ produced \in Nat /\ sent \in Nat
      /\ \A i \in 0 .. (u - c - 1) : buf.bytes[c + i] = sent + 1 + i
  BY DEF BufferInv, Sound, BufferTypeOK, InOrder, Unsent
<1>2. HeaderLength \in Nat /\ n \in Nat /\ MaxProduced \in Nat /\ Width \in Nat
      /\ InitialSize \in Nat
      /\ 2 * (InitialSize + MaxProduced + HeaderLength + n) < Width
  BY BufferAssumption, BitsAssumption, Pow2Def DEF Width
<1> HIDE DEF u, c
<1>3. u <= produced /\ u + HeaderLength + n < Width /\ u + HeaderLength <= Width
  BY <1>1, <1>2
<1>4. /\ Sound(h) /\ h.used = u + HeaderLength /\ h.consumed = c
      /\ \A i \in 0 .. (u - 1) : h.bytes[i] = buf.bytes[i]
      /\ \A i \in u .. (u + HeaderLength - 1) : h.bytes[i] = produced + 1 + (i - u)
  BY <1>1, <1>2, <1>3, Appends DEF u, c
<1>5. w = Appended(h, n, produced + HeaderLength + 1)
  BY DEF WithResponse
<1> HIDE DEF h, w
<1>6. /\ Sound(w) /\ w.used = u + HeaderLength + n /\ w.consumed = c
      /\ \A i \in 0 .. (u + HeaderLength - 1) : w.bytes[i] = h.bytes[i]
      /\ \A i \in (u + HeaderLength) .. (u + HeaderLength + n - 1) :
            w.bytes[i] = produced + HeaderLength + 1 + (i - (u + HeaderLength))
  <2>1. produced + HeaderLength + 1 \in Nat /\ h.used + n <= Width
    BY <1>1, <1>2, <1>3, <1>4
  <2>2. /\ Sound(w) /\ w.used = h.used + n /\ w.consumed = h.consumed
        /\ \A i \in 0 .. (h.used - 1) : w.bytes[i] = h.bytes[i]
        /\ \A i \in h.used .. (h.used + n - 1) :
              w.bytes[i] = produced + HeaderLength + 1 + (i - h.used)
    BY <1>2, <1>4, <1>5, <2>1, Appends
  <2>3. h.used = u + HeaderLength /\ h.consumed = c /\ u \in Nat /\ HeaderLength \in Nat
    BY <1>1, <1>2, <1>4
  <2>4. \A i \in 0 .. (u + HeaderLength - 1) : w.bytes[i] = h.bytes[i]
    BY <2>2, <2>3
  <2>5. \A i \in (u + HeaderLength) .. (u + HeaderLength + n - 1) :
            w.bytes[i] = produced + HeaderLength + 1 + (i - (u + HeaderLength))
    BY <2>2, <2>3
  <2> QED
    BY <2>2, <2>3, <2>4, <2>5
<1>7. ASSUME NEW i \in 0 .. (u + HeaderLength + n - c - 1)
      PROVE  w.bytes[c + i] = sent + 1 + i
  <2>0. i \in Nat /\ c + i \in Nat /\ c + i < u + HeaderLength + n
    BY <1>1, <1>2
  <2>1. CASE c + i < u
    <3>1. c + i \in 0 .. (u - 1) /\ c + i \in 0 .. (u + HeaderLength - 1)
          /\ i \in 0 .. (u - c - 1)
      BY <1>1, <1>2, <2>0, <2>1
    <3> QED
      BY <1>1, <1>4, <1>6, <3>1
  <2>2. CASE u <= c + i /\ c + i < u + HeaderLength
    <3>1. c + i \in u .. (u + HeaderLength - 1) /\ c + i \in 0 .. (u + HeaderLength - 1)
      BY <1>1, <1>2, <2>0, <2>2
    <3>2. w.bytes[c + i] = produced + 1 + ((c + i) - u)
      BY <1>4, <1>6, <3>1
    <3> QED
      BY <1>1, <2>0, <3>2
  <2>3. CASE u + HeaderLength <= c + i
    <3>1. c + i \in (u + HeaderLength) .. (u + HeaderLength + n - 1)
      BY <1>1, <1>2, <2>0, <2>3
    <3>2. w.bytes[c + i] = produced + HeaderLength + 1 + ((c + i) - (u + HeaderLength))
      BY <1>6, <3>1
    <3> QED
      BY <1>1, <1>2, <2>0, <3>2
  <2> QED
    BY <1>1, <1>2, <2>0, <2>1, <2>2, <2>3
<1>8. Unsent(w) = u + HeaderLength + n - c
  BY <1>1, <1>2, <1>6 DEF Unsent
<1>9. /\ u + HeaderLength + n - c = produced + HeaderLength + n - sent
      /\ c <= u + HeaderLength + n /\ u + HeaderLength + n <= produced + HeaderLength + n
  BY <1>1, <1>2, <1>3
<1>10. /\ Sound(w) /\ w.consumed = buf.consumed /\ w.consumed <= w.used
       /\ Unsent(w) = produced + HeaderLength + n - sent
       /\ w.used <= produced + HeaderLength + n /\ w.used < Width
  BY <1>3, <1>6, <1>8, <1>9 DEF c
<1>11. \A i \in 0 .. (Unsent(w) - 1) : w.bytes[w.consumed + i] = sent + 1 + i
  <2>1. ASSUME NEW i \in 0 .. (Unsent(w) - 1) PROVE w.bytes[w.consumed + i] = sent + 1 + i
    <3>1. i \in 0 .. (u + HeaderLength + n - c - 1) /\ w.consumed + i = c + i
      BY <1>1, <1>2, <1>6, <1>8
    <3> QED
      BY <1>7, <3>1
  <2> QED
    BY <2>1
<1> QED
  BY <1>10, <1>11 DEF w

-----------------------------------------------------------------------------
(* A new buffer is empty. *)
LEMMA BufferInitInv == BufferInit => BufferInv
<1> SUFFICES ASSUME BufferInit PROVE BufferInv
  OBVIOUS
<1> USE BufferAssumption, BitsAssumption
<1>1. buf = [bytes |-> buf.bytes, size |-> InitialSize, used |-> 0, consumed |-> 0]
      /\ buf.bytes \in [0 .. (InitialSize - 1) -> Nat]
  BY DEF BufferInit, Garbage
<1>2. Width \in Nat /\ 0 < Width
  BY Pow2Def, Pow2Grows DEF Width
<1>3. Sound(buf)
  BY <1>1 DEF Sound
<1>4. BufferTypeOK
  <2>1. failed \in BOOLEAN
    BY Zenon DEF BufferInit
  <2>2. buf.used \in 0 .. buf.size /\ buf.consumed \in 0 .. (Width - 1)
    BY <1>1, <1>2
  <2>3. buf.size \in Nat /\ DOMAIN buf.bytes = 0 .. (buf.size - 1)
    BY <1>1
  <2> QED
    BY <1>1, <2>1, <2>2, <2>3 DEF BufferInit, BufferTypeOK
<1>5. InOrder
  BY <1>1 DEF BufferInit, InOrder, Unsent
<1> QED
  BY <1>1, <1>3, <1>4, <1>5 DEF BufferInit, BufferInv

(* A response that is written in full or in part. *)
LEMMA RespondInv == ASSUME BufferInv, NEW n \in BodyLengths, Respond(n) PROVE BufferInv'
<1> DEFINE w == WithResponse(n)
<1>1. PICK k \in 1 .. Unsent(w) :
          /\ ~failed /\ produced < MaxProduced /\ failed' = failed
          /\ produced' = produced + HeaderLength + n
          /\ buf' = AdjustBuffer(Consume(w, k)) /\ sent' = sent + k
  BY DEF Respond
<1>2. /\ Sound(w) /\ w.consumed = buf.consumed /\ w.consumed <= w.used
      /\ Unsent(w) = produced + HeaderLength + n - sent
      /\ w.used <= produced + HeaderLength + n /\ w.used < Width
      /\ \A i \in 0 .. (Unsent(w) - 1) : w.bytes[w.consumed + i] = sent + 1 + i
  BY <1>1, ResponseAppended
<1> HIDE DEF w
<1>3. w.used \in Nat /\ w.consumed \in Nat /\ Unsent(w) = w.used - w.consumed
  BY <1>2 DEF Sound, Unsent
<1>4. /\ produced \in Nat /\ sent \in Nat /\ HeaderLength \in Nat /\ n \in Nat
      /\ buf.consumed <= sent
  BY <1>1, BufferAssumption DEF BufferInv, BufferTypeOK
<1>5. k \in Nat /\ w.consumed + k <= w.used /\ w.consumed + k < Width
  <2>1. Width \in Nat
    BY Pow2Def, BufferAssumption, BitsAssumption DEF Width
  <2> QED
    BY <1>2, <1>3, <2>1
<1> DEFINE v == Consume(w, k)
<1>6. /\ Sound(v) /\ v.used = w.used /\ v.bytes = w.bytes /\ v.consumed = w.consumed + k
  BY <1>2, <1>5, Consumes
<1>7. buf' = AdjustBuffer(v)
  BY <1>1
<1> HIDE DEF v
<1>8. Unsent(v) = Unsent(w) - k /\ Unsent(v) \in Nat /\ v.consumed <= v.used
  BY <1>3, <1>5, <1>6 DEF Unsent
<1>9. /\ Sound(buf)' /\ Unsent(buf)' = Unsent(v)
      /\ buf'.consumed <= buf'.used /\ buf'.consumed <= v.consumed
      /\ buf'.consumed <= MaxConsumeOffset
      /\ \A i \in 0 .. (Unsent(v) - 1) : buf'.bytes[buf'.consumed + i] = v.bytes[v.consumed + i]
  <2>1. LET r == AdjustBuffer(v) IN
        /\ Sound(r) /\ Unsent(r) = Unsent(v)
        /\ r.consumed <= r.used /\ r.consumed <= v.consumed
        /\ r.consumed <= MaxConsumeOffset
        /\ \A i \in 0 .. (Unsent(v) - 1) : r.bytes[r.consumed + i] = v.bytes[v.consumed + i]
    BY <1>6, <1>8, Adjusts
  <2>2. Sound(buf)' = Sound(buf') /\ Unsent(buf)' = Unsent(buf')
    BY DEF Sound, Unsent
  <2> QED
    BY <1>7, <2>1, <2>2
<1>10. ASSUME NEW i \in 0 .. (Unsent(v) - 1)
       PROVE  buf'.bytes[buf'.consumed + i] = sent' + 1 + i
  <2>1. i \in Nat /\ k + i \in 0 .. (Unsent(w) - 1)
    BY <1>3, <1>5, <1>8
  <2>2. w.bytes[w.consumed + (k + i)] = sent + 1 + (k + i)
    BY <1>2, <2>1
  <2>3. v.bytes[v.consumed + i] = w.bytes[w.consumed + (k + i)]
    BY <1>3, <1>5, <1>6, <2>1
  <2> QED
    BY <1>1, <1>4, <1>5, <1>9, <2>1, <2>2, <2>3
<1>11. InOrder'
  <2>1. Unsent(v) = produced' - sent'
    BY <1>1, <1>2, <1>4, <1>5, <1>8
  <2> QED
    BY <1>9, <1>10, <2>1 DEF InOrder
<1>12. buf'.size \in Nat /\ DOMAIN buf'.bytes = 0 .. (buf'.size - 1) /\ buf'.used \in 0 .. buf'.size
       /\ buf'.consumed \in Nat
  BY <1>9 DEF Sound
<1>13. produced' \in Nat /\ sent' \in Nat /\ buf'.consumed <= sent'
  BY <1>1, <1>2, <1>4, <1>5, <1>6, <1>9, <1>12, <1>3
<1>14. buf'.consumed \in 0 .. (Width - 1)
  <2>1. Width \in Nat
    BY Pow2Def, BufferAssumption, BitsAssumption DEF Width
  <2> QED
    BY <1>3, <1>5, <1>6, <1>9, <1>12, <2>1
<1>15. BufferTypeOK'
  <2>1. failed' \in BOOLEAN
    BY <1>1, Zenon DEF BufferInv, BufferTypeOK
  <2> QED
    BY <1>1, <1>9, <1>12, <1>13, <1>14, <2>1 DEF BufferTypeOK
<1> QED
  BY <1>9, <1>11, <1>13, <1>15 DEF BufferInv

(* A response whose write() fails: the accounts hold, the order is lost. *)
LEMMA RespondFailingInv ==
    ASSUME BufferInv, NEW n \in BodyLengths, RespondFailing(n) PROVE BufferInv'
<1> DEFINE w == WithResponse(n)
<1>1. /\ ~failed /\ produced < MaxProduced /\ failed' = TRUE
      /\ produced' = produced + HeaderLength + n
      /\ buf' = Consume(w, Width - 1) /\ sent' = sent
  BY DEF RespondFailing
<1>2. Sound(w)
  BY <1>1, ResponseAppended
<1>3. Width - 1 \in Nat
  BY Pow2Def, Pow2Grows, BufferAssumption, BitsAssumption DEF Width
<1> HIDE DEF w
<1>4. Sound(buf') /\ buf'.consumed \in 0 .. (Width - 1)
  BY <1>1, <1>2, <1>3, Consumes
<1>5. buf'.size \in Nat /\ DOMAIN buf'.bytes = 0 .. (buf'.size - 1) /\ buf'.used \in 0 .. buf'.size
  BY <1>4 DEF Sound
<1>6. produced' \in Nat /\ sent' \in Nat
  BY <1>1, BufferAssumption DEF BufferInv, BufferTypeOK
<1>7. BufferTypeOK'
  <2>1. failed' \in BOOLEAN
    BY <1>1, Zenon
  <2> QED
    BY <1>1, <1>4, <1>5, <1>6, <2>1 DEF BufferTypeOK
<1> QED
  BY <1>1, <1>4, <1>7 DEF BufferInv, InOrder, Sound

(* BufferInv is an invariant of the output buffer. *)
THEOREM BufferInvariance == BufferSpec => []BufferInv
<1>1. BufferInv /\ [BufferNext]_bufferVars => BufferInv'
  <2> SUFFICES ASSUME BufferInv, [BufferNext]_bufferVars PROVE BufferInv'
    OBVIOUS
  <2>1. CASE UNCHANGED bufferVars
    BY <2>1 DEF bufferVars, BufferInv, Sound, BufferTypeOK, InOrder, Unsent
  <2> QED
    BY <2>1, RespondInv, RespondFailingInv DEF BufferNext
<1> QED
  BY BufferInitInv, <1>1, PTL DEF BufferSpec

(* The accounts of output_buffer.h hold for every size and width: what is  *)
(* in use fits into buffer_ (get_empty_buffer always makes enough room),   *)
(* and no consumed prefix stays longer than MAX_CONSUME_OFFSET.            *)
THEOREM BufferTypeCorrect == BufferSpec => []BufferTypeOK
<1>1. BufferInv => BufferTypeOK
  BY DEF BufferInv
<1> QED
  BY BufferInvariance, <1>1, PTL

(* Until a write() fails, the peer gets every byte of every response once  *)
(* and in order, whatever part of the buffer each write() takes, and       *)
(* across the growth and the two ways of moving the contents.              *)
THEOREM BytesInOrder == BufferSpec => []InOrder
<1>1. BufferInv => InOrder
  BY DEF BufferInv
<1> QED
  BY BufferInvariance, <1>1, PTL

-----------------------------------------------------------------------------
(* The response queue and its notifier *)

USE QueueAssumption, EventFdAssumption DEF Writing

(* The constructors establish the invariant. *)
LEMMA InitIndInv == Init => IndInv
<1> SUFFICES ASSUME Init PROVE IndInv
  OBVIOUS
<1>1. TypeOK
  BY DEF Init, TypeOK
<1>2. QueueInv
  BY DEF Init, QueueInv
<1>3. OneNotification
  BY DEF Init, OneNotification
<1>4. NoBytesRace /\ NoLostWakeup
  BY DEF Init, NoBytesRace, NoLostWakeup
<1> QED
  BY <1>1, <1>2, <1>3, <1>4 DEF IndInv

(* A ticket is claimed. *)
LEMMA TakeInv == ASSUME IndInv, NEW w \in Workers, Take(w) PROVE IndInv'
<1> USE DEF IndInv, TypeOK, Take, ring, notifier
<1>1. TypeOK'
  BY DEF QueueInv
<1>2. QueueInv'
  BY DEF QueueInv
<1>3. OneNotification'
  BY DEF OneNotification, QueueInv
<1>4. NoBytesRace'
  BY DEF NoBytesRace, OneNotification, QueueInv
<1>5. NoLostWakeup'
  BY DEF NoLostWakeup, OneNotification, QueueInv
<1> QED
  BY <1>1, <1>2, <1>3, <1>4, <1>5

(* The publisher has still to notify. *)
LEMMA PublishInv == ASSUME IndInv, NEW w \in Workers, Publish(w) PROVE IndInv'
<1> USE DEF IndInv, TypeOK, Publish, ring, notifier
<1>1. TypeOK'
  <2>1. ticket[w] \in Nat
    BY DEF QueueInv
  <2> QED
    BY <2>1
<1>2. QueueInv'
  BY DEF QueueInv
<1>3. OneNotification'
  BY DEF OneNotification, QueueInv
<1>4. NoBytesRace'
  BY DEF NoBytesRace, OneNotification, QueueInv
<1>5. NoLostWakeup'
  BY DEF NoLostWakeup, OneNotification, QueueInv
<1> QED
  BY <1>1, <1>2, <1>3, <1>4, <1>5

(* Whoever finds the flag up relies on the notification under way. *)
LEMMA ExchangeInv == ASSUME IndInv, NEW w \in Workers, Exchange(w) PROVE IndInv'
<1> USE DEF IndInv, TypeOK, Exchange, ring, notifier
<1>1. TypeOK'
  BY DEF QueueInv
<1>2. QueueInv'
  BY DEF QueueInv
<1>3. OneNotification'
  BY DEF OneNotification, QueueInv
<1>4. NoBytesRace'
  BY DEF NoBytesRace, OneNotification, QueueInv
<1>5. NoLostWakeup'
  BY DEF NoLostWakeup, OneNotification, QueueInv
<1> QED
  BY <1>1, <1>2, <1>3, <1>4, <1>5

(* The counter takes over from the writer. *)
LEMMA WriteInv == ASSUME IndInv, NEW w \in Workers, Write(w) PROVE IndInv'
<1> USE DEF IndInv, TypeOK
<1>1. wpc[w] = "write" /\ flag = TRUE /\ counter = 0 /\ bytes = 1 /\ lpc \notin {"read", "unset"}
  <2>1. wpc[w] = "write" /\ bytes = 1
    BY DEF Write, NoBytesRace
  <2>2. flag /\ counter = 0 /\ lpc # "unset"
    BY <2>1 DEF OneNotification
  <2>3. lpc # "read"
    BY <2>1 DEF NoBytesRace
  <2> QED
    BY <2>1, <2>2, <2>3
<1>2. /\ counter' = 1 /\ flag' = flag /\ bytes' = bytes
      /\ wpc' = [wpc EXCEPT ![w] = "call"]
      /\ UNCHANGED <<in, out, ready, ticket, lpc>>
  <2>1. counter + bytes <= EventFdMax /\ counter + bytes = 1
    BY <1>1
  <2>2. counter' = counter + bytes /\ UNCHANGED flag
    BY <2>1, Zenon DEF Write
  <2> QED
    BY <2>1, <2>2 DEF Write, ring
<1> HIDE DEF Writing
<1>3. \A v \in Workers : Writing(v)' <=> (Writing(v) /\ v # w)
  BY <1>2 DEF Writing
<1>4. \A v \in Workers : ~Writing(v)'
  BY <1>1, <1>3 DEF OneNotification, Writing
<1>5. TypeOK' /\ QueueInv'
  BY <1>1, <1>2 DEF QueueInv
<1>6. OneNotification'
  BY <1>1, <1>2, <1>4 DEF OneNotification
<1>7. NoBytesRace' /\ NoLostWakeup'
  BY <1>1, <1>2, <1>4 DEF NoBytesRace, NoLostWakeup
<1> QED
  BY <1>5, <1>6, <1>7

(* The counter stays up until the loop reads it. *)
LEMMA WakeInv == ASSUME IndInv, Wake PROVE IndInv'
<1> USE DEF IndInv, TypeOK, Wake, ring, notifier
<1>1. TypeOK'
  BY DEF QueueInv
<1>2. QueueInv'
  BY DEF QueueInv, OneNotification
<1>3. OneNotification'
  BY DEF OneNotification, QueueInv
<1>4. NoBytesRace'
  BY DEF NoBytesRace, OneNotification, QueueInv
<1>5. NoLostWakeup'
  BY DEF NoLostWakeup, OneNotification, QueueInv
<1> QED
  BY <1>1, <1>2, <1>3, <1>4, <1>5

(* The only notification moves from the counter to the loop. *)
LEMMA ReadInv == ASSUME IndInv, Read PROVE IndInv'
<1> USE DEF IndInv, TypeOK, Read, ring, notifier
<1>1. TypeOK'
  BY DEF QueueInv
<1>2. QueueInv'
  BY DEF QueueInv
<1>3. OneNotification'
  BY DEF OneNotification, QueueInv
<1>4. NoBytesRace'
  BY DEF NoBytesRace, OneNotification, QueueInv
<1>5. NoLostWakeup'
  BY DEF NoLostWakeup, OneNotification, QueueInv
<1> QED
  BY <1>1, <1>2, <1>3, <1>4, <1>5

(* The loop drains after lowering the flag. *)
LEMMA UnsetInv == ASSUME IndInv, Unset PROVE IndInv'
<1> USE DEF IndInv, TypeOK, Unset, ring, notifier
<1>1. TypeOK'
  BY DEF QueueInv
<1>2. QueueInv'
  BY DEF QueueInv
<1>3. OneNotification'
  BY DEF OneNotification, QueueInv
<1>4. NoBytesRace'
  BY DEF NoBytesRace, OneNotification, QueueInv
<1>5. NoLostWakeup'
  BY DEF NoLostWakeup, OneNotification, QueueInv
<1> QED
  BY <1>1, <1>2, <1>3, <1>4, <1>5

(* One response less. *)
LEMMA GetInv == ASSUME IndInv, Get PROVE IndInv'
<1> USE DEF IndInv, TypeOK, Get, ring, notifier
<1>1. TypeOK'
  BY DEF QueueInv
<1>2. QueueInv'
  BY DEF QueueInv
<1>3. OneNotification'
  BY DEF OneNotification, QueueInv
<1>4. NoBytesRace'
  BY DEF NoBytesRace, OneNotification, QueueInv
<1>5. NoLostWakeup'
  BY DEF NoLostWakeup, OneNotification, QueueInv
<1> QED
  BY <1>1, <1>2, <1>3, <1>4, <1>5

(* The loop sleeps only on an empty ring. *)
LEMMA GetEmptyInv == ASSUME IndInv, GetEmpty PROVE IndInv'
<1> USE DEF IndInv, TypeOK, GetEmpty, ring, notifier
<1>1. TypeOK'
  BY DEF QueueInv
<1>2. QueueInv'
  BY DEF QueueInv
<1>3. OneNotification'
  BY DEF OneNotification, QueueInv
<1>4. NoBytesRace'
  BY DEF NoBytesRace, OneNotification, QueueInv
<1>5. NoLostWakeup'
  <2>1. ready = {}
    BY DEF QueueInv
  <2> QED
    BY <2>1 DEF NoLostWakeup
<1> QED
  BY <1>1, <1>2, <1>3, <1>4, <1>5

-----------------------------------------------------------------------------
(* The notified queue keeps its inductive invariant, for any number of     *)
(* workers and any ring size.                                              *)
THEOREM Invariance == Spec => []IndInv
<1>1. Init => IndInv
  BY InitIndInv
<1>2. IndInv /\ [Next]_vars => IndInv'
  <2> SUFFICES ASSUME IndInv, [Next]_vars PROVE IndInv'
    OBVIOUS
  <2>1. ASSUME NEW w \in Workers, Take(w) \/ WorkerStep(w) PROVE IndInv'
    BY <2>1, TakeInv, PublishInv, ExchangeInv, WriteInv DEF WorkerStep
  <2>2. ASSUME LoopStep PROVE IndInv'
    BY <2>2, WakeInv, ReadInv, UnsetInv, GetInv, GetEmptyInv DEF LoopStep
  <2>3. CASE UNCHANGED vars
    BY <2>3 DEF vars, IndInv, TypeOK, QueueInv, OneNotification, NoBytesRace, NoLostWakeup
  <2> QED
    BY <2>1, <2>2, <2>3 DEF Next
<1> QED
  BY <1>1, <1>2, PTL DEF Spec

(* An event loop never sleeps in epoll_wait while a published response has *)
(* no notification on its way (notifier.h with ResponseCb).                *)
THEOREM WakeupNeverLost == Spec => []NoLostWakeup
<1>1. IndInv => NoLostWakeup
  BY DEF IndInv
<1> QED
  BY <1>1, Invariance, PTL

(* The unsynchronised bytes_for_eventfd_notify is never read and written   *)
(* at once and keeps the value 1; at most one notification is under way.   *)
THEOREM NotifierRaceFree == Spec => [](NoBytesRace /\ OneNotification)
<1>1. IndInv => NoBytesRace /\ OneNotification
  BY DEF IndInv
<1> QED
  BY <1>1, Invariance, PTL
=============================================================================
