----------------------------- MODULE LoopProofs -----------------------------
(***************************************************************************)
(* The event loop with its timers, for every size of the tag, any number   *)
(* of timers and any arity of the heap.  Three parts: the timer heap of    *)
(* 4-minheap-internal.h, the loop over epoll (ev_loop.cpp, ev_epoll.cpp),  *)
(* and ev_loop.h's timers and activecnt on top of both.                    *)
(***************************************************************************)
EXTENDS Loop, FiniteSetTheorems, TLAPS

(* Natural numbers are well ordered: finite sets of numbers are well       *)
(* founded by inclusion, and 0 .. k is one for each k.                     *)
LEMMA Least ==
    ASSUME NEW T \in SUBSET Nat, T # {}
    PROVE  \E m \in T : \A k \in T : m <= k
<1> DEFINE U == {0 .. k : k \in T}
<1>1. IsWellFoundedOn(StrictSubsetOrdering(Nat), FiniteSubsetsOf(Nat))
  BY FS_StrictSubsetOrderingWellFounded
<1>2. \A k \in Nat : 0 .. k \in FiniteSubsetsOf(Nat)
  BY FS_Interval DEF FiniteSubsetsOf
<1>3. U \subseteq FiniteSubsetsOf(Nat) /\ U # {}
  BY <1>2
<1> HIDE DEF U
<1>4. PICK X \in U : \A Y \in U : <<Y, X>> \notin StrictSubsetOrdering(Nat)
  BY <1>1, <1>3, WFMin
<1>5. PICK m \in T : X = 0 .. m
  BY DEF U
<1>6. ASSUME NEW k \in T, k < m PROVE FALSE
  <2>1. 0 .. k \in U
    BY DEF U
  <2>2. /\ 0 .. k \subseteq 0 .. m /\ 0 .. k # 0 .. m
        /\ 0 .. k \in SUBSET Nat /\ 0 .. m \in SUBSET Nat
    BY <1>6
  <2>3. <<0 .. k, 0 .. m>> \in StrictSubsetOrdering(Nat)
    BY <2>2 DEF StrictSubsetOrdering
  <2> QED
    BY <1>4, <1>5, <2>1, <2>3
<1> QED
  BY <1>6


(* g is the first n turns of iterating F from x. *)
Iterates(g, n, x, F, S) ==
    /\ g \in [0 .. n -> S]
    /\ \A i \in 0 .. n : g[i] = IF i = 0 THEN x ELSE F[g[i - 1]]

(* A function can be iterated any number of times. *)
LEMMA IteratesExist ==
    ASSUME NEW S, NEW x \in S, NEW F \in [S -> S]
    PROVE  \A n \in Nat : \E g : Iterates(g, n, x, F, S)
<1> DEFINE T == {n \in Nat : ~\E g : Iterates(g, n, x, F, S)}
<1> SUFFICES ASSUME T # {} PROVE FALSE
  OBVIOUS
<1>1. PICK m \in T : \A k \in T : m <= k
  <2> T \in SUBSET Nat
    OBVIOUS
  <2> HIDE DEF T
  <2> QED
    BY Least
<1>2. m # 0
  <2>1. Iterates([i \in 0 .. 0 |-> x], 0, x, F, S)
    BY DEF Iterates
  <2> QED
    BY <2>1
<1>3. m \in Nat /\ m - 1 \in Nat /\ m - 1 \notin T
  BY <1>1, <1>2
<1>4. PICK g : Iterates(g, m - 1, x, F, S)
  BY <1>3
<1> DEFINE h == [i \in 0 .. m |-> IF i = m THEN F[g[m - 1]] ELSE g[i]]
<1>5. m - 1 \in 0 .. (m - 1)
  BY <1>3
<1>6. \A i \in 0 .. m : i # m => i \in 0 .. (m - 1)
  BY <1>3
<1>7. h \in [0 .. m -> S]
  BY <1>4, <1>5, <1>6 DEF Iterates
<1>8. ASSUME NEW i \in 0 .. m PROVE h[i] = IF i = 0 THEN x ELSE F[h[i - 1]]
  <2>1. CASE i = m
    BY <1>2, <1>3, <1>5, <2>1
  <2>2. CASE i # m
    <3>1. i \in 0 .. (m - 1) /\ h[i] = g[i]
      BY <1>6, <2>2
    <3>2. CASE i = 0
      BY <1>4, <3>1, <3>2 DEF Iterates
    <3>3. CASE i # 0
      <4>1. i - 1 \in 0 .. m /\ i - 1 # m
        BY <1>3, <3>1, <3>3
      <4>2. h[i - 1] = g[i - 1]
        BY <4>1
      <4> QED
        BY <1>4, <3>1, <3>3, <4>2 DEF Iterates
    <3> QED
      BY <3>2, <3>3
  <2> QED
    BY <2>1, <2>2
<1>9. Iterates(h, m, x, F, S)
  <2> HIDE DEF h
  <2> QED
    BY <1>7, <1>8 DEF Iterates
<1> QED
  BY <1>9

(* Two iterations agree as far as both go. *)
LEMMA IteratesUnique ==
    ASSUME NEW S, NEW x \in S, NEW F \in [S -> S], NEW m \in Nat, NEW n \in Nat,
           NEW g, Iterates(g, m, x, F, S), NEW h, Iterates(h, n, x, F, S)
    PROVE  \A i \in Nat : i <= m /\ i <= n => g[i] = h[i]
<1> DEFINE T == {i \in Nat : i <= m /\ i <= n /\ g[i] # h[i]}
<1> SUFFICES ASSUME T # {} PROVE FALSE
  OBVIOUS
<1>1. PICK l \in T : \A k \in T : l <= k
  <2> T \in SUBSET Nat
    OBVIOUS
  <2> HIDE DEF T
  <2> QED
    BY Least
<1>2. l \in 0 .. m /\ l \in 0 .. n
  OBVIOUS
<1>3. l # 0
  BY <1>2 DEF Iterates
<1>4. l - 1 \in Nat /\ l - 1 \notin T /\ l - 1 <= m /\ l - 1 <= n
  BY <1>1, <1>3
<1>5. g[l - 1] = h[l - 1]
  BY <1>4
<1> QED
  BY <1>2, <1>3, <1>5 DEF Iterates

(* The iterations from x, without end. *)
Iterated(f, x, F, S) ==
    f \in [Nat -> S] /\ \A n \in Nat : f[n] = IF n = 0 THEN x ELSE F[f[n - 1]]

(* There is one function from the number of turns to the state after them. *)
LEMMA Iteration ==
    ASSUME NEW S, NEW x \in S, NEW F \in [S -> S]
    PROVE  \E f : Iterated(f, x, F, S)
<1> DEFINE G(n) == CHOOSE g : Iterates(g, n, x, F, S)
           f == [n \in Nat |-> G(n)[n]]
<1>1. \A n \in Nat : Iterates(G(n), n, x, F, S)
  BY IteratesExist
<1> HIDE DEF G
<1>2. ASSUME NEW n \in Nat
      PROVE  f[n] \in S /\ f[n] = IF n = 0 THEN x ELSE F[f[n - 1]]
  <2>1. n \in 0 .. n /\ f[n] = G(n)[n]
    OBVIOUS
  <2>2. CASE n = 0
    BY <1>1, <2>1, <2>2 DEF Iterates
  <2>3. CASE n # 0
    <3>1. n - 1 \in Nat /\ n - 1 <= n /\ n - 1 <= n - 1
      BY <2>3
    <3>2. f[n - 1] = G(n - 1)[n - 1]
      BY <3>1
    <3>3. G(n)[n - 1] = G(n - 1)[n - 1]
      BY <1>1, <3>1, IteratesUnique
    <3> QED
      BY <1>1, <2>1, <2>3, <3>2, <3>3 DEF Iterates
  <2> QED
    BY <2>2, <2>3
<1>3. f \in [Nat -> S]
  BY <1>2
<1>4. \A n \in Nat : f[n] = IF n = 0 THEN x ELSE F[f[n - 1]]
  BY <1>2
<1> HIDE DEF f
<1> QED
  BY <1>3, <1>4 DEF Iterated


(* The program has a number of timers. *)
LEMMA CardTimers == Cardinality(Timers) \in Nat
  BY HeapAssumption, FS_CardinalityType

(* The parent of a slot other than the first is a slot before it. *)
LEMMA ParentBefore ==
    ASSUME NEW p \in Nat, p # 0
    PROVE  Parent(p) \in Nat /\ Parent(p) < p
<1> DEFINE a == p - 1
           d == DHEAD
           q == a \div d
<1>1. a \in Nat /\ d \in Nat \ {0} /\ q \in Int
  BY HeapAssumption
<1>2. a = d * q + (a % d) /\ a % d \in 0 .. (d - 1)
  BY <1>1
<1> HIDE DEF a, d, q
<1>3. q >= 0
  BY <1>1, <1>2
<1>4. q <= a
  BY <1>1, <1>2, <1>3
<1> QED
  BY <1>1, <1>3, <1>4 DEF Parent, a, d, q

(* The children of a slot are slots behind it, within the heap. *)
LEMMA ChildrenBehind ==
    ASSUME NEW h, h.size \in Nat, NEW p \in Nat, NEW c \in Children(h, p)
    PROVE  c \in Nat /\ p < c /\ c < h.size
<1> DEFINE d == DHEAD
<1>1. d \in Nat \ {0}
  BY HeapAssumption
<1>2. d * p >= p /\ d * p \in Nat
  <2> HIDE DEF d
  <2> QED
    BY <1>1
<1> QED
  BY <1>1, <1>2 DEF Children

(* Of several children the code finds one with the least cached time. *)
LEMMA LeastChildIs ==
    ASSUME NEW h \in Heaps, NEW p \in Slots, Children(h, p) # {}
    PROVE  LeastChild(h, p) \in Children(h, p)
<1> DEFINE C == Children(h, p)
           at(c) == h.slot[c].cache_at
           Before(d, c) == at(d) < at(c) \/ (at(d) = at(c) /\ d < c)
           Below(c) == {d \in C : Before(d, c)}
           U == {Below(c) : c \in C}
<1>1. h.size \in 0 .. Cardinality(Timers) /\ Cardinality(Timers) \in Nat /\ p \in Nat
  BY CardTimers DEF Heaps, Slots
<1>2. C \subseteq Slots
  BY <1>1, ChildrenBehind DEF Slots
<1>3. \A c \in C : c \in Nat /\ at(c) \in Int
  BY <1>1, <1>2 DEF Heaps, Slots, Entries
<1>4. IsFiniteSet(C)
  <2>1. IsFiniteSet(Slots)
    BY <1>1, FS_Interval DEF Slots
  <2> HIDE DEF C
  <2> QED
    BY <1>2, <2>1, FS_Subset
<1> HIDE DEF C
<1>5. U \subseteq FiniteSubsetsOf(C) /\ U # {}
  <2>1. \A c \in C : Below(c) \in SUBSET C /\ IsFiniteSet(Below(c))
    BY <1>4, FS_Subset
  <2> HIDE DEF Below
  <2> QED
    BY <2>1 DEF FiniteSubsetsOf, C
<1> HIDE DEF U
<1>6. PICK X \in U : \A Y \in U : <<Y, X>> \notin StrictSubsetOrdering(C)
  BY <1>5, FS_StrictSubsetOrderingWellFounded, WFMin
<1>7. PICK c \in C : X = Below(c)
  BY DEF U
<1>8. ASSUME NEW d \in C, Before(d, c) PROVE FALSE
  <2>1. d \in Below(c) /\ d \notin Below(d)
    BY <1>3, <1>8
  <2>2. Below(d) \subseteq Below(c)
    BY <1>3, <1>8
  <2>3. Below(d) \in SUBSET C /\ Below(c) \in SUBSET C /\ Below(d) \in U
    BY DEF U
  <2> HIDE DEF Below
  <2> QED
    BY <1>6, <1>7, <2>1, <2>2, <2>3 DEF StrictSubsetOrdering
<1>9. \A d \in C : at(c) < at(d) \/ (at(c) = at(d) /\ c <= d)
  BY <1>3, <1>8
<1> QED
  BY <1>9 DEF LeastChild, C

(* The turns of shift_up's loop: where every turn keeps to S, all of them  *)
(* do.                                                                     *)
LEMMA LiftingIs ==
    ASSUME NEW S, NEW h, NEW p, [heap |-> h, pos |-> p] \in S,
           \A s \in S : Lift(s, h.slot[p]) \in S
    PROVE  /\ Lifting(h, p) \in [Nat -> S]
           /\ \A n \in Nat : Lifting(h, p)[n] =
                 IF n = 0 THEN [heap |-> h, pos |-> p] ELSE Lift(Lifting(h, p)[n - 1], h.slot[p])
<1> DEFINE x == [heap |-> h, pos |-> p]
           b == h.slot[p]
           F == [s \in S |-> Lift(s, b)]
<1>1. F \in [S -> S]
  OBVIOUS
<1>a. x \in S
  OBVIOUS
<1>b. PICK f : Iterated(f, x, F, S)
  <2> HIDE DEF x, F
  <2> QED
    BY <1>1, <1>a, Iteration
<1>2. f \in [Nat -> S] /\ \A n \in Nat : f[n] = IF n = 0 THEN x ELSE F[f[n - 1]]
  <2> HIDE DEF x, F
  <2> QED
    BY <1>b DEF Iterated
<1>3. \A n \in Nat : f[n] = IF n = 0 THEN x ELSE Lift(f[n - 1], b)
  <2> SUFFICES ASSUME NEW n \in Nat, n # 0 PROVE F[f[n - 1]] = Lift(f[n - 1], b)
    BY <1>2
  <2>1. n - 1 \in Nat
    OBVIOUS
  <2> QED
    BY <1>2, <2>1
<1> HIDE DEF F
<1>4. f = [n \in Nat |-> IF n = 0 THEN x ELSE Lift(f[n - 1], b)]
  BY <1>2, <1>3
<1>5. \E t : t = [n \in Nat |-> IF n = 0 THEN x ELSE Lift(t[n - 1], b)]
  BY <1>4, Zenon
<1>6. Lifting(h, p) = [n \in Nat |-> IF n = 0 THEN x ELSE Lift(Lifting(h, p)[n - 1], b)]
  BY <1>5, Zenon DEF Lifting
<1> DEFINE t == Lifting(h, p)
           T == {n \in Nat : t[n] \notin S}
<1>7. \A n \in Nat : t[n] = IF n = 0 THEN x ELSE Lift(t[n - 1], b)
  BY <1>6
<1> HIDE DEF t
<1>8. T = {}
  <2> SUFFICES ASSUME T # {} PROVE FALSE
    OBVIOUS
  <2>1. PICK l \in T : \A k \in T : l <= k
    <3> T \in SUBSET Nat
      OBVIOUS
    <3> HIDE DEF T
    <3> QED
      BY Least
  <2>2. l # 0
    BY <1>7
  <2>3. l - 1 \in Nat /\ l - 1 \notin T
    BY <2>1, <2>2
  <2> QED
    BY <1>7, <2>2, <2>3
<1>9. t = [n \in Nat |-> IF n = 0 THEN x ELSE Lift(t[n - 1], b)]
  BY <1>6 DEF t
<1>10. t \in [Nat -> S]
  BY <1>8, <1>9
<1> QED
  BY <1>7, <1>10 DEF t

(* The turns of shift_down's loop, likewise. *)
LEMMA SinkingIs ==
    ASSUME NEW S, NEW h, NEW p, [heap |-> h, pos |-> p] \in S,
           \A s \in S : Sink(s, h.slot[p]) \in S
    PROVE  /\ Sinking(h, p) \in [Nat -> S]
           /\ \A n \in Nat : Sinking(h, p)[n] =
                 IF n = 0 THEN [heap |-> h, pos |-> p] ELSE Sink(Sinking(h, p)[n - 1], h.slot[p])
<1> DEFINE x == [heap |-> h, pos |-> p]
           b == h.slot[p]
           F == [s \in S |-> Sink(s, b)]
<1>1. F \in [S -> S]
  OBVIOUS
<1>a. x \in S
  OBVIOUS
<1>b. PICK f : Iterated(f, x, F, S)
  <2> HIDE DEF x, F
  <2> QED
    BY <1>1, <1>a, Iteration
<1>2. f \in [Nat -> S] /\ \A n \in Nat : f[n] = IF n = 0 THEN x ELSE F[f[n - 1]]
  <2> HIDE DEF x, F
  <2> QED
    BY <1>b DEF Iterated
<1>3. \A n \in Nat : f[n] = IF n = 0 THEN x ELSE Sink(f[n - 1], b)
  <2> SUFFICES ASSUME NEW n \in Nat, n # 0 PROVE F[f[n - 1]] = Sink(f[n - 1], b)
    BY <1>2
  <2>1. n - 1 \in Nat
    OBVIOUS
  <2> QED
    BY <1>2, <2>1
<1> HIDE DEF F
<1>4. f = [n \in Nat |-> IF n = 0 THEN x ELSE Sink(f[n - 1], b)]
  BY <1>2, <1>3
<1>5. \E t : t = [n \in Nat |-> IF n = 0 THEN x ELSE Sink(t[n - 1], b)]
  BY <1>4, Zenon
<1>6. Sinking(h, p) = [n \in Nat |-> IF n = 0 THEN x ELSE Sink(Sinking(h, p)[n - 1], b)]
  BY <1>5, Zenon DEF Sinking
<1> DEFINE t == Sinking(h, p)
           T == {n \in Nat : t[n] \notin S}
<1>7. \A n \in Nat : t[n] = IF n = 0 THEN x ELSE Sink(t[n - 1], b)
  BY <1>6
<1> HIDE DEF t
<1>8. T = {}
  <2> SUFFICES ASSUME T # {} PROVE FALSE
    OBVIOUS
  <2>1. PICK l \in T : \A k \in T : l <= k
    <3> T \in SUBSET Nat
      OBVIOUS
    <3> HIDE DEF T
    <3> QED
      BY Least
  <2>2. l # 0
    BY <1>7
  <2>3. l - 1 \in Nat /\ l - 1 \notin T
    BY <2>1, <2>2
  <2> QED
    BY <1>7, <2>2, <2>3
<1>9. t = [n \in Nat |-> IF n = 0 THEN x ELSE Sink(t[n - 1], b)]
  BY <1>6 DEF t
<1>10. t \in [Nat -> S]
  BY <1>8, <1>9
<1> QED
  BY <1>7, <1>10 DEF t

(* What writing a slot changes. *)
LEMMA PlaceIs ==
    ASSUME NEW h \in Heaps, NEW p \in Slots, NEW e \in Entries
    PROVE  /\ Place(h, p, e) \in Heaps
           /\ Place(h, p, e).slot = [h.slot EXCEPT ![p] = e]
           /\ Place(h, p, e).size = h.size
           /\ Place(h, p, e).at = h.at /\ Place(h, p, e).repeat = h.repeat
           /\ e.wt = nullptr => Place(h, p, e).crashed
           /\ e.wt # nullptr => /\ Place(h, p, e).crashed = h.crashed
                                /\ Place(h, p, e).active = [h.active EXCEPT ![e.wt] = p + 1]
<1>1. p + 1 \in 0 .. Cardinality(Timers)
  BY CardTimers DEF Slots
<1>2. e.wt \in Timers \cup {nullptr}
  BY DEF Entries
<1>3. CASE e.wt = nullptr
  BY <1>3 DEF Place, Heaps
<1>4. CASE e.wt # nullptr
  BY <1>1, <1>2, <1>4 DEF Place, Heaps
<1> QED
  BY <1>3, <1>4

(* The states of the loops, of whatever is in the slots. *)
Shifts == [heap : Heaps, pos : Slots]

(* A turn of shift_up stays within the slots. *)
LEMMA LiftShifts ==
    ASSUME NEW s \in Shifts, NEW bak PROVE Lift(s, bak) \in Shifts
<1>1. s.heap \in Heaps /\ s.pos \in Slots /\ s.pos \in Nat
  BY DEF Shifts, Slots
<1>2. CASE s.pos = 0 \/ s.heap.slot[Parent(s.pos)].cache_at < bak.cache_at
  BY <1>2 DEF Lift
<1>3. CASE ~(s.pos = 0 \/ s.heap.slot[Parent(s.pos)].cache_at < bak.cache_at)
  <2>1. Parent(s.pos) \in Slots
    BY <1>1, <1>3, ParentBefore, CardTimers DEF Slots
  <2>2. s.heap.slot[Parent(s.pos)] \in Entries
    BY <1>1, <2>1 DEF Heaps
  <2>3. Place(s.heap, s.pos, s.heap.slot[Parent(s.pos)]) \in Heaps
    BY <1>1, <2>2, PlaceIs
  <2> QED
    BY <1>3, <2>1, <2>3 DEF Lift, Shifts
<1> QED
  BY <1>2, <1>3

(* So does a turn of shift_down. *)
LEMMA SinkShifts ==
    ASSUME NEW s \in Shifts, NEW bak PROVE Sink(s, bak) \in Shifts
<1> DEFINE c == LeastChild(s.heap, s.pos)
<1>1. s.heap \in Heaps /\ s.pos \in Slots /\ s.pos \in Nat
  BY DEF Shifts, Slots
<1>2. CASE Children(s.heap, s.pos) = {} \/ bak.cache_at < s.heap.slot[c].cache_at
  BY <1>2 DEF Sink
<1>3. CASE ~(Children(s.heap, s.pos) = {} \/ bak.cache_at < s.heap.slot[c].cache_at)
  <2>0. s.heap.size \in 0 .. Cardinality(Timers)
    BY <1>1 DEF Heaps
  <2>1. c \in Slots
    BY <1>1, <1>3, <2>0, LeastChildIs, ChildrenBehind, CardTimers DEF Slots
  <2>2. s.heap.slot[c] \in Entries
    BY <1>1, <2>1 DEF Heaps
  <2>3. Place(s.heap, s.pos, s.heap.slot[c]) \in Heaps
    BY <1>1, <2>2, PlaceIs
  <2> QED
    BY <1>3, <2>1, <2>3 DEF Sink, Shifts
<1> QED
  BY <1>2, <1>3

(* A slot without a timer is written through, wherever it goes. *)
LEMMA NullCrashes ==
    ASSUME NEW h \in Heaps, NEW p \in Slots, h.slot[p].wt = nullptr
    PROVE  adjust(h, p) \in Heaps /\ adjust(h, p).crashed
<1>1. h.slot[p] \in Entries /\ [heap |-> h, pos |-> p] \in Shifts
  BY DEF Heaps, Shifts
<1>2. \A s \in Shifts : s.heap \in Heaps /\ s.pos \in Slots
  BY DEF Shifts
<1>3. shift_up(h, p) \in Heaps /\ shift_up(h, p).crashed
  <2>1. Lifting(h, p) \in [Nat -> Shifts]
    BY <1>1, LiftShifts, LiftingIs
  <2> QED
    BY <1>1, <1>2, <2>1, CardTimers, PlaceIs DEF shift_up
<1>4. shift_down(h, p) \in Heaps /\ shift_down(h, p).crashed
  <2>1. Sinking(h, p) \in [Nat -> Shifts]
    BY <1>1, SinkShifts, SinkingIs
  <2> QED
    BY <1>1, <1>2, <2>1, CardTimers, PlaceIs DEF shift_down
<1> QED
  BY <1>3, <1>4 DEF adjust

-----------------------------------------------------------------------------
(* While the loops run, slot p of the first n is free for timer b; the     *)
(* others hold timers that know where they are, those of X with the right  *)
(* cached time.                                                            *)
Vacant(h, p, b, n, X) ==
    /\ \A i \in 0 .. (n - 1) : i # p =>
          /\ h.slot[i].wt \in Timers \ {b} /\ h.active[h.slot[i].wt] = i + 1
          /\ h.slot[i].wt \in X => h.slot[i].cache_at = h.at[h.slot[i].wt]
    /\ \A t \in Timers \ {b} : h.active[t] # 0 =>
          h.active[t] \in 1 .. n /\ h.active[t] # p + 1 /\ h.slot[h.active[t] - 1].wt = t

(* Nothing else of heap h changes, and no other timer comes or goes. *)
Keeps(g, h, b) ==
    /\ g \in Heaps /\ g.size = h.size /\ g.at = h.at /\ g.repeat = h.repeat
    /\ g.crashed = h.crashed
    /\ \A t \in Timers \ {b} : g.active[t] # 0 <=> h.active[t] # 0

(* The states the loops pass through, from heap h. *)
Travels(h, b, n, X) ==
    {s \in [heap : Heaps, pos : 0 .. (n - 1)] :
        Keeps(s.heap, h, b) /\ Vacant(s.heap, s.pos, b, n, X)}

(* A turn moves the timer of slot q into the free slot, which q becomes. *)
LEMMA Move ==
    ASSUME NEW g \in Heaps, NEW b, NEW n \in 1 .. Cardinality(Timers), NEW X,
           NEW p \in 0 .. (n - 1), NEW q \in 0 .. (n - 1), p # q, Vacant(g, p, b, n, X)
    PROVE  /\ Vacant(Place(g, p, g.slot[q]), q, b, n, X)
           /\ Keeps(Place(g, p, g.slot[q]), g, b)
<1> DEFINE e == g.slot[q]
           u == e.wt
           r == Place(g, p, e)
<1>0. Cardinality(Timers) \in Nat /\ 0 .. (n - 1) \subseteq Slots /\ nullptr \notin Timers
  BY CardTimers, HeapAssumption DEF Slots
<1>1. e \in Entries /\ u \in Timers \ {b} /\ g.active[u] = q + 1
  BY <1>0 DEF Heaps, Vacant
<1>a. u # nullptr
  BY <1>0, <1>1
<1>2. /\ r \in Heaps /\ r.slot = [g.slot EXCEPT ![p] = e] /\ r.size = g.size
      /\ r.at = g.at /\ r.repeat = g.repeat /\ r.crashed = g.crashed
      /\ r.active = [g.active EXCEPT ![u] = p + 1]
  <2>1. p \in Slots /\ g \in Heaps /\ e \in Entries /\ e.wt # nullptr
    BY <1>0, <1>1, <1>a
  <2> HIDE DEF e
  <2> QED
    BY <2>1, PlaceIs
<1>3. /\ g.slot \in [Slots -> Entries] /\ g.active \in [Timers -> 0 .. Cardinality(Timers)]
  BY DEF Heaps
<1>4. /\ \A i \in 0 .. (n - 1) : r.slot[i] = IF i = p THEN e ELSE g.slot[i]
      /\ \A t \in Timers : r.active[t] = IF t = u THEN p + 1 ELSE g.active[t]
      /\ \A t \in Timers : g.active[t] \in Nat
      /\ p \in Nat /\ q \in Nat /\ n \in Nat
  BY <1>0, <1>2, <1>3
<1> HIDE DEF r, u
<1>5. ASSUME NEW i \in 0 .. (n - 1), i # q
      PROVE  /\ r.slot[i].wt \in Timers \ {b} /\ r.active[r.slot[i].wt] = i + 1
             /\ r.slot[i].wt \in X => r.slot[i].cache_at = r.at[r.slot[i].wt]
  <2>1. CASE i = p
    <3>1. r.slot[i] = e /\ e.wt = u
      BY <1>4, <2>1 DEF u
    <3>2. u \in X => e.cache_at = g.at[u]
      BY DEF Vacant, u
    <3> QED
      BY <1>1, <1>2, <1>4, <2>1, <3>1, <3>2
  <2>2. CASE i # p
    <3>1. r.slot[i] = g.slot[i]
      BY <1>4, <2>2
    <3>2. g.slot[i].wt \in Timers \ {b} /\ g.active[g.slot[i].wt] = i + 1
      BY <2>2 DEF Vacant
    <3>3. g.slot[i].wt # u
      BY <1>1, <1>4, <1>5, <3>2
    <3> QED
      BY <1>2, <1>4, <2>2, <3>1, <3>2, <3>3 DEF Vacant
  <2> QED
    BY <2>1, <2>2
<1>6. ASSUME NEW t \in Timers \ {b}, r.active[t] # 0
      PROVE  r.active[t] \in 1 .. n /\ r.active[t] # q + 1 /\ r.slot[r.active[t] - 1].wt = t
  <2>1. CASE t = u
    <3>1. r.active[t] = p + 1 /\ p + 1 \in 1 .. n /\ p + 1 # q + 1 /\ (p + 1) - 1 = p
      BY <1>4, <2>1
    <3>2. r.slot[p].wt = t
      BY <1>4, <2>1 DEF u
    <3> QED
      BY <3>1, <3>2
  <2>2. CASE t # u
    <3>1. r.active[t] = g.active[t]
      BY <1>4, <2>2
    <3>2. g.active[t] \in 1 .. n /\ g.active[t] # p + 1 /\ g.slot[g.active[t] - 1].wt = t
      BY <1>6, <3>1 DEF Vacant
    <3>3. g.active[t] # q + 1
      BY <1>4, <2>2, <3>2 DEF u
    <3>4. g.active[t] - 1 \in 0 .. (n - 1) /\ g.active[t] - 1 # p
      BY <1>4, <3>2
    <3> QED
      BY <1>4, <3>1, <3>2, <3>3, <3>4
  <2> QED
    BY <2>1, <2>2
<1>7. \A t \in Timers \ {b} : r.active[t] # 0 <=> g.active[t] # 0
  BY <1>1, <1>4
<1>8. Vacant(r, q, b, n, X) /\ Keeps(r, g, b)
  BY <1>2, <1>5, <1>6, <1>7 DEF Vacant, Keeps
<1> QED
  BY <1>8 DEF r

(* bak is placed in the free slot: heap and timers agree again. *)
Settled(r, h, bak, n, X) ==
    /\ r \in Heaps /\ r.size = h.size /\ r.at = h.at /\ r.repeat = h.repeat
    /\ r.crashed = h.crashed /\ Agree(r, n)
    /\ Live(r) = Live(h) \cup {bak.wt}
    /\ r.slot[r.active[bak.wt] - 1] = bak
    /\ \A i \in 0 .. (n - 1) : r.slot[i].wt \in X \ {bak.wt} =>
          r.slot[i].cache_at = r.at[r.slot[i].wt]

(* Wherever the loop ended, storing what it carried settles the heap. *)
LEMMA Settle ==
    ASSUME NEW h \in Heaps, NEW bak \in Entries, bak.wt \in Timers,
           NEW n \in 1 .. Cardinality(Timers), NEW X,
           NEW s \in Travels(h, bak.wt, n, X)
    PROVE  Settled(Place(s.heap, s.pos, bak), h, bak, n, X)
<1> DEFINE b == bak.wt
<1>0. /\ Cardinality(Timers) \in Nat /\ 0 .. (n - 1) \subseteq Slots /\ nullptr \notin Timers
      /\ n \in Nat
  BY CardTimers, HeapAssumption DEF Slots
<1>1. PICK g, p : g = s.heap /\ p = s.pos
  OBVIOUS
<1>2. g \in Heaps /\ p \in 0 .. (n - 1) /\ p \in Slots /\ p \in Nat
  BY <1>0, <1>1 DEF Travels
<1>3. Keeps(g, h, b) /\ Vacant(g, p, b, n, X)
  BY <1>1 DEF Travels
<1>4. PICK r : r = Place(g, p, bak)
  OBVIOUS
<1>5. /\ r \in Heaps /\ r.slot = [g.slot EXCEPT ![p] = bak] /\ r.size = g.size
      /\ r.at = g.at /\ r.repeat = g.repeat /\ r.crashed = g.crashed
      /\ r.active = [g.active EXCEPT ![b] = p + 1]
  <2>1. bak.wt # nullptr
    BY <1>0
  <2> QED
    BY <1>2, <1>4, <2>1, PlaceIs
<1>6. g.slot \in [Slots -> Entries] /\ g.active \in [Timers -> 0 .. Cardinality(Timers)]
  BY <1>2 DEF Heaps
<1>7. /\ \A i \in 0 .. (n - 1) : r.slot[i] = IF i = p THEN bak ELSE g.slot[i]
      /\ \A t \in Timers : r.active[t] = IF t = b THEN p + 1 ELSE g.active[t]
      /\ \A t \in Timers : g.active[t] \in Nat
  BY <1>0, <1>2, <1>5, <1>6
<1> HIDE DEF b
<1>a. b = bak.wt /\ b \in Timers
  BY DEF b
<1>8. ASSUME NEW i \in 0 .. (n - 1)
      PROVE  /\ r.slot[i].wt \in Timers /\ r.active[r.slot[i].wt] = i + 1
             /\ r.slot[i].wt \in X \ {b} => r.slot[i].cache_at = r.at[r.slot[i].wt]
  <2>1. CASE i = p
    BY <1>7, <1>a, <2>1
  <2>2. CASE i # p
    <3>1. g.slot[i].wt \in Timers \ {b} /\ g.active[g.slot[i].wt] = i + 1
      BY <1>3, <2>2 DEF Vacant
    <3> QED
      BY <1>3, <1>5, <1>7, <2>2, <3>1 DEF Vacant
  <2> QED
    BY <2>1, <2>2
<1>9. ASSUME NEW t \in Timers, r.active[t] # 0
      PROVE  r.active[t] \in 1 .. n /\ r.slot[r.active[t] - 1].wt = t
  <2>1. CASE t = b
    BY <1>0, <1>2, <1>7, <1>a, <2>1
  <2>2. CASE t # b
    <3>1. r.active[t] = g.active[t]
      BY <1>7, <2>2
    <3>2. g.active[t] \in 1 .. n /\ g.active[t] # p + 1 /\ g.slot[g.active[t] - 1].wt = t
      BY <1>3, <1>9, <2>2, <3>1 DEF Vacant
    <3>3. g.active[t] - 1 \in 0 .. (n - 1) /\ g.active[t] - 1 # p
      BY <1>0, <1>2, <3>2
    <3> QED
      BY <1>7, <3>1, <3>2, <3>3
  <2> QED
    BY <2>1, <2>2
<1>10. Agree(r, n)
  BY <1>8, <1>9 DEF Agree
<1>11. Live(r) = Live(h) \cup {b}
  <2>1. \A t \in Timers : r.active[t] # 0 <=> t = b \/ h.active[t] # 0
    BY <1>2, <1>3, <1>7 DEF Keeps
  <2> QED
    BY <2>1, <1>a DEF Live
<1>12. r.slot[r.active[b] - 1] = bak
  BY <1>2, <1>7, <1>a
<1>13. /\ r.size = h.size /\ r.at = h.at /\ r.repeat = h.repeat /\ r.crashed = h.crashed
  BY <1>3, <1>5 DEF Keeps
<1>14. Settled(r, h, bak, n, X)
  BY <1>5, <1>8, <1>10, <1>11, <1>12, <1>13, <1>a DEF Settled
<1> QED
  BY <1>1, <1>4, <1>14

(* A turn of either loop keeps to Travels. *)
LEMMA MoveTravels ==
    ASSUME NEW h, NEW b, NEW n \in 1 .. Cardinality(Timers), NEW X,
           NEW s \in Travels(h, b, n, X), NEW q \in 0 .. (n - 1), q # s.pos
    PROVE  [heap |-> Place(s.heap, s.pos, s.heap.slot[q]), pos |-> q] \in Travels(h, b, n, X)
<1>1. /\ s.heap \in Heaps /\ s.pos \in 0 .. (n - 1)
      /\ Keeps(s.heap, h, b) /\ Vacant(s.heap, s.pos, b, n, X)
  BY DEF Travels
<1>2. PICK r : r = Place(s.heap, s.pos, s.heap.slot[q])
  OBVIOUS
<1>3. Vacant(r, q, b, n, X) /\ Keeps(r, s.heap, b)
  BY <1>1, <1>2, Move
<1>4. Keeps(r, h, b)
  BY <1>1, <1>3 DEF Keeps
<1>5. r \in Heaps
  BY <1>3 DEF Keeps
<1>6. [heap |-> r, pos |-> q] \in Travels(h, b, n, X)
  BY <1>3, <1>4, <1>5 DEF Travels
<1> QED
  BY <1>2, <1>6

(* A turn of shift_up moves the parent down. *)
LEMMA LiftTravels ==
    ASSUME NEW h, NEW b, NEW n \in 1 .. Cardinality(Timers), NEW X,
           NEW s \in Travels(h, b, n, X), NEW bak
    PROVE  Lift(s, bak) \in Travels(h, b, n, X)
<1>1. s.pos \in 0 .. (n - 1) /\ n \in Nat /\ s.pos \in Nat
  BY CardTimers DEF Travels
<1>2. CASE s.pos = 0 \/ s.heap.slot[Parent(s.pos)].cache_at < bak.cache_at
  BY <1>2 DEF Lift
<1>3. CASE ~(s.pos = 0 \/ s.heap.slot[Parent(s.pos)].cache_at < bak.cache_at)
  <2>1. Parent(s.pos) \in 0 .. (n - 1) /\ Parent(s.pos) # s.pos
    BY <1>1, <1>3, ParentBefore
  <2> QED
    BY <1>3, <2>1, MoveTravels DEF Lift
<1> QED
  BY <1>2, <1>3

(* A turn of shift_down moves the least child up, within the heap. *)
LEMMA SinkTravels ==
    ASSUME NEW h, NEW b, NEW n \in 1 .. Cardinality(Timers), h.size = n, NEW X,
           NEW s \in Travels(h, b, n, X), NEW bak
    PROVE  Sink(s, bak) \in Travels(h, b, n, X)
<1> DEFINE c == LeastChild(s.heap, s.pos)
<1>1. /\ s.pos \in 0 .. (n - 1) /\ n \in Nat /\ s.pos \in Nat /\ s.pos \in Slots
      /\ s.heap \in Heaps /\ s.heap.size = n
  BY CardTimers DEF Travels, Keeps, Slots
<1>2. CASE Children(s.heap, s.pos) = {} \/ bak.cache_at < s.heap.slot[c].cache_at
  BY <1>2 DEF Sink
<1>3. CASE ~(Children(s.heap, s.pos) = {} \/ bak.cache_at < s.heap.slot[c].cache_at)
  <2>1. c \in Children(s.heap, s.pos)
    BY <1>1, <1>3, LeastChildIs
  <2> HIDE DEF c
  <2>2. c \in 0 .. (n - 1) /\ c # s.pos
    BY <1>1, <2>1, ChildrenBehind
  <2> QED
    BY <1>3, <2>2, MoveTravels DEF Sink, c
<1> QED
  BY <1>2, <1>3

(* What the timer of slot p needs to be moved to where it belongs. *)
Shiftable(h, p, n, X) ==
    /\ h \in Heaps /\ n \in 1 .. Cardinality(Timers) /\ p \in 0 .. (n - 1)
    /\ h.slot[p].wt \in Timers /\ Vacant(h, p, h.slot[p].wt, n, X)

(* Before the first turn the slot of the timer itself is the free one. *)
LEMMA StartTravels ==
    ASSUME NEW h, NEW p, NEW n, NEW X, Shiftable(h, p, n, X)
    PROVE  /\ [heap |-> h, pos |-> p] \in Travels(h, h.slot[p].wt, n, X)
           /\ h.slot[p] \in Entries /\ n \in 1 .. Cardinality(Timers) /\ h \in Heaps
<1>1. h \in Heaps /\ n \in 1 .. Cardinality(Timers) /\ p \in 0 .. (n - 1) /\ p \in Slots
  BY CardTimers DEF Shiftable, Slots
<1>2. Keeps(h, h, h.slot[p].wt)
  BY <1>1 DEF Keeps
<1>3. h.slot[p] \in Entries
  BY <1>1 DEF Heaps
<1> QED
  BY <1>1, <1>2, <1>3 DEF Travels, Shiftable

(* shift_up leaves the timers of the heap where they say they are. *)
LEMMA ShiftUp ==
    ASSUME NEW h, NEW p, NEW n, NEW X, Shiftable(h, p, n, X)
    PROVE  Settled(shift_up(h, p), h, h.slot[p], n, X)
<1> DEFINE S == Travels(h, h.slot[p].wt, n, X)
<1>1. /\ [heap |-> h, pos |-> p] \in S /\ h.slot[p] \in Entries
      /\ n \in 1 .. Cardinality(Timers) /\ h \in Heaps
  BY StartTravels
<1>2. \A s \in S : Lift(s, h.slot[p]) \in S
  BY <1>1, LiftTravels
<1>3. Lifting(h, p) \in [Nat -> S]
  <2> HIDE DEF S
  <2> QED
    BY <1>1, <1>2, LiftingIs
<1>4. Lifting(h, p)[Cardinality(Timers)] \in S
  BY <1>3, CardTimers
<1>5. h.slot[p].wt \in Timers
  BY DEF Shiftable
<1> QED
  BY <1>1, <1>4, <1>5, Settle DEF shift_up

(* So does shift_down, within the heap. *)
LEMMA ShiftDown ==
    ASSUME NEW h, NEW p, NEW n, NEW X, Shiftable(h, p, n, X), h.size = n
    PROVE  Settled(shift_down(h, p), h, h.slot[p], n, X)
<1> DEFINE S == Travels(h, h.slot[p].wt, n, X)
<1>1. /\ [heap |-> h, pos |-> p] \in S /\ h.slot[p] \in Entries
      /\ n \in 1 .. Cardinality(Timers) /\ h \in Heaps
  BY StartTravels
<1>2. \A s \in S : Sink(s, h.slot[p]) \in S
  BY <1>1, SinkTravels
<1>3. Sinking(h, p) \in [Nat -> S]
  <2> HIDE DEF S
  <2> QED
    BY <1>1, <1>2, SinkingIs
<1>4. Sinking(h, p)[Cardinality(Timers)] \in S
  BY <1>3, CardTimers
<1>5. h.slot[p].wt \in Timers
  BY DEF Shiftable
<1> QED
  BY <1>1, <1>4, <1>5, Settle DEF shift_down

(* And adjust, which takes one or the other. *)
LEMMA Adjust ==
    ASSUME NEW h, NEW p, NEW n, NEW X, Shiftable(h, p, n, X), h.size = n
    PROVE  Settled(adjust(h, p), h, h.slot[p], n, X)
  BY ShiftUp, ShiftDown DEF adjust

(* What holds of the heap between two operations. *)
Good(h, X) ==
    /\ h \in Heaps /\ ~h.crashed /\ Agree(h, h.size)
    /\ h.size = Cardinality(Live(h)) /\ Cached(h, X)

(* The live timers are some of finitely many. *)
LEMMA LiveIs ==
    ASSUME NEW h
    PROVE  /\ IsFiniteSet(Live(h)) /\ Cardinality(Live(h)) \in Nat
           /\ Live(h) # Timers => Cardinality(Live(h)) < Cardinality(Timers)
<1>1. Live(h) \in SUBSET Timers
  BY DEF Live
<1> QED
  BY <1>1, HeapAssumption, FS_Subset, FS_CardinalityType

(* push adds the timer, whose own cached time is still to be set. *)
LEMMA PushSettles ==
    ASSUME NEW h, NEW X, Good(h, X), NEW t \in Timers, h.active[t] = 0
    PROVE  /\ push(h, t) \in Heaps /\ ~push(h, t).crashed
           /\ push(h, t).size = h.size + 1
           /\ push(h, t).at = h.at /\ push(h, t).repeat = h.repeat
           /\ Agree(push(h, t), h.size + 1)
           /\ Live(push(h, t)) = Live(h) \cup {t}
           /\ \A i \in 0 .. h.size : push(h, t).slot[i].wt \in X \ {t} =>
                 push(h, t).slot[i].cache_at = h.at[push(h, t).slot[i].wt]
<1>1. PICK n : n = h.size
  OBVIOUS
<1>2. /\ h \in Heaps /\ ~h.crashed /\ Agree(h, n) /\ Cached(h, X)
      /\ n \in Nat /\ n < Cardinality(Timers) /\ Cardinality(Timers) \in Nat
  <2>1. t \notin Live(h)
    BY DEF Live
  <2> QED
    BY <1>1, <2>1, LiveIs, CardTimers DEF Good
<1>3. PICK g : g = [h EXCEPT !.slot[n].wt = t]
  OBVIOUS
<1>4. /\ n \in Slots /\ n + 1 \in 1 .. Cardinality(Timers) /\ n \in 0 .. ((n + 1) - 1)
      /\ (n + 1) - 1 = n
  BY <1>2 DEF Slots
<1>6. h.slot \in [Slots -> Entries] /\ h.active \in [Timers -> 0 .. Cardinality(Timers)]
  BY <1>2 DEF Heaps
<1>a. PICK e : e = [h.slot[n] EXCEPT !.wt = t]
  OBVIOUS
<1>b. e \in Entries /\ e.wt = t
  <2>1. h.slot[n] \in Entries
    BY <1>4, <1>6
  <2> QED
    BY <1>a, <2>1 DEF Entries
<1>5. /\ g \in Heaps /\ g.size = n /\ g.at = h.at /\ g.repeat = h.repeat
      /\ g.active = h.active /\ g.crashed = h.crashed /\ g.slot = [h.slot EXCEPT ![n] = e]
  <2>1. g = [h EXCEPT !.slot = [h.slot EXCEPT ![n] = e]]
    BY <1>2, <1>3, <1>a DEF Heaps
  <2>2. [h.slot EXCEPT ![n] = e] \in [Slots -> Entries]
    BY <1>4, <1>6, <1>b
  <2> QED
    BY <1>1, <1>2, <2>1, <2>2 DEF Heaps
<1>7. g.slot[n].wt = t
  BY <1>4, <1>5, <1>6, <1>b
<1>8. \A i \in 0 .. (n - 1) : i \in Slots /\ g.slot[i] = h.slot[i]
  BY <1>2, <1>5, <1>6 DEF Slots
<1>9. ASSUME NEW i \in 0 .. ((n + 1) - 1), i # n
      PROVE  /\ g.slot[i].wt \in Timers \ {t} /\ g.active[g.slot[i].wt] = i + 1
             /\ g.slot[i].wt \in X => g.slot[i].cache_at = g.at[g.slot[i].wt]
  <2>1. i \in 0 .. (n - 1) /\ i \in Nat
    BY <1>2, <1>4, <1>9
  <2>2. h.slot[i].wt \in Timers /\ h.active[h.slot[i].wt] = i + 1
    BY <1>2, <2>1 DEF Agree
  <2>3. h.slot[i].wt # t
    BY <2>1, <2>2
  <2>4. h.slot[i].wt \in X => h.slot[i].cache_at = h.at[h.slot[i].wt]
    BY <1>1, <1>2, <2>1 DEF Cached
  <2> QED
    BY <1>5, <1>8, <2>1, <2>2, <2>3, <2>4
<1>10. ASSUME NEW u \in Timers \ {t}, g.active[u] # 0
       PROVE  g.active[u] \in 1 .. (n + 1) /\ g.active[u] # n + 1 /\ g.slot[g.active[u] - 1].wt = u
  <2>1. h.active[u] \in 1 .. n /\ h.slot[h.active[u] - 1].wt = u
    BY <1>2, <1>5, <1>10 DEF Agree
  <2>2. h.active[u] - 1 \in 0 .. (n - 1)
    BY <1>2, <2>1
  <2> QED
    BY <1>2, <1>5, <1>8, <2>1, <2>2
<1>11. Vacant(g, n, t, n + 1, X)
  BY <1>9, <1>10 DEF Vacant
<1>12. Shiftable(g, n, n + 1, X)
  BY <1>4, <1>5, <1>7, <1>11 DEF Shiftable
<1>13. PICK l : l = shift_up(g, n)
  OBVIOUS
<1>14. Settled(l, g, g.slot[n], n + 1, X)
  BY <1>12, <1>13, ShiftUp
<1>15. l \in Heaps /\ l.at = h.at /\ l.repeat = h.repeat /\ l.crashed = h.crashed
  BY <1>5, <1>14 DEF Settled
<1>16. PICK r : r = [l EXCEPT !.size = n + 1]
  OBVIOUS
<1>17. push(h, t) = r
  BY <1>1, <1>3, <1>13, <1>16 DEF push
<1>18. /\ r \in Heaps /\ r.size = n + 1 /\ r.at = l.at /\ r.repeat = l.repeat
       /\ r.active = l.active /\ r.crashed = l.crashed /\ r.slot = l.slot
  BY <1>4, <1>15, <1>16 DEF Heaps
<1>19. Agree(r, n + 1)
  BY <1>14, <1>18 DEF Settled, Agree
<1>20. Live(r) = Live(h) \cup {t}
  <2>1. Live(l) = Live(g) \cup {t}
    BY <1>7, <1>14 DEF Settled
  <2>2. Live(r) = Live(l) /\ Live(g) = Live(h)
    BY <1>5, <1>18 DEF Live
  <2> QED
    BY <2>1, <2>2
<1>21. \A i \in 0 .. n : r.slot[i].wt \in X \ {t} => r.slot[i].cache_at = h.at[r.slot[i].wt]
  BY <1>4, <1>7, <1>14, <1>15, <1>18 DEF Settled
<1> QED
  BY <1>1, <1>2, <1>15, <1>17, <1>18, <1>19, <1>20, <1>21

(* timer_watcher_start gives the timer its time, puts it into the heap and *)
(* caches the time in whatever slot it came to.                            *)
StartedAt(h, t, v) ==
    LET g == push([h EXCEPT !.at[t] = v, !.active[t] = 0], t)
    IN  HEAP_CACHE_AT(g, g.active[t] - 1)

(* It leaves the heap as it should be, with the timer in it. *)
LEMMA StartGood ==
    ASSUME NEW h, NEW X, Good(h, X), NEW t \in Timers, h.active[t] = 0, NEW v \in Int
    PROVE  Good(StartedAt(h, t, v), X) /\ Live(StartedAt(h, t, v)) = Live(h) \cup {t}
<1>0. PICK g, r : /\ g = push([h EXCEPT !.at[t] = v, !.active[t] = 0], t)
                  /\ r = HEAP_CACHE_AT(g, g.active[t] - 1)
  OBVIOUS
<1>1. PICK k : k = [h EXCEPT !.at[t] = v, !.active[t] = 0]
  OBVIOUS
<1>2. h \in Heaps /\ Agree(h, h.size) /\ Cached(h, X) /\ h.size = Cardinality(Live(h)) /\ ~h.crashed
  BY DEF Good
<1>3. h.active \in [Timers -> 0 .. Cardinality(Timers)] /\ h.at \in [Timers -> Int]
  BY <1>2 DEF Heaps
<1>4. /\ k \in Heaps /\ k.size = h.size /\ k.repeat = h.repeat /\ k.crashed = h.crashed
      /\ k.active = [h.active EXCEPT ![t] = 0] /\ k.slot = h.slot /\ k.at = [h.at EXCEPT ![t] = v]
  BY <1>1, <1>2, CardTimers DEF Heaps
<1>5. k.active = h.active /\ k.active[t] = 0
  BY <1>3, <1>4
<1>6. \A u \in Timers \ {t} : k.at[u] = h.at[u]
  BY <1>3, <1>4
<1>7. Good(k, X)
  <2>1. Live(k) = Live(h)
    BY <1>5 DEF Live
  <2>2. Agree(k, k.size)
    BY <1>2, <1>4, <1>5 DEF Agree
  <2>3. Cached(k, X)
    <3> SUFFICES ASSUME NEW i \in 0 .. (h.size - 1), h.slot[i].wt \in X
                 PROVE  h.slot[i].cache_at = k.at[h.slot[i].wt]
      BY <1>4 DEF Cached
    <3>1. h.slot[i].cache_at = h.at[h.slot[i].wt]
      BY <1>2 DEF Cached
    <3>2. h.slot[i].wt \in Timers /\ h.active[h.slot[i].wt] = i + 1 /\ i \in Nat
      BY <1>2 DEF Agree
    <3>3. h.slot[i].wt # t
      BY <3>2
    <3> QED
      BY <1>6, <3>1, <3>2, <3>3
  <2> QED
    BY <1>2, <1>4, <2>1, <2>2, <2>3 DEF Good
<1>8. PICK n : n = g.size
  OBVIOUS
<1>9. /\ g \in Heaps /\ ~g.crashed /\ n = h.size + 1 /\ g.at = k.at
      /\ Agree(g, n) /\ Live(g) = Live(k) \cup {t}
      /\ \A i \in 0 .. k.size : g.slot[i].wt \in X \ {t} =>
            g.slot[i].cache_at = g.at[g.slot[i].wt]
  <2>1. g = push(k, t)
    BY <1>0, <1>1
  <2> QED
    BY <1>4, <1>5, <1>7, <1>8, <2>1, PushSettles
<1>10. Live(k) = Live(h) /\ t \notin Live(h)
  BY <1>5 DEF Live
<1>11. PICK p : p = g.active[t] - 1
  OBVIOUS
<1>a. h.size \in Nat /\ n \in Nat /\ Cardinality(Timers) \in Nat /\ n <= Cardinality(Timers)
  <2>1. h.size \in 0 .. Cardinality(Timers) /\ g.size \in 0 .. Cardinality(Timers)
    BY <1>2, <1>9 DEF Heaps
  <2> QED
    BY <1>8, <2>1, CardTimers
<1>12. p \in 0 .. (n - 1) /\ g.slot[p].wt = t /\ p \in Slots
  <2>1. g.active[t] # 0
    BY <1>9 DEF Live
  <2>2. g.active[t] \in 1 .. n /\ g.slot[g.active[t] - 1].wt = t
    BY <1>9, <2>1 DEF Agree
  <2> QED
    BY <1>a, <1>11, <2>2 DEF Slots
<1>13. g.slot \in [Slots -> Entries] /\ g.at \in [Timers -> Int]
  BY <1>9 DEF Heaps
<1>14. r = [g EXCEPT !.slot[p].cache_at = g.at[t]]
  BY <1>0, <1>11, <1>12 DEF HEAP_CACHE_AT
<1>15. PICK e : e = [g.slot[p] EXCEPT !.cache_at = g.at[t]]
  OBVIOUS
<1>16. e \in Entries /\ e.wt = t /\ e.cache_at = g.at[t]
  <2>1. g.slot[p] \in Entries /\ g.at[t] \in Int
    BY <1>12, <1>13
  <2> QED
    BY <1>12, <1>15, <2>1 DEF Entries
<1>b. /\ r \in Heaps /\ r.size = n /\ r.at = g.at /\ r.active = g.active
      /\ r.crashed = g.crashed /\ r.slot = [g.slot EXCEPT ![p] = e]
  <2>1. r = [g EXCEPT !.slot = [g.slot EXCEPT ![p] = e]]
    BY <1>12, <1>13, <1>14, <1>15
  <2>2. [g.slot EXCEPT ![p] = e] \in [Slots -> Entries]
    BY <1>12, <1>13, <1>16
  <2> QED
    BY <1>8, <1>9, <2>1, <2>2 DEF Heaps
<1>17. r.slot[p].wt = t /\ r.slot[p].cache_at = r.at[t]
  BY <1>12, <1>13, <1>16, <1>b
<1>18. \A i \in 0 .. (n - 1) : i \in Slots /\ (i # p => r.slot[i] = g.slot[i]) /\ r.slot[i].wt = g.slot[i].wt
  BY <1>12, <1>13, <1>b, <1>17, <1>a DEF Slots
<1>19. Agree(r, n)
  <2>1. \A i \in 0 .. (n - 1) : r.slot[i].wt \in Timers /\ r.active[r.slot[i].wt] = i + 1
    BY <1>9, <1>b, <1>18 DEF Agree
  <2>2. ASSUME NEW u \in Timers, r.active[u] # 0
        PROVE  r.active[u] \in 1 .. n /\ r.slot[r.active[u] - 1].wt = u
    <3>1. g.active[u] \in 1 .. n /\ g.slot[g.active[u] - 1].wt = u
      BY <1>9, <1>b, <2>2 DEF Agree
    <3>2. g.active[u] - 1 \in 0 .. (n - 1)
      BY <1>a, <3>1
    <3> QED
      BY <1>b, <1>18, <3>1, <3>2
  <2> QED
    BY <2>1, <2>2 DEF Agree
<1>20. Cached(r, X)
  <2> SUFFICES ASSUME NEW i \in 0 .. (n - 1), r.slot[i].wt \in X
               PROVE  r.slot[i].cache_at = r.at[r.slot[i].wt]
    BY <1>b DEF Cached
  <2>1. CASE i = p
    BY <1>17, <2>1
  <2>2. CASE i # p
    <3>1. r.slot[i] = g.slot[i] /\ i \in 0 .. k.size
      BY <1>4, <1>9, <1>18, <1>a, <2>2
    <3>2. g.slot[i].wt # t
      <4>1. g.slot[i].wt \in Timers /\ g.active[g.slot[i].wt] = i + 1 /\ g.active[t] = p + 1
        BY <1>9, <1>12, <1>17 DEF Agree
      <4> QED
        BY <1>12, <2>2, <4>1
    <3> QED
      BY <1>9, <1>b, <3>1, <3>2
  <2> QED
    BY <2>1, <2>2
<1>21. Live(r) = Live(h) \cup {t}
  BY <1>9, <1>10, <1>b DEF Live
<1>22. r.size = Cardinality(Live(r))
  <2>1. Cardinality(Live(h) \cup {t}) = Cardinality(Live(h)) + 1
    BY <1>10, LiveIs, FS_AddElement
  <2>2. r.size = Cardinality(Live(h)) + 1
    BY <1>2, <1>9, <1>b
  <2> QED
    BY <1>21, <2>1, <2>2
<1>23. Good(r, X) /\ r = StartedAt(h, t, v)
  BY <1>0, <1>9, <1>b, <1>19, <1>20, <1>21, <1>22 DEF Good, StartedAt
<1> QED
  BY <1>21, <1>23

(* timer_watcher_stop: the last timer takes the place of the stopped one;  *)
(* a timer that is itself the last leaves a null timer to be written       *)
(* through.                                                                *)
Stopped(h, t, v) ==
    [remove(h, h.active[t] - 1) EXCEPT !.at[t] = @ - v, !.active[t] = 0]

(* Unless the program ends, the heap is as it should be, without the timer. *)
LEMMA StopGood ==
    ASSUME NEW h, Good(h, {}), NEW t \in Live(h), NEW v \in Int
    PROVE  \/ Stopped(h, t, v).crashed
           \/ Good(Stopped(h, t, v), {}) /\ Live(Stopped(h, t, v)) = Live(h) \ {t}
<1>a. PICK g : g = remove(h, h.active[t] - 1)
  OBVIOUS
<1>b. PICK r : r = Stopped(h, t, v) /\ r = [g EXCEPT !.at[t] = @ - v, !.active[t] = 0]
  BY <1>a DEF Stopped
<1>0. SUFFICES r.crashed \/ (Good(r, {}) /\ Live(r) = Live(h) \ {t})
  BY <1>b
<1>1. PICK p, m : p = h.active[t] - 1 /\ m = h.size - 1
  OBVIOUS
<1>2. /\ h \in Heaps /\ ~h.crashed /\ Agree(h, h.size) /\ h.size = Cardinality(Live(h))
      /\ t \in Timers /\ h.active[t] # 0 /\ Cardinality(Timers) \in Nat
  BY CardTimers DEF Good, Live
<1>3. /\ h.slot \in [Slots -> Entries] /\ h.active \in [Timers -> 0 .. Cardinality(Timers)]
      /\ h.size \in 0 .. Cardinality(Timers)
  BY <1>2 DEF Heaps
<1>4. h.active[t] \in 1 .. h.size /\ h.slot[h.active[t] - 1].wt = t
  BY <1>2 DEF Agree
<1>5. /\ p \in 0 .. m /\ m \in Nat /\ p \in Slots /\ m \in Slots /\ h.size = m + 1
      /\ p \in Nat /\ h.active[t] = p + 1 /\ h.slot[p].wt = t
  BY <1>1, <1>2, <1>3, <1>4 DEF Slots
<1>6. PICK b : b = h.slot[m].wt
  OBVIOUS
<1>7. b \in Timers /\ h.active[b] = m + 1
  BY <1>2, <1>5, <1>6 DEF Agree
<1>8. PICK d : d = [h EXCEPT !.active[t] = 0, !.slot[p].wt = b]
  OBVIOUS
<1>9. PICK e : e = [h.slot[p] EXCEPT !.wt = b]
  OBVIOUS
<1>10. e \in Entries /\ e.wt = b /\ h.slot[p] \in Entries
  <2>1. h.slot[p] \in Entries
    BY <1>3, <1>5
  <2> QED
    BY <1>7, <1>9, <2>1 DEF Entries
<1>11. /\ d \in Heaps /\ d.size = h.size /\ d.at = h.at /\ d.repeat = h.repeat /\ ~d.crashed
       /\ d.active = [h.active EXCEPT ![t] = 0] /\ d.slot = [h.slot EXCEPT ![p] = e]
  <2>1. d = [[h EXCEPT !.active = [h.active EXCEPT ![t] = 0]] EXCEPT !.slot = [h.slot EXCEPT ![p] = e]]
    BY <1>2, <1>8, <1>9 DEF Heaps
  <2>2. [h.slot EXCEPT ![p] = e] \in [Slots -> Entries]
    BY <1>3, <1>5, <1>10
  <2>3. [h.active EXCEPT ![t] = 0] \in [Timers -> 0 .. Cardinality(Timers)]
    BY <1>2, <1>3
  <2> QED
    BY <1>2, <2>1, <2>2, <2>3 DEF Heaps
<1>12. PICK k : k = [d EXCEPT !.slot[m].wt = nullptr, !.size = m]
  OBVIOUS
<1>13. PICK z : z = [d.slot[m] EXCEPT !.wt = nullptr]
  OBVIOUS
<1>14. z \in Entries /\ z.wt = nullptr
  <2>1. d.slot[m] \in Entries
    BY <1>5, <1>11 DEF Heaps
  <2> QED
    BY <1>13, <2>1 DEF Entries
<1>15. /\ k \in Heaps /\ k.size = m /\ k.at = h.at /\ k.repeat = h.repeat /\ ~k.crashed
       /\ k.active = [h.active EXCEPT ![t] = 0] /\ k.slot = [d.slot EXCEPT ![m] = z]
  <2>1. k = [[d EXCEPT !.slot = [d.slot EXCEPT ![m] = z]] EXCEPT !.size = m]
    BY <1>11, <1>12, <1>13 DEF Heaps
  <2>2. [d.slot EXCEPT ![m] = z] \in [Slots -> Entries]
    BY <1>5, <1>11, <1>14 DEF Heaps
  <2>3. m \in 0 .. Cardinality(Timers)
    BY <1>2, <1>3, <1>5
  <2> QED
    BY <1>11, <2>1, <2>2, <2>3 DEF Heaps
<1>16. g = adjust(k, p)
  <2>1. ~(p < 0 \/ p >= h.size)
    BY <1>5
  <2>2. [h EXCEPT !.active[h.slot[p].wt] = 0, !.slot[p].wt = h.slot[h.size - 1].wt] = d
    BY <1>1, <1>5, <1>6, <1>8
  <2> QED
    BY <1>a, <1>1, <1>12, <2>1, <2>2 DEF remove
<1>17. CASE p = m
  <2>1. k.slot[p].wt = nullptr
    BY <1>5, <1>11, <1>14, <1>15, <1>17 DEF Heaps
  <2>2. g \in Heaps /\ g.crashed
    BY <1>5, <1>15, <1>16, <2>1, NullCrashes
  <2> QED
    BY <1>b, <2>2 DEF Heaps
<1>18. CASE p # m
  <2>1. p \in 0 .. (m - 1) /\ m \in 1 .. Cardinality(Timers)
    BY <1>2, <1>3, <1>5, <1>18
  <2>2. b # t
    BY <1>5, <1>7, <1>18
  <2>3. \A i \in 0 .. (m - 1) : i \in Slots /\ k.slot[i] = IF i = p THEN e ELSE h.slot[i]
    <3>1. d.slot \in [Slots -> Entries]
      BY <1>11 DEF Heaps
    <3>2. \A i \in 0 .. (m - 1) : i \in Slots /\ i # m
      BY <1>2, <1>5 DEF Slots
    <3> QED
      BY <1>3, <1>5, <1>11, <1>15, <3>1, <3>2
  <2>4. \A u \in Timers : k.active[u] = IF u = t THEN 0 ELSE h.active[u]
    BY <1>3, <1>15
  <2>5. Vacant(k, p, b, m, {})
    <3>1. ASSUME NEW i \in 0 .. (m - 1), i # p
          PROVE  k.slot[i].wt \in Timers \ {b} /\ k.active[k.slot[i].wt] = i + 1
      <4>1. h.slot[i].wt \in Timers /\ h.active[h.slot[i].wt] = i + 1 /\ i \in Nat /\ i # m
        BY <1>2, <1>5 DEF Agree
      <4>2. h.slot[i].wt # t /\ h.slot[i].wt # b
        BY <1>5, <1>7, <3>1, <4>1
      <4> QED
        BY <2>3, <2>4, <3>1, <4>1, <4>2
    <3>2. ASSUME NEW u \in Timers \ {b}, k.active[u] # 0
          PROVE  k.active[u] \in 1 .. m /\ k.active[u] # p + 1 /\ k.slot[k.active[u] - 1].wt = u
      <4>1. u # t /\ k.active[u] = h.active[u]
        BY <2>4, <3>2
      <4>2. h.active[u] \in 1 .. h.size /\ h.slot[h.active[u] - 1].wt = u
        BY <1>2, <3>2, <4>1 DEF Agree
      <4>3. h.active[u] # m + 1 /\ h.active[u] # p + 1
        BY <1>5, <1>6, <4>1, <4>2
      <4>4. h.active[u] - 1 \in 0 .. (m - 1) /\ h.active[u] - 1 # p
        BY <1>5, <4>2, <4>3
      <4> QED
        BY <1>5, <2>3, <4>1, <4>2, <4>3, <4>4
    <3> QED
      BY <3>1, <3>2 DEF Vacant
  <2>6. k.slot[p] = e
    BY <2>1, <2>3
  <2>7. Shiftable(k, p, m, {})
    BY <1>7, <1>10, <1>15, <2>1, <2>5, <2>6 DEF Shiftable
  <2>8. Settled(g, k, e, m, {})
    <3>1. Settled(adjust(k, p), k, k.slot[p], m, {})
      BY <1>15, <2>7, Adjust
    <3> QED
      BY <1>16, <2>6, <3>1
  <2>9. Live(k) = Live(h) \ {t} /\ b \in Live(h) \ {t}
    BY <1>5, <1>7, <2>2, <2>4 DEF Live
  <2>10. g \in Heaps /\ g.size = m /\ ~g.crashed /\ Agree(g, m) /\ Live(g) = Live(h) \ {t}
    BY <1>10, <1>15, <2>8, <2>9 DEF Settled
  <2>11. g.active \in [Timers -> 0 .. Cardinality(Timers)] /\ g.at \in [Timers -> Int]
    BY <2>10 DEF Heaps
  <2>12. g.active[t] = 0
    BY <1>2, <2>10 DEF Live
  <2>13. /\ r \in Heaps /\ r.size = m /\ ~r.crashed /\ r.slot = g.slot /\ r.active = g.active
    <3>1. [g.active EXCEPT ![t] = 0] = g.active
      BY <2>11, <2>12
    <3>2. [g.at EXCEPT ![t] = @ - v] \in [Timers -> Int]
      BY <1>2, <2>11
    <3>3. r = [[g EXCEPT !.at = [g.at EXCEPT ![t] = @ - v]] EXCEPT !.active = [g.active EXCEPT ![t] = 0]]
      BY <1>b, <2>10 DEF Heaps
    <3> QED
      BY <2>10, <3>1, <3>2, <3>3 DEF Heaps
  <2>14. Live(r) = Live(h) \ {t} /\ Agree(r, r.size)
    BY <2>10, <2>13 DEF Live, Agree
  <2>15. r.size = Cardinality(Live(r))
    <3>1. Cardinality(Live(h) \ {t}) = Cardinality(Live(h)) - 1
      BY LiveIs, FS_RemoveElement
    <3>2. Cardinality(Live(h)) = m + 1 /\ r.size = m /\ m \in Nat
      BY <1>2, <1>5, <2>13
    <3>3. Cardinality(Live(r)) = Cardinality(Live(h)) - 1
      BY <2>14, <3>1
    <3> QED
      BY <3>2, <3>3
  <2> QED
    BY <2>13, <2>14, <2>15 DEF Good, Cached
<1> QED
  BY <1>17, <1>18

(* timer_notify moves the top timer on to its next time v. *)
RearmedTo(h, v) ==
    shift_down(HEAP_CACHE_AT([h EXCEPT !.at[h.slot[0].wt] = v], 0), 0)

(* The heap is as it should be and the same timers are in it. *)
LEMMA RearmGood ==
    ASSUME NEW h, NEW X, Good(h, X), h.size # 0, NEW v \in Int
    PROVE  Good(RearmedTo(h, v), X) /\ Live(RearmedTo(h, v)) = Live(h)
<1>a. PICK g : g = HEAP_CACHE_AT([h EXCEPT !.at[h.slot[0].wt] = v], 0)
  OBVIOUS
<1>b. PICK r : r = RearmedTo(h, v) /\ r = shift_down(g, 0)
  BY <1>a DEF RearmedTo
<1>0. SUFFICES Good(r, X) /\ Live(r) = Live(h)
  BY <1>b
<1>1. PICK t, n : t = h.slot[0].wt /\ n = h.size
  OBVIOUS
<1>2. /\ h \in Heaps /\ ~h.crashed /\ Agree(h, n) /\ n = Cardinality(Live(h)) /\ Cached(h, X)
      /\ Cardinality(Timers) \in Nat /\ n \in 1 .. Cardinality(Timers) /\ n \in Nat
      /\ 0 \in 0 .. (n - 1) /\ 0 \in Slots
  BY <1>1, CardTimers DEF Good, Heaps, Slots
<1>3. h.slot \in [Slots -> Entries] /\ h.at \in [Timers -> Int]
  BY <1>2 DEF Heaps
<1>4. t \in Timers /\ h.active[t] = 1
  BY <1>1, <1>2 DEF Agree
<1>5. PICK e : e = [h.slot[0] EXCEPT !.cache_at = v]
  OBVIOUS
<1>6. e \in Entries /\ e.wt = t /\ e.cache_at = v
  <2>1. h.slot[0] \in Entries
    BY <1>2, <1>3
  <2> QED
    BY <1>1, <1>5, <2>1 DEF Entries
<1>7. PICK k : k = [h EXCEPT !.at[t] = v]
  OBVIOUS
<1>8. /\ k \in Heaps /\ k.size = n /\ k.slot = h.slot /\ k.active = h.active /\ ~k.crashed
      /\ k.at = [h.at EXCEPT ![t] = v]
  BY <1>1, <1>2, <1>4, <1>7 DEF Heaps
<1>9. /\ g \in Heaps /\ g.size = n /\ g.slot = [h.slot EXCEPT ![0] = e]
      /\ g.active = h.active /\ ~g.crashed /\ g.at = k.at
  <2>1. k.at[k.slot[0].wt] = v
    BY <1>1, <1>3, <1>4, <1>8
  <2>2. g = [k EXCEPT !.slot[0].cache_at = v]
    BY <1>a, <1>1, <1>7, <2>1 DEF HEAP_CACHE_AT
  <2>3. g = [k EXCEPT !.slot = [h.slot EXCEPT ![0] = e]]
    BY <1>5, <1>8, <2>2 DEF Heaps
  <2>4. [h.slot EXCEPT ![0] = e] \in [Slots -> Entries]
    BY <1>2, <1>3, <1>6
  <2> QED
    BY <1>8, <2>3, <2>4 DEF Heaps
<1>10. /\ \A u \in Timers : g.at[u] = IF u = t THEN v ELSE h.at[u]
       /\ \A i \in 0 .. (n - 1) : i \in Slots /\ g.slot[i] = IF i = 0 THEN e ELSE h.slot[i]
  <2>1. \A i \in 0 .. (n - 1) : i \in Slots
    BY <1>2 DEF Slots
  <2>2. \A u \in Timers : g.at[u] = IF u = t THEN v ELSE h.at[u]
    BY <1>3, <1>8, <1>9
  <2> QED
    BY <1>2, <1>3, <1>9, <2>1, <2>2
<1>11. Vacant(g, 0, t, n, X)
  <2>1. ASSUME NEW i \in 0 .. (n - 1), i # 0
        PROVE  /\ g.slot[i].wt \in Timers \ {t} /\ g.active[g.slot[i].wt] = i + 1
               /\ g.slot[i].wt \in X => g.slot[i].cache_at = g.at[g.slot[i].wt]
    <3>1. h.slot[i].wt \in Timers /\ h.active[h.slot[i].wt] = i + 1 /\ i \in Nat
      BY <1>2 DEF Agree
    <3>2. h.slot[i].wt # t
      BY <1>4, <2>1, <3>1
    <3>3. h.slot[i].wt \in X => h.slot[i].cache_at = h.at[h.slot[i].wt]
      BY <1>1, <1>2 DEF Cached
    <3> QED
      BY <1>9, <1>10, <2>1, <3>1, <3>2, <3>3
  <2>2. ASSUME NEW u \in Timers \ {t}, g.active[u] # 0
        PROVE  g.active[u] \in 1 .. n /\ g.active[u] # 0 + 1 /\ g.slot[g.active[u] - 1].wt = u
    <3>1. h.active[u] \in 1 .. n /\ h.slot[h.active[u] - 1].wt = u
      BY <1>2, <1>9, <2>2 DEF Agree
    <3>2. h.active[u] # 1
      BY <1>1, <3>1
    <3>3. h.active[u] - 1 \in 0 .. (n - 1) /\ h.active[u] - 1 # 0
      BY <1>2, <3>1, <3>2
    <3>4. g.slot[h.active[u] - 1] = h.slot[h.active[u] - 1]
      BY <1>10, <3>3
    <3> QED
      BY <1>9, <3>1, <3>2, <3>4
  <2> QED
    BY <2>1, <2>2 DEF Vacant
<1>12. g.slot[0] = e
  BY <1>2, <1>10
<1>13. Shiftable(g, 0, n, X)
  BY <1>2, <1>4, <1>6, <1>9, <1>11, <1>12 DEF Shiftable
<1>14. Settled(r, g, e, n, X)
  <2>1. Settled(shift_down(g, 0), g, g.slot[0], n, X)
    BY <1>9, <1>13, ShiftDown
  <2> QED
    BY <1>b, <1>12, <2>1
<1>15. r \in Heaps /\ r.size = n /\ ~r.crashed /\ Agree(r, n) /\ r.at = g.at
  BY <1>9, <1>14 DEF Settled
<1>16. Live(r) = Live(h)
  <2>1. Live(r) = Live(g) \cup {t}
    BY <1>6, <1>14 DEF Settled
  <2>2. Live(g) = Live(h) /\ t \in Live(h)
    BY <1>4, <1>9 DEF Live
  <2> QED
    BY <2>1, <2>2
<1>17. r.slot[r.active[t] - 1] = e /\ r.at[t] = v
  <2>1. r.slot[r.active[t] - 1] = e
    BY <1>6, <1>14 DEF Settled
  <2>2. r.at[t] = v
    BY <1>4, <1>10, <1>15
  <2> QED
    BY <2>1, <2>2
<1>18. \A i \in 0 .. (n - 1) : r.slot[i].wt \in X \ {t} =>
          r.slot[i].cache_at = r.at[r.slot[i].wt]
  BY <1>6, <1>14 DEF Settled
<1>19. ASSUME NEW i \in 0 .. (n - 1), r.slot[i].wt = t
       PROVE  r.slot[i].cache_at = r.at[t]
  <2>1. r.active[t] = i + 1 /\ (i + 1) - 1 = i
    BY <1>15, <1>19 DEF Agree
  <2>2. r.slot[i] = e
    BY <1>17, <2>1
  <2> QED
    BY <1>6, <1>17, <2>2
<1>20. Cached(r, X)
  BY <1>15, <1>18, <1>19 DEF Cached
<1> QED
  BY <1>2, <1>15, <1>16, <1>20 DEF Good

(* The loop of shift_up rises with every turn until it is over: it is      *)
(* over after as many turns as there are slots, whatever the slots hold.   *)
LEMMA LiftingEnds ==
    ASSUME NEW h \in Heaps, NEW p \in Slots
    PROVE  Lift(Lifting(h, p)[Cardinality(Timers)], h.slot[p]) = Lifting(h, p)[Cardinality(Timers)]
<1> DEFINE s(n) == Lifting(h, p)[n]
           Over(n) == Lift(s(n), h.slot[p]) = s(n)
           T == {n \in Nat : ~Over(n) /\ s(n).pos > p - n}
<1>1. /\ Lifting(h, p) \in [Nat -> Shifts]
      /\ \A n \in Nat : Lifting(h, p)[n] =
            IF n = 0 THEN [heap |-> h, pos |-> p] ELSE Lift(Lifting(h, p)[n - 1], h.slot[p])
  <2>1. [heap |-> h, pos |-> p] \in Shifts
    BY DEF Shifts
  <2> QED
    BY <2>1, LiftShifts, LiftingIs
<1>2. /\ s(0) = [heap |-> h, pos |-> p] /\ p \in Nat /\ p < Cardinality(Timers)
      /\ \A n \in Nat : s(n).pos \in Nat
      /\ \A n \in Nat : n # 0 => s(n) = Lift(s(n - 1), h.slot[p])
  BY <1>1, CardTimers DEF Shifts, Slots
<1> HIDE DEF s
<1>3. ASSUME NEW n \in Nat, ~Over(n)
      PROVE  s(n + 1).pos < s(n).pos
  <2>1. s(n + 1) = Lift(s(n), h.slot[p])
    BY <1>2
  <2>2. s(n).pos # 0 /\ s(n + 1).pos = Parent(s(n).pos)
    BY <1>3, <2>1 DEF Lift
  <2> QED
    BY <1>2, <2>2, ParentBefore
<1>4. T = {}
  <2> SUFFICES ASSUME T # {} PROVE FALSE
    OBVIOUS
  <2>1. PICK l \in T : \A k \in T : l <= k
    <3> T \in SUBSET Nat
      OBVIOUS
    <3> HIDE DEF T
    <3> QED
      BY Least
  <2>2. l \in Nat /\ ~Over(l) /\ s(l).pos > p - l
    OBVIOUS
  <2>3. l # 0
    BY <1>2, <2>2
  <2>4. PICK m \in Nat : l = m + 1
    BY <2>2, <2>3
  <2>5. m \notin T
    BY <2>1, <2>4
  <2>6. CASE Over(m)
    BY <1>2, <2>2, <2>4, <2>6
  <2>7. CASE ~Over(m)
    <3>1. s(m).pos <= p - m
      BY <1>2, <2>5, <2>7
    <3> HIDE DEF Over, T
    <3> QED
      BY <1>2, <1>3, <2>2, <2>4, <2>7, <3>1
  <2> QED
    BY <2>6, <2>7
<1>5. Over(Cardinality(Timers))
  BY <1>2, <1>4, CardTimers
<1> QED
  BY <1>5 DEF s

(* The loop of shift_down sinks with every turn. *)
LEMMA SinkingEnds ==
    ASSUME NEW h \in Heaps, NEW p \in Slots
    PROVE  Sink(Sinking(h, p)[Cardinality(Timers)], h.slot[p]) = Sinking(h, p)[Cardinality(Timers)]
<1> DEFINE s(n) == Sinking(h, p)[n]
           Over(n) == Sink(s(n), h.slot[p]) = s(n)
           T == {n \in Nat : ~Over(n) /\ s(n).pos < p + n}
<1>1. /\ Sinking(h, p) \in [Nat -> Shifts]
      /\ \A n \in Nat : Sinking(h, p)[n] =
            IF n = 0 THEN [heap |-> h, pos |-> p] ELSE Sink(Sinking(h, p)[n - 1], h.slot[p])
  <2>1. [heap |-> h, pos |-> p] \in Shifts
    BY DEF Shifts
  <2> QED
    BY <2>1, SinkShifts, SinkingIs
<1>2. /\ s(0) = [heap |-> h, pos |-> p] /\ p \in Nat
      /\ \A n \in Nat : s(n).pos \in Nat /\ s(n).pos < Cardinality(Timers)
      /\ \A n \in Nat : s(n).heap \in Heaps /\ s(n).pos \in Slots
      /\ \A n \in Nat : n # 0 => s(n) = Sink(s(n - 1), h.slot[p])
  BY <1>1, CardTimers DEF Shifts, Slots
<1> HIDE DEF s
<1>3. ASSUME NEW n \in Nat, ~Over(n)
      PROVE  s(n + 1).pos > s(n).pos
  <2>1. s(n + 1) = Sink(s(n), h.slot[p])
    BY <1>2
  <2>2. /\ Children(s(n).heap, s(n).pos) # {}
        /\ s(n + 1).pos = LeastChild(s(n).heap, s(n).pos)
    BY <1>3, <2>1 DEF Sink
  <2>3. s(n + 1).pos \in Children(s(n).heap, s(n).pos)
    BY <1>2, <2>2, LeastChildIs
  <2>4. s(n).heap.size \in Nat
    BY <1>2, CardTimers DEF Heaps
  <2> QED
    BY <1>2, <2>3, <2>4, ChildrenBehind
<1>4. T = {}
  <2> SUFFICES ASSUME T # {} PROVE FALSE
    OBVIOUS
  <2>1. PICK l \in T : \A k \in T : l <= k
    <3> T \in SUBSET Nat
      OBVIOUS
    <3> HIDE DEF T
    <3> QED
      BY Least
  <2>2. l \in Nat /\ ~Over(l) /\ s(l).pos < p + l
    OBVIOUS
  <2>3. l # 0
    BY <1>2, <2>2
  <2>4. PICK m \in Nat : l = m + 1
    BY <2>2, <2>3
  <2>5. m \notin T
    BY <2>1, <2>4
  <2>6. CASE Over(m)
    BY <1>2, <2>2, <2>4, <2>6
  <2>7. CASE ~Over(m)
    <3>1. s(m).pos >= p + m
      BY <1>2, <2>5, <2>7
    <3> HIDE DEF Over, T
    <3> QED
      BY <1>2, <1>3, <2>2, <2>4, <2>7, <3>1
  <2> QED
    BY <2>6, <2>7
<1>5. Over(Cardinality(Timers))
  BY <1>2, <1>4, CardTimers
<1> QED
  BY <1>5 DEF s

(* The loops of shift_up and shift_down end within as many turns as there  *)
(* are slots, whatever times the slots have cached: one more turn changes  *)
(* nothing.                                                                *)
THEOREM ShiftsEnd ==
    ASSUME NEW h \in Heaps, NEW p \in Slots
    PROVE  LET n == Cardinality(Timers) IN
           /\ Lift(Lifting(h, p)[n], h.slot[p]) = Lifting(h, p)[n]
           /\ Sink(Sinking(h, p)[n], h.slot[p]) = Sinking(h, p)[n]
  BY LiftingEnds, SinkingEnds

-----------------------------------------------------------------------------
USE TagAssumption, KernelAssumption DEF Watchers, ERROR

(* ++tag stays an unsigned integer of its width. *)
LEMMA NextTagType == TypeOK => NextTag \in 0 .. (TagMod - 1)
<1> SUFFICES ASSUME TypeOK PROVE NextTag \in 0 .. (TagMod - 1)
  OBVIOUS
<1>1. tag + 1 \in Nat
  BY DEF TypeOK
<1> QED
  BY <1>1 DEF NextTag

(* What epoll_ctl leaves registered carries the tag and the mask it was    *)
(* given.                                                                  *)
LEMMA RegisterIs ==
    ASSUME NEW m \in SUBSET Watchers, NEW t \in 0 .. (TagMod - 1)
    PROVE  /\ Register(m, t) \subseteq [mask : SUBSET Watchers, tag : 0 .. (TagMod - 1)]
           /\ Register(m, t) # {}
           /\ \A r \in Register(m, t) : r.mask = m /\ r.tag = t
           /\ \A r, s \in Register(m, t) : r = s
  BY DEF Register

(* feed_event leaves an entry of the pendings; of EV_ERROR nothing is left. *)
LEMMA FeedEventIs ==
    /\ {} \in PendingEntries
    /\ FeedEvent({}, {ERROR}) = {{}} /\ {{}} \in PendingEntries
    /\ \A entry \in PendingEntries, w \in Watchers : FeedEvent(entry, {w}) \in PendingEntries
<1>1. {} \in PendingEntries /\ {{}} \in PendingEntries
  BY DEF PendingEntries
<1>2. FeedEvent({}, {ERROR}) = {{}}
  <2>1. Short((UNION {}) \cup {ERROR}) = {}
    BY DEF Short
  <2> QED
    BY <2>1 DEF FeedEvent
<1>3. ASSUME NEW entry \in PendingEntries, NEW w \in Watchers
      PROVE  FeedEvent(entry, {w}) \in PendingEntries
  <2>1. UNION entry \subseteq Watchers
    BY DEF PendingEntries
  <2>2. Short((UNION entry) \cup {w}) \in SUBSET Watchers
    BY <2>1 DEF Short
  <2> QED
    BY <2>2 DEF FeedEvent, PendingEntries
<1> QED
  BY <1>1, <1>2, <1>3

(* A new loop has no registration and nothing pending. *)
LEMMA InitIndInv == Init => IndInv
<1> SUFFICES ASSUME Init PROVE IndInv
  OBVIOUS
<1>1. TypeOK
  <2>1. pending \in [Watchers -> PendingEntries]
    BY FeedEventIs DEF Init
  <2>2. tag \in 0 .. (TagMod - 1)
    BY DEF Init
  <2> QED
    BY <2>1, <2>2 DEF Init, TypeOK
<1>2. TagMatches /\ NoCallbackAfterStop
  BY DEF Init, TagMatches, NoCallbackAfterStop
<1>3. Reified /\ ClosedIdle /\ MaskKnown
  BY DEF Init, Reified, ClosedIdle, MaskKnown
<1> QED
  BY <1>1, <1>2, <1>3 DEF IndInv

(* io_watcher_start puts the fd into fdchanges. *)
LEMMA StartInv == ASSUME IndInv, NEW w \in Watchers, Start(w) PROVE IndInv'
<1> USE DEF IndInv, Start, evfd, FdChange
<1>1. TypeOK'
  BY DEF TypeOK
<1>2. TagMatches' /\ MaskKnown'
  BY DEF TagMatches, MaskKnown
<1>3. NoCallbackAfterStop'
  BY DEF NoCallbackAfterStop
<1>4. Reified' /\ ClosedIdle'
  BY DEF Reified, ClosedIdle
<1> QED
  BY <1>1, <1>2, <1>3, <1>4

(* io_watcher_stop clears the pending event. *)
LEMMA StopInv == ASSUME IndInv, NEW w \in Watchers, Stop(w) PROVE IndInv'
<1> USE DEF IndInv, Stop, evfd, FdChange, ClearPending
<1>1. TypeOK'
  BY FeedEventIs DEF TypeOK
<1>2. TagMatches' /\ MaskKnown'
  BY DEF TagMatches, MaskKnown
<1>3. NoCallbackAfterStop'
  BY DEF NoCallbackAfterStop, TypeOK
<1>4. Reified' /\ ClosedIdle'
  BY DEF Reified, ClosedIdle
<1> QED
  BY <1>1, <1>2, <1>3, <1>4

(* A callback has run. *)
LEMMA InvokeInv == ASSUME IndInv, NEW w \in Watchers, Invoke(w) PROVE IndInv'
<1> USE DEF IndInv, Invoke, evfd
<1>1. TypeOK'
  BY FeedEventIs DEF TypeOK
<1>2. TagMatches' /\ MaskKnown'
  BY DEF TagMatches, MaskKnown
<1>3. NoCallbackAfterStop'
  BY DEF NoCallbackAfterStop, TypeOK
<1>4. Reified' /\ ClosedIdle'
  BY DEF Reified, ClosedIdle
<1> QED
  BY <1>1, <1>2, <1>3, <1>4

(* Without watchers and outside fdchanges the fd has no events, so the     *)
(* kernel may forget it.                                                   *)
LEMMA CloseInv == ASSUME IndInv, Close PROVE IndInv'
<1> USE DEF IndInv, Close, evfd
<1>1. TypeOK'
  BY DEF TypeOK
<1>2. TagMatches' /\ MaskKnown'
  BY DEF TagMatches, MaskKnown
<1>3. NoCallbackAfterStop'
  BY DEF NoCallbackAfterStop
<1>4. Reified' /\ ClosedIdle'
  BY DEF Reified, ClosedIdle
<1> QED
  BY <1>1, <1>2, <1>3, <1>4

(* A reopened descriptor starts without a registration. *)
LEMMA ReopenInv == ASSUME IndInv, Reopen PROVE IndInv'
<1> USE DEF IndInv, Reopen, evfd
<1>1. TypeOK'
  BY DEF TypeOK
<1>2. TagMatches' /\ MaskKnown'
  BY DEF TagMatches, MaskKnown, ClosedIdle
<1>3. NoCallbackAfterStop'
  BY DEF NoCallbackAfterStop
<1>4. Reified' /\ ClosedIdle'
  BY DEF Reified, ClosedIdle
<1> QED
  BY <1>1, <1>2, <1>3, <1>4

(* The next iteration begins with nothing pending. *)
LEMMA NextIterationInv == ASSUME IndInv, NextIteration PROVE IndInv'
<1> USE DEF IndInv, NextIteration, evfd
<1>1. TypeOK'
  BY DEF TypeOK
<1>2. TagMatches' /\ MaskKnown'
  BY DEF TagMatches, MaskKnown
<1>3. NoCallbackAfterStop'
  BY DEF NoCallbackAfterStop
<1>4. Reified' /\ ClosedIdle'
  BY DEF Reified, ClosedIdle
<1> QED
  BY <1>1, <1>2, <1>3, <1>4

(* Nothing in fdchanges. *)
LEMMA UpdateUnchangedInv == ASSUME IndInv, UpdateUnchanged PROVE IndInv'
<1> USE DEF IndInv, UpdateUnchanged, evfd
<1>1. TypeOK'
  BY DEF TypeOK
<1>2. TagMatches' /\ MaskKnown'
  BY DEF TagMatches, MaskKnown
<1>3. NoCallbackAfterStop'
  BY DEF NoCallbackAfterStop
<1>4. Reified' /\ ClosedIdle'
  BY DEF Reified, ClosedIdle
<1> QED
  BY <1>1, <1>2, <1>3, <1>4

(* An ignored deletion leaves the registration and its recorded mask. *)
LEMMA UpdateNoneInv == ASSUME IndInv, UpdateNone PROVE IndInv'
<1> USE DEF IndInv, UpdateNone
<1>1. TypeOK'
  BY DEF TypeOK
<1>2. TagMatches' /\ MaskKnown'
  BY DEF TagMatches, MaskKnown
<1>3. NoCallbackAfterStop'
  BY DEF NoCallbackAfterStop
<1>4. Reified' /\ ClosedIdle'
  BY DEF Reified, ClosedIdle
<1> QED
  BY <1>1, <1>2, <1>3, <1>4

(* Every path of backend_modify leaves a registration with the loop's tag  *)
(* and, as long as no hang-up was reported, the watchers' mask.            *)
LEMMA ControlEffect ==
    ASSUME IndInv, active # {}, Control
    PROVE  /\ tag' \in 0 .. (TagMod - 1)
           /\ kernel' \subseteq [mask : SUBSET Watchers, tag : 0 .. (TagMod - 1)]
           /\ kernel' # {}
           /\ \A r, s \in kernel' : r = s
           /\ \A r \in kernel' : r.tag = tag'
           /\ ~hung => \A r \in kernel' : r.mask = active
<1> USE DEF IndInv
<1>1. CASE kernel # {} /\ previous = active /\ UNCHANGED <<tag, kernel>>
  BY <1>1 DEF TypeOK, TagMatches, MaskKnown
<1>2. CASE tag' = NextTag /\ kernel' = Register(active, NextTag)
  <2>1. NextTag \in 0 .. (TagMod - 1) /\ active \in SUBSET Watchers
    BY NextTagType DEF TypeOK
  <2> HIDE DEF Watchers
  <2> QED
    BY <1>2, <2>1, RegisterIs
<1> QED
  BY <1>1, <1>2 DEF Control, Exists

(* update_fd for an fd with watchers. *)
LEMMA UpdateSomeInv == ASSUME IndInv, UpdateSome PROVE IndInv'
<1> USE DEF IndInv
<1>0. /\ phase = "update" /\ ischanged /\ active # {}
      /\ previous' = active /\ ischanged' = FALSE /\ phase' = "poll" /\ hung' = hung
  BY DEF UpdateSome
<1>a. isOpen
  BY <1>0 DEF ClosedIdle, TypeOK
<1>1. CASE Control
  <2>1. events' = active /\ UNCHANGED <<active, pending, isOpen>>
    BY <1>1 DEF Control
  <2>2. TypeOK'
    BY <1>0, <1>1, <2>1, ControlEffect DEF TypeOK
  <2>3. TagMatches' /\ MaskKnown'
    BY <1>0, <1>1, <2>1, ControlEffect DEF TagMatches, MaskKnown
  <2>4. NoCallbackAfterStop'
    BY <1>0, <2>1 DEF NoCallbackAfterStop
  <2>5. Reified' /\ ClosedIdle'
    BY <1>0, <1>a, <1>1, <2>1, ControlEffect DEF Reified, ClosedIdle
  <2> QED
    BY <2>2, <2>3, <2>4, <2>5
<1>2. CASE Kill
  <2>1. TypeOK'
    BY <1>0, <1>2, FeedEventIs DEF Kill, TypeOK
  <2>2. TagMatches' /\ MaskKnown'
    BY <1>2 DEF Kill, TagMatches, MaskKnown
  <2>3. NoCallbackAfterStop'
    BY <1>0, <1>2, FeedEventIs DEF Kill, NoCallbackAfterStop, TypeOK
  <2>4. Reified' /\ ClosedIdle'
    BY <1>0, <1>2 DEF Kill, Reified, ClosedIdle
  <2> QED
    BY <2>1, <2>2, <2>3, <2>4
<1> QED
  BY <1>1, <1>2 DEF UpdateSome

(* epoll_wait timed out. *)
LEMMA PollNothingInv == ASSUME IndInv, PollNothing PROVE IndInv'
<1> USE DEF IndInv, PollNothing, evfd
<1>1. TypeOK'
  BY DEF TypeOK
<1>2. TagMatches' /\ MaskKnown'
  BY DEF TagMatches, MaskKnown
<1>3. NoCallbackAfterStop'
  BY DEF NoCallbackAfterStop
<1>4. Reified' /\ ClosedIdle'
  BY DEF Reified, ClosedIdle
<1> QED
  BY <1>1, <1>2, <1>3, <1>4

(* Feeding makes only active watchers pending. *)
LEMMA FeedEffect ==
    ASSUME IndInv, NEW got, Feed(got)
    PROVE  /\ pending' \in [Watchers -> PendingEntries]
           /\ \A w \in Watchers : w \notin active => pending'[w] \in {{}, {{}}}
  BY FeedEventIs DEF IndInv, Feed, TypeOK, NoCallbackAfterStop

(* An event for the fd: the registration is changed only for an event      *)
(* nobody wants, which before the first hang-up means that nobody wants    *)
(* any.                                                                    *)
LEMMA PollEventInv == ASSUME IndInv, PollEvent PROVE IndInv'
<1> USE DEF IndInv
<1>1. PICK r \in kernel, ready \in SUBSET Watchers, hup \in {FALSE, Hangups} :
        LET got == Got(r.mask, ready, hup) IN
        /\ got # {}
        /\ hung' = (hung \/ hup)
        /\ IF r.tag # tag
           THEN UNCHANGED <<previous, kernel, pending>>
           ELSE \/ /\ \/ got \subseteq events /\ UNCHANGED <<previous, kernel>>
                      \/ ~(got \subseteq events) /\ Unwanted(r)
                   /\ Feed(got)
                \/ /\ CtlMayFail /\ ~(got \subseteq events)
                   /\ previous' = events
                   /\ UNCHANGED <<kernel, pending>>
  BY Zenon DEF PollEvent
<1> DEFINE got == Got(r.mask, ready, hup)
<1>2. phase = "poll" /\ phase' = "invoke" /\ UNCHANGED <<active, events, tag, ischanged, isOpen>>
  BY DEF PollEvent
<1>3. r.tag = tag /\ r.tag \in 0 .. (TagMod - 1) /\ r.mask \in SUBSET Watchers
  BY DEF TagMatches, TypeOK
<1>4. /\ hung' = (hung \/ hup) /\ hung' \in BOOLEAN
      /\ \/ previous' = previous /\ kernel' = kernel
         \/ ~(got \subseteq events) /\ Unwanted(r)
         \/ ~(got \subseteq events) /\ previous' = events /\ kernel' = kernel
  BY <1>1, <1>3 DEF TypeOK
<1>5. Feed(got) \/ pending' = pending
  BY <1>1, <1>3
<1> HIDE DEF got
<1>6. pending' \in [Watchers -> PendingEntries] /\ NoCallbackAfterStop'
  <2>1. CASE Feed(got)
    BY <2>1, <1>2, FeedEffect DEF NoCallbackAfterStop
  <2>2. CASE pending' = pending
    BY <2>2, <1>2 DEF NoCallbackAfterStop, TypeOK
  <2> QED
    BY <1>5, <2>1, <2>2
<1>7. Exchanged(events) \in SUBSET Watchers
  BY DEF Exchanged
<1>8. /\ previous' \in SUBSET Watchers
      /\ kernel' \subseteq [mask : SUBSET Watchers, tag : 0 .. (TagMod - 1)]
      /\ \A s, t \in kernel' : s = t
      /\ \A s \in kernel' : s.tag = tag
  <2>1. CASE kernel' = kernel /\ previous' \in {previous, events}
    BY <2>1 DEF TypeOK, TagMatches
  <2>2. CASE Unwanted(r)
    BY <2>2, <1>3, <1>7 DEF Unwanted, Register, TypeOK
  <2> QED
    BY <1>4, <2>1, <2>2
<1>9. TypeOK' /\ TagMatches'
  BY <1>2, <1>4, <1>6, <1>8 DEF TypeOK, TagMatches
<1>10. Reified' /\ ClosedIdle'
  <2>1. isOpen
    BY DEF ClosedIdle, TypeOK
  <2>2. events # {} => kernel' # {}
    BY <1>2, <1>4 DEF Unwanted, Register, Reified
  <2> QED
    BY <1>2, <2>1, <2>2 DEF Reified, ClosedIdle
<1>11. MaskKnown'
  <2> SUFFICES ASSUME ~hung' PROVE MaskKnown'
    BY DEF MaskKnown
  <2>1. ~hung /\ ~hup
    BY <1>4 DEF TypeOK
  <2>2. got \subseteq r.mask
    BY <2>1 DEF got, Got
  <2>3. r.mask = events \/ events = {}
    BY <2>1 DEF MaskKnown
  <2>4. CASE got \subseteq events
    BY <2>1, <2>4, <1>2, <1>4 DEF MaskKnown
  <2>5. CASE ~(got \subseteq events)
    <3>1. events = {}
      BY <2>2, <2>3, <2>5
    <3> QED
      BY <3>1, <2>1, <1>2, <1>4 DEF MaskKnown, Unwanted
  <2> QED
    BY <2>4, <2>5
<1> QED
  BY <1>6, <1>9, <1>10, <1>11

-----------------------------------------------------------------------------
(* Every step of the event loop preserves IndInv. *)
LEMMA NextInv == IndInv /\ [Next]_vars => IndInv'
<1> SUFFICES ASSUME IndInv, [Next]_vars PROVE IndInv'
  OBVIOUS
<1> HIDE DEF Watchers
<1>1. ASSUME NEW w \in Watchers, Start(w) \/ Stop(w) \/ Invoke(w) PROVE IndInv'
  BY <1>1, StartInv, StopInv, InvokeInv
<1>2. CASE Close \/ Reopen \/ NextIteration
  BY <1>2, CloseInv, ReopenInv, NextIterationInv
<1>3. CASE UpdateUnchanged \/ UpdateNone \/ UpdateSome
  BY <1>3, UpdateUnchangedInv, UpdateNoneInv, UpdateSomeInv
<1>4. CASE PollNothing \/ PollEvent
  BY <1>4, PollNothingInv, PollEventInv
<1>5. CASE UNCHANGED vars
  BY <1>5 DEF vars, IndInv, TypeOK, TagMatches, NoCallbackAfterStop, Reified,
              ClosedIdle, MaskKnown
<1> QED
  BY <1>1, <1>2, <1>3, <1>4, <1>5 DEF Next

(* IndInv is an inductive invariant of the event loop. *)
THEOREM Invariance == Spec => []IndInv
  BY InitIndInv, NextInv, PTL DEF Spec

(* No live event is mistaken for a spurious one: the tag epoll returns is  *)
(* the fd's, whatever path of backend_modify was taken and however often   *)
(* the 32-bit tag has wrapped.                                             *)
THEOREM LiveEventsRecognised == Spec => []TagMatches
<1>1. IndInv => TagMatches
  BY DEF IndInv
<1> QED
  BY <1>1, Invariance, PTL

(* Up to the first hang-up, the loop never sleeps while an active watcher  *)
(* wants an event that epoll does not watch for, although deletions are    *)
(* ignored, descriptors are reused and epoll_ctl may fail.                 *)
THEOREM WantedEventsWatched == Spec => []NothingMissed
<1>1. IndInv => NothingMissed
  <2> SUFFICES ASSUME IndInv, phase = "poll", active # {}, ~hung
               PROVE  \E r \in kernel : active \subseteq r.mask
    BY DEF NothingMissed
  <2>1. kernel # {} /\ active = events
    BY DEF IndInv, Reified
  <2>2. \A r \in kernel : r.mask = events
    BY <2>1 DEF IndInv, MaskKnown
  <2> QED
    BY <2>1, <2>2
<1> QED
  BY <1>1, Invariance, PTL

(* No event is delivered to a stopped watcher: io_watcher_stop leaves no   *)
(* callback behind, kill_fd one that runs without any event; and the loop  *)
(* never waits with callbacks of an earlier round.                         *)
THEOREM StoppedWatchersGetNoEvents == Spec => []NoCallbackAfterStop
<1>1. IndInv => NoCallbackAfterStop
  BY DEF IndInv
<1> QED
  BY <1>1, Invariance, PTL

-----------------------------------------------------------------------------
HIDE DEF Watchers, ERROR

(* The timers whose cached times are known to be right. *)
Known == IF removed THEN {} ELSE Timers

(* What Loop adds to the invariant of EvLoop. *)
TimerInv ==
    /\ now \in Nat /\ activecnt \in Int
    /\ ~timers.crashed => Good(timers, Known)
    /\ ActiveCountExact /\ NeverEarly
    /\ notifying => Due(timers, now)

(* LoopInv is the invariant of EvLoop and that of the timers. *)
LEMMA InvParts == LoopInv <=> IndInv /\ TimerInv
<1>1. Good(timers, Known) <=> /\ ~timers.crashed /\ timers \in Heaps /\ Agree(timers, timers.size)
                              /\ timers.size = Cardinality(InHeap)
                              /\ removed \/ Cached(timers, Timers)
  BY DEF Good, Known, InHeap, Cached
<1> QED
  BY <1>1 DEF LoopInv, TimerInv

(* Every step of the loop with timers is one of the event loop, or leaves  *)
(* it alone.                                                               *)
LEMMA LoopNextIsNext == [LoopNext]_allVars => [Next]_vars
<1> SUFFICES ASSUME [LoopNext]_allVars PROVE [Next]_vars
  OBVIOUS
<1>1. CASE timer_notify \/ Ended \/ InvokeTimer \/ UNCHANGED allVars
  BY <1>1 DEF timer_notify, Ended, InvokeTimer, allVars
<1>2. CASE \E w \in Watchers : IoStart(w) \/ IoStop(w)
  BY <1>2 DEF IoStart, IoStop, Next
<1>3. CASE IoOther
  BY <1>3 DEF IoOther, Next
<1>4. CASE \E t \in Timers : TimerStart(t) \/ TimerStop(t)
  BY <1>4 DEF TimerStart, TimerStop
<1>5. CASE LoopIteration \/ LoopUpdate
  BY <1>5 DEF LoopIteration, LoopUpdate, Next
<1>6. CASE LoopPoll
  BY <1>6 DEF LoopPoll, Next
<1> QED
  BY <1>1, <1>2, <1>3, <1>4, <1>5, <1>6 DEF LoopNext

(* There are finitely many watchers of either kind. *)
LEMMA Counts ==
    ASSUME IndInv
    PROVE  IsFiniteSet(active) /\ Cardinality(active) \in Nat /\ Cardinality(Live(timers)) \in Nat
<1>1. IsFiniteSet(Watchers)
  <2>1. Watchers = {"READ"} \cup {"WRITE"}
    BY DEF Watchers
  <2> QED
    BY <2>1, FS_Singleton, FS_AddElement
<1>2. active \in SUBSET Watchers
  BY DEF IndInv, TypeOK
<1> QED
  BY <1>1, <1>2, FS_Subset, FS_CardinalityType, LiveIs

(* A step that leaves the timers and their histories alone. *)
LEMMA TimersAlone ==
    ASSUME TimerInv, UNCHANGED <<timers, removed, early>>, now' \in Nat,
           activecnt' \in Int, notifying' => Due(timers, now'),
           ~timers.crashed => activecnt' = Cardinality(active') + Cardinality(Live(timers))
    PROVE  TimerInv'
  BY DEF TimerInv, Good, Known, Live, Agree, Cached, ActiveCountExact, NeverEarly, InHeap, Due, top

(* io_watcher_start counts one more. *)
LEMMA IoStartTimers ==
    ASSUME IndInv, TimerInv, ~notifying, NEW w \in Watchers, IoStart(w) PROVE TimerInv'
<1>1. /\ active' = active \cup {w} /\ w \notin active /\ activecnt' = activecnt + 1
      /\ UNCHANGED <<timers, now, notifying, removed, early>>
  BY DEF IoStart, Start, Enabled
<1>2. Cardinality(active') = Cardinality(active) + 1
  BY <1>1, Counts, FS_AddElement
<1>3. activecnt' \in Int /\ now' \in Nat
  BY <1>1 DEF TimerInv
<1>4. ~timers.crashed => activecnt' = Cardinality(active') + Cardinality(Live(timers))
  BY <1>1, <1>2, Counts DEF TimerInv, ActiveCountExact, InHeap
<1> QED
  BY <1>1, <1>3, <1>4, TimersAlone

(* io_watcher_stop counts one less. *)
LEMMA IoStopTimers ==
    ASSUME IndInv, TimerInv, ~notifying, NEW w \in Watchers, IoStop(w) PROVE TimerInv'
<1>1. /\ active' = active \ {w} /\ w \in active /\ activecnt' = activecnt - 1
      /\ UNCHANGED <<timers, now, notifying, removed, early>>
  BY DEF IoStop, Stop, Disabled
<1>2. Cardinality(active') = Cardinality(active) - 1
  BY <1>1, Counts, FS_RemoveElement
<1>3. activecnt' \in Int /\ now' \in Nat
  BY <1>1 DEF TimerInv
<1>4. ~timers.crashed => activecnt' = Cardinality(active') + Cardinality(Live(timers))
  BY <1>1, <1>2, Counts DEF TimerInv, ActiveCountExact, InHeap
<1> QED
  BY <1>1, <1>3, <1>4, TimersAlone

(* Neither count changes. *)
LEMMA CountsAlone ==
    ASSUME TimerInv, UNCHANGED <<active, timers, activecnt, removed, early>>,
           now' \in Nat, notifying' => Due(timers, now')
    PROVE  TimerInv'
<1>1. activecnt' \in Int
  BY DEF TimerInv
<1>2. ~timers.crashed => activecnt' = Cardinality(active') + Cardinality(Live(timers))
  BY DEF TimerInv, ActiveCountExact, InHeap
<1> QED
  BY <1>1, <1>2, TimersAlone

(* Callbacks that start and stop nothing, and the next iteration. *)
LEMMA QuietTimers ==
    ASSUME IndInv, TimerInv, ~notifying, IoOther \/ InvokeTimer \/ LoopIteration PROVE TimerInv'
<1>1. UNCHANGED <<active, timers, now, activecnt, notifying, removed, early>>
  BY DEF IoOther, InvokeTimer, LoopIteration, Close, Reopen, Invoke, NextIteration, tvars, vars
<1> QED
  BY <1>1, CountsAlone DEF TimerInv

(* kill_fd stops every watcher of the fd, or update_fd stops none. *)
LEMMA UpdateTimers ==
    ASSUME IndInv, TimerInv, ~notifying, LoopUpdate PROVE TimerInv'
<1>1. /\ active' = active \/ active' = {}
      /\ activecnt' = activecnt - Cardinality(active \ active')
      /\ UNCHANGED <<timers, now, notifying, removed, early>>
  BY DEF LoopUpdate, UpdateUnchanged, UpdateNone, UpdateSome, Control, Kill
<1>2. Cardinality(active \ active') = Cardinality(active) - Cardinality(active')
  <2>1. CASE active' = active
    <3>1. active \ active' = {}
      BY <2>1
    <3> QED
      BY <2>1, <3>1, FS_EmptySet, Counts
  <2>2. CASE active' = {}
    <3>1. active \ active' = active
      BY <2>2
    <3> QED
      BY <2>2, <3>1, FS_EmptySet, Counts
  <2> QED
    BY <1>1, <2>1, <2>2
<1>3. Cardinality(active') \in Nat
  BY <1>1, Counts, FS_EmptySet
<1>4. activecnt' \in Int /\ now' \in Nat
  BY <1>1, <1>2, <1>3, Counts DEF TimerInv
<1>5. ~timers.crashed => activecnt' = Cardinality(active') + Cardinality(Live(timers))
  BY <1>1, <1>2, <1>3, Counts DEF TimerInv, ActiveCountExact, InHeap
<1> QED
  BY <1>1, <1>4, <1>5, TimersAlone

(* After the poll timer_notify enters its loop if the top timer is due. *)
LEMMA PollTimers ==
    ASSUME IndInv, TimerInv, ~notifying, LoopPoll PROVE TimerInv'
<1>1. PICK t \in now .. (IF timed THEN MaxTime ELSE now) :
         now' = t /\ (PollNothing \/ PollEvent) /\ notifying' = Due(timers, t)
  BY DEF LoopPoll
<1>2. UNCHANGED <<active, timers, activecnt, removed, early>>
  BY <1>1 DEF LoopPoll, PollNothing, PollEvent
<1>3. now' \in Nat
  <2>1. now \in Nat /\ MaxTime \in Nat
    BY LoopAssumption DEF TimerInv
  <2> QED
    BY <1>1, <2>1
<1> QED
  BY <1>1, <1>2, <1>3, CountsAlone

(* A step of a timer: the heap is again as it should be, and the count     *)
(* follows the timers in it.                                               *)
LEMMA TimersChange ==
    ASSUME IndInv, TimerInv, UNCHANGED active, now' \in Nat, activecnt' \in Int,
           ~timers.crashed, NEW d \in Int, activecnt' = activecnt + d,
           timers'.crashed \/ /\ Good(timers', Known')
                              /\ Cardinality(Live(timers')) = Cardinality(Live(timers)) + d,
           ~early', notifying' => Due(timers', now')
    PROVE  TimerInv'
<1>1. activecnt = Cardinality(active) + Cardinality(Live(timers))
  BY DEF TimerInv, ActiveCountExact, InHeap
<1>2. Cardinality(active) \in Nat /\ Cardinality(Live(timers)) \in Nat
  BY Counts
<1>3. ~timers'.crashed => activecnt' = Cardinality(active') + Cardinality(Live(timers'))
  BY <1>1, <1>2
<1>4. ActiveCountExact' /\ NeverEarly'
  BY <1>3 DEF ActiveCountExact, NeverEarly, InHeap
<1> QED
  BY <1>4 DEF TimerInv

(* timer_watcher_start, with or without timer_watcher_init. *)
LEMMA TimerStartTimers ==
    ASSUME IndInv, TimerInv, ~notifying, ~timers.crashed, NEW t \in Timers, TimerStart(t)
    PROVE  TimerInv'
<1>1. /\ timers.active[t] = 0 /\ activecnt' = activecnt + 1
      /\ UNCHANGED <<active, now, notifying, removed, early>>
  BY DEF TimerStart, Enabled, vars
<1>2. Good(timers, Known) /\ timers \in Heaps /\ now \in Nat /\ activecnt \in Int
  BY DEF TimerInv, Good
<1>3. ASSUME NEW after \in Int
      PROVE  Good(Started(t, after), Known) /\ Live(Started(t, after)) = Live(timers) \cup {t}
  <2>1. PICK v \in Int : v = after + now
    BY <1>2
  <2>2. Started(t, after) = StartedAt(timers, t, v)
    BY <2>1 DEF Started, StartedAt
  <2> QED
    BY <1>1, <1>2, <2>2, StartGood
<1>4. Good(timers', Known) /\ Live(timers') = Live(timers) \cup {t}
  <2>1. CASE timers' = Started(t, timers.at[t])
    <3>1. timers.at[t] \in Int
      BY <1>2 DEF Heaps
    <3> QED
      BY <1>3, <2>1, <3>1
  <2>2. ASSUME NEW after \in Afters, NEW repeat \in Repeats,
               timers' = [Started(t, after) EXCEPT !.repeat[t] = repeat]
        PROVE  Good(timers', Known) /\ Live(timers') = Live(timers) \cup {t}
    <3>1. PICK s : s = Started(t, after)
      OBVIOUS
    <3>2. after \in Int /\ repeat \in Nat
      BY LoopAssumption
    <3>3. Good(s, Known) /\ Live(s) = Live(timers) \cup {t}
      BY <1>3, <3>1, <3>2
    <3>4. s \in Heaps
      BY <3>3 DEF Good
    <3>5. /\ timers' \in Heaps /\ timers'.slot = s.slot /\ timers'.active = s.active
          /\ timers'.size = s.size /\ timers'.at = s.at /\ timers'.crashed = s.crashed
      BY <2>2, <3>1, <3>2, <3>4 DEF Heaps
    <3>6. Agree(timers', timers'.size) /\ Cached(timers', Known) /\ Live(timers') = Live(s)
      BY <3>3, <3>5 DEF Good, Agree, Cached, Live
    <3> QED
      BY <3>3, <3>5, <3>6 DEF Good
  <2> QED
    BY <2>1, <2>2 DEF TimerStart
<1>5. Cardinality(Live(timers')) = Cardinality(Live(timers)) + 1
  <2>1. t \notin Live(timers)
    BY <1>1 DEF Live
  <2> QED
    BY <1>4, <2>1, LiveIs, FS_AddElement
<1>6. Known' = Known
  BY <1>1 DEF Known
<1>7. ~early'
  BY <1>1 DEF TimerInv, NeverEarly
<1>8. Good(timers', Known')
  BY <1>4, <1>6
<1> QED
  BY <1>1, <1>2, <1>5, <1>7, <1>8, TimersChange

(* Stopping a timer of the heap takes it out and counts one less, or ends  *)
(* the program.                                                            *)
LEMMA StopTimerIs ==
    ASSUME TimerInv, ~timers.crashed, NEW t \in Live(timers)
    PROVE  LET s == StopTimer(timers, t, activecnt) IN
           /\ s.cnt = activecnt - 1
           /\ s.heap.crashed \/ /\ Good(s.heap, {})
                                /\ Cardinality(Live(s.heap)) = Cardinality(Live(timers)) + (-1)
<1>1. Good(timers, {}) /\ now \in Int
  BY DEF TimerInv, Good, Cached
<1>2. PICK r : r = Stopped(timers, t, now)
  OBVIOUS
<1>4. r.crashed \/ (Good(r, {}) /\ Live(r) = Live(timers) \ {t})
  BY <1>1, <1>2, StopGood
<1>5. StopTimer(timers, t, activecnt) = [heap |-> r, cnt |-> activecnt - 1]
  BY <1>2 DEF StopTimer, Stopped
<1>6. Cardinality(Live(timers) \ {t}) = Cardinality(Live(timers)) + (-1)
  BY LiveIs, FS_RemoveElement
<1> QED
  BY <1>4, <1>5, <1>6

(* timer_watcher_stop, also of a timer whose callback is pending. *)
LEMMA TimerStopTimers ==
    ASSUME IndInv, TimerInv, ~notifying, ~timers.crashed, NEW t \in Timers, TimerStop(t)
    PROVE  TimerInv'
<1>1. UNCHANGED <<active, now, notifying, early>>
  BY DEF TimerStop, vars
<1>2. now \in Nat /\ activecnt \in Int
  BY DEF TimerInv
<1>3. CASE UNCHANGED <<timers, activecnt, removed>>
  BY <1>1, <1>2, <1>3, CountsAlone
<1>4. CASE /\ timers.active[t] # 0
           /\ timers' = StopTimer(timers, t, activecnt).heap
           /\ activecnt' = StopTimer(timers, t, activecnt).cnt /\ removed' = TRUE
  <2>1. t \in Live(timers)
    BY <1>4 DEF Live
  <2>2. Known' = {}
    BY <1>4 DEF Known
  <2>3. activecnt' = activecnt + (-1)
    BY <1>2, <1>4, <2>1, StopTimerIs
  <2>4. timers'.crashed \/ /\ Good(timers', Known')
                           /\ Cardinality(Live(timers')) = Cardinality(Live(timers)) + (-1)
    BY <1>4, <2>1, <2>2, StopTimerIs
  <2>5. ~early'
    BY <1>1 DEF TimerInv, NeverEarly
  <2> QED
    BY <1>1, <1>2, <1>4, <2>3, <2>4, <2>5, TimersChange
<1> QED
  BY <1>3, <1>4 DEF TimerStop

(* One turn of timer_notify: while every cached time is right, the timer   *)
(* at the top is due.                                                      *)
LEMMA NotifyTimers ==
    ASSUME IndInv, TimerInv, ~timers.crashed, timer_notify PROVE TimerInv'
<1>1. PICK et : et = top(timers).wt
  OBVIOUS
<1>2. /\ notifying /\ early' = (early \/ (~removed /\ timers.at[et] >= now))
      /\ notifying' = Due(timers', now)
      /\ UNCHANGED <<active, now>>
  BY <1>1 DEF timer_notify, vars
<1>3. /\ Good(timers, Known) /\ timers \in Heaps /\ now \in Nat /\ activecnt \in Int
      /\ timers.size \in Nat /\ timers.size > 0 /\ timers.slot[0].cache_at < now
      /\ timers.slot[0].wt = et
  <2>1. Good(timers, Known) /\ timers \in Heaps /\ now \in Nat /\ activecnt \in Int
    BY DEF TimerInv, Good
  <2>2. timers.size > 0 /\ timers.slot[0].cache_at < now /\ timers.slot[0].wt = et
    BY <1>1, <1>2 DEF TimerInv, Due, top
  <2>3. timers.size \in Nat
    BY <2>1, CardTimers DEF Heaps
  <2> QED
    BY <2>1, <2>2, <2>3
<1>4. 0 \in 0 .. (timers.size - 1)
  BY <1>3
<1>5. et \in Timers /\ et \in Live(timers)
  BY <1>3, <1>4 DEF Good, Agree, Live
<1>6. ~early'
  <2> SUFFICES ASSUME ~removed PROVE ~(timers.at[et] >= now)
    BY <1>2 DEF TimerInv, NeverEarly
  <2>1. timers.slot[0].cache_at = timers.at[et]
    BY <1>3, <1>4, <1>5 DEF Good, Cached, Known
  <2>2. timers.at[et] \in Int
    BY <1>3, <1>5 DEF Heaps
  <2> QED
    BY <1>3, <2>1, <2>2
<1>7. CASE /\ timers.repeat[et] # 0 /\ timers' = Rearmed(timers, et, now)
           /\ UNCHANGED <<activecnt, removed>>
  <2>1. PICK v \in Int : v = IF timers.at[et] + timers.repeat[et] < now THEN now
                             ELSE timers.at[et] + timers.repeat[et]
    <3>1. timers.at[et] \in Int /\ timers.repeat[et] \in Int
      BY <1>3, <1>5 DEF Heaps
    <3> QED
      BY <1>3, <3>1
  <2>3. timers' = RearmedTo(timers, v)
    BY <1>3, <1>7, <2>1 DEF Rearmed, RearmedTo
  <2>4. Good(timers', Known) /\ Live(timers') = Live(timers)
    BY <1>3, <2>3, RearmGood
  <2>5. Known' = Known
    BY <1>7 DEF Known
  <2>6. Cardinality(Live(timers')) = Cardinality(Live(timers)) + 0 /\ activecnt' = activecnt + 0
    BY <1>3, <1>7, <2>4, LiveIs
  <2> QED
    BY <1>2, <1>3, <1>6, <1>7, <2>4, <2>5, <2>6, TimersChange
<1>8. CASE /\ timers' = StopTimer(timers, et, activecnt).heap
           /\ activecnt' = StopTimer(timers, et, activecnt).cnt /\ removed' = TRUE
  <2>1. Known' = {}
    BY <1>8 DEF Known
  <2>2. activecnt' = activecnt + (-1)
    BY <1>3, <1>5, <1>8, StopTimerIs
  <2>3. timers'.crashed \/ /\ Good(timers', Known')
                           /\ Cardinality(Live(timers')) = Cardinality(Live(timers)) + (-1)
    BY <1>5, <1>8, <2>1, StopTimerIs
  <2> QED
    BY <1>2, <1>3, <1>6, <1>8, <2>2, <2>3, TimersChange
<1> QED
  BY <1>1, <1>7, <1>8 DEF timer_notify

-----------------------------------------------------------------------------
(* A new loop has an empty heap. *)
LEMMA LoopInitInv == LoopInit => LoopInv
<1> SUFFICES ASSUME LoopInit PROVE LoopInv
  OBVIOUS
<1>1. IndInv
  BY InitIndInv DEF LoopInit
<1>2. /\ timers = EmptyHeap /\ now = 1 /\ activecnt = 0 /\ removed = FALSE /\ early = FALSE
      /\ notifying = FALSE /\ active = {}
  BY DEF LoopInit, Init
<1>3. /\ timers \in Heaps /\ timers.size = 0 /\ ~timers.crashed
      /\ \A t \in Timers : timers.active[t] = 0
  BY <1>2, CardTimers DEF EmptyHeap, Heaps, Entries
<1>4. Live(timers) = {} /\ Cardinality({}) = 0
  BY <1>3, FS_EmptySet DEF Live
<1>5. Good(timers, Known)
  BY <1>3, <1>4 DEF Good, Agree, Cached
<1>6. ActiveCountExact /\ NeverEarly
  BY <1>2, <1>4 DEF ActiveCountExact, NeverEarly, InHeap
<1>7. TimerInv
  BY <1>2, <1>5, <1>6 DEF TimerInv
<1> QED
  BY <1>1, <1>7, InvParts

(* LoopInv is an inductive invariant of the loop with timers. *)
THEOREM LoopInvariance == LoopSpec => []LoopInv
<1>1. LoopInit => LoopInv
  BY LoopInitInv
<1>2. LoopInv /\ [LoopNext]_allVars => LoopInv'
  <2> SUFFICES ASSUME LoopInv, [LoopNext]_allVars PROVE LoopInv'
    OBVIOUS
  <2>1. IndInv /\ TimerInv
    BY InvParts
  <2>2. IndInv'
    BY <2>1, LoopNextIsNext, NextInv
  <2> SUFFICES TimerInv'
    <3>1. (LoopInv <=> IndInv /\ TimerInv)'
      BY InvParts, PTL
    <3> QED
      BY <2>2, <3>1
  <2>3. CASE ~timers.crashed /\ timer_notify
    BY <2>1, <2>3, NotifyTimers
  <2>4. CASE ~timers.crashed /\ ~notifying /\ \E w \in Watchers : IoStart(w) \/ IoStop(w)
    BY <2>1, <2>4, IoStartTimers, IoStopTimers
  <2>5. CASE ~notifying /\ (IoOther \/ InvokeTimer \/ LoopIteration)
    BY <2>1, <2>5, QuietTimers
  <2>6. CASE ~timers.crashed /\ ~notifying /\ \E t \in Timers : TimerStart(t) \/ TimerStop(t)
    BY <2>1, <2>6, TimerStartTimers, TimerStopTimers
  <2>7. CASE ~notifying /\ (LoopUpdate \/ LoopPoll)
    BY <2>1, <2>7, UpdateTimers, PollTimers
  <2>8. CASE UNCHANGED allVars
    <3>1. UNCHANGED <<active, timers, now, activecnt, notifying, removed, early>>
      BY <2>8 DEF allVars, vars, tvars
    <3> QED
      BY <2>1, <3>1, CountsAlone DEF TimerInv
  <2> QED
    BY <2>3, <2>4, <2>5, <2>6, <2>7, <2>8 DEF LoopNext, Ended
<1> QED
  BY <1>1, <1>2, PTL DEF LoopSpec

(* Whatever order timers are started, stopped, notified and moved in, a    *)
(* started timer knows its place in the heap, and the heap holds the       *)
(* started timers and no other.                                            *)
THEOREM TimersKnowTheirPlace == LoopSpec => []HeapPositions
<1>1. LoopInv => HeapPositions
  <2> SUFFICES ASSUME LoopInv, ~timers.crashed, NEW t \in InHeap
               PROVE  /\ timers.size = Cardinality(InHeap)
                      /\ timers.active[t] <= timers.size
                      /\ timers.slot[timers.active[t] - 1].wt = t
    BY DEF HeapPositions, LoopInv
  <2>1. timers \in Heaps /\ Agree(timers, timers.size) /\ timers.size = Cardinality(InHeap)
    BY DEF LoopInv
  <2>2. t \in Timers /\ timers.active[t] # 0
    BY DEF InHeap, Live
  <2>3. timers.active[t] \in 1 .. timers.size /\ timers.slot[timers.active[t] - 1].wt = t
    BY <2>1, <2>2 DEF Agree
  <2> QED
    BY <2>1, <2>3
<1> QED
  BY <1>1, LoopInvariance, PTL

(* activecnt is the number of started watchers of both kinds: dispatch()   *)
(* neither returns while one is left nor sleeps for none.                  *)
THEOREM StartedWatchersCounted == LoopSpec => []ActiveCountExact
<1>1. LoopInv => ActiveCountExact
  BY DEF LoopInv
<1> QED
  BY <1>1, LoopInvariance, PTL

(* No timer, one-shot or repeating, is notified before it is due, up to    *)
(* and including the first one that is taken from the heap.                *)
THEOREM TimersNotEarly == LoopSpec => []NeverEarly
<1>1. LoopInv => NeverEarly
  BY DEF LoopInv
<1> QED
  BY <1>1, LoopInvariance, PTL

(* The loop with timers is a loop over epoll: what is proved of the latter *)
(* holds of it.                                                            *)
THEOREM LoopIsEvLoop == LoopSpec => Spec
<1>1. LoopInit => Init
  BY DEF LoopInit
<1> QED
  BY <1>1, LoopNextIsNext, PTL DEF LoopSpec, Spec

(* With timers too no live event is taken for a spurious one, no wanted    *)
(* event is missed before the first hang-up, and no stopped watcher gets   *)
(* an event.                                                               *)
THEOREM LoopKeepsEvents == LoopSpec => [](TagMatches /\ NothingMissed /\ NoCallbackAfterStop)
  BY LoopIsEvLoop, LiveEventsRecognised, WantedEventsWatched, StoppedWatchersGetNoEvents, PTL
=============================================================================
