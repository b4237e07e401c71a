----------------------------- MODULE TimerHeap -----------------------------
(***************************************************************************)
(* The timer heap of 4-minheap-internal.h: a quad_minheap of slots, each a *)
(* timer with a cached copy of the time it is due.  A heap value holds     *)
(* what the code keeps in the array and in the timers themselves; slots    *)
(* beyond size keep what was last stored in them.                          *)
(***************************************************************************)
EXTENDS Integers, FiniteSets

CONSTANTS
    Timers,         \* the ev_timer objects of the program
    DHEAD           \* the arity of the heap (4 in the code)

nullptr == "nullptr"

ASSUME HeapAssumption ==
    IsFiniteSet(Timers) /\ nullptr \notin Timers /\ DHEAD \in Nat \ {0}

Slots == 0 .. (Cardinality(Timers) - 1)

(* quad_minheap() and new timers: the array value-initialises its slots. *)
EmptyHeap ==
    [slot |-> [i \in Slots |-> [wt |-> nullptr, cache_at |-> 0]], size |-> 0,
     active |-> [t \in Timers |-> 0], at |-> [t \in Timers |-> 0],
     repeat |-> [t \in Timers |-> 0], crashed |-> FALSE]

Parent(p) == (p - 1) \div DHEAD
Children(h, p) == {c \in (DHEAD * p + 1) .. (DHEAD * p + DHEAD) : c < h.size}

(* heap[p] = e and HEAP_WATCHER_ACTIVE(heap[p]) = p + 1; a null timer is   *)
(* written through.                                                        *)
Place(h, p, e) ==
    IF e.wt = nullptr THEN [h EXCEPT !.slot[p] = e, !.crashed = TRUE]
    ELSE [h EXCEPT !.slot[p] = e, !.active[e.wt] = p + 1]

(* One turn of the loop of shift_up, which carries bak; where the loop     *)
(* breaks, a turn changes nothing.                                         *)
Lift(s, bak) ==
    IF s.pos = 0 \/ s.heap.slot[Parent(s.pos)].cache_at < bak.cache_at THEN s
    ELSE [heap |-> Place(s.heap, s.pos, s.heap.slot[Parent(s.pos)]), pos |-> Parent(s.pos)]

(* The state of the loop after n turns. *)
Lifting(h, p) ==
    LET turn[n \in Nat] ==
          IF n = 0 THEN [heap |-> h, pos |-> p] ELSE Lift(turn[n - 1], h.slot[p])
    IN  turn

(* A loop over the heap is over after as many turns as there are slots. *)
shift_up(h, p) ==
    LET s == Lifting(h, p)[Cardinality(Timers)] IN Place(s.heap, s.pos, h.slot[p])

(* The first of the children with the least cached time: what both the     *)
(* comparison of four children and that of fewer arrive at.                *)
LeastChild(h, p) ==
    CHOOSE c \in Children(h, p) : \A d \in Children(h, p) :
        \/ h.slot[c].cache_at < h.slot[d].cache_at
        \/ h.slot[c].cache_at = h.slot[d].cache_at /\ c <= d

(* Mutant: a child that moves up keeps its old index. *)
SinkForgetsActive(s, bak) ==
    LET c == LeastChild(s.heap, s.pos) IN
    IF Children(s.heap, s.pos) = {} \/ bak.cache_at < s.heap.slot[c].cache_at THEN s
    ELSE [heap |-> [s.heap EXCEPT !.slot[s.pos] = s.heap.slot[c]], pos |-> c]

(* One turn of the loop of shift_down. *)
Sink(s, bak) ==
    LET c == LeastChild(s.heap, s.pos) IN
    IF Children(s.heap, s.pos) = {} \/ bak.cache_at < s.heap.slot[c].cache_at THEN s
    ELSE [heap |-> Place(s.heap, s.pos, s.heap.slot[c]), pos |-> c]

Sinking(h, p) ==
    LET turn[n \in Nat] ==
          IF n = 0 THEN [heap |-> h, pos |-> p] ELSE Sink(turn[n - 1], h.slot[p])
    IN  turn

shift_down(h, p) ==
    LET s == Sinking(h, p)[Cardinality(Timers)] IN Place(s.heap, s.pos, h.slot[p])

adjust(h, p) ==
    IF p # 0 /\ h.slot[p].cache_at < h.slot[Parent(p)].cache_at
    THEN shift_up(h, p) ELSE shift_down(h, p)

(* The new timer rises by the time last cached in the slot it starts from. *)
push(h, t) ==
    LET lifted == shift_up([h EXCEPT !.slot[h.size].wt = t], h.size)
    IN  [lifted EXCEPT !.size = h.size + 1]

(* The last timer takes the place of the removed one, but not its cached   *)
(* time; when the two are the same, the slot is left with a null timer.    *)
remove(h, p) ==
    IF p < 0 \/ p >= h.size THEN h
    ELSE LET moved == [h EXCEPT !.active[h.slot[p].wt] = 0,
                                !.slot[p].wt = h.slot[h.size - 1].wt]
         IN  adjust([moved EXCEPT !.slot[h.size - 1].wt = nullptr, !.size = h.size - 1], p)

top(h) == h.slot[0]
HEAP_CACHE_AT(h, p) == [h EXCEPT !.slot[p].cache_at = h.at[h.slot[p].wt]]

-----------------------------------------------------------------------------
(* What a heap is made of, and what holds of it between two operations.    *)

Entries == [wt : Timers \cup {nullptr}, cache_at : Int]

Heaps == [slot : [Slots -> Entries], size : 0 .. Cardinality(Timers),
          active : [Timers -> 0 .. Cardinality(Timers)], at : [Timers -> Int],
          repeat : [Timers -> Nat], crashed : BOOLEAN]

Live(h) == {t \in Timers : h.active[t] # 0}

(* The first n slots hold timers that know where they are, and no others   *)
(* are live.                                                               *)
Agree(h, n) ==
    /\ \A i \in 0 .. (n - 1) : h.slot[i].wt \in Timers /\ h.active[h.slot[i].wt] = i + 1
    /\ \A t \in Timers : h.active[t] # 0 =>
          h.active[t] \in 1 .. n /\ h.slot[h.active[t] - 1].wt = t

(* The cached times of the timers of X are those of the timers. *)
Cached(h, X) ==
    \A i \in 0 .. (h.size - 1) : h.slot[i].wt \in X => h.slot[i].cache_at = h.at[h.slot[i].wt]
=============================================================================
