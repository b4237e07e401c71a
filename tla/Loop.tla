-------------------------------- MODULE Loop --------------------------------
(***************************************************************************)
(* One ev_loop with both kinds of watchers: the file descriptor of EvLoop  *)
(* and timers in the heap of TimerHeap.  The two meet in activecnt, which  *)
(* decides whether dispatch() sleeps and whether it returns, in the time   *)
(* it sleeps, and in the order of one iteration: update_fd, time_update,   *)
(* poll, time_update, timer_notify, invoke_pendings.  A program whose      *)
(* dispatch() returned may start watchers and call it again.               *)
(***************************************************************************)
EXTENDS EvLoop, TimerHeap, Sequences, SequencesExt

CONSTANTS
    Afters, Repeats,    \* arguments of timer_watcher_init
    MaxTime,            \* bound: the clock does not pass it
    MaxStarts           \* bound: watchers a program with timers starts

ASSUME LoopAssumption ==
    Afters \subseteq Nat /\ Repeats \subseteq Nat /\ MaxTime \in Nat /\ MaxStarts \in Nat

VARIABLES
    timers,         \* timer_heap and the fields of the ev_timers
    now,            \* mn_time_now
    activecnt,      \* activecnt
    timed,          \* does the program use timers, or sockets only?
    starts,         \* watchers a program with timers started so far
    notifying,      \* is timer_notify in its loop?
    fired,          \* timers among the pendings, in the order they will run
    removed,        \* history: some timer was taken from the heap
    early           \* history: a timer was notified before it was due, though
                    \* none had been taken from the heap until then

tvars == <<timers, now, activecnt, timed, starts, notifying, fired, removed, early>>
allVars == <<vars, tvars>>

LoopInit ==
    /\ Init
    /\ timers = EmptyHeap /\ now = 1 /\ activecnt = 0
    /\ timed \in BOOLEAN /\ starts = 0
    /\ notifying = FALSE /\ fired = <<>> /\ removed = FALSE /\ early = FALSE

InHeap == Live(timers)

-----------------------------------------------------------------------------
(* What callbacks, and the program between dispatches, do.                 *)

(* watcher_enable and watcher_disable. *)
Enabled == activecnt' = activecnt + 1
Disabled == activecnt' = activecnt - 1

(* The bound on the starts of a program with timers. *)
Counted ==
    /\ UNCHANGED timed
    /\ \/ ~timed /\ UNCHANGED starts
       \/ timed /\ starts < MaxStarts /\ starts' = starts + 1

IoStart(w) == Start(w) /\ Enabled /\ Counted /\ UNCHANGED <<timers, now, notifying, fired, removed, early>>
IoStop(w) == Stop(w) /\ Disabled /\ UNCHANGED <<timers, now, timed, starts, notifying, fired, removed, early>>
IoOther ==
    /\ Close \/ Reopen \/ \E w \in Watchers : Invoke(w)
    /\ UNCHANGED tvars

(* Mutant: the time the timer was given is not cached in its slot. *)
StartedUncached(t, after) ==
    push([timers EXCEPT !.at[t] = after + now, !.active[t] = 0], t)

(* timer_watcher_start. *)
Started(t, after) ==
    LET h == push([timers EXCEPT !.at[t] = after + now, !.active[t] = 0], t)
    IN  HEAP_CACHE_AT(h, h.active[t] - 1)

(* timer_watcher_init, if the program calls it, then timer_watcher_start,  *)
(* for a timer that is neither active nor about to be called.              *)
TimerStart(t) ==
    /\ phase = "invoke" /\ timers.active[t] = 0 /\ ~Contains(fired, t)
    /\ timed /\ Counted
    /\ \/ timers' = Started(t, timers.at[t])
       \/ \E after \in Afters, repeat \in Repeats :
             timers' = [Started(t, after) EXCEPT !.repeat[t] = repeat]
    /\ Enabled
    /\ UNCHANGED <<vars, now, notifying, fired, removed, early>>

(* Mutant: the time left is kept, but the timer stays counted. *)
StopTimerUncounted(h, t, cnt) ==
    [heap |-> [remove(h, h.active[t] - 1) EXCEPT !.at[t] = @ - now, !.active[t] = 0],
     cnt |-> cnt]

(* timer_watcher_stop after clear_pending, of an active timer. *)
StopTimer(h, t, cnt) ==
    [heap |-> [remove(h, h.active[t] - 1) EXCEPT !.at[t] = @ - now, !.active[t] = 0],
     cnt |-> cnt - 1]

TimerStop(t) ==
    /\ phase = "invoke"
    /\ LET s == StopTimer(timers, t, activecnt) IN
       \/ /\ timers.active[t] # 0
          /\ timers' = s.heap /\ activecnt' = s.cnt /\ removed' = TRUE
       \/ /\ timers.active[t] = 0 /\ Contains(fired, t)
          /\ UNCHANGED <<timers, activecnt, removed>>
    /\ fired' = SelectSeq(fired, LAMBDA u : u # t)
    /\ UNCHANGED <<vars, now, timed, starts, notifying, early>>

(* invoke_pendings reaches a timer: the entries were fed in reverse and    *)
(* are taken from the end.                                                 *)
InvokeTimer ==
    /\ phase = "invoke" /\ fired # <<>>
    /\ fired' = Tail(fired)
    /\ UNCHANGED <<vars, timers, now, activecnt, timed, starts, notifying, removed, early>>

(* The next iteration, or the next call of dispatch(): update_fd. *)
LoopIteration == NextIteration /\ fired = <<>> /\ UNCHANGED tvars

LoopUpdate ==
    /\ UpdateUnchanged \/ UpdateNone \/ UpdateSome
    /\ activecnt' = activecnt - Cardinality(active \ active')
    /\ UNCHANGED <<timers, now, timed, starts, notifying, fired, removed, early>>

-----------------------------------------------------------------------------
(* timer_notify.                                                           *)

Due(h, t) == h.size > 0 /\ ~h.crashed /\ top(h).cache_at < t

(* A repeating timer is moved on by its period, but not into the past. *)
Rearmed(h, et, t) ==
    LET next == h.at[et] + h.repeat[et]
    IN  shift_down(HEAP_CACHE_AT([h EXCEPT !.at[et] = IF next < t THEN t ELSE next], 0), 0)

(* One turn of its loop, for the timer at the top; no callback runs until  *)
(* the loop is over.  A timer met twice is called once, in its later place.*)
timer_notify ==
    LET et == top(timers).wt
        s  == StopTimer(timers, et, activecnt)
    IN  /\ notifying
        /\ \/ /\ timers.repeat[et] # 0
              /\ timers' = Rearmed(timers, et, now) /\ UNCHANGED <<activecnt, removed>>
           \/ /\ timers.repeat[et] = 0
              /\ timers' = s.heap /\ activecnt' = s.cnt /\ removed' = TRUE
        /\ fired' = Append(SelectSeq(fired, LAMBDA u : u # et), et)
        /\ early' = (early \/ (~removed /\ timers.at[et] >= now))
        /\ notifying' = Due(timers', now)
        /\ UNCHANGED <<vars, now, timed, starts>>

(* The timeout dispatch() passes to backend_poll; its limit of a minute is *)
(* beyond the bound.                                                       *)
Timeout ==
    IF activecnt # 0 /\ timers.size > 0 /\ top(timers).cache_at > now
    THEN top(timers).cache_at - now ELSE 0

(* The poll ends with the timeout, before it with an error of epoll_wait   *)
(* (EINTR, or one that is logged), or with an event; then time_update, and *)
(* timer_notify looks at the top of the heap.                              *)
LoopPoll ==
    \E t \in now .. (IF timed THEN MaxTime ELSE now) :
        /\ now' = t
        /\ \/ PollNothing /\ t >= now + Timeout
           \/ PollNothing /\ t < now + Timeout
           \/ PollEvent
        /\ notifying' = Due(timers, t)
    /\ UNCHANGED <<timers, activecnt, timed, starts, fired, removed, early>>

-----------------------------------------------------------------------------
(* Writing through a null timer ends the program; the model also ends when *)
(* the loop sleeps past the bound of the clock.                            *)
Ended ==
    /\ timers.crashed \/ (phase = "poll" /\ now + Timeout > MaxTime)
    /\ UNCHANGED allVars

LoopNext ==
    \/ ~timers.crashed /\ timer_notify
    \/ /\ ~timers.crashed /\ ~notifying
       /\ \/ \E w \in Watchers : IoStart(w) \/ IoStop(w)
          \/ IoOther
          \/ \E t \in Timers : TimerStart(t) \/ TimerStop(t)
          \/ InvokeTimer \/ LoopIteration \/ LoopUpdate \/ LoopPoll
    \/ Ended

LoopSpec == LoopInit /\ [][LoopNext]_allVars

-----------------------------------------------------------------------------
(* The index kept in a started timer is its place in the heap, and the     *)
(* heap holds the started timers and no other, whatever order timers are   *)
(* started, stopped, notified and moved in; timer_watcher_stop relies on   *)
(* it to remove the right one.                                             *)
HeapPositions ==
    ~timers.crashed =>
        /\ timers.size = Cardinality(InHeap)
        /\ \A t \in InHeap :
              timers.active[t] <= timers.size /\ timers.slot[timers.active[t] - 1].wt = t

(* activecnt counts the started watchers of both kinds, also after kill_fd *)
(* stopped some and after one-shot timers stopped themselves: dispatch()   *)
(* neither returns while one is left nor sleeps for none.                  *)
ActiveCountExact ==
    ~timers.crashed => activecnt = Cardinality(active) + Cardinality(InHeap)

(* No timer, one-shot or repeating, is notified before it is due, up to    *)
(* and including the first that is taken from the heap: the one that takes *)
(* its slot inherits its cached time.                                      *)
NeverEarly == ~early

(* The inductive invariant: that of EvLoop; heap and timers agree until    *)
(* the program crashes; and the cached times are right until a timer is    *)
(* taken from the heap.                                                    *)
LoopInv ==
    /\ IndInv /\ now \in Nat /\ activecnt \in Int
    /\ ~timers.crashed =>
          /\ timers \in Heaps /\ Agree(timers, timers.size)
          /\ timers.size = Cardinality(InHeap)
          /\ removed \/ Cached(timers, Timers)
    /\ ActiveCountExact /\ NeverEarly
    /\ notifying => Due(timers, now)
=============================================================================
