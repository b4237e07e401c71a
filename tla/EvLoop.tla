------------------------------- MODULE EvLoop -------------------------------
(***************************************************************************)
(* The event loop of ev_loop.h/.cpp over epoll (ev_epoll.cpp), for one     *)
(* file descriptor with a read watcher and a write watcher.  Callbacks     *)
(* start and stop watchers, close the descriptor and see it reopened; the  *)
(* loop brings the kernel's registration up to date lazily: it never       *)
(* deletes one, and tells live events from spurious ones by a tag.         *)
(***************************************************************************)
EXTENDS Integers

CONSTANTS
    TagMod,         \* number of values of the tag (2^32 in the code)
    CtlMayFail,     \* may epoll_ctl fail for want of kernel resources?
    Hangups         \* may the kernel report EPOLLHUP or EPOLLERR?

ASSUME TagAssumption == TagMod \in Nat /\ TagMod >= 2
ASSUME KernelAssumption == CtlMayFail \in BOOLEAN /\ Hangups \in BOOLEAN

VARIABLES
    active,         \* the started watchers (the list at ev_fd.head)
    events,         \* ev_fd.events
    ischanged,      \* ev_fd.ischanged; also: the fd is in fdchanges
    previous,       \* ev_fd.previous_evs
    tag,            \* ev_fd.tag
    pending,        \* of each watcher: {}, or {mask} if its callback is pending
    kernel,         \* what epoll has registered: {} or one [mask, tag]
    isOpen,         \* is the descriptor open?
    phase,          \* of dispatch(): "update", "poll" or "invoke"
    hung            \* history: a hang-up was reported since the fd was opened

vars == <<active, events, ischanged, previous, tag, pending, kernel, isOpen, phase, hung>>
evfd == <<events, previous, tag>>

Watchers == {"READ", "WRITE"}       \* a watcher is named by its event mask
ERROR == "ERROR"                    \* EV_ERROR

Init ==
    /\ active = {} /\ events = {} /\ ischanged = FALSE
    /\ previous = {} /\ tag = 0
    /\ pending = [w \in Watchers |-> {}]
    /\ kernel = {} /\ isOpen = TRUE /\ phase = "invoke" /\ hung = FALSE

-----------------------------------------------------------------------------
(* What callbacks do. *)

(* fd_change: into fdchanges, once. *)
FdChange == ischanged' = TRUE

(* ev_pending.events is a short, and EV_ERROR (0x80000000) has no bit in it. *)
Short(mask) == mask \ {ERROR}

(* feed_event: the events are added to those of a watcher that is pending. *)
FeedEvent(entry, mask) == {Short((UNION entry) \cup mask)}

(* clear_pending: a dummy takes the watcher's place among the pendings. *)
ClearPending(w) == pending' = [pending EXCEPT ![w] = {}]

(* io_watcher_start; on an active watcher it returns at once. *)
Start(w) ==
    /\ phase = "invoke" /\ isOpen /\ w \notin active
    /\ active' = active \cup {w}
    /\ FdChange
    /\ UNCHANGED <<evfd, pending, kernel, isOpen, phase, hung>>

(* Mutant: the pending event of a stopped watcher is not cleared. *)
StopKeepsPending(w) ==
    /\ phase = "invoke" /\ w \in active
    /\ active' = active \ {w}
    /\ FdChange
    /\ UNCHANGED <<evfd, pending, kernel, isOpen, phase, hung>>

(* io_watcher_stop: clear_pending, leave the list, fd_change. *)
Stop(w) ==
    /\ phase = "invoke" /\ w \in active
    /\ ClearPending(w)
    /\ active' = active \ {w}
    /\ FdChange
    /\ UNCHANGED <<evfd, kernel, isOpen, phase, hung>>

(* close(fd) by a callback that stopped its watchers; the kernel forgets   *)
(* the registration.                                                       *)
Close ==
    /\ phase = "invoke" /\ isOpen /\ active = {}
    /\ isOpen' = FALSE /\ kernel' = {}
    /\ UNCHANGED <<active, evfd, ischanged, pending, phase, hung>>

(* accept() returns the same number for a new connection. *)
Reopen ==
    /\ ~isOpen
    /\ isOpen' = TRUE /\ hung' = FALSE
    /\ UNCHANGED <<active, evfd, ischanged, pending, kernel, phase>>

(* invoke_pendings calls a pending callback. *)
Invoke(w) ==
    /\ phase = "invoke" /\ pending[w] # {}
    /\ pending' = [pending EXCEPT ![w] = {}]
    /\ UNCHANGED <<active, evfd, ischanged, kernel, isOpen, phase, hung>>

(* No callback is left: the next iteration of dispatch(). *)
NextIteration ==
    /\ phase = "invoke" /\ \A w \in Watchers : pending[w] = {}
    /\ phase' = "update"
    /\ UNCHANGED <<active, evfd, ischanged, pending, kernel, isOpen, hung>>

-----------------------------------------------------------------------------
(* update_fd and backend_modify.                                           *)

(* ++tag, an unsigned 32-bit counter. *)
NextTag == (tag + 1) % TagMod
Register(mask, t) == {[mask |-> mask, tag |-> t]}

(* kill_fd: stop all watchers, feed them EV_ERROR, close the descriptor.   *)
(* What is left of EV_ERROR is a callback without any event.  The stops    *)
(* put the fd back into fdchanges, and update_fd then sees an empty list.  *)
Kill ==
    /\ pending' = [w \in Watchers |->
                     IF w \in active THEN FeedEvent({}, {ERROR}) ELSE pending[w]]
    /\ active' = {} /\ events' = {}
    /\ isOpen' = FALSE /\ kernel' = {}
    /\ UNCHANGED tag

(* Mutant: the tag is not taken back when nothing was registered. *)
ExistsTagKept ==
    IF previous = active
    THEN tag' = NextTag /\ UNCHANGED kernel
    ELSE tag' = NextTag /\ kernel' = Register(active, NextTag)

(* ADD answered EEXIST (a delete was ignored): nothing to do if the mask   *)
(* is the one recorded, otherwise MOD.                                     *)
Exists ==
    IF previous = active
    THEN UNCHANGED <<tag, kernel>>
    ELSE tag' = NextTag /\ kernel' = Register(active, NextTag)

(* epoll_ctl with MOD if the mask changed from a non-empty one, else ADD;  *)
(* ENOENT from MOD is followed by ADD, which then succeeds.                *)
Control ==
    LET mod == events # {} /\ active # events IN
    /\ \/ ~mod /\ kernel # {} /\ Exists
       \/ /\ mod \/ kernel = {}
          /\ tag' = NextTag /\ kernel' = Register(active, NextTag)
    /\ events' = active
    /\ UNCHANGED <<active, pending, isOpen>>

UpdateUnchanged ==
    /\ phase = "update" /\ ~ischanged
    /\ phase' = "poll"
    /\ UNCHANGED <<active, evfd, ischanged, pending, kernel, isOpen, hung>>

(* newev = 0: backend_modify ignores the deletion. *)
UpdateNone ==
    /\ phase = "update" /\ ischanged /\ active = {}
    /\ events' = {} /\ ischanged' = FALSE /\ phase' = "poll"
    /\ UNCHANGED <<active, previous, tag, pending, kernel, isOpen, hung>>

(* Mutant: a changed watcher set is only passed on when fd had no events. *)
UpdateSomeLazy ==
    /\ phase = "update" /\ ischanged /\ active # {}
    /\ IF events = {}
       THEN previous' = active /\ Control
       ELSE events' = active /\ UNCHANGED <<previous, tag, kernel, active, pending, isOpen>>
    /\ ischanged' = FALSE /\ phase' = "poll"
    /\ UNCHANGED hung

UpdateSome ==
    /\ phase = "update" /\ ischanged /\ active # {}
    /\ previous' = active
    /\ Control \/ (CtlMayFail /\ Kill)
    /\ ischanged' = FALSE /\ phase' = "poll"
    /\ UNCHANGED hung

-----------------------------------------------------------------------------
(* backend_poll.                                                           *)

(* EPOLLHUP and EPOLLERR count as both events. *)
Got(mask, ready, hup) == IF hup THEN Watchers ELSE mask \cap ready

(* Want in epoll's terms, as lines 147-148 compute it: READ and WRITE are  *)
(* exchanged.                                                              *)
Exchanged(want) ==
    {IF e = "READ" THEN "WRITE" ELSE "READ" : e \in want}

PollNothing ==
    /\ phase = "poll"
    /\ phase' = "invoke"
    /\ UNCHANGED <<active, evfd, ischanged, pending, kernel, isOpen, hung>>

(* feed_fd_event: every watcher of the fd that wants one of the events     *)
(* becomes pending for it, unless the fd changed meanwhile.                *)
Feed(got) ==
    pending' = [w \in Watchers |->
                  IF w \in active \cap got /\ ~ischanged
                  THEN FeedEvent(pending[w], {w}) ELSE pending[w]]

(* An event nobody wants modifies or deletes the registration r. *)
Unwanted(r) ==
    /\ previous' = events
    /\ kernel' = IF events = {} THEN {} ELSE Register(Exchanged(events), r.tag)

(* One event for the fd: a stale tag is skipped, then the watchers are fed *)
(* unless the epoll_ctl for an unwanted event failed.                      *)
PollEvent ==
    /\ phase = "poll"
    /\ \E r \in kernel, ready \in SUBSET Watchers, hup \in {FALSE, Hangups} :
        LET got == Got(r.mask, ready, hup) IN
        /\ got # {}
        /\ hung' = (hung \/ hup)
        /\ IF r.tag # tag
           THEN UNCHANGED <<previous, kernel, pending>>
           ELSE \/ /\ \/ got \subseteq events /\ UNCHANGED <<previous, kernel>>
                      \/ ~(got \subseteq events) /\ Unwanted(r)
                   /\ Feed(got)
                \/ /\ CtlMayFail /\ ~(got \subseteq events)
                   /\ previous' = events
                   /\ UNCHANGED <<kernel, pending>>
    /\ phase' = "invoke"
    /\ UNCHANGED <<active, events, tag, ischanged, isOpen>>

-----------------------------------------------------------------------------
Next ==
    \/ \E w \in Watchers : Start(w) \/ Stop(w) \/ Invoke(w)
    \/ Close \/ Reopen \/ NextIteration
    \/ UpdateUnchanged \/ UpdateNone \/ UpdateSome
    \/ PollNothing \/ PollEvent

Spec == Init /\ [][Next]_vars

-----------------------------------------------------------------------------
(* Of a watcher: not pending, or pending for some events, perhaps none. *)
PendingEntries == {{}} \cup {{mask} : mask \in SUBSET Watchers}

(* Type invariant; epoll holds at most one registration of the fd. *)
TypeOK ==
    /\ active \subseteq Watchers /\ events \subseteq Watchers
    /\ previous \subseteq Watchers
    /\ ischanged \in BOOLEAN /\ isOpen \in BOOLEAN /\ hung \in BOOLEAN
    /\ tag \in 0 .. (TagMod - 1)
    /\ pending \in [Watchers -> PendingEntries]
    /\ kernel \subseteq [mask : SUBSET Watchers, tag : 0 .. (TagMod - 1)]
    /\ \A r, s \in kernel : r = s
    /\ phase \in {"update", "poll", "invoke"}

(* The tag of the loop is the tag the kernel returns, whatever path of     *)
(* backend_modify was taken: no live event is mistaken for a spurious one. *)
TagMatches == \A r \in kernel : r.tag = tag

(* When the loop goes to sleep the kernel watches for everything some      *)
(* active watcher wants: no event is missed.  Until a hang-up is reported  *)
(* (see PreviousRecorded).                                                 *)
NothingMissed ==
    phase = "poll" /\ active # {} /\ ~hung =>
        \E r \in kernel : active \subseteq r.mask

(* No event is delivered to a watcher that was stopped: its callback is    *)
(* not pending, unless kill_fd stopped it, and then it runs without any    *)
(* event.  The loop never waits with a callback pending from an earlier    *)
(* round of events.                                                        *)
NoCallbackAfterStop ==
    /\ \A w \in Watchers : w \notin active => pending[w] \in {{}, {{}}}
    /\ phase = "update" => \A w \in Watchers : pending[w] = {}

(* An fd that is not in fdchanges is as backend_modify left it: its        *)
(* eventmask is that of its watchers, and epoll has a registration if      *)
(* there are any.  No phase after update_fd finds it in fdchanges.         *)
Reified ==
    /\ phase = "poll" => ~ischanged
    /\ ~ischanged => active = events /\ (events # {} => kernel # {})

(* A closed descriptor has neither a registration nor watchers. *)
ClosedIdle == ~isOpen => kernel = {} /\ active = {}

(* Until a hang-up is reported, the mask epoll holds is the one of the fd  *)
(* and the recorded one, unless the fd has no events (a deletion is        *)
(* ignored) or the record was emptied by a failed epoll_ctl.               *)
MaskKnown ==
    ~hung => \A r \in kernel : /\ r.mask = events \/ events = {}
                               /\ r.mask = previous \/ previous = {}

(* The inductive invariant behind TagMatches, NothingMissed and            *)
(* NoCallbackAfterStop.                                                    *)
IndInv ==
    TypeOK /\ TagMatches /\ NoCallbackAfterStop /\ Reified /\ ClosedIdle /\ MaskKnown

(* ev_epoll.cpp on previous_evs: it "record[s] the old eventmask", and     *)
(* after EEXIST "if the olded is the same as the newev, we assume it       *)
(* hasn't changed".  So previous_evs is the mask the kernel has.           *)
PreviousRecorded == \A r \in kernel : r.mask = previous
=============================================================================
