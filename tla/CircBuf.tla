------------------------------ MODULE CircBuf ------------------------------
(***************************************************************************)
(* The multi-producer multi-consumer ring of circbuf.h together with the   *)
(* polling wait strategies of wait_strategy.h.                             *)
(*                                                                         *)
(* A producer claims a sequence number with take() or poll(), writes the   *)
(* task into the slot through operator[], and calls publish().  A consumer *)
(* claims a sequence number through a wait strategy, moves the task out    *)
(* and calls consumer_done().  Every action below is at most one access to *)
(* a shared location, so TLC explores every interleaving of the accesses   *)
(* of the threads.  The build target is x86-64, where the fences and the   *)
(* locked instructions of the code leave no reordering visible between     *)
(* them (see README).                                                      *)
(*                                                                         *)
(* "in" stands for in_ when Production = "MULTI" and for single_in_ when   *)
(* Production = "SINGLE": the code uses exactly one of the two.            *)
(***************************************************************************)
EXTENDS Integers

CONSTANTS
    Producers,          \* threads that call take()/poll() and publish()
    Consumers,          \* threads that call get_locality() and consumer_done()
    Size,               \* size_
    Production,         \* productionStrategy_: "SINGLE" or "MULTI"
    TimeoutConsumers,   \* consumers that use timeout_wait_strategy
    NoblockConsumers,   \* consumers that use noblock_wait_strategy
    SpuriousCas,        \* may compare_exchange_weak fail on equal values?
    MaxSeq              \* bound: no producer call starts once in >= MaxSeq

ASSUME SizeAssumption == Size \in Nat /\ Size >= 2

ASSUME ThreadAssumption ==
    /\ Producers \cap Consumers = {}
    /\ TimeoutConsumers \subseteq Consumers
    /\ NoblockConsumers \subseteq Consumers
    /\ TimeoutConsumers \cap NoblockConsumers = {}

ASSUME ProductionAssumption ==
    /\ Production \in {"SINGLE", "MULTI"}
    /\ Production = "SINGLE" => \A p, q \in Producers : p = q

ASSUME BoundAssumption == MaxSeq \in Nat /\ SpuriousCas \in BOOLEAN

VARIABLES
    in, out,                \* in_ (or single_in_) and out_
    cache_in, cache_out,    \* cache_in_ and cache_out_
    isFree, task,           \* buffer_[i].isFree_ and buffer_[i].task_
    pc,                     \* where each thread is
    next,                   \* the local variable next (current = next - 1)
    tmp,                    \* the register an index is loaded into
    call,                   \* take() or poll(), per producer
    start                   \* history: "in" when the consumer's call began

shared == <<in, out, cache_in, cache_out, isFree, task>>
vars   == <<in, out, cache_in, cache_out, isFree, task, pc, next, tmp, call, start>>

Threads == Producers \cup Consumers
Slots   == 0 .. (Size - 1)
Indices == Nat \cup {-1}
NoTask  == -1                     \* a slot never filled, or moved from

Idx(seq) == seq % Size

Goto(t, l) == pc' = [pc EXCEPT ![t] = l]

(* A call returns: its local variable goes out of scope. *)
Return(t) == Goto(t, "idle") /\ next' = [next EXCEPT ![t] = -1]

(* The constructor: the indices start at -1, every slot is free. *)
Init ==
    /\ in = -1 /\ out = -1 /\ cache_in = -1 /\ cache_out = -1
    /\ isFree = [i \in Slots |-> TRUE]
    /\ task = [i \in Slots |-> NoTask]
    /\ pc = [t \in Threads |-> "idle"]
    /\ next = [t \in Threads |-> -1]
    /\ tmp = [t \in Threads |-> -1]
    /\ call = [p \in Producers |-> "take"]
    /\ start = [c \in Consumers |-> -1]

-----------------------------------------------------------------------------
(* take() and poll(): mutil_producer_next and single_producer_next.        *)

PBegin(p) ==
    /\ pc[p] = "idle" /\ in < MaxSeq
    /\ \E m \in {"take", "poll"} : call' = [call EXCEPT ![p] = m]
    /\ Goto(p, "load")
    /\ UNCHANGED <<shared, next, tmp, start>>

(* current = in_.load(); next = current + 1 *)
PLoad(p) ==
    /\ pc[p] = "load"
    /\ next' = [next EXCEPT ![p] = in + 1]
    /\ Goto(p, "chkOut")
    /\ UNCHANGED <<shared, tmp, call, start>>

(* rollback_round > get_cache_out(): the slot may still be a lap behind. *)
PCheckOut(p) ==
    /\ pc[p] = "chkOut"
    /\ Goto(p, IF next[p] - Size > cache_out THEN "updLoad" ELSE "chkFree")
    /\ UNCHANGED <<shared, next, tmp, call, start>>

(* Mutant: the test of the slot's flag is dropped. *)
PCheckFreeAlways(p) ==
    /\ pc[p] = "chkFree"
    /\ Goto(p, "claim")
    /\ UNCHANGED <<shared, next, tmp, call, start>>

(* || !is_free(next) *)
PCheckFree(p) ==
    /\ pc[p] = "chkFree"
    /\ Goto(p, IF isFree[Idx(next[p])] THEN "claim" ELSE "updLoad")
    /\ UNCHANGED <<shared, next, tmp, call, start>>

(* Mutant: the claim is a plain store, as if there were one producer. *)
PClaimByStore(p) ==
    /\ pc[p] = "claim"
    /\ in' = next[p]
    /\ Goto(p, "fill")
    /\ UNCHANGED <<out, cache_in, cache_out, isFree, task, next, tmp, call, start>>

(* The weak compare-and-swap of in_ (a failure loops and reloads), or the  *)
(* plain store single_in_ = next of the single producer.                   *)
PClaim(p) ==
    /\ pc[p] = "claim"
    /\ \/ /\ Production = "SINGLE" \/ in = next[p] - 1
          /\ in' = next[p]
          /\ Goto(p, "fill")
       \/ /\ Production = "MULTI"
          /\ in # next[p] - 1 \/ SpuriousCas
          /\ Goto(p, "load")
          /\ UNCHANGED in
    /\ UNCHANGED <<out, cache_in, cache_out, isFree, task, next, tmp, call, start>>

(* update_cache_out(): out_.load() into a register ... *)
PUpdateLoad(p) ==
    /\ pc[p] = "updLoad"
    /\ tmp' = [tmp EXCEPT ![p] = out]
    /\ Goto(p, "updStore")
    /\ UNCHANGED <<shared, next, call, start>>

(* What follows a failed test: poll() returns -1; take() yields and tries  *)
(* again (the single producer does not reload its index).                  *)
Retry(p) ==
    \/ call[p] = "poll" /\ Return(p)
    \/ call[p] = "take" /\ UNCHANGED next
       /\ Goto(p, IF Production = "SINGLE" THEN "chkOut" ELSE "load")

(* Mutant: the retry never refreshes cache_out_. *)
PUpdateStoreDropped(p) ==
    /\ pc[p] = "updStore"
    /\ tmp' = [tmp EXCEPT ![p] = -1]
    /\ Retry(p)
    /\ UNCHANGED <<in, out, cache_in, cache_out, isFree, task, call, start>>

(* ... and from there into cache_out_, which may move it backwards. *)
PUpdateStore(p) ==
    /\ pc[p] = "updStore"
    /\ cache_out' = tmp[p]
    /\ tmp' = [tmp EXCEPT ![p] = -1]
    /\ Retry(p)
    /\ UNCHANGED <<in, out, cache_in, isFree, task, call, start>>

(* The caller writes the task through operator[].  A task is identified by *)
(* the sequence number it was claimed under.                               *)
PFill(p) ==
    /\ pc[p] = "fill"
    /\ task' = [task EXCEPT ![Idx(next[p])] = next[p]]
    /\ Goto(p, "publish")
    /\ UNCHANGED <<in, out, cache_in, cache_out, isFree, next, tmp, call, start>>

PPublish(p) ==
    /\ pc[p] = "publish"
    /\ isFree' = [isFree EXCEPT ![Idx(next[p])] = FALSE]
    /\ Return(p)
    /\ UNCHANGED <<in, out, cache_in, cache_out, task, tmp, call, start>>

-----------------------------------------------------------------------------
(* wait_for of the yield_sleep, timeout and noblock strategies.            *)

CBegin(c) ==
    /\ pc[c] = "idle"
    /\ start' = [start EXCEPT ![c] = in]
    /\ Goto(c, "load")
    /\ UNCHANGED <<shared, next, tmp, call>>

(* current_out = out_.load(); next = current_out + 1 *)
CLoad(c) ==
    /\ pc[c] = "load"
    /\ next' = [next EXCEPT ![c] = out + 1]
    /\ Goto(c, "chkIn")
    /\ UNCHANGED <<shared, tmp, call, start>>

(* next > get_in(): nothing claimed as far as the cached index tells. *)
CCheckIn(c) ==
    /\ pc[c] = "chkIn"
    /\ Goto(c, IF next[c] > cache_in THEN "updLoad" ELSE "chkFree")
    /\ UNCHANGED <<shared, next, tmp, call, start>>

(* Mutant: a claimed slot is taken before it was published. *)
CCheckFreeNever(c) ==
    /\ pc[c] = "chkFree"
    /\ Goto(c, "claim")
    /\ UNCHANGED <<shared, next, tmp, call, start>>

(* || is_free(next): claimed by a producer but not published yet. *)
CCheckFree(c) ==
    /\ pc[c] = "chkFree"
    /\ Goto(c, IF isFree[Idx(next[c])] THEN "updLoad" ELSE "claim")
    /\ UNCHANGED <<shared, next, tmp, call, start>>

(* Mutant: the claim is a plain store, as if there were one consumer. *)
CClaimByStore(c) ==
    /\ pc[c] = "claim"
    /\ out' = next[c]
    /\ Goto(c, "use")
    /\ UNCHANGED <<in, cache_in, cache_out, isFree, task, next, tmp, call, start>>

(* out_.compare_exchange_weak(current_out, next): a failure leaves the     *)
(* current value of out_ in current_out, and the tests are repeated.       *)
CClaim(c) ==
    /\ pc[c] = "claim"
    /\ \/ /\ out = next[c] - 1
          /\ out' = next[c]
          /\ Goto(c, "use")
          /\ UNCHANGED next
       \/ /\ out # next[c] - 1 \/ SpuriousCas
          /\ next' = [next EXCEPT ![c] = out + 1]
          /\ Goto(c, "chkIn")
          /\ UNCHANGED out
    /\ UNCHANGED <<in, cache_in, cache_out, isFree, task, tmp, call, start>>

(* update_cache_in(): load, then store. *)
CUpdateLoad(c) ==
    /\ pc[c] = "updLoad"
    /\ tmp' = [tmp EXCEPT ![c] = in]
    /\ Goto(c, "updStore")
    /\ UNCHANGED <<shared, next, call, start>>

(* Mutant: cache_in_ is never refreshed. *)
CUpdateStoreDropped(c) ==
    /\ pc[c] = "updStore"
    /\ tmp' = [tmp EXCEPT ![c] = -1]
    /\ Goto(c, "wait")
    /\ UNCHANGED <<shared, next, call, start>>

CUpdateStore(c) ==
    /\ pc[c] = "updStore"
    /\ cache_in' = tmp[c]
    /\ tmp' = [tmp EXCEPT ![c] = -1]
    /\ Goto(c, "wait")
    /\ UNCHANGED <<in, out, cache_out, isFree, task, next, call, start>>

(* apply_wait_method: yield or sleep and look again; past its deadline the *)
(* timeout strategy returns -1.                                            *)
CWait(c) ==
    /\ pc[c] = "wait" /\ c \notin NoblockConsumers
    /\ \/ Goto(c, "load") /\ UNCHANGED next
       \/ c \in TimeoutConsumers /\ Return(c)
    /\ UNCHANGED <<shared, tmp, call, start>>

(* The noblock strategy does not wait but evaluates in_ == out_, whose two *)
(* loads C++ may order either way; this is the first of them.              *)
CIsEmptyFirst(c) ==
    /\ pc[c] = "wait" /\ c \in NoblockConsumers
    /\ \/ Goto(c, "emptyOut") /\ tmp' = [tmp EXCEPT ![c] = in]
       \/ Goto(c, "emptyIn") /\ tmp' = [tmp EXCEPT ![c] = out]
    /\ UNCHANGED <<shared, next, call, start>>

(* Mutant: the cached index is compared with out_. *)
CIsEmptyCached(c) ==
    /\ \/ pc[c] = "emptyOut"
          /\ \/ tmp[c] = out /\ Return(c)
             \/ tmp[c] # out /\ Goto(c, "load") /\ UNCHANGED next
       \/ pc[c] = "emptyIn"
          /\ \/ tmp[c] = cache_in /\ Return(c)
             \/ tmp[c] # cache_in /\ Goto(c, "load") /\ UNCHANGED next
    /\ tmp' = [tmp EXCEPT ![c] = -1]
    /\ UNCHANGED <<shared, call, start>>

(* The second load of is_empty(): return -1 when equal, else look again. *)
CIsEmptySecond(c) ==
    /\ \/ pc[c] = "emptyOut"
          /\ \/ tmp[c] = out /\ Return(c)
             \/ tmp[c] # out /\ Goto(c, "load") /\ UNCHANGED next
       \/ pc[c] = "emptyIn"
          /\ \/ tmp[c] = in /\ Return(c)
             \/ tmp[c] # in /\ Goto(c, "load") /\ UNCHANGED next
    /\ tmp' = [tmp EXCEPT ![c] = -1]
    /\ UNCHANGED <<shared, call, start>>

(* ob = std::move(buffer_[seq & mask_].task_) *)
CUse(c) ==
    /\ pc[c] = "use"
    /\ task' = [task EXCEPT ![Idx(next[c])] = NoTask]
    /\ Goto(c, "done")
    /\ UNCHANGED <<in, out, cache_in, cache_out, isFree, next, tmp, call, start>>

(* consumer_done(seq) *)
CDone(c) ==
    /\ pc[c] = "done"
    /\ isFree' = [isFree EXCEPT ![Idx(next[c])] = TRUE]
    /\ Return(c)
    /\ UNCHANGED <<in, out, cache_in, cache_out, task, tmp, call, start>>

-----------------------------------------------------------------------------
PStep(p) ==
    \/ PLoad(p) \/ PCheckOut(p) \/ PCheckFree(p) \/ PClaim(p)
    \/ PUpdateLoad(p) \/ PUpdateStore(p) \/ PFill(p) \/ PPublish(p)

CStep(c) ==
    \/ CBegin(c) \/ CLoad(c) \/ CCheckIn(c) \/ CCheckFree(c) \/ CClaim(c)
    \/ CUpdateLoad(c) \/ CUpdateStore(c) \/ CWait(c)
    \/ CIsEmptyFirst(c) \/ CIsEmptySecond(c) \/ CUse(c) \/ CDone(c)

Next ==
    \/ \E p \in Producers : PBegin(p) \/ PStep(p)
    \/ \E c \in Consumers : CStep(c)

Spec == Init /\ [][Next]_vars

(* The operating system schedules every thread; consumers call again and   *)
(* again (worker threads loop), producers call when they have something.   *)
Fairness ==
    /\ \A p \in Producers : WF_vars(PStep(p))
    /\ \A c \in Consumers : WF_vars(CStep(c))

FairSpec == Spec /\ Fairness

-----------------------------------------------------------------------------
ProducerLoop  == {"chkOut", "chkFree", "claim", "updLoad", "updStore"}
ProducerHolds == {"fill", "publish"}
ConsumerLoop  == {"chkIn", "chkFree", "claim", "updLoad", "updStore", "wait",
                  "emptyOut", "emptyIn"}
ConsumerHolds == {"use", "done"}
ProducerLabels == {"idle", "load"} \cup ProducerLoop \cup ProducerHolds
ConsumerLabels == {"idle", "load"} \cup ConsumerLoop \cup ConsumerHolds

PHolds(p) == pc[p] \in ProducerHolds
CHolds(c) == pc[c] \in ConsumerHolds

(* Type invariant. *)
TypeOK ==
    /\ in \in Indices /\ out \in Indices
    /\ cache_in \in Indices /\ cache_out \in Indices
    /\ isFree \in [Slots -> BOOLEAN]
    /\ task \in [Slots -> Indices]
    /\ pc \in [Threads -> ProducerLabels \cup ConsumerLabels]
    /\ \A p \in Producers : pc[p] \in ProducerLabels
    /\ \A c \in Consumers : pc[c] \in ConsumerLabels
    /\ next \in [Threads -> Indices]
    /\ tmp \in [Threads -> Indices]
    /\ call \in [Producers -> {"take", "poll"}]
    /\ start \in [Consumers -> Indices]

(* No data race on a slot: between a claim and the publish() or            *)
(* consumer_done() that ends it, no other thread owns the same slot.       *)
SlotExclusive ==
    /\ \A p, q \in Producers :
          PHolds(p) /\ PHolds(q) /\ p # q => Idx(next[p]) # Idx(next[q])
    /\ \A c, d \in Consumers :
          CHolds(c) /\ CHolds(d) /\ c # d => Idx(next[c]) # Idx(next[d])
    /\ \A p \in Producers, c \in Consumers :
          PHolds(p) /\ CHolds(c) => Idx(next[p]) # Idx(next[c])

(* The three assert()s of circbuf.h: the slot is free when a producer      *)
(* leaves the claim loop and still when it publishes; it is taken when a   *)
(* consumer hands it back.                                                 *)
AssertsHold ==
    /\ \A p \in Producers : PHolds(p) => isFree[Idx(next[p])]
    /\ \A c \in Consumers : CHolds(c) => ~isFree[Idx(next[c])]

(* A consumer that claimed a sequence number finds the very task that was  *)
(* published under it: not an older lap's, not a later one's, not an       *)
(* unfilled or moved-from slot.                                            *)
ReadsOwnTask ==
    \A c \in Consumers : pc[c] = "use" => task[Idx(next[c])] = next[c]

(* No task is lost: a sequence number that was claimed and not yet         *)
(* consumed is either still being filled or lies published in its slot.    *)
NoTaskLost ==
    \A s \in (out + 1) .. in :
        \/ \E p \in Producers : PHolds(p) /\ next[p] = s
        \/ ~isFree[Idx(s)] /\ task[Idx(s)] = s

(* The inductive invariant.  The indices never cross nor get more than a   *)
(* lap apart, and the cached copies only lag behind (they may move         *)
(* backwards).                                                             *)
IndexInv ==
    /\ out <= in /\ in <= out + Size
    /\ cache_out <= out /\ cache_in <= in

(* What a producer has learnt stays true until it acts on it: a sequence   *)
(* number that passed the lap test stays within a lap of out, a slot seen  *)
(* free stays free as long as in_ has not moved.                           *)
ProducerInv ==
    \A p \in Producers :
        /\ pc[p] \in ProducerLoop => 0 <= next[p] /\ next[p] <= in + 1
        /\ pc[p] \in ProducerLoop /\ Production = "SINGLE" => next[p] = in + 1
        /\ pc[p] \in {"chkFree", "claim"} => next[p] <= out + Size
        /\ pc[p] = "claim" /\ in = next[p] - 1 => isFree[Idx(next[p])]
        /\ pc[p] = "updStore" => tmp[p] <= out
        /\ PHolds(p) => out < next[p] /\ next[p] <= in /\ isFree[Idx(next[p])]
        /\ pc[p] = "publish" => task[Idx(next[p])] = next[p]

(* The same for a consumer, with the part of is_empty() between its loads. *)
ConsumerInv ==
    \A c \in Consumers :
        /\ pc[c] # "idle" => start[c] <= in
        /\ pc[c] \in ConsumerLoop => 0 <= next[c] /\ next[c] <= out + 1
        /\ pc[c] \in {"chkFree", "claim"} => next[c] <= in
        /\ pc[c] = "claim" /\ out = next[c] - 1 => ~isFree[Idx(next[c])]
        /\ pc[c] = "updStore" => tmp[c] <= in
        /\ pc[c] = "emptyOut" => start[c] <= tmp[c] /\ tmp[c] <= in
        /\ pc[c] = "emptyIn" => tmp[c] <= out
        /\ CHolds(c) => 0 <= next[c] /\ in < next[c] + Size /\ next[c] <= out
                        /\ ~isFree[Idx(next[c])]
        /\ pc[c] = "use" => task[Idx(next[c])] = next[c]

(* Every sequence number has at most one claimant on either side. *)
ClaimedOnce ==
    /\ \A p, q \in Producers :
          PHolds(p) /\ PHolds(q) /\ next[p] = next[q] => p = q
    /\ \A c, d \in Consumers :
          CHolds(c) /\ CHolds(d) /\ next[c] = next[d] => c = d

(* The invariant that is preserved by every step. *)
IndInv ==
    /\ TypeOK
    /\ IndexInv
    /\ ProducerInv
    /\ ConsumerInv
    /\ ClaimedOnce
    /\ NoTaskLost

(* A noblock get that returns -1 overlooked nothing: whatever was claimed  *)
(* when the call began has been claimed by some consumer.  The response    *)
(* callback of the event loop stops draining on this answer.               *)
NoblockMissesNothing ==
    [][\A c \in Consumers :
          c \in NoblockConsumers /\ ~CHolds(c) /\ pc[c] # "idle" /\ pc'[c] = "idle"
             => out >= start[c]]_vars

(* The ring implements the ticket queue of RingSpec: holding a slot is     *)
(* owning its ticket, and a ticket is ready from publish() on.             *)
Holds(t) == pc[t] \in ProducerHolds \cup ConsumerHolds
Owner == [t \in Producers \cup Consumers |-> IF Holds(t) THEN next[t] ELSE -1]
Ready == {s \in (out + 1) .. in : \A p \in Producers : PHolds(p) => next[p] # s}

Ring == INSTANCE RingSpec WITH ready <- Ready, owner <- Owner

(* Every behaviour of the lock-free code, seen through that mapping, is a  *)
(* behaviour of the ticket queue: FIFO, exactly once, at most Size tickets *)
(* outstanding.                                                            *)
ImplementsRing == Ring!Spec

(* Whatever is claimed is eventually consumed. *)
EventuallyConsumed == \A s \in 0 .. MaxSeq : in >= s ~> out >= s

(* A blocking take() eventually gets a slot, also after the ring was full. *)
TakeReturns ==
    \A p \in Producers : pc[p] = "load" /\ call[p] = "take" ~> pc[p] = "fill"
=============================================================================
