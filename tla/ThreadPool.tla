----------------------------- MODULE ThreadPool -----------------------------
(***************************************************************************)
(* The worker pool of thread_pool.h: event loops submit tasks through a    *)
(* ring, workers take and run them; the pool grows when a poll of the ring *)
(* fails, shrinks when a worker above the core size times out, and is      *)
(* stopped by finish tokens sent through the same ring.                    *)
(*                                                                         *)
(* The ring is the ticket queue of RingSpec together with cache_out_,      *)
(* because poll() fails on the cached index (circbuf.h).  A worker hands   *)
(* its slot back only after the task has run; the slot of a finish token   *)
(* is never handed back.                                                   *)
(***************************************************************************)
EXTENDS Integers, FiniteSets

CONSTANTS
    Submitters,         \* threads that submit tasks (the event loops)
    WorkerIds,          \* names for the live worker threads
    Core, MaxPool,      \* corePoolSize_ and maxPoolSize_ as the constructor leaves them
    Size,               \* size of the task ring
    Destroyed,          \* is the pool ever shut down?
    MaxSeq              \* bound: no new submission once in >= MaxSeq

ASSUME PoolAssumption ==
    /\ Core \in Nat \ {0} /\ MaxPool \in Nat /\ MaxPool >= Core
    /\ IsFiniteSet(WorkerIds) /\ Cardinality(WorkerIds) = MaxPool
    /\ Size \in Nat /\ Size >= 2
    /\ Destroyed \in BOOLEAN /\ MaxSeq \in Nat

VARIABLES
    in, out, cacheOut,      \* in_, out_ and cache_out_ of the ring
    ready,                  \* tickets published and not taken
    held,                   \* tickets taken and never or not yet handed back
    finish,                 \* tickets whose isFinish_ is set
    spc, sseq,              \* each submitter: where it is, the ticket it fills
    wpc, wi, wseq,          \* each worker: where it is, its i, the ticket it runs
    poolSize, workers,      \* poolSize_ and workers_.size()
    isStop, locked,         \* isStop_, and mlock_ held by shutdown()
    dpc, left, dseq,        \* the destroying thread, tokens still to send, its ticket
    ran                     \* history: the tickets whose task was run

ring   == <<in, out, cacheOut, ready, held, finish>>
submit == <<spc, sseq>>
work   == <<wpc, wi, wseq>>
pool   == <<poolSize, workers>>
stop   == <<isStop, locked, dpc, left, dseq>>
vars   == <<ring, submit, work, pool, stop, ran>>

Live == {w \in WorkerIds : wpc[w] # "none"}

(* The constructor, then start(), which adds Core threads i = 0 .. Core-1 *)
(* before any submitter exists.                                           *)
Init ==
    /\ in = -1 /\ out = -1 /\ cacheOut = -1
    /\ ready = {} /\ held = {} /\ finish = {}
    /\ spc = [s \in Submitters |-> "idle"] /\ sseq = [s \in Submitters |-> -1]
    /\ LET first == CHOOSE f \in [0 .. (Core - 1) -> WorkerIds] :
                      \A i, j \in 0 .. (Core - 1) : f[i] = f[j] => i = j
           names == {first[i] : i \in 0 .. (Core - 1)}
       IN  /\ wpc = [w \in WorkerIds |-> IF w \in names THEN "get" ELSE "none"]
           /\ wi = [w \in WorkerIds |->
                      IF w \in names THEN CHOOSE i \in 0 .. (Core - 1) : first[i] = w ELSE -1]
    /\ wseq = [w \in WorkerIds |-> -1]
    /\ poolSize = Core /\ workers = Core
    /\ isStop = FALSE /\ locked = FALSE
    /\ dpc = "idle" /\ left = 0 /\ dseq = -1
    /\ ran = {}

(* poll() and take() succeed: the cached index says that the slot is not a *)
(* lap behind, and the slot is free.                                       *)
CanClaim == in + 1 - Size <= cacheOut /\ (in + 1 - Size) \notin held

-----------------------------------------------------------------------------
(* getTaskObjectAndSeq (addTask and addTaskMove run the same loop).        *)

Submit(s) ==
    /\ spc[s] = "idle" /\ in < MaxSeq
    /\ spc' = [spc EXCEPT ![s] = "poll"]
    /\ UNCHANGED <<ring, sseq, work, pool, stop, ran>>

PollOk(s) ==
    /\ spc[s] = "poll" /\ CanClaim
    /\ in' = in + 1
    /\ sseq' = [sseq EXCEPT ![s] = in + 1]
    /\ spc' = [spc EXCEPT ![s] = "fill"]
    /\ UNCHANGED <<out, cacheOut, ready, held, finish, work, pool, stop, ran>>

(* poll() returns -1 after refreshing the cached index. *)
PollFail(s) ==
    /\ spc[s] = "poll" /\ ~CanClaim
    /\ cacheOut' = out
    /\ spc' = [spc EXCEPT ![s] = "grow"]
    /\ UNCHANGED <<in, out, ready, held, finish, sseq, work, pool, stop, ran>>

(* addThread(i): a new worker with index i, under any free name. *)
AddThread(i) ==
    LET w == CHOOSE free \in WorkerIds : free \notin Live IN
    /\ wpc' = [wpc EXCEPT ![w] = "get"]
    /\ wi' = [wi EXCEPT ![w] = i]
    /\ workers' = workers + 1
    /\ poolSize' = poolSize + 1
    /\ UNCHANGED wseq

(* Mutant: the index of the new worker is the new size. *)
GrowIndexOff(s) ==
    /\ spc[s] = "grow" /\ ~locked
    /\ IF poolSize < MaxPool /\ ~isStop
       THEN AddThread(workers + 1)
       ELSE UNCHANGED <<work, pool>>
    /\ spc' = [spc EXCEPT ![s] = "poll"]
    /\ UNCHANGED <<ring, sseq, stop, ran>>

(* addIfUnderMaxPoolSize, then yield and poll again. *)
Grow(s) ==
    /\ spc[s] = "grow" /\ ~locked
    /\ IF poolSize < MaxPool /\ ~isStop
       THEN AddThread(workers - 1)
       ELSE UNCHANGED <<work, pool>>
    /\ spc' = [spc EXCEPT ![s] = "poll"]
    /\ UNCHANGED <<ring, sseq, stop, ran>>

(* The task is filled in and published with isFinish_ = false. *)
PublishTask(s) ==
    /\ spc[s] = "fill"
    /\ ready' = ready \cup {sseq[s]}
    /\ spc' = [spc EXCEPT ![s] = "idle"]
    /\ sseq' = [sseq EXCEPT ![s] = -1]
    /\ UNCHANGED <<in, out, cacheOut, held, finish, work, pool, stop, ran>>

-----------------------------------------------------------------------------
(* The body of a worker thread (addThread).                                *)

(* get_locality or get_locality_with_timeout claims the oldest ticket. *)
Get(w) ==
    /\ wpc[w] = "get" /\ out + 1 \in ready
    /\ out' = out + 1
    /\ ready' = ready \ {out + 1}
    /\ held' = held \cup {out + 1}
    /\ wseq' = [wseq EXCEPT ![w] = out + 1]
    /\ wpc' = [wpc EXCEPT ![w] = IF out + 1 \in finish THEN "leave" ELSE "run"]
    /\ UNCHANGED <<in, cacheOut, finish, submit, wi, pool, stop, ran>>

(* Mutant: every worker times out, core or not. *)
TimeoutAny(w) ==
    /\ wpc[w] = "get" /\ out + 1 \notin ready
    /\ wpc' = [wpc EXCEPT ![w] = "leave"]
    /\ UNCHANGED <<ring, submit, wi, wseq, pool, stop, ran>>

(* A worker whose i is not below corePoolSize_ gives up when it found      *)
(* nothing to do for keepAliveTime_.                                       *)
Timeout(w) ==
    /\ wpc[w] = "get" /\ wi[w] >= Core /\ out + 1 \notin ready
    /\ wpc' = [wpc EXCEPT ![w] = "leave"]
    /\ UNCHANGED <<ring, submit, wi, wseq, pool, stop, ran>>

(* Mutant: the slot of a finished task is not handed back. *)
RunForgetsDone(w) ==
    /\ wpc[w] = "run"
    /\ ran' = ran \cup {wseq[w]}
    /\ wseq' = [wseq EXCEPT ![w] = -1]
    /\ wpc' = [wpc EXCEPT ![w] = "get"]
    /\ UNCHANGED <<ring, submit, wi, pool, stop>>

(* task_() returns, consumer_done(idx). *)
Run(w) ==
    /\ wpc[w] = "run"
    /\ ran' = ran \cup {wseq[w]}
    /\ held' = held \ {wseq[w]}
    /\ wseq' = [wseq EXCEPT ![w] = -1]
    /\ wpc' = [wpc EXCEPT ![w] = "get"]
    /\ UNCHANGED <<in, out, cacheOut, ready, finish, submit, wi, pool, stop>>

(* Mutant: poolSize_ is not decremented. *)
LeaveUncounted(w) ==
    /\ wpc[w] = "leave" /\ ~locked
    /\ workers' = workers - 1 /\ UNCHANGED poolSize
    /\ wpc' = [wpc EXCEPT ![w] = "none"]
    /\ wi' = [wi EXCEPT ![w] = -1]
    /\ wseq' = [wseq EXCEPT ![w] = -1]
    /\ UNCHANGED <<ring, submit, stop, ran>>

(* rmThread(i) under mlock_.  erase(begin() + i) removes one element; past *)
(* the end it is undefined, and libstdc++ then drops the last element, so  *)
(* the size goes down by one in either case.                               *)
Leave(w) ==
    /\ wpc[w] = "leave" /\ ~locked
    /\ workers' = workers - 1 /\ poolSize' = poolSize - 1
    /\ wpc' = [wpc EXCEPT ![w] = "none"]
    /\ wi' = [wi EXCEPT ![w] = -1]
    /\ wseq' = [wseq EXCEPT ![w] = -1]
    /\ UNCHANGED <<ring, submit, stop, ran>>

-----------------------------------------------------------------------------
(* ~ThreadPool: shutdown() keeps mlock_ while it sends poolSize_ tokens,   *)
(* then the destructor spins until every worker has left.                  *)

ShutdownBegin ==
    /\ Destroyed /\ dpc = "idle"
    /\ isStop' = TRUE /\ locked' = TRUE
    /\ left' = poolSize /\ dpc' = "take"
    /\ UNCHANGED <<ring, submit, work, pool, dseq, ran>>

(* take(): claim, or refresh the cached index and try again. *)
ShutdownTake ==
    /\ dpc = "take" /\ left > 0
    /\ \/ /\ CanClaim
          /\ in' = in + 1 /\ dseq' = in + 1 /\ dpc' = "publish"
          /\ UNCHANGED cacheOut
       \/ /\ ~CanClaim
          /\ cacheOut' = out
          /\ UNCHANGED <<in, dseq, dpc>>
    /\ UNCHANGED <<out, ready, held, finish, submit, work, pool, isStop, locked, left, ran>>

(* Mutant: one token too few is sent. *)
ShutdownPublishShort ==
    /\ dpc = "publish"
    /\ finish' = finish \cup {dseq} /\ ready' = ready \cup {dseq}
    /\ dpc' = "take" /\ dseq' = -1
    /\ left' = IF left = 2 THEN 0 ELSE left - 1
    /\ UNCHANGED <<in, out, cacheOut, held, submit, work, pool, isStop, locked, ran>>

ShutdownPublish ==
    /\ dpc = "publish"
    /\ finish' = finish \cup {dseq} /\ ready' = ready \cup {dseq}
    /\ dpc' = "take" /\ dseq' = -1
    /\ left' = left - 1
    /\ UNCHANGED <<in, out, cacheOut, held, submit, work, pool, isStop, locked, ran>>

ShutdownEnd ==
    /\ dpc = "take" /\ left = 0
    /\ locked' = FALSE /\ dpc' = "join"
    /\ UNCHANGED <<ring, submit, work, pool, isStop, left, dseq, ran>>

(* Mutant: the destructor does not wait for the workers. *)
JoinAtOnce ==
    /\ dpc = "join"
    /\ dpc' = "dead"
    /\ UNCHANGED <<ring, submit, work, pool, isStop, locked, left, dseq, ran>>

(* while (poolSize_ > 0); *)
Join ==
    /\ dpc = "join" /\ poolSize = 0
    /\ dpc' = "dead"
    /\ UNCHANGED <<ring, submit, work, pool, isStop, locked, left, dseq, ran>>

-----------------------------------------------------------------------------
SubmitterStep(s) == PollOk(s) \/ PollFail(s) \/ Grow(s) \/ PublishTask(s)
WorkerStep(w) == Get(w) \/ Timeout(w) \/ Run(w) \/ Leave(w)
ShutdownStep == ShutdownTake \/ ShutdownPublish \/ ShutdownEnd \/ Join

Next ==
    \/ \E s \in Submitters : Submit(s) \/ SubmitterStep(s)
    \/ \E w \in WorkerIds : WorkerStep(w)
    \/ ShutdownBegin
    \/ ShutdownStep

Spec == Init /\ [][Next]_vars

(* Threads are scheduled, tasks return, an idle worker's timeout expires;  *)
(* nobody has to submit anything or to destroy the pool.                   *)
Fairness ==
    /\ \A s \in Submitters : WF_vars(SubmitterStep(s))
    /\ \A w \in WorkerIds : WF_vars(WorkerStep(w))
    /\ WF_vars(ShutdownStep)

FairSpec == Spec /\ Fairness

-----------------------------------------------------------------------------
Indices == Nat \cup {-1}

(* Type invariant. *)
TypeOK ==
    /\ in \in Indices /\ out \in Indices /\ cacheOut \in Indices
    /\ ready \subseteq Nat /\ held \subseteq Nat /\ finish \subseteq Nat
    /\ spc \in [Submitters -> {"idle", "poll", "grow", "fill"}]
    /\ sseq \in [Submitters -> Indices]
    /\ wpc \in [WorkerIds -> {"none", "get", "run", "leave"}]
    /\ wi \in [WorkerIds -> Indices]
    /\ wseq \in [WorkerIds -> Indices]
    /\ poolSize \in Nat /\ workers \in Nat
    /\ isStop \in BOOLEAN /\ locked \in BOOLEAN
    /\ dpc \in {"idle", "take", "publish", "join", "dead"}
    /\ left \in Nat /\ dseq \in Indices
    /\ ran \subseteq Nat

(* The three accounts of the pool's size agree, and it never outgrows      *)
(* maxPoolSize_.                                                           *)
PoolSizeExact ==
    poolSize = workers /\ poolSize = Cardinality(Live) /\ poolSize <= MaxPool

(* A pool that is not shut down keeps at least corePoolSize_ workers that  *)
(* never leave.                                                            *)
CoreStays ==
    ~isStop => Cardinality({w \in Live : wpc[w] # "leave"}) >= Core

(* erase(begin() + i) in rmThread stays within workers_ although the other *)
(* indices are stale after an erase; needs MaxPool <= Core + 3 and no      *)
(* shutdown.                                                               *)
EraseInRange ==
    ~isStop => \A w \in WorkerIds : wpc[w] = "leave" => wi[w] < workers

(* Every published task is run, unless the pool is shut down first (see    *)
(* ShutdownDrains for what then happens).                                  *)
EventuallyRun ==
    \A n \in 0 .. MaxSeq : (n \in ready /\ n \notin finish) ~> (n \in ran \/ isStop)

(* A submission is never stuck, short of a shutdown: the loop thread gets  *)
(* back to its events.                                                     *)
SubmitReturns == \A s \in Submitters : spc[s] = "poll" ~> (spc[s] = "idle" \/ isStop)

(* The destructor returns, every worker gone, provided that the pool is    *)
(* not larger than its ring and nobody submits from shutdown() on.         *)
ShutdownTerminates ==
    []( (dpc = "take" /\ left = poolSize /\ poolSize <= Size
            /\ [](\A s \in Submitters : spc[s] = "idle"))
        => <>(dpc = "dead" /\ poolSize = 0) )

(* Tasks submitted before the first token are run before the destructor    *)
(* returns: the tokens queue up behind them.                               *)
ShutdownDrains ==
    dpc = "dead" =>
        \A n \in 0 .. in : (\A f \in finish : n < f) => n \in ran

(* When shutdown() cannot place a token, nothing being left to take or to  *)
(* run, the slot it waits for belongs to one of its own tokens: either the *)
(* pool is larger than the ring or a submission got between the tokens.    *)
StuckOnOwnToken ==
    /\ dpc = "take" /\ left > 0 /\ cacheOut = out /\ ~CanClaim
    /\ ready = {} /\ \A s \in Submitters : spc[s] # "fill"
    /\ \A w \in Live : wpc[w] # "run"
    => (in + 1 - Size) \in finish

-----------------------------------------------------------------------------
(* The inductive invariant behind the safety properties above.             *)

(* The workers that never time out, and whether a finish token has been    *)
(* taken yet.                                                              *)
Permanent == {w \in Live : wi[w] < Core}
NoTokenTaken == \A f \in finish : f > out

(* Until a token is taken nobody leaves but by a timeout, so that Core     *)
(* workers are permanent; the first worker added to a pool of core size    *)
(* gets the index Core - 1 and is permanent too.                           *)
CoreKept ==
    NoTokenTaken =>
        /\ Cardinality(Permanent) >= Core
        /\ workers > Core => Cardinality(Permanent) >= Core + 1
        /\ \A w \in WorkerIds : wpc[w] = "leave" => wi[w] >= Core

(* addThread's index is one below the size of a pool that had room. *)
IndexBounded == \A w \in WorkerIds : wi[w] < Core \/ wi[w] + 2 <= MaxPool

(* Whoever fills or runs a ticket has one. *)
TicketsHeld ==
    /\ \A s \in Submitters : spc[s] = "fill" => sseq[s] \in Nat
    /\ \A w \in WorkerIds : wpc[w] = "run" => wseq[w] \in Nat
    /\ dpc = "publish" => dseq \in Nat /\ left > 0

(* Only a shutdown sets finish tokens, and it ends with the pool empty. *)
StopPhases ==
    /\ dpc # "idle" => isStop
    /\ finish # {} => isStop
    /\ dpc = "dead" => poolSize = 0

(* A claimed ticket nobody has taken is published or being filled. *)
Claimed ==
    \A n \in (out + 1) .. in :
        \/ n \in ready
        \/ \E s \in Submitters : spc[s] = "fill" /\ sseq[s] = n
        \/ dpc = "publish" /\ dseq = n

Running(n) == \E w \in WorkerIds : wpc[w] = "run" /\ wseq[w] = n

(* A taken ticket is a token, or its task was run or is running; a slot    *)
(* not handed back is a token's or that of a running task.                 *)
Taken == \A n \in 0 .. out : n \in ran \/ n \in finish \/ Running(n)
HeldKnown == \A n \in held : n \in finish \/ Running(n)

IndInv ==
    /\ TypeOK /\ PoolSizeExact /\ CoreKept /\ IndexBounded /\ TicketsHeld
    /\ StopPhases /\ Claimed /\ Taken /\ HeldKnown

(* README.md of the repository: an added worker that stays idle longer     *)
(* than the keep-alive time is closed, so an idle pool is back at its core *)
(* size.                                                                   *)
AddedWorkersRetire == <>[](poolSize <= Core)
=============================================================================
