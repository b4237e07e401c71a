-------------------------- MODULE ThreadPoolProofs --------------------------
(***************************************************************************)
(* The worker pool of thread_pool.h keeps its accounts, its core workers   *)
(* and the tasks it was given, for any number of submitters, any core and  *)
(* maximal size and any ring size.                                         *)
(***************************************************************************)
EXTENDS ThreadPool, FiniteSetTheorems, TLAPS

USE PoolAssumption

(* The live workers and the permanent ones are finitely many. *)
LEMMA PoolFinite ==
    /\ IsFiniteSet(Live) /\ Cardinality(Live) \in Nat /\ Cardinality(Live) <= MaxPool
    /\ IsFiniteSet(Permanent) /\ Cardinality(Permanent) \in Nat
    /\ Cardinality(Permanent) <= Cardinality(Live)
<1>1. Live \in SUBSET WorkerIds
  BY DEF Live
<1>2. IsFiniteSet(Live) /\ Cardinality(Live) <= MaxPool
  BY <1>1, FS_Subset
<1>3. Permanent \in SUBSET Live
  BY DEF Permanent
<1>4. IsFiniteSet(Permanent) /\ Cardinality(Permanent) <= Cardinality(Live)
  BY <1>2, <1>3, FS_Subset
<1> QED
  BY <1>2, <1>4, FS_CardinalityType

-----------------------------------------------------------------------------
(* There are enough names for the workers that start() creates. *)
LEMMA FirstWorkers ==
    \E f \in [0 .. (Core - 1) -> WorkerIds] :
        \A i, j \in 0 .. (Core - 1) : f[i] = f[j] => i = j
<1>1. ExistsBijection(1 .. MaxPool, WorkerIds)
  BY FS_CardinalityType
<1>2. PICK b \in [1 .. MaxPool -> WorkerIds] : \A i, j \in 1 .. MaxPool : b[i] = b[j] => i = j
  BY <1>1 DEF ExistsBijection, Bijection, Injection, IsInjective
<1> DEFINE f == [i \in 0 .. (Core - 1) |-> b[i + 1]]
<1>3. \A i \in 0 .. (Core - 1) : i + 1 \in 1 .. MaxPool
  OBVIOUS
<1>4. f \in [0 .. (Core - 1) -> WorkerIds]
  BY <1>3
<1>5. \A i, j \in 0 .. (Core - 1) : f[i] = f[j] => i = j
  <2> SUFFICES ASSUME NEW i \in 0 .. (Core - 1), NEW j \in 0 .. (Core - 1), f[i] = f[j]
               PROVE  i = j
    OBVIOUS
  <2>1. i + 1 = j + 1
    BY <1>2, <1>3
  <2> QED
    BY <2>1
<1> QED
  BY <1>4, <1>5

(* As many names as start() creates workers. *)
LEMMA FirstWorkersCount ==
    ASSUME NEW f \in [0 .. (Core - 1) -> WorkerIds],
           \A i, j \in 0 .. (Core - 1) : f[i] = f[j] => i = j
    PROVE  Cardinality({f[i] : i \in 0 .. (Core - 1)}) = Core
<1> DEFINE names == {f[i] : i \in 0 .. (Core - 1)}
<1>1. f \in Surjection(0 .. (Core - 1), names) /\ f \in Injection(0 .. (Core - 1), names)
  BY DEF Surjection, Injection, IsInjective
<1>2. IsFiniteSet(0 .. (Core - 1)) /\ Cardinality(0 .. (Core - 1)) = Core
  <2>1. 0 \in Int /\ Core - 1 \in Int
    OBVIOUS
  <2> QED
    BY <2>1, FS_Interval
<1>3. Cardinality(names) = Cardinality(0 .. (Core - 1))
  BY <1>1, <1>2, FS_Surjection
<1> QED
  BY <1>2, <1>3

(* The constructor and start() establish the invariant. *)
LEMMA InitIndInv == Init => IndInv
<1> SUFFICES ASSUME Init PROVE IndInv
  OBVIOUS
<1> DEFINE first == CHOOSE f \in [0 .. (Core - 1) -> WorkerIds] :
                      \A i, j \in 0 .. (Core - 1) : f[i] = f[j] => i = j
           names == {first[i] : i \in 0 .. (Core - 1)}
<1>1. /\ wpc = [w \in WorkerIds |-> IF w \in names THEN "get" ELSE "none"]
      /\ wi = [w \in WorkerIds |->
                 IF w \in names THEN CHOOSE i \in 0 .. (Core - 1) : first[i] = w ELSE -1]
  BY Zenon DEF Init
<1>2. /\ first \in [0 .. (Core - 1) -> WorkerIds]
      /\ \A i, j \in 0 .. (Core - 1) : first[i] = first[j] => i = j
  BY FirstWorkers
<1> HIDE DEF first
<1>3. names \subseteq WorkerIds /\ Cardinality(names) = Core
  BY <1>2, FirstWorkersCount
<1>4. \A w \in WorkerIds : /\ wi[w] \in (0 .. (Core - 1)) \cup {-1}
                           /\ wpc[w] \in {"get", "none"}
                           /\ w \in names <=> wpc[w] # "none"
  <2> SUFFICES ASSUME NEW w \in WorkerIds
               PROVE  /\ wi[w] \in (0 .. (Core - 1)) \cup {-1}
                      /\ wpc[w] \in {"get", "none"}
                      /\ w \in names <=> wpc[w] # "none"
    OBVIOUS
  <2>1. w \in names => \E i \in 0 .. (Core - 1) : first[i] = w
    OBVIOUS
  <2>2. w \in names => (CHOOSE i \in 0 .. (Core - 1) : first[i] = w) \in 0 .. (Core - 1)
    BY <2>1
  <2> QED
    BY <1>1, <2>2
<1> HIDE DEF names
<1>5. Live = names /\ Permanent = names
  BY <1>3, <1>4 DEF Live, Permanent
<1>6. TypeOK
  <2>1. wpc \in [WorkerIds -> {"none", "get", "run", "leave"}]
    BY <1>1
  <2>2. wi \in [WorkerIds -> Indices]
    <3>1. DOMAIN wi = WorkerIds /\ wi = [w \in WorkerIds |-> wi[w]]
      BY <1>1
    <3>2. \A w \in WorkerIds : wi[w] \in Indices
      BY <1>4 DEF Indices
    <3> QED
      BY <3>1, <3>2
  <2> QED
    BY <2>1, <2>2 DEF Init, TypeOK, Indices
<1>7. PoolSizeExact /\ CoreKept
  BY <1>3, <1>4, <1>5 DEF Init, PoolSizeExact, CoreKept
<1>8. IndexBounded
  BY <1>4 DEF IndexBounded
<1>9. TicketsHeld /\ StopPhases /\ Claimed /\ Taken /\ HeldKnown
  BY <1>4 DEF Init, TicketsHeld, StopPhases, Claimed, Taken, HeldKnown
<1> QED
  BY <1>6, <1>7, <1>8, <1>9 DEF IndInv

-----------------------------------------------------------------------------
(* A step that leaves the workers and the pool's size alone. *)
LEMMA PoolFrame ==
    ASSUME IndInv, UNCHANGED <<work, pool>>, out' = out, finish \subseteq finish'
    PROVE  PoolSizeExact' /\ CoreKept' /\ IndexBounded'
<1>1. Live' = Live /\ Permanent' = Permanent
  BY DEF Live, Permanent, work
<1>2. NoTokenTaken' => NoTokenTaken
  BY DEF NoTokenTaken
<1> QED
  BY <1>1, <1>2 DEF IndInv, PoolSizeExact, CoreKept, IndexBounded, work, pool

(* A worker that goes on, and leaves only for a reason. *)
LEMMA WorkerFrame ==
    ASSUME IndInv, NEW w \in WorkerIds, NEW pc \in {"get", "run", "leave"},
           wpc[w] # "none", wpc' = [wpc EXCEPT ![w] = pc], UNCHANGED <<wi, pool>>,
           NoTokenTaken' => NoTokenTaken /\ (pc = "leave" => wi[w] >= Core)
    PROVE  PoolSizeExact' /\ CoreKept' /\ IndexBounded'
<1>1. \A v \in WorkerIds : wpc'[v] # "none" <=> wpc[v] # "none"
  BY DEF IndInv, TypeOK
<1>2. Live' = Live
  BY <1>1 DEF Live
<1>3. Permanent' = Permanent
  BY <1>2 DEF Permanent
<1>4. NoTokenTaken' => \A v \in WorkerIds : wpc'[v] = "leave" => wi[v] >= Core
  BY DEF IndInv, TypeOK, CoreKept
<1> QED
  BY <1>2, <1>3, <1>4 DEF IndInv, PoolSizeExact, CoreKept, IndexBounded, pool

-----------------------------------------------------------------------------
(* getTaskObjectAndSeq is entered. *)
LEMMA SubmitInv == ASSUME IndInv, NEW s \in Submitters, Submit(s) PROVE IndInv'
<1> USE DEF IndInv, Submit, ring, stop, work, pool
<1>1. TypeOK'
  BY DEF TypeOK
<1>2. PoolSizeExact' /\ CoreKept' /\ IndexBounded'
  BY PoolFrame
<1>3. TicketsHeld' /\ StopPhases'
  BY DEF TypeOK, TicketsHeld, StopPhases
<1>4. Claimed' /\ Taken' /\ HeldKnown'
  BY DEF TypeOK, Claimed, Taken, HeldKnown, Running
<1> QED
  BY <1>1, <1>2, <1>3, <1>4

(* The claimed ticket is the submitter's. *)
LEMMA PollOkInv == ASSUME IndInv, NEW s \in Submitters, PollOk(s) PROVE IndInv'
<1> USE DEF IndInv, PollOk, stop, work, pool
<1>1. TypeOK'
  BY DEF TypeOK, Indices
<1>2. PoolSizeExact' /\ CoreKept' /\ IndexBounded'
  BY PoolFrame
<1>3. TicketsHeld' /\ StopPhases'
  BY DEF TypeOK, TicketsHeld, StopPhases, Indices
<1>4. Claimed'
  BY DEF TypeOK, Claimed, Indices
<1>5. Taken' /\ HeldKnown'
  BY DEF Taken, HeldKnown, Running
<1> QED
  BY <1>1, <1>2, <1>3, <1>4, <1>5

(* Only the cached index changes. *)
LEMMA PollFailInv == ASSUME IndInv, NEW s \in Submitters, PollFail(s) PROVE IndInv'
<1> USE DEF IndInv, PollFail, stop, work, pool
<1>1. TypeOK'
  BY DEF TypeOK
<1>2. PoolSizeExact' /\ CoreKept' /\ IndexBounded'
  BY PoolFrame
<1>3. TicketsHeld' /\ StopPhases'
  BY DEF TypeOK, TicketsHeld, StopPhases
<1>4. Claimed' /\ Taken' /\ HeldKnown'
  BY DEF TypeOK, Claimed, Taken, HeldKnown, Running
<1> QED
  BY <1>1, <1>2, <1>3, <1>4

(* A full pool is left alone; otherwise there is a free name, the sizes go *)
(* up together and the index is below the new size.                        *)
LEMMA GrowInv == ASSUME IndInv, NEW s \in Submitters, Grow(s) PROVE IndInv'
<1> USE DEF IndInv
<1>1. /\ spc' = [spc EXCEPT ![s] = "poll"] /\ spc[s] = "grow"
      /\ UNCHANGED <<ring, sseq, stop, ran>>
  BY DEF Grow
<1>2. /\ UNCHANGED <<in, out, cacheOut, ready, held, finish>>
      /\ UNCHANGED <<isStop, locked, dpc, left, dseq>>
  BY <1>1 DEF ring, stop
<1>3. CASE poolSize < MaxPool /\ ~isStop
  <2> DEFINE w == CHOOSE free \in WorkerIds : free \notin Live
  <2>1. \E free \in WorkerIds : free \notin Live
    <3> SUFFICES ASSUME WorkerIds \subseteq Live PROVE FALSE
      OBVIOUS
    <3>1. WorkerIds = Live
      BY DEF Live
    <3> QED
      BY <3>1, <1>3 DEF PoolSizeExact
  <2>2. w \in WorkerIds /\ w \notin Live
    BY <2>1
  <2>3. /\ wpc' = [wpc EXCEPT ![w] = "get"] /\ wi' = [wi EXCEPT ![w] = workers - 1]
        /\ workers' = workers + 1 /\ poolSize' = poolSize + 1 /\ wseq' = wseq
    BY <1>3, Zenon DEF Grow, AddThread
  <2> HIDE DEF w
  <2>4. wpc[w] = "none"
    BY <2>2 DEF Live
  <2>5. TypeOK'
    BY <1>1, <1>2, <2>2, <2>3 DEF TypeOK, Indices
  <2>6. Live' = Live \cup {w} /\ Cardinality(Live') = Cardinality(Live) + 1
    <3>1. Live' = Live \cup {w}
      BY <2>2, <2>3 DEF Live, TypeOK
    <3> QED
      BY <3>1, <2>2, PoolFinite, FS_AddElement
  <2>7. PoolSizeExact'
    <3>1. poolSize \in Nat /\ workers = poolSize /\ poolSize = Cardinality(Live)
      BY DEF PoolSizeExact, TypeOK
    <3> QED
      BY <1>3, <2>3, <2>6, <3>1 DEF PoolSizeExact
  <2>8. IndexBounded'
    <3>1. workers \in Nat /\ workers < MaxPool
      BY <1>3 DEF PoolSizeExact, TypeOK
    <3>2. \A v \in WorkerIds : wi'[v] = IF v = w THEN workers - 1 ELSE wi[v]
      BY <2>2, <2>3 DEF TypeOK
    <3> QED
      BY <3>1, <3>2 DEF IndexBounded
  <2>9. CoreKept'
    <3>1. NoTokenTaken' => NoTokenTaken
      BY <1>2 DEF NoTokenTaken
    <3>2. \A v \in WorkerIds : wpc'[v] = "leave" => wpc[v] = "leave" /\ wi'[v] = wi[v]
      BY <2>2, <2>3 DEF TypeOK
    <3>3. CASE workers - 1 < Core
      <4>1. Permanent' = Permanent \cup {w}
        BY <2>2, <2>3, <2>6, <3>3 DEF Permanent, Live, TypeOK
      <4>2. w \notin Permanent
        BY <2>2 DEF Permanent
      <4>3. Cardinality(Permanent') = Cardinality(Permanent) + 1
        BY <4>1, <4>2, PoolFinite, FS_AddElement
      <4> QED
        BY <2>3, <3>1, <3>2, <4>3, PoolFinite DEF CoreKept, TypeOK
    <3>4. CASE ~(workers - 1 < Core)
      <4>1. Permanent' = Permanent
        BY <2>2, <2>3, <2>6, <3>4 DEF Permanent, Live, TypeOK
      <4> QED
        BY <2>3, <3>1, <3>2, <3>4, <4>1, PoolFinite DEF CoreKept, TypeOK
    <3> QED
      BY <3>3, <3>4
  <2>10. TicketsHeld' /\ StopPhases'
    BY <1>1, <1>2, <1>3, <2>2, <2>3 DEF TypeOK, TicketsHeld, StopPhases
  <2>11. Claimed'
    BY <1>1, <1>2 DEF TypeOK, Claimed
  <2>12. Taken' /\ HeldKnown'
    <3>1. \A n : Running(n) => Running(n)'
      BY <2>3, <2>4 DEF Running, TypeOK
    <3> QED
      BY <1>1, <1>2, <3>1 DEF Taken, HeldKnown
  <2> QED
    BY <2>5, <2>7, <2>8, <2>9, <2>10, <2>11, <2>12
<1>4. CASE ~(poolSize < MaxPool /\ ~isStop)
  <2>1. UNCHANGED <<work, pool>>
    BY <1>4 DEF Grow
  <2>2. TypeOK'
    BY <1>1, <1>2, <2>1 DEF TypeOK, work, pool
  <2>3. PoolSizeExact' /\ CoreKept' /\ IndexBounded'
    BY <1>2, <2>1, PoolFrame
  <2>4. TicketsHeld' /\ StopPhases'
    BY <1>1, <1>2, <2>1 DEF TypeOK, TicketsHeld, StopPhases, work, pool
  <2>5. Claimed' /\ Taken' /\ HeldKnown'
    BY <1>1, <1>2, <2>1 DEF TypeOK, Claimed, Taken, HeldKnown, Running, work
  <2> QED
    BY <2>2, <2>3, <2>4, <2>5
<1> QED
  BY <1>3, <1>4

(* The ticket passes from the submitter to the ring. *)
LEMMA PublishTaskInv == ASSUME IndInv, NEW s \in Submitters, PublishTask(s) PROVE IndInv'
<1> USE DEF IndInv, PublishTask, stop, work, pool
<1>1. TypeOK'
  BY DEF TypeOK, TicketsHeld, Indices
<1>2. PoolSizeExact' /\ CoreKept' /\ IndexBounded'
  BY PoolFrame
<1>3. TicketsHeld' /\ StopPhases'
  BY DEF TypeOK, TicketsHeld, StopPhases
<1>4. Claimed'
  BY DEF TypeOK, Claimed
<1>5. Taken' /\ HeldKnown'
  BY DEF Taken, HeldKnown, Running
<1> QED
  BY <1>1, <1>2, <1>3, <1>4, <1>5

-----------------------------------------------------------------------------
(* The oldest ticket is run, or is a token and its worker leaves. *)
LEMMA GetInv == ASSUME IndInv, NEW w \in WorkerIds, Get(w) PROVE IndInv'
<1> USE DEF IndInv
<1> DEFINE pc == IF out + 1 \in finish THEN "leave" ELSE "run"
<1>1. /\ wpc[w] = "get" /\ out + 1 \in ready /\ out' = out + 1
      /\ ready' = ready \ {out + 1} /\ held' = held \cup {out + 1}
      /\ wseq' = [wseq EXCEPT ![w] = out + 1] /\ wpc' = [wpc EXCEPT ![w] = pc]
      /\ UNCHANGED <<in, cacheOut, finish, wi, ran, spc, sseq, poolSize, workers>>
      /\ UNCHANGED <<isStop, locked, dpc, left, dseq>>
  BY DEF Get, submit, pool, stop
<1>2. pc \in {"run", "leave"} /\ (pc = "leave" <=> out + 1 \in finish)
  OBVIOUS
<1> HIDE DEF pc
<1>3. out \in Indices /\ out + 1 \in Nat
  BY <1>1 DEF TypeOK
<1>4. TypeOK'
  BY <1>1, <1>2, <1>3 DEF TypeOK, Indices
<1>5. PoolSizeExact' /\ CoreKept' /\ IndexBounded'
  <2>1. NoTokenTaken' => NoTokenTaken /\ pc # "leave"
    BY <1>1, <1>2, <1>3 DEF NoTokenTaken, Indices, TypeOK
  <2>2. UNCHANGED <<wi, pool>>
    BY <1>1 DEF pool
  <2> QED
    BY <1>1, <1>2, <2>1, <2>2, WorkerFrame
<1>6. TicketsHeld' /\ StopPhases'
  BY <1>1, <1>2, <1>3 DEF TypeOK, TicketsHeld, StopPhases
<1>7. Claimed'
  BY <1>1, <1>3 DEF TypeOK, Claimed, Indices
<1>8. \A n : Running(n) => Running(n)'
  BY <1>1, <1>2 DEF Running, TypeOK
<1>9. ASSUME NEW n, n = out + 1 PROVE n \in finish \/ Running(n)'
  <2>1. wpc'[w] = pc /\ wseq'[w] = n
    BY <1>1, <1>9 DEF TypeOK
  <2> QED
    BY <1>2, <1>9, <2>1 DEF Running
<1>10. Taken' /\ HeldKnown'
  <2>1. Taken'
    <3> SUFFICES ASSUME NEW n \in 0 .. out' PROVE (n \in ran \/ n \in finish \/ Running(n))'
      BY DEF Taken
    <3>1. n \in 0 .. out \/ n = out + 1
      BY <1>1, <1>3 DEF Indices
    <3> QED
      BY <3>1, <1>1, <1>8, <1>9 DEF Taken
  <2>2. HeldKnown'
    <3> SUFFICES ASSUME NEW n \in held' PROVE (n \in finish \/ Running(n))'
      BY DEF HeldKnown
    <3>1. n \in held \/ n = out + 1
      BY <1>1
    <3> QED
      BY <3>1, <1>1, <1>8, <1>9 DEF HeldKnown
  <2> QED
    BY <2>1, <2>2
<1> QED
  BY <1>4, <1>5, <1>6, <1>7, <1>10

(* Only a worker that is not permanent times out. *)
LEMMA TimeoutInv == ASSUME IndInv, NEW w \in WorkerIds, Timeout(w) PROVE IndInv'
<1> USE DEF IndInv, Timeout, ring, submit, stop
<1>1. TypeOK'
  BY DEF TypeOK, pool
<1>2. PoolSizeExact' /\ CoreKept' /\ IndexBounded'
  <2>1. NoTokenTaken' => NoTokenTaken
    BY DEF NoTokenTaken
  <2> QED
    BY <2>1, WorkerFrame
<1>3. TicketsHeld' /\ StopPhases'
  BY DEF TypeOK, TicketsHeld, StopPhases, pool
<1>4. Claimed'
  BY DEF Claimed
<1>5. Taken' /\ HeldKnown'
  BY DEF TypeOK, Taken, HeldKnown, Running
<1> QED
  BY <1>1, <1>2, <1>3, <1>4, <1>5

(* The task was run and its slot is handed back. *)
LEMMA RunInv == ASSUME IndInv, NEW w \in WorkerIds, Run(w) PROVE IndInv'
<1> USE DEF IndInv, Run, submit, stop
<1>1. TypeOK'
  BY DEF TypeOK, TicketsHeld, Indices, pool
<1>2. PoolSizeExact' /\ CoreKept' /\ IndexBounded'
  <2>1. NoTokenTaken' => NoTokenTaken
    BY DEF NoTokenTaken
  <2> QED
    BY <2>1, WorkerFrame
<1>3. TicketsHeld' /\ StopPhases'
  BY DEF TypeOK, TicketsHeld, StopPhases, pool
<1>4. Claimed'
  BY DEF Claimed
<1>5. \A n : Running(n) => Running(n)' \/ n = wseq[w]
  BY DEF Running, TypeOK
<1>6. Taken' /\ HeldKnown'
  BY <1>5 DEF Taken, HeldKnown
<1> QED
  BY <1>1, <1>2, <1>3, <1>4, <1>6

(* rmThread: the sizes go down together; until a token is taken the one    *)
(* who leaves is not permanent.                                            *)
LEMMA LeaveInv == ASSUME IndInv, NEW w \in WorkerIds, Leave(w) PROVE IndInv'
<1> USE DEF IndInv
<1>1. /\ wpc[w] = "leave" /\ workers' = workers - 1 /\ poolSize' = poolSize - 1
      /\ wpc' = [wpc EXCEPT ![w] = "none"]
      /\ wi' = [wi EXCEPT ![w] = -1] /\ wseq' = [wseq EXCEPT ![w] = -1]
      /\ UNCHANGED <<in, out, cacheOut, ready, held, finish, spc, sseq, ran>>
      /\ UNCHANGED <<isStop, locked, dpc, left, dseq>>
  BY DEF Leave, ring, submit, stop
<1>2. w \in Live
  BY <1>1 DEF Live
<1>3. Live' = Live \ {w}
  BY <1>1 DEF Live, TypeOK
<1>4. Cardinality(Live') = Cardinality(Live) - 1
  BY <1>2, <1>3, PoolFinite, FS_RemoveElement
<1>5. Cardinality(Live) # 0
  BY <1>2, PoolFinite, FS_EmptySet
<1>6. poolSize \in Nat \ {0} /\ workers = poolSize
  BY <1>5 DEF PoolSizeExact, TypeOK
<1>7. TypeOK'
  BY <1>1, <1>6 DEF TypeOK, Indices
<1>8. PoolSizeExact'
  BY <1>1, <1>4, <1>6, PoolFinite DEF PoolSizeExact
<1>9. IndexBounded'
  BY <1>1 DEF IndexBounded, TypeOK
<1>10. CoreKept'
  <2> SUFFICES ASSUME NoTokenTaken' PROVE CoreKept'
    BY DEF CoreKept
  <2>1. NoTokenTaken
    BY <1>1 DEF NoTokenTaken
  <2>2. wi[w] >= Core
    BY <2>1, <1>1 DEF CoreKept
  <2>3. Permanent' = Permanent
    <3>1. \A v \in WorkerIds : v \in Permanent' <=> v \in Permanent
      BY <2>2, <1>1, <1>3 DEF Permanent, Live, TypeOK, Indices
    <3> QED
      BY <3>1 DEF Permanent, Live
  <2>4. \A v \in WorkerIds : wpc'[v] = "leave" => wpc[v] = "leave" /\ wi'[v] = wi[v]
    BY <1>1 DEF TypeOK
  <2> QED
    BY <2>1, <2>3, <2>4, <1>1, <1>6 DEF CoreKept
<1>11. TicketsHeld' /\ StopPhases'
  <2>1. dpc # "dead"
    BY <1>6 DEF StopPhases
  <2> QED
    BY <1>1, <2>1 DEF TypeOK, TicketsHeld, StopPhases
<1>12. Claimed'
  BY <1>1 DEF Claimed
<1>13. Taken' /\ HeldKnown'
  <2>1. \A n : Running(n) => Running(n)'
    BY <1>1 DEF Running, TypeOK
  <2> QED
    BY <1>1, <2>1 DEF Taken, HeldKnown
<1> QED
  BY <1>7, <1>8, <1>9, <1>10, <1>11, <1>12, <1>13

-----------------------------------------------------------------------------
(* shutdown() raises isStop_ and takes the lock. *)
LEMMA ShutdownBeginInv == ASSUME IndInv, ShutdownBegin PROVE IndInv'
<1> USE DEF IndInv, ShutdownBegin, ring, submit, work, pool
<1>1. TypeOK'
  BY DEF TypeOK
<1>2. PoolSizeExact' /\ CoreKept' /\ IndexBounded'
  BY PoolFrame
<1>3. TicketsHeld' /\ StopPhases'
  BY DEF TypeOK, TicketsHeld, StopPhases
<1>4. Claimed' /\ Taken' /\ HeldKnown'
  BY DEF TypeOK, Claimed, Taken, HeldKnown, Running
<1> QED
  BY <1>1, <1>2, <1>3, <1>4

(* The claimed ticket is the destroying thread's. *)
LEMMA ShutdownTakeInv == ASSUME IndInv, ShutdownTake PROVE IndInv'
<1> USE DEF IndInv, ShutdownTake, submit, work, pool
<1>1. TypeOK'
  BY DEF TypeOK, Indices
<1>2. PoolSizeExact' /\ CoreKept' /\ IndexBounded'
  BY PoolFrame
<1>3. TicketsHeld' /\ StopPhases'
  BY DEF TypeOK, TicketsHeld, StopPhases, Indices
<1>4. Claimed'
  BY DEF TypeOK, Claimed, Indices
<1>5. Taken' /\ HeldKnown'
  BY DEF Taken, HeldKnown, Running
<1> QED
  BY <1>1, <1>2, <1>3, <1>4, <1>5

(* The token passes to the ring. *)
LEMMA ShutdownPublishInv == ASSUME IndInv, ShutdownPublish PROVE IndInv'
<1> USE DEF IndInv, ShutdownPublish, submit, work, pool
<1>1. TypeOK'
  BY DEF TypeOK, TicketsHeld, Indices
<1>2. PoolSizeExact' /\ CoreKept' /\ IndexBounded'
  BY PoolFrame
<1>3. TicketsHeld' /\ StopPhases'
  BY DEF TypeOK, TicketsHeld, StopPhases
<1>4. Claimed'
  BY DEF TypeOK, Claimed
<1>5. Taken' /\ HeldKnown'
  BY DEF Taken, HeldKnown, Running
<1> QED
  BY <1>1, <1>2, <1>3, <1>4, <1>5

(* The lock is given back. *)
LEMMA ShutdownEndInv == ASSUME IndInv, ShutdownEnd PROVE IndInv'
<1> USE DEF IndInv, ShutdownEnd, ring, submit, work, pool
<1>1. TypeOK'
  BY DEF TypeOK
<1>2. PoolSizeExact' /\ CoreKept' /\ IndexBounded'
  BY PoolFrame
<1>3. TicketsHeld' /\ StopPhases'
  BY DEF TypeOK, TicketsHeld, StopPhases
<1>4. Claimed' /\ Taken' /\ HeldKnown'
  BY DEF TypeOK, Claimed, Taken, HeldKnown, Running
<1> QED
  BY <1>1, <1>2, <1>3, <1>4

(* The destructor returns when every worker has left. *)
LEMMA JoinInv == ASSUME IndInv, Join PROVE IndInv'
<1> USE DEF IndInv, Join, ring, submit, work, pool
<1>1. TypeOK'
  BY DEF TypeOK
<1>2. PoolSizeExact' /\ CoreKept' /\ IndexBounded'
  BY PoolFrame
<1>3. TicketsHeld' /\ StopPhases'
  BY DEF TypeOK, TicketsHeld, StopPhases
<1>4. Claimed' /\ Taken' /\ HeldKnown'
  BY DEF TypeOK, Claimed, Taken, HeldKnown, Running
<1> QED
  BY <1>1, <1>2, <1>3, <1>4

-----------------------------------------------------------------------------
(* IndInv is an inductive invariant of the pool. *)
THEOREM Invariance == Spec => []IndInv
<1>1. Init => IndInv
  BY InitIndInv
<1>2. IndInv /\ [Next]_vars => IndInv'
  <2> SUFFICES ASSUME IndInv, [Next]_vars PROVE IndInv'
    OBVIOUS
  <2>1. ASSUME NEW s \in Submitters, Submit(s) \/ SubmitterStep(s) PROVE IndInv'
    BY <2>1, SubmitInv, PollOkInv, PollFailInv, GrowInv, PublishTaskInv DEF SubmitterStep
  <2>2. ASSUME NEW w \in WorkerIds, WorkerStep(w) PROVE IndInv'
    BY <2>2, GetInv, TimeoutInv, RunInv, LeaveInv DEF WorkerStep
  <2>3. CASE ShutdownBegin \/ ShutdownStep
    BY <2>3, ShutdownBeginInv, ShutdownTakeInv, ShutdownPublishInv, ShutdownEndInv, JoinInv
    DEF ShutdownStep
  <2>4. CASE UNCHANGED vars
    <3> USE <2>4 DEF vars, ring, submit, work, pool, stop
    <3>1. PoolSizeExact' /\ CoreKept' /\ IndexBounded'
      BY PoolFrame
    <3>2. TypeOK' /\ TicketsHeld' /\ StopPhases'
      BY DEF IndInv, TypeOK, TicketsHeld, StopPhases
    <3>3. Claimed' /\ Taken' /\ HeldKnown'
      BY DEF IndInv, Claimed, Taken, HeldKnown, Running
    <3> QED
      BY <3>1, <3>2, <3>3 DEF IndInv
  <2> QED
    BY <2>1, <2>2, <2>3, <2>4 DEF Next
<1> QED
  BY <1>1, <1>2, PTL DEF Spec

(* poolSize_, workers_.size() and the number of live threads agree, and    *)
(* addIfUnderMaxPoolSize never exceeds maxPoolSize_.                       *)
THEOREM PoolAccounts == Spec => []PoolSizeExact
<1>1. IndInv => PoolSizeExact
  BY DEF IndInv
<1> QED
  BY <1>1, Invariance, PTL

(* Before shutdown() no token is in the ring. *)
LEMMA NotStoppedNoToken == ASSUME IndInv, ~isStop PROVE NoTokenTaken
  BY DEF IndInv, StopPhases, NoTokenTaken, TypeOK

(* A pool that is not shut down keeps corePoolSize_ workers that never     *)
(* leave, whatever timeouts and growths happen.                            *)
THEOREM CoreWorkersStay == Spec => []CoreStays
<1>1. IndInv => CoreStays
  <2> SUFFICES ASSUME IndInv, ~isStop
               PROVE  Cardinality({w \in Live : wpc[w] # "leave"}) >= Core
    BY DEF CoreStays
  <2> DEFINE stay == {w \in Live : wpc[w] # "leave"}
  <2>1. Cardinality(Permanent) >= Core /\ \A w \in WorkerIds : wpc[w] = "leave" => wi[w] >= Core
    BY NotStoppedNoToken DEF IndInv, CoreKept
  <2>2. Permanent \in SUBSET stay
    BY <2>1 DEF Permanent, Live, IndInv, TypeOK, Indices
  <2>3. IsFiniteSet(stay)
    BY PoolFinite, FS_Subset
  <2>4. Cardinality(stay) \in Nat /\ Cardinality(Permanent) <= Cardinality(stay)
    BY <2>2, <2>3, FS_Subset, FS_CardinalityType
  <2> QED
    BY <2>1, <2>4, PoolFinite
<1> QED
  BY <1>1, Invariance, PTL

(* rmThread's erase(begin() + i) stays within workers_ although indices    *)
(* are stale after an erase, as long as the pool may grow by at most three *)
(* workers beyond its core and is not shut down.                           *)
THEOREM EraseStaysInRange ==
    ASSUME MaxPool <= Core + 3 PROVE Spec => []EraseInRange
<1>1. IndInv => EraseInRange
  <2> SUFFICES ASSUME IndInv, ~isStop, NEW w \in WorkerIds, wpc[w] = "leave"
               PROVE  wi[w] < workers
    BY DEF EraseInRange
  <2>1. CoreKept /\ NoTokenTaken /\ wi[w] >= Core /\ wi[w] \in Indices
    BY NotStoppedNoToken DEF IndInv, CoreKept, TypeOK
  <2>2. wi[w] <= Core + 1
    BY <2>1 DEF IndInv, IndexBounded, Indices
  <2>3. Permanent \subseteq Live \ {w} /\ w \in Live
    BY <2>1 DEF Permanent, Live, Indices
  <2>4. IsFiniteSet(Live \ {w}) /\ Cardinality(Live \ {w}) = Cardinality(Live) - 1
    BY <2>3, PoolFinite, FS_RemoveElement
  <2>5. Permanent \in SUBSET (Live \ {w})
    BY <2>3
  <2>6. Cardinality(Permanent) <= Cardinality(Live) - 1
    BY <2>4, <2>5, FS_Subset
  <2>7. workers = Cardinality(Live) /\ Cardinality(Permanent) >= Core
    BY <2>1 DEF IndInv, PoolSizeExact, CoreKept
  <2>8. workers > Core
    BY <2>6, <2>7, PoolFinite
  <2>9. Cardinality(Permanent) >= Core + 1
    BY <2>1, <2>8 DEF CoreKept
  <2> QED
    BY <2>1, <2>2, <2>6, <2>7, <2>9, PoolFinite DEF Indices
<1> QED
  BY <1>1, Invariance, PTL

(* When shutdown() cannot place a token in a quiet pool, the slot it waits *)
(* for is that of one of its own tokens, which are never handed back.      *)
THEOREM StuckShutdownExplained == Spec => []StuckOnOwnToken
<1>1. IndInv => StuckOnOwnToken
  <2> SUFFICES ASSUME IndInv, dpc = "take", cacheOut = out, ~CanClaim, ready = {},
                      \A s \in Submitters : spc[s] # "fill",
                      \A w \in Live : wpc[w] # "run"
               PROVE  (in + 1 - Size) \in finish
    BY DEF StuckOnOwnToken
  <2>1. in \in Indices /\ out \in Indices
    BY DEF IndInv, TypeOK
  <2>2. \A n \in (out + 1) .. in : FALSE
    BY DEF IndInv, Claimed
  <2>3. in <= out
    <3> SUFFICES ASSUME in > out PROVE FALSE
      BY <2>1 DEF Indices
    <3>1. out + 1 \in (out + 1) .. in
      BY <2>1 DEF Indices
    <3> QED
      BY <3>1, <2>2
  <2>4. in + 1 - Size <= cacheOut
    BY <2>1, <2>3 DEF Indices
  <2>5. (in + 1 - Size) \in held
    BY <2>4 DEF CanClaim
  <2>6. ~Running(in + 1 - Size)
    BY DEF Running, Live
  <2> QED
    BY <2>5, <2>6 DEF IndInv, HeldKnown
<1> QED
  BY <1>1, Invariance, PTL

(* The destructor returns only after every task submitted before the first *)
(* finish token has been run.                                              *)
THEOREM ShutdownLosesNoTask == Spec => []ShutdownDrains
<1>1. IndInv => ShutdownDrains
  <2> SUFFICES ASSUME IndInv, dpc = "dead", NEW n \in 0 .. in, \A f \in finish : n < f
               PROVE  n \in ran
    BY DEF ShutdownDrains
  <2>1. Live = {}
    <3>1. Cardinality(Live) = 0
      BY DEF IndInv, StopPhases, PoolSizeExact
    <3> QED
      BY <3>1, PoolFinite, FS_EmptySet
  <2>2. Cardinality(Permanent) = 0
    <3>1. Permanent = {}
      BY <2>1 DEF Permanent
    <3> QED
      BY <3>1, FS_EmptySet
  <2>3. ~NoTokenTaken
    BY <2>2 DEF IndInv, CoreKept
  <2>4. PICK f \in finish : ~(f > out)
    BY <2>3 DEF NoTokenTaken
  <2>5. n \in 0 .. out
    BY <2>4 DEF IndInv, TypeOK, Indices
  <2>6. ~Running(n) /\ n \notin finish
    BY <2>1 DEF Running, Live
  <2> QED
    BY <2>5, <2>6 DEF IndInv, Taken
<1> QED
  BY <1>1, Invariance, PTL
=============================================================================
