# TLA+ models of emoskit

emoskit is a C++ RPC framework for Linux: an accepting thread, several epoll
event loops, and a pool of worker threads, connected by lock-free rings and
eventfd notifications, with a blocking client, and a code generator that turns
a `.proto` file into a server and a client project.  This directory models that
machinery in TLA+, checks small instances of it with TLC and proves every safety
property the runs check, with TLAPS, for every number of threads and every ring
size.

## 1. Inventory

| Component (source) | State | Operations | What makes it hard | Module |
|---|---|---|---|---|
| `CircBuf`, wait strategies (`circbuf.h`, `wait_strategy.h`) | `in_`/`single_in_`, `out_`, cached copies of both, per-slot `isFree_` and task | `take`, `poll`, `publish`, `get_*`, `consumer_done`, `is_empty` | lock-free, many producers and consumers, shared caches that are stale and may move backwards | `CircBuf`, `RingSpec` |
| `MsgQueue`, `Notifier` (`msg_queue.h`, `notifier.h`), producer `Task::operator()` (`task.h`), consumer `ResponseCb` | ring, `flag_`, eventfd counter, `bytes_for_eventfd_notify` | `TakeObjectAndSeq`, `Publish`, `set_flag_and_notify`, `unset_flag_and_clear_notify`, `GetConsumerObject` | lost wake-ups, unsynchronised byte buffer | `NotifiedQueue` |
| `SimpleCircBuf`, `SimpleMsgQueue` | `in_`, `out_`, buffer | `Put`, `Get`, `ReInit` | two threads without locks, wrapping unsigned indices | `SimpleCircBuf`, `BoundedFifo` |
| `ThreadPool` (`thread_pool.h`) | `poolSize_`, `workers_`, `isStop_`, `mlock_`, task ring | submit, grow, retire, run, `shutdown`, destructor | stale indices, shutdown while holding the lock the workers need | `ThreadPool` |
| `Server::Wait` and `AcceptFdCb` | one fd queue and notifier per loop | `accept`, `Put`, notify, drain, register | full queues, round-robin index shared by put and notify | `AcceptDispatch` |
| event loop and epoll backend (`ev_loop.*`, `ev_epoll.cpp`) | watcher list, `events`, `ischanged`, `previous_evs`, `tag`, pending events, `activecnt`, `mn_time_now` | start, stop, `update_fd`, `backend_modify`, `backend_poll`, `timer_notify`, `invoke_pendings`, `kill_fd` | registrations updated lazily and never deleted, descriptor numbers reused, `epoll_ctl` failing half way, watchers stopped from three places | `EvLoop`, `Loop` |
| timer heap (`4-minheap-internal.h`) | four-ary heap of timers with cached times, the position kept in each timer | `push`, `remove`, `adjust`, `shift_up`, `shift_down` | cached keys set after the sift, or left behind | `TimerHeap` |
| `OutputBuffer` and its use by `ResponseCb` | bytes, size, used and consumed offsets | append, write, consume, adjust | short writes, growth, overlapping moves | `OutputBuffer` |
| remote calls: blocking client, `ReadCb` framing, `Task`, `ResponseCb` | stream state, per-socket lengths, offset and receive buffer, tasks, responses | call, send, read length, read body, submit, run, respond, close, leave | partial reads, short and failed writes, descriptors reused with requests in flight, a loop and its workers waiting for each other | `Connection` |
| configuration (`config_parser.cpp`, `server_config.*`, `client_config.*`), `Server` and `ThreadPool` constructors | parsed sections, settings, endpoints | parse, read, reject, fall back to defaults, choose an endpoint | two layers of defaults, pointers into a dead string | `Config` |
| code generator (`codegen/`) | the files of the output directory | parse, generate fourteen files, skip existing ones | killed half way, files owned by the developer, names matched by position | `CodeGen` |
| generated project: make, generated `main`s, service dispatch | executables, registered methods | build, start, call | executables of different generations, methods looked up by a hash code | `Project` |
| rounding to powers of two (`util.h`) | - | `find_last_set_bit`, `roundup_pow_of_two`, `rounddown_pow_of_two` | boundaries | `Util` |
| growable array, generated protobuf code, logging, hashing, memory | - | - | memory management or generated | section 7 |

How the parts interact: `Server::Wait` accepts a socket and puts it into the
`SimpleMsgQueue` of a loop, then notifies the loop.  The loop's `AcceptFdCb`
registers `ReadCb` for the socket.  `ReadCb` takes a slot of the pool's
`CircBuf` (growing the pool when that fails), fills it and publishes it.  A
worker runs the task, takes a slot of the loop's response `MsgQueue`, publishes
the response, notifies the loop and only then hands the task slot back.  The
loop's `ResponseCb` drains the response queue and writes to the socket.  Every
arrow of this picture is one of the modules below, `Connection` is the picture
as a whole, and the modules above the rings use a ring through the abstract
specification the ring is shown to implement.  Before any of it runs, the
generator writes the server's and the client's sources, make builds them, and
each reads its `.conf` file: `CodeGen`, `Project` and `Config`.

The hazards of the code, each at its line and with the properties that cover
it, are in `PROJECT.json`.

## 2. Modules

**CircBuf** has one action per access to a shared location: `PLoad` is the load
of `in_`, `PCheckOut` the load of `cache_out_`, `PCheckFree` the load of the
slot's flag, `PClaim` the compare-and-swap (or the plain store of the single
producer), `PUpdateLoad`/`PUpdateStore` the two halves of
`cache_out_ = out_.load()`; likewise for the consumer.  `pc`, `next` and `tmp`
are the program counter and the locals of each thread.  The three polling wait
strategies differ only in what happens after `update_cache_in()`: `CWait` for
yield_sleep and timeout, `CIsEmptyFirst`/`CIsEmptySecond` for noblock.  A task
is identified by the sequence number it was claimed under.

*Memory model.*  The build target is x86-64.  Claims are locked instructions;
`isFree_`, `cache_in_`, `cache_out_` and `single_in_` are volatile and the code
has compiler fences around them, so the only reordering left is a store that
becomes visible later than a following load of the same thread.  The stores
concerned are of flags and indices that only ever tell the others *less* while
they are delayed (a slot not yet published, a slot not yet handed back, an older
cache): the others act on an older value, which the invariant of section 4
allows at every step.  On a weaker architecture this argument does not hold and
the models do not apply.

**RingSpec** is what a ring promises: producers draw consecutive tickets,
consumers draw the published ones in the same order, each once, and at most
`Size` are outstanding.  `CircBuf` maps to it by `Owner` (the ticket of the slot
a thread holds) and `Ready` (claimed tickets that no producer still fills).

**NotifiedQueue** uses a ring as a ticket queue and models the flag, the eventfd
and the byte buffer access by access.  `EventFdMax` stands for 2^64 - 2.  The
eventfd does not block, so its `write()` is not interrupted: EAGAIN is the one error
it can have.

**SimpleCircBuf** keeps the wrap-around of the unsigned indices (`Width` for
2^64) and is mapped to **BoundedFifo**; `Put` takes effect at `++in_`, `Get` at
`++out_`.

**ThreadPool** uses the ring as a ticket queue plus `cacheOut`, because `poll()`
fails on the cached index.  `AddThread`, `Grow`, `Leave` are `addThread`,
`addIfUnderMaxPoolSize` and `rmThread`; `Get`, `Timeout` and `Run` are the body
of the worker.  A worker holds its ticket until the task returned; the slot of a
finish token is never handed back, as in the code.

**AcceptDispatch** composes the fd queues (as bounded FIFOs) with their
notifiers, the accepting thread and the loops.

**OutputBuffer** takes one turn of `ResponseCb`'s loop as an action: append the
length and the body, write some of the contents, consume, adjust.  A byte is
named by its place in the stream, so the order of the bytes the peer sees can be
stated.  `memcpy` of overlapping regions yields garbage.  A `write()` that fails
is an action too; after it the unsigned size has wrapped and the memory is
undefined, so the model stops there.  Its names start with `Buffer`, so that it
can be proved about beside `NotifiedQueue`.

**Util** is `roundup_pow_of_two`, by which the output buffer and the rings find
their sizes, and `rounddown_pow_of_two`, by which the receive buffer does; `Bits` is the width of the integers, a power of two is the recursive
function `Pow2`.

**EvLoop** follows one descriptor with a read and a write watcher through the
phases of `dispatch()`.  The kernel's side is `kernel`, the registration epoll
holds: `close()` removes it, `EPOLL_CTL_ADD` fails with EEXIST if it is there
and `EPOLL_CTL_MOD` with ENOENT if it is not.  Other descriptors have their own
`ev_fd` and do not interfere.  An entry of `pending` is empty or holds the mask
the callback will get.  `Short` is the conversion of that mask: EV_ERROR, which
`kill_fd` feeds, has no bit in a `short`, so that the callback is pending with an
empty mask.

**TimerHeap** is the heap as operators on one record: the slots with their
cached times, the size, and the `active`, `at` and `repeat` fields of the
timers.  Slots beyond the size keep what was last stored in them, because
`push()` sifts by it.  `Lift` and `Sink` are one turn of the loops of `shift_up`
and `shift_down`; `Lifting` and `Sinking` give the state of the loop after n turns,
and the operation takes as many turns as there are slots, after which the loop
is over (`ShiftsEnd`, section 4).  `remove` of the last slot writes through a null
pointer: the heap is then `crashed`.

**Loop** composes `EvLoop` with the timers.  `timer_notify` is one turn of the
code's loop; from `LoopPoll`, which finds a timer due, until the last turn
`notifying` is up and nothing else happens, as no callback runs in between.
`fired` holds the timers among the pendings in the order in which they are
invoked.  The clock is a small number that may stand still or jump at each poll,
also when `epoll_wait` was interrupted or failed.  `early` is raised by a
notification before its time, unless a timer had been removed before that step: a
one-shot timer that is itself the first to be removed counts.  `timed` separates the programs that use timers, and
start at most `MaxStarts` watchers, from those that use sockets only (the
server), which are unbounded.

**Connection** composes blocking clients, the socket callbacks of one loop, the
workers and the response callback.  A request is a header and as many units as
its length says, and arrives in pieces.  With `ShortReads` a header, too, may
be read in part: what was read is then taken for a length (any that is not above
the header's, because the first bytes are the high ones), and the rest of the
header for the body or the next header (any other length).  `InitSize` is the size of
the receive buffer at first, `Limit` the length above which a packet is refused.  For
a longer packet than fits, `AfterHeader` makes a buffer of the power of two that is
not above its length and resets the offset, as the code does; `read()` is given
the length nevertheless.  `sock[f].buf` is therefore the memory from the buffer's
start on, and what a read stores past the buffer's end (`Overrun`) either lands in memory
that nobody else uses, and is found there by `ParseFromArray`, or does damage, after
which anything may happen and the model stops (`crashed`).  A connection attempt may fail
(`ConnectFails`: refused, timed out, or an error of the socket).  A client that
finds something else than one response takes it for an error, or for a
length with contents still to come.  `up` and `down` are the two
directions of a connection, `conn` says which connection a descriptor number stands
for at the moment.  `Submit` is an action of its own because `getTaskObjectAndSeq`
waits, `Run` because `TakeObjectAndSeq` does.  What the code leaves undefined is a
choice: the `errno` a read() of 0 bytes finds, whether a mixture of two requests
parses, what a write past a buffer's end does, and what is copied after a failed
write() (EAGAIN on a live connection among them, with `ShortWrites`): the output
buffer is then one unit of junk.

**Config** takes a `.conf` file as a sequence of items, one per turn of the loop
in `ParseConfig`, and is the parser, both `ReadConfigFile`s and what `Server` and
`ThreadPool` make of the numbers.  A value is a text, which `atoi` turns into a
number where the code reads an int: `Numerals` says which texts are numbers, any
other is 0.  Every `Endpoint` keeps `ip.c_str()` of one
local string: what it reads later is the last address looked up, or junk.

**CodeGen** is `ProtoParser` and `main` of `syntax.cpp`.  The contents of a
generated file are what it declares, defines, includes and refers to.  Each of
the fourteen blocks of `main` is `Skip`, or `Truncate` (fopen) followed by `Close`
(fclose); `Kill` may come anywhere.  A file that was truncated exists, so a later
run skips it when it is one of the nine that belong to the developer.

**Project** adds the developer, make, the generated `main`s and one call.
Executables outlive their sources.  A call carries the hash code of its method's
name (`HashCode`, any function of names, for `murmur_hash3`), and the server looks
it up by that: two names of one server with the same code make `AddMethod` exit,
but a name that only the client has may have the code of another function.  `ServerLinks` and `ClientLinks` say when the
sources fit together; they allow more than a compiler does, so the invariants
hold for at least the executables that can exist.  `finished` remembers for each
file base name the tree of the last run that was not killed.  The programs are
made and run while the generator is not running, since a kill leaves every
directory they could find while it is.

## 3. Runs

| Run | Instance | Shows |
|---|---|---|
| `ring_producers` | 2 compare-and-swap producers, 1 yield consumer, 2 slots, fair | `SlotExclusive`, `AssertsHold`, `ImplementsRing`, `EventuallyConsumed`, `TakeReturns` |
| `ring_consumers` | 1 single-strategy producer, a timeout and a noblock consumer, 2 slots, spurious CAS failures | `ReadsOwnTask`, `IndInv`, `NoblockMissesNothing` |
| `notifier` | 3 workers, 1 loop, 2 slots, fair | `NoBytesRace`, `NoLostWakeup`, `IndInv`, `EventuallyDrained` |
| `spsc_ring` | 4 slots, indices modulo 16, 2 values | `NoSlotRace`, `ImplementsFifo` |
| `pool` | 2 submitters, core 1, maximum 4, 2 slots, possibly destroyed, fair | `PoolSizeExact`, `CoreStays`, `EraseInRange`, `StuckOnOwnToken`, `ShutdownDrains`, `EventuallyRun`, `SubmitReturns`, `ShutdownTerminates` |
| `output_buffer` | 4 bytes initially, moves beyond offset 3, bodies of 1, 4 and 7 bytes | `BufferTypeOK` (with the buffer's accounts), `InOrder` |
| `accept` | 2 loops, 2 slots each, 6 connections, fair | `ExactlyOnePlace`, `NoLostWakeup`, `EventuallyWatched` |
| `evloop` | one descriptor, tags modulo 4, failing `epoll_ctl`, hang-ups; 4 timers, one-shot and repeating | `TagMatches`, `NothingMissed`, `NoCallbackAfterStop`, `HeapPositions`, `ActiveCountExact`, `NeverEarly` |
| `connection` | 2 connections, 2 descriptor numbers, 2 calls, 1 client that leaves or fails to connect; packets that fit the buffer, that get a new one and that get one too short; short writes on the first connection, headers in parts on the second; 1 worker, rings of 1, fair | `RequestOnce`, `AnswersOwn`, `CallReturns`, `LeaverClosed` |
| `project` | 6 `.proto` files of 3 services, 7 server and 2 client configurations, 2 edits, 1 kill | `RightFunction`, `DevelopersCodeRuns`, `StartsLegal` |
| `pool_retire` | violated: `AddedWorkersRetire` | see section 6 |
| `evloop_previous` | violated: `PreviousRecorded` | see section 6 |

Several properties are stated up to a condition under which the code breaks them;
each such condition is a behaviour of the model and is described in section 6.

Bounds.  Two slots are the smallest ring the constructors allow and make every
index reuse its slot at once; `MaxSeq` lets the indices go round the ring more
than once, so that a slow thread meets its slot a lap later.  Two threads on a
side suffice for every pairwise race (the slot, the caches, the flag), a third
worker in `notifier` shows that one notification serves several.  In
`pool` the maximum is core + 3, the largest for which the erase index
stays in range, and the headroom of the configuration shown in the repository's
README (6 and 9); the pool can be smaller than, equal to or larger than its ring
when it is shut down.  In `output_buffer` up to 30 bytes and more pass through a
buffer that starts with 4, so it grows several times and both kinds of move
happen.  In `evloop` the heap has arity 2, so that four timers make three levels
and both directions of the sift take several steps; the code's arity is 4 and
the comparison of the children is the same first-least choice.  In
`connection` the second client gets the descriptor number of the first while a
request of the first is under way, and rings of one slot stand for rings that
happen to be full but for one.  A buffer of 1 unit and a limit of 3 give packets
that fit (1), that get a buffer of their own length (2) and that get one that is
too short (3); the rest of a header of which a part was read is taken for any
other length, those that are refused (4) included, and the packets made of it
bring about the gridlock.  (Without them it takes three clients.)  The integers
have 3 bits.  `ShortReads` and `ShortWrites` name the connections where reads and
writes may be short, one each here, because more is beyond TLC's reach; the
proofs have any.  In `project` the `.proto` files reorder the functions, change the case
of the service, rename it, add a function that clashes with the generated
`Echo`, and do not parse; the configurations reach the defaults of both layers,
every rejection of the parser, missing keys and values out of range, on one
core and on four.  Two method names of different services have the same hash code.

Deadlock is not checked where the system may stop: in `NotifiedQueue`,
`ThreadPool`, `OutputBuffer`, `AcceptDispatch` and `Connection` the bounded
clients run dry (in `Connection` the server may also be gridlocked or dead), in
`ThreadPool` the pool ends, and in `Project` the developer may stop with a
`.proto` file that does not parse.

Fairness.  Weak fairness of each thread's steps only: the operating system
schedules every runnable thread, an idle worker's timeout expires, tasks return.
There is none on beginning a submission, a request or a shutdown, and
`ring_producers` excludes spurious failures of the compare-and-swap, which x86
does not have.  In `Connection` fairness is per callback, because one iteration of
a loop serves every descriptor that is ready, and per client only for finishing
a call that was begun: no client has to connect, to call or to leave, and the
stale `errno` that decides between `ReadNothing` and `ReadError` need not change.

## 4. Proofs

`CircBufProofs` proves `Spec => []IndInv` for all sets of producers and
consumers, every `Size >= 2`, both production strategies and any assignment of
wait strategies.  `SlotExclusive` is not inductive: that nobody else claims the
slot a producer is about to claim rests on what the producer read some steps
ago.  `IndInv` records what stays true of such old reads:

- `IndexInv`: the indices never cross and are at most a lap apart; the cached
  copies only lag, which is why it does not matter that they move backwards;
- `ProducerInv`: a number that passed the lap test stays within a lap of `out`;
  a slot seen free stays free *as long as `in` has not moved*, and the
  compare-and-swap checks exactly that;
- `ConsumerInv`: the mirror image, with what `is_empty()` knows between its two
  loads;
- `ClaimedOnce` and `NoTaskLost`: claimed numbers have one owner, and between
  `out` and `in` every slot holds its own lap's task or is being filled.

The proof has one lemma per action.  From it follow `TypeCorrect`,
`RaceFreedom` (`SlotExclusive`), `AssertionsNeverFail` (`AssertsHold`),
`Delivery` (`ReadsOwnTask` and `NoTaskLost`) and `NoblockComplete`
(`NoblockMissesNothing`).

`Refinement`, in the same module, is `Spec => ImplementsRing`: claims,
publications, successful consumer claims and hand-backs are the four steps of
`RingSpec`, everything else is a stutter.

`ResponseProofs` follows a response back.  Of `NotifiedQueue` it proves the
invariant of the notifier for any number of workers and any ring size, hence
`WakeupNeverLost` (`NoLostWakeup`) and `NotifierRaceFree` (`NoBytesRace` and
`OneNotification`).  The invariant says that a raised flag stands for exactly one
of: a worker about to write, a readable eventfd, a loop about to lower the flag.

Of `OutputBuffer` it proves `BufferTypeCorrect` (`BufferTypeOK`) and `BytesInOrder`
(`InOrder`) for all initial sizes, limits and lengths that fit the integers.
Inductive is `BufferInv`: the buffer is `Sound` (its bytes are those of its size, in
use is at most the size), and what was consumed was in use and was sent.
`Appends` and `Adjusts` say what the two halves of a response do to a sound buffer:
no byte in use is lost, and what is unsent is the same before and after a move,
by `memmove` or by `memcpy` of regions that do not overlap.  That a buffer which
grows is large enough is `RoundUpEnough`: `roundup_pow_of_two(x)` is a power of two
and at least `x`.

`SimpleCircBufProofs` proves `SlotsExclusive` (`NoSlotRace`) and `Refinement`
(`ImplementsFifo`) for every ring size and index width.  What is inductive is
what a thread may rely on between its test and its increment: `PutHasRoom` and
`GetHasValue` (the other thread can only make more room, or more values),
`PutWritten` and `GetMoved` (the slot is left alone meanwhile).  The provers know
little of `%` by a symbolic number, so the module starts with the lemmas on
remainders that carry the argument across a wrap-around.

`AcceptDispatchProofs` proves `SocketInOnePlace` (`ExactlyOnePlace`) and
`DispatchWakesLoop` (`NoLostWakeup`) for any number of loops, queue size and
number of connections.  `ExactlyOnePlace` is a count; inductive is `OnePlace`,
which says where the socket is and that it is nowhere else.  `NoLostWakeup` needs
`FlagCovered`: a raised flag has its notification under way, so an acceptor that
finds it raised may go on without writing.

`LoopProofs` proves of `EvLoop!Spec` `LiveEventsRecognised` (`TagMatches`),
`WantedEventsWatched` (`NothingMissed`) and `StoppedWatchersGetNoEvents`
(`NoCallbackAfterStop`: a stopped watcher is called only after `kill_fd`, and then with
an empty mask), for every tag width, whether or not `epoll_ctl` fails.
`NothingMissed` speaks of the loop while it polls; `Reified` and `MaskKnown` say why
it is right there: outside `fdchanges` the fd's mask is that of its watchers and is
registered, and up to the first hang-up what epoll holds, what the fd wants and
what `previous_evs` records only differ where the code empties one of them.
`LoopIsEvLoop` shows that the loop with its timers implements the loop without
them, so the three hold of both (`LoopKeepsEvents`; the run checks them there).

Of `Loop` it proves `TimersKnowTheirPlace` (`HeapPositions`), `StartedWatchersCounted`
(`ActiveCountExact`) and `TimersNotEarly` (`NeverEarly`), for every finite set of
timers and every arity of the heap.  `LoopInv` is inductive: unless the heap has
crashed it is well-formed, its timers and slots `Agree`, its size is the number of
started timers, and up to the first removal every slot has the time of its timer
cached; while `notifying`, the timer at the top is due.  The argument about a sift:
during it one slot is free (`Vacant`), every turn moves the free slot and keeps all
that was said of the others (`Travels`), and the timer that is put into it at the
end restores the agreement (`Settle`).  The position falls or rises with every turn,
so the turns run out (`ShiftsEnd`).  `TimersNotEarly` does not need the heap to be
ordered, which it is not: that the time cached at the top is its timer's is enough.

`ThreadPoolProofs` proves `PoolAccounts` (`PoolSizeExact`), `CoreWorkersStay`
(`CoreStays`), `EraseStaysInRange` (`EraseInRange`, if `MaxPool <= Core + 3`),
`StuckShutdownExplained` (`StuckOnOwnToken`) and `ShutdownLosesNoTask`
(`ShutdownDrains`).  `CoreKept` carries the second and the third: until a finish
token is taken, workers with an index below the core size never leave, there are
`Core` of them, and `Core + 1` as soon as the pool is larger, because the first
worker added to a pool of core size gets the index `Core - 1`.  A worker that
leaves therefore finds `Core + 2` workers at least, and its index is at most
`MaxPool - 2` (`IndexBounded`), which is where the bound on `MaxPool` comes from.
`Claimed`, `Taken` and `HeldKnown` say where every ticket is: published or being
filled; run, running or a token; and whose slot is not handed back.

`ConnectionProofs` proves `RequestsRunOnce` (`RequestOnce`) and
`AnswersReachOwner` (`AnswersOwn`) for any number of connections, descriptors and
workers, any sizes of the rings, of the receive buffer and of the limit, and requests
of any lengths, those longer than the buffer made for them included, up to the first
damage that a write past its end does.  The argument:

- `OneDescriptor`: descriptor numbers are reused, but a connection has one number
  in its life, and whatever shows a trace of it (the socket, the receive buffer, a
  task) has that number;
- `Streams`: what is on its way to the server is a stream of whole requests
  (`Orderly`) that starts with the unit `ReadCb` expects and ends where the client
  stopped sending (`Ends`);
- `WholeInBuffer`: where no header and no body arrived in parts, the packet about to be
  submitted is one request, later than those in the pool and earlier than those
  on their way; hence `TasksWhole`, and a task is unique because its ticket
  (`TicketsApart`) and its request are;
- `Served`: on a descriptor where nothing was orphaned, split or spoilt, the last
  call of the client is in one place only: on its way, about to be submitted, in
  the pool, among the responses, or on its way back (`OneCall`).

One lemma per action; `ClientFrame`, `CloseFrame`, `ReadFrame` and `ServerFrame`
do once what all steps of a client, all closes, all reads and all steps behind
the sockets have in common.  The proof corrected `RequestOnce`: it used to say
that the client waits unless the descriptor was orphaned.  With three connections
on one number and two short writes, each followed by a client that leaves, the
third client takes the rest of the old answers for its own and is idle while its
request is in the pool.  That is beyond the bounds of the run (one client leaves);
TLC shows it with two, and the property now excepts `spoilt` descriptors too.

`ProjectProofs` proves `CallsReachTheirFunction` (`RightFunction`),
`ImplementationsSurvive` (`DevelopersCodeRuns`) and `StartedServersLegal`
(`StartsLegal`) for all `.proto` and `.conf` files, any number of edits, removed files
and kills.  The properties speak of executables, which remember files, which
remember runs; `ProjectInv` states each link:

- `FinishedRuns`: after a finished run every whole file that runs rewrite comes from
  its tree; `RunningRun`: during a run this holds of the blocks already done, and no
  run counts as finished.  A kill at any point leaves the second without the first;
- `FilesOK`: a whole `service.cpp` or Makefile comes from *some* tree, which is all
  that is known after a kill and enough for `DevelopersCodeRuns`;
- `WrittenKept` with `BeingWritten`: what the developer implemented is in a whole
  `service_impl.h`, and a file that the generator has open is not whole, so it is
  none of those;
- `ServerMatches`, `ClientMatches`: an executable made after a finished run has the
  functions of its tree under their own names, by position in all three files;
- `ProcessOfServer`: no two methods of a server that runs have the same hash code.
  For any hash function, then, a call reaches the function of its name if the server has
  it, and otherwise the only one with the same code, if there is one.

`StartsLegal` rests on no invariant: `StartBuilds` shows it of whatever the parser
returns, because each number passes through `atoi`, the tests of `ReadConfigFile`
and the defaults of two layers, and `RingSizeIs` on the rounding of
`ResponseProofs`, which the module extends for that.

*Induction.*  The library's induction theorems take an operator as a parameter,
which the provers here cannot instantiate.  `Least` (every non-empty set of natural
numbers has a least element) is proved from the well-foundedness of finite sets
instead, and an induction becomes the search for a least counterexample.  With it
`PowersExist`/`Pow2Def` and `Iteration` show that the recursive functions `Pow2`,
`Lifting` and `Sinking` satisfy their equations.

Assumptions are those of the modules' ASSUMEs: a ring has at least two slots,
threads are producers or consumers but not both, the single-producer strategy has
one producer; the size of a `SimpleCircBuf` divides the number of index values
(the constructor rounds to a power of two); there is a loop, and a core worker;
a body has a unit, and the receive buffer too, which is at first not above the
limit; `None` is not a number, nor a function, and `Junk` is no unit of
a request or of a response; the lengths of the responses stay below half the width of the output
buffer's integers; the timers are finitely many and the null pointer is none of
them; a `.proto` file is a sequence of services with sequences of functions, and
the numbers in a `.conf` file are at most the largest power of two in use.

## 5. Only model-checked

- Liveness (`EventuallyConsumed`, `TakeReturns`, `EventuallyDrained`,
  `EventuallyRun`, `SubmitReturns`, `ShutdownTerminates`, `EventuallyWatched`,
  `CallReturns`, `LeaverClosed`) is outside what the proof system handles.
  Every other property of a passing run is stated by a theorem.
- What `ParseConfig` returns for a given file is a fold that TLC evaluates on the
  configurations of `project`; the theorems hold for whatever it returns.

`NoTaskLost` and `OneNotification` are conjuncts of the two `IndInv`s that runs
check.  The other inductive invariants (`IndInv` of `SimpleCircBuf`,
`AcceptDispatch`, `EvLoop`, `ThreadPool` and `Connection`, `BufferInv`, `LoopInv`,
`ProjectInv`) hold on the instances of the runs as well, but no run lists them.

## 6. Where the code differs from what is said of it

- *Added workers do not all retire.*  The repository's README says that an
  added worker closes after its idle time.  `addThread(workers_.size() - 1)`
  gives the first added worker an index below the core size, so it waits
  without a timeout (`pool_retire`).
- *Exchanged masks.*  After an event nobody wants, `backend_poll` registers the
  wanted mask with EPOLLIN and EPOLLOUT exchanged while `previous_evs` records
  the right one, on which `backend_modify` later relies (`evloop_previous`).
  `NothingMissed` is therefore stated up to the first hang-up.

Read off the models, without a run of its own:

- *EV_ERROR is lost.*  `kill_fd` feeds EV_ERROR (0x80000000) to the watchers it stops,
  and `ReadCb` has a branch for it that logs "invalid fd=%d, and has been closed."
  (`network_event_handler.cpp:144`).  The event is kept and passed on as a `short`
  (`ev_loop.h:64`), so the callback runs without any event and the branch is never
  taken.  `NoCallbackAfterStop` says what is left: an empty mask.
- *Timers out of order.*  `ev_loop.h:143` promises that timers trigger in
  chronological order.  `push()` sifts by the time cached for the slot's last occupant
  and stores the new one afterwards, so two timers started in turn may be notified
  the wrong way round.  `NeverEarly` shows that they do not fire too early for it.
- *Receive buffer too short.*  A comment says that packets above 8k are refused
  (`network_event_handler.cpp:96`; the limit is 16k).  One below it that is longer than
  the buffer gets a buffer of `rounddown_pow_of_two` of its length, less than the packet
  unless the length is a power of two, and `read()` is given the whole length
  (`AfterHeader`, `Overrun`).

Observed while modelling, not held against any text.  Where a property excepts
such a behaviour, its comment says so, and without the exception TLC shows it
(but for the gridlock in `CallReturns` and `LeaverClosed`, which takes a third client
or a second one that leaves).

- *Pool.*  `poll()` fails on the cached index alone, so the pool also grows when
  its ring has room; with `maxPoolSize_ > corePoolSize_ + 3` the erase index can
  leave the vector; `shutdown()` blocks for good when the pool is larger than its
  ring.  With a core size of 0 the constructor takes `hardware_concurrency() / 1`
  where its log line (`thread_pool.h:90`) says a half.
- *Timers.*  `remove()` leaves the removed timer's cached time to the timer that
  takes its slot, which may then fire early (`NeverEarly` holds up to the first
  removal and including it), and removing the last slot writes through a null
  pointer.  The server starts no timer.
- *Descriptors.*  `task_count` is never incremented, so a socket is closed with its
  requests in the pool, and the answer goes to the next connection with the same
  number (`AnswersOwn` excepts `orphaned` descriptors).
- *Partial reads.*  After a body arrived in parts the offset and the rest are
  counted from the last read alone: the packet is never complete, or is completed
  with the next one (`split`).  A read that gets less than four bytes of a header takes
  them for the length.  At the end of the stream inside a packet a stale
  `errno` decides whether the descriptor is closed (`LeaverClosed`).
- *Writes.*  The rest of a short write waits for the next response on the socket,
  or on the next connection with the same number, whose client then reads it as
  the answer to its own call; a failed write consumes 2^32 - 1 bytes (`spoilt`,
  `crashed`).
- *Gridlock.*  A loop that waits for a task slot does not drain its response ring,
  and workers that wait for a response slot do not hand task slots back
  (`Gridlock`, excepted in `CallReturns`).
- *Generator.*  A kill between fopen and fclose leaves an empty file, which later
  runs skip if it is one of the developer's; a kill between `service.cpp` and
  `stub.cpp` leaves names and positions of two generations in one directory
  (`RightFunction` is claimed for executables of finished runs).  The Makefile has
  no service in its name and is kept after the service was renamed: make then
  goes on building the old one.
- *Client configuration.*  All endpoints share the address of one local string,
  so only the last address counts, if any.

## 7. Not modelled

- `block_wait_strategy`: no ring of the repository uses it.  `object_pool`,
  `quad_minheap::pop`, the setters of `Server`: no caller.
- The growth of `array` on access, and the race of two loops on it: memory
  management below the models, which take an array as a function.
- The digits of `murmur_hash3`: it is any function of names, with collisions.
- Logging, `Daemonize`, the listening socket's options: no protocol state.
- `network_proto.pb.*` is generated; of a message only whether it parses is
  modelled.

## 8. Plan

Done: the rings, queues, pool, buffer, accept hand-over and event loop; the
composed `Connection`, the timers, the configuration, the generator and the life
of a generated project; proofs of every safety property that a run checks.

Left, in this order:

1. action properties of the ring and the pool (what a step may never undo);
2. two loops in `Connection`, and the response ring as an instance of `RingSpec`;
3. `block_wait_strategy`, should a ring come to use it: its sleeping consumer needs
   the wake-up argument that `NotifiedQueue` has.
