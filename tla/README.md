# A TLA+ model of Filth

Filth is a multithreaded HTTP/1.1 server in C++. One scheduler thread waits for
events with epoll and hands ready connections to a pool of workers through a
lock-free job queue; a worker runs a piece of work (a `Work` object, one per
connection) until it would block and gives it back to the scheduler; responses
are shared between workers through a reference-counting cache. This directory
models that machinery in TLA+, checks it with TLC on small instances and proves
its safety with TLAPS for instances of any size: of the cache, the lock-free queue,
the dispatch, the parsing, the responses, the domain-socket clients and the process's
life.

Source paths below are relative to `src/src/`.

## 1. Inventory

| Component | State | Operations | Interacts with |
|---|---|---|---|
| Cache (`Cache.hpp`) | map of handles to refcounted entries, set of handles to evict, byte count `cur` | `get`, `unget`, `put`, `evict`, `advise_evict`, `flush` | called by workers (responses) and by the scheduler thread (flush signal) |
| LockFreeQueue (`LockFreeQueue.hpp`) | linked list, semaphore | `enq`, `wait_deq`, `nowait_deq` | job queue (scheduler to workers), free store of `Preallocated` |
| Scheduler (`Scheduler.cpp`) | epoll set, callbacks, signal handlers, `dowork` | `poll`, `schedule`, `reschedule`, accept and signal callbacks, `halt` | creates, queues and deletes Works; runs the signal handlers |
| FindWork, Work, Preallocated (`FindWork_prealloc.hpp`, `Work.cpp`, `Preallocated.hpp`) | descriptor-to-Work map, Work objects, free store | find or create, `unregister`, `register_alien`, `clear`, `rduntil`, new, delete | scheduler and workers |
| Worker (`Worker.cpp`) | the Work at hand | `work` | dequeues, runs, deletes Works; passes the poison pill on |
| HTTP_Server_Work, HTTP parsing (`HTTP_Server_Work.cpp`, `HTTP_parsing.cpp`) | mode, buffers, kept headers, bytes missing of the body, `deleteme`, `nosch` | `operator()`, `operator>>`, `reset`, `async_setresponse` | reschedules itself |
| HTTP_2616_Server_Work | method, path, cache directives, the entry being sent, `resp_is_cached` | `prepare_response`, `browse_req`, `cache_get`, `cache_put`, `reset` | cache, origin server, domain-socket clients |
| Cache entries (`HTTP_CacheEntry.*`) | contents, times, headers, output flags | ages, freshness, manipulators, output | shared by the workers that hold them |
| Origin server (`HTTP_Origin_Server.cpp`) | none of its own: the files | `request`, `putorpost`, `dirtoHTML`, `validate`, `unlink` | file system |
| Domain-socket clients (`HTTP_Client_Work*.cpp`) | a client Work and the dormant server Work it wakes | `operator()`, `browse_resp` | scheduler, FindWork, server Work |
| Server, CachingServer (`Server.hpp`, `CachingServer.hpp`) | `doserve`, threads, queue, map, cache, socket file, directory | `serve`, `halt`, `flush`, emergency yank, set-up, destruction | owns everything |
| Thread, ThreadPool, Locks | list of threads, mutex, condition | start, remove itself, wait for all, yank | Server |
| Start-up (`root_safety.cpp`, `sigmasks.cpp`, `cmdline.hpp`, `HTTP_main.cpp`) | effective user, signal mask, options | give up root, block signals, read options | Server |
| Constants, utilities, test programs, DoubleLockedQueue | none | tables, compression, logging | |

What is hard here, and what would make each part correct:

* **Cache.** Decisions are taken under one lock and carried out under another.
  A held entry must stay, references and bytes must be counted exactly, nothing
  evictable may be forgotten, and the retry loops must end.
* **Dispatch.** A connection wanders between epoll, the scheduler's batch of
  events, the job queue and a worker, and the whole design rests on its being in
  one place at a time ("one socket, at most one worker"). Clients hang up at any
  moment and the kernel reuses descriptors at once. Every request must be
  answered, every abandoned connection reclaimed, every thread stopped by one
  poison pill.
* **Job queue.** Several compare-and-swaps per operation, nodes freed without a
  garbage collector, a semaphore that changes later than the list.
* **Parsing.** Bytes arrive in pieces cut anywhere; what the server understands
  must not depend on the cuts, and pipelined bytes must not be forgotten.
* **Responses.** A Work takes a reference to an entry or makes an entry of its
  own, and a dozen exits of `prepare_response` must each lead to its being given
  back or deleted once. Entries are shared while files change under them.
* **Dormancy.** A server Work sleeps until another Work, run by another worker,
  wakes it; it must not be run twice, and must be woken.
* **Life of the process.** Threads remove themselves from the list that the main
  thread waits on; objects must outlive threads; signals may kill threads with
  locks in their hands; a socket file outlives the process.

`PROJECT.json` lists each hazard at its line, with the properties that cover it.

## 2. Modules

| Module | Models | Notes |
|---|---|---|
| `CacheContract` | what a user of the cache may rely on | every operation atomic |
| `Cache` | `Cache.hpp` | one action per locked section or atomic instruction; `op[c]` is where client `c` is inside an operation; shown to implement `CacheContract` |
| `CacheProofs`, `CacheSums` | | theorems about `Cache`: who holds what, and how many bytes |
| `ConcurrentQueue` | `ConcurrentQueue.hpp` | abstract FIFO queue |
| `LockFreeQueue` | `LockFreeQueue.hpp` | one action per memory access; shown to implement `ConcurrentQueue`; proved about in `LockFreeQueueProofs` |
| `Sockets` | kernel and clients (external) | descriptors, epoll one-shot interest, backlog, pending signals; clients connect, send, pipeline, stall, hang up |
| `FindWork` | `FindWork_prealloc.hpp`, `Preallocated.hpp`, `Work.cpp` | Work objects with their memory: a deleted Work keeps its fields until its chunk is reused |
| `Scheduler` | `Scheduler.cpp` | `EpollWait` takes a batch, then one action per event handler |
| `Worker` | `Worker.cpp`, `HTTP_Server_Work::operator()` | read, write and error cases, rescheduling, the test of `deleteme` and the two destructors are separate steps |
| `Server` | `Server::serve`, signal handlers | composes the four modules above; all properties of the dispatch are stated here; proved about in `ServerProofs` |
| `Parsing` | `rduntil`, `operator>>`, the read half of `operator()`, `reset` | one action per read and per turn of the loop over lines; proved about in `ParsingProofs` |
| `CacheEntry` | `HTTP_CacheEntry` | operators: ages, freshness, manipulators, what the headers announce |
| `OriginServer` | `HTTP_Origin_Server` | files with sizes and contents, a clock |
| `Responses` | `HTTP_2616_Server_Work` | proved about in `ResponsesProofs`; composes `CacheContract`, `CacheEntry` and `OriginServer`; each action makes at most one call of the cache and at most one access to a file or to the flags of an entry |
| `DomainSocket` | `HTTP_Client_Work*`, dormancy | one request for a domain socket, from the making of the client Work on; proved about in `DomainSocketProofs` |
| `ThreadPool` | `ThreadPool.hpp`, `Thread.hpp` | the list, the mutex and the condition; where each thread is |
| `Lifecycle` | `Server.hpp` around its loop, `root_safety.cpp`, `sigmasks.cpp` | extends `ThreadPool`: start-up, iterations, signals, crash and restart; proved about in `LifecycleProofs` |
| `MC*` | | instances for TLC |

`Server` extends `Worker`, which extends `Scheduler`, `FindWork` and `Sockets`;
each declares its own variables, and the actions of one module leave the
variables of the others unchanged explicitly. An action stands for all that a
handler does up to the next point where another thread can interfere with what
it uses: `OnAccept` contains accept, the creation of the Work and `schedule`;
`Reschedule` is a step of its own because epoll may report the connection the
moment it is taken, before the worker looks at the Work again.

One C++ method may be modelled from several sides. `HTTP_Server_Work::operator()`
is in `Worker` as seen by the dispatch (a request arrives whole, a response is
one write of headers and one of a body), in `Parsing` as seen by the bytes, in
`Responses` as the frame around `prepare_response`, and in `DomainSocket` in the
dormant state. `Responses` relies on what `Server` checks, that a Work is
executed by one worker at a time; `Cache` implements the contract that
`Responses` uses, without flush.

**Correspondence of the state.**

* `Parsing`: `inbuf` is what is left to extract from the stream of that name;
  `inhdrs` has the two headers that matter here; `inbody_sz` keeps the width of
  a `size_t` (`SizeMod`), because `tord -= nread` may wrap, and `CbufSize` is
  the size of `cbuf`, through which the part of a body in `inbuf` is copied. The first symbol of
  a line stands for its name. `torn` is a history variable. A script is any sequence
  of requests that are `WellFormed`: a request line with a version, other header
  lines that are neither empty nor one of the two kept headers, and a body whose
  length has one digit; `Bytes` is what the client writes for them.
* `LockFreeQueue`: `Contents`, the queue that the list stands for, is read off by
  following `next` from the dummy (`Path`).
* `Responses`: `work[k]` has the fields of a Work that survive between steps
  (`path`, `resp_is_cached`, `c`, `cl_accept_enc`) and where it is; `live` and
  `entry` are the heap; a file's contents are identified by how often it was
  written. `lost` remembers the Works destroyed while they had a response to
  send, `shared` and `late` are history fields.
* `DomainSocket`: `sarmed` and `squeued` say where the server Work is, `cwhere`
  where the client Work is; `wmap` is the client's place in the descriptor map.
* `ThreadPool`: `at[t]` is where a thread is, with separate places for being
  inside malloc, in a deadlock, or waiting for a lock that it holds itself.
* `Lifecycle`: `cwd`, `euid`, `sockfile` and `safe` (whether the untrusted user
  can write to a directory) are what the start-up code acts on.

Data is abstract: items, handles, entries and contents are names or numbers, a
request is what `browse_req` makes of its headers, files have sizes only. `cur`
of the cache keeps a width too. In `LockFreeQueue` locals that will be assigned
before they are read again are cleared; in `Sockets`, accept returns the lowest
free descriptor.

## 3. Runs

| Run | Instance | Checks |
|---|---|---|
| `cache` | 2 clients, 3 handles, 2 addresses, cache of 2, entries of 1 to 3 | passes: type, `HeldEntryStays`, `RefcntIsHolders`, `EvictableNotForgotten`, `ResidentWithinMax`, `CurAccounted`, `SomeOperationReturns`, `ImplementsContract` |
| `cache_flush` | 2 clients, 2 handles, 3 addresses, flush at any time | **violates** `HeldEntryStays` |
| `server` | 2 connections (2 and 1 requests), 2 workers, store of 1 chunk, halt; one client stalls | passes: type, `OnePlace`, `RequestAnswered`, `HaltCompletes` |
| `server_hangup` | 2 connections, 1 worker, one client hangs up or stalls, halt and flush | passes: `WorksMatchConnections`, `HangupReclaimed`, `HaltObeyed` |
| `server_freed` | 2 workers, one client hangs up | **violates** `NoUseAfterFree` |
| `queue` | 2 enqueuers, 2 dequeuers, one item each, addresses not reused | passes: type, `SemaphoreCountsItems`, `ImplementsQueue` |
| `queue_freed` | 1 enqueuer, 2 dequeuers, addresses reused | **violates** `NoFreedDereference` |
| `parsing` | four pipelines of up to 3 requests, bodies of up to 4 bytes, limits and `cbuf` of 3 | passes: type, `IntactUnlessTorn`, `AllAnswered` |
| `responses` | 3 connections with eight scripts of requests, 4 addresses, clock to 2, one lost connection | passes: type, `EntryInUseLives`, `RefsAreWorks`, `DeletedByOne`, `OldEntryInvalidated`, `HeadersMatchBody`, `FreshIsRecent`, `AllAnswered` |
| `responses_stale` | a connection that gets and then posts beside one that gets | **violates** `EntryInUseLives` |
| `dynamic` | one request, a response in one or two pieces, either peer may leave | passes: type, `OneWorker`, `WholeResponse`, `NoLostWakeup`, `ProceedsOnlyIfReused` |
| `lifecycle` | pool of 2, 3 thread identities, 2 signals, 2 starts, both kinds of socket | passes: type, `FinderIsListed`, `ObjectsOutliveThreads`, `ServesSafely`, `IterationEnds`, `HaltEndsServer` |

The code disagrees with its own comments in six places, quoted in `PROJECT.json` under
`findings`. Four are the violations; in the other two (the semaphore and the wake-up) a
passing property says exactly what is true instead of what the comment claims:

* `Cache::flush` deletes entries that workers hold.
* A worker reads `w->deleteme` after the call in which `w` was given back to
  epoll, so the scheduler (hang-up) or another worker (error) may have deleted
  it. With two workers and a write error both may see `deleteme` and delete the
  Work twice, which fits the "double free/corruption errors, which I still don't
  understand" of `Scheduler.cpp`.
* `head->next` in the queue reads through a node that may have been freed.
* A dequeuer may take an item before its enqueuer has raised the semaphore, and then
  sleeps, in `nowait_deq` too, where a comment says that it never does. The comment's
  reason, that the semaphore equals the size of the queue, is true only when no
  operation is under way; `SemaphoreCountsItems` says by how much the two differ, and
  `ImplementsQueue` that the sleeper is woken.
* `resp_is_cached` keeps its value from the previous request of the connection
  when `prepare_response` leaves before it assigns it, so `reset` gives back a
  reference that was never taken.
* A client Work that has its response wakes the server Work, deletes itself, and then
  reschedules itself: its descriptor is closed, and the exception ends the process,
  whether or not the server Work has sent the response it was woken for. Only a new
  connection that gets the descriptor in between prevents that, and only then is the
  response certain, as a comment promises for every case (`ProceedsOnlyIfReused`).

**What the passing properties leave out, and why.** Some properties name the
case in which the code does not keep them, so that everything else is checked:

* the two passing runs of the dispatch separate what the second finding mixes:
  `server` has two workers and clients that stay, `server_hangup` one worker and
  a client that leaves. Requests are `"keep"`: `deleteme` is set while a request
  with Connection: close is read, and the worker tests it when the first call of
  `operator()` returns, so such a request is dropped before its response is
  written (`HTTP_2616_Server_Work.cpp:425`);
* `HaltObeyed` excepts a halt that is pending together with a flush: `_sigcb`
  takes all pending signals from the signalfd and acts on the first;
* `CurAccounted` counts the orphans of puts that lost the race for their handle:
  `put` then keeps its reservation and its `_Stuff` for ever (`Cache.hpp:155`);
* `queue` takes the claim of the class comment, that the semaphore does not
  affect correctness, apart from the freeing of nodes: it is the
  garbage-collected queue of the textbook with the semaphore added. What the comment
  gives as its reason is the fourth finding;
* `IntactUnlessTorn` excepts a read that ends between CR and LF, where the seek
  back of `operator>>` forgets that getline has consumed the CR, and a read that
  runs past the end of the body, where the unsigned count wraps. All other cuts
  are harmless. `AllAnswered` of `Parsing` excepts requests beyond the limits:
  their HTTP_oops is thrown outside the try block and ends the process. A body that
  comes together with its headers and does not fit into `cbuf` overruns it
  (`CbufOverrun`), which ends the process or, if it hits only padding, does nothing;
* in `responses`, no connection gets a response that may be cached and later asks
  for something that leaves `prepare_response` before `resp_is_cached` is assigned
  with a path set, because of the finding about `resp_is_cached`. `OldEntryInvalidated` excepts an entry that was
  put into the cache after the file had been replaced (`late`): advise_evict came
  too early for it; `FreshIsRecent` bounds how long it can be used. Here the age
  is counted twice by `current_age`, which errs on the safe side.
  `HeadersMatchBody` excepts Works that sent the same entry at the same time, since
  the flags of the manipulators are in the shared entry. `AllAnswered` excepts a
  file that was truncated between stat and fread, where the loop of `request`
  never ends, and DELETE, which ends in unbounded recursion of
  `HTTP_Origin_Server::unlink`. `RefsAreWorks` and `DeletedByOne` count the Works
  that were destroyed while sending, whose destructor gives nothing back;
* `OneWorker` and `WholeResponse` except a server Work that was woken before it
  was dormant, the race that a comment in `HTTP_Client_Work_Unix.hpp` describes.
  `NoLostWakeup` has no exception: even a wake-up that comes too early is not lost.
  `ProceedsOnlyIfReused` allows that the client Work is deleted because its peer has closed
  the connection: nobody then wakes the server Work, which stays dormant for good with
  its connection open. A client Work that was deleted in this way stays in the
  descriptor map, because its destructor does not unregister it, and the next
  connection with its descriptor is given it (`Accept`); no property is stated about
  that;
* `IterationEnds` excepts a deadlocked worker that no yank reaches (a halt ends
  the scheduler thread, so no later yank is heard) and a yank that caught a thread
  with the pool's mutex or inside malloc. `HaltEndsServer` excepts these too, and a
  halt that is pending together with another signal, as `HaltObeyed` does. Whether
  `~Server` can unlink the socket file depends on who may write to its directory; no
  comment promises it, and no property is stated about it.

Not checked, but met on the way: `src/data/HTTP_cmdline.def` gives the options
for the untrusted user and the untrusted group the same long name.

**Bounds.** Two clients reach every pair of interleaved cache operations; three
handles over two addresses make entries compete for memory and for space, and
sizes 1, 2 and 3 with `MaxSize` 2 make an entry fit beside another, fit alone and
not fit. Two connections and two descriptors let one connection inherit the
other's descriptor; three Works over a store of one chunk make `operator new`
use both its sources; `MaxEvents` 2 makes batches in which one event's handler
affects the next. Two pipelined requests exercise the buffer that survives a
response. Each queue thread runs at most one enqueue in the passing run, but
dequeuers call again and again, so retries, helping and sleeping all happen.
The pipelines of `parsing` have a body followed by a request, a body followed by
a body, a line and a body beyond the limits, and are cut in every way. The scripts
of `responses` put two readers and a writer of one file side by side, use every
cache directive and method, and ask for every kind of file; a lifetime and a clock
of 2 let an entry be fresh, stale and replaced. A pool of two with a third
identity lets a thread of the next iteration begin while one of the last has not
quite left; two starts show what a process finds of its predecessor.

**Deadlock** checking is off where the system may really stop: a server that is
idle or stopped, dequeuers that sleep, a client with nothing more to ask. It is on
for the cache.

**Fairness.** `Cache`: a client that has begun an operation goes on (locked
sections are bounded); it need not begin one. `Server`: while some thread can go
on, some thread does, which is weaker than what the operating system gives; a
client that stopped reading reads on; no client need connect or send.
`LockFreeQueue`: each thread keeps running and dequeuers call again. `Parsing`:
what was sent arrives, and the worker goes on. `Responses`: some worker goes on;
no failure is assumed to happen, nor any eviction. `DomainSocket`: the scheduler
and the workers go on and the program behind the socket answers, unless it closes
the connection. `Lifecycle`: the main thread, the scheduler thread (which polls
the signalfd until it halts) and each pool thread run; a working
thread comes to the end of its work again and again once the pill is in the queue,
unless it deadlocks (strong fairness of `Finish`, because in between it may be in
malloc); nobody need send a signal.

## 4. Proofs

All theorems hold for every value of the constants that satisfies the `ASSUME`s of
the modules, which TLC evaluates in the runs; where a theorem has a further
hypothesis it is stated in the theorem and explained below. It is always a case that
the code does not handle and that a finding shows. Each component has one inductive
invariant, proved with one case per action; every property then follows from it.
Before it was proved, each invariant was checked by TLC on the instance of the run.

**Cache** (`CacheProofs`; without flush; any clients, handles, addresses, sizes).

| Theorem | States |
|---|---|
| `TypeCorrect` | `TypeOK`; no refcnt goes below zero |
| `HeldEntriesStay`, `RefcntCountsHolders` | `HeldEntryStays`, `RefcntIsHolders` |
| `NothingForgotten` | `EvictableNotForgotten` |
| `Refinement` | `ImplementsContract`: `Spec` implements `CacheContract` |

`HeldEntryStays` and `RefcntIsHolders` need each other: an eviction spares a
held entry because its count is its number of holders, and the count can be
decremented through the handle in `unget` because the entry is still there.
`Inv` adds that one address is stored under one handle only (`StoredOnce`), what
the local state of an unfinished operation can be (`OpOK`), and that the entry a
put has allocated is stored nowhere, held by nobody and counted once
(`FreshOwned`). The proofs rest on lemmas on the cardinality of `Holders` under the
updates of `ref`. `NothingForgotten` follows from `Inv` step by step. In `Refinement`
each operation takes effect in one of its sections (get and unget at the refcnt
builtin, put at its last locked section, an eviction at `evict(h)`'s), and all other
steps stutter. So what `Responses` assumes of the cache is what `Cache` does.

**The bytes of the cache** (`CacheSums`). `Accounted` states `CurAccounted`; `WithinMax`
states `ResidentWithinMax` under `NoWrap`, that all clients together cannot reserve
enough to make `cur` wrap: `(Cardinality(Clients) + 1) * MaxSize < SizeMod`. Without
it `cur` may wrap to a small number and `Fits` admits too much; a 64-bit `size_t` and
any real cache satisfy it, and so does the instance of the run. The sums are
cardinalities of sets of bytes (`Bytes`, `Total` in `Cache`) rather than folds,
so that lemmas on finite sets give what adding, removing and resizing a block does.
The invariant behind `WithinMax` is about all that was admitted (`Kept`): the stored
entries and the reservations that passed the test of `Fits`.

**Responses** (`ResponsesProofs`; any connections, paths, entries, requests). All
theorems have the hypothesis `ReadsComeLast`: in no script does a request that leaves
`prepare_response` before `resp_is_cached` is assigned, with its path set, come after
one for a file. Without it they are false (run `responses_stale`). The
scripts of the run `responses` satisfy it.

| Theorem | States |
|---|---|
| `TypeCorrect` | `TypeOK`; no reference is given back that is not there |
| `InUseLives` | `EntryInUseLives` |
| `RefsCountWorks`, `OneDeletes` | `RefsAreWorks`, `DeletedByOne` |
| `OldInvalidated` | `OldEntryInvalidated` |
| `HeadersAnnounceBody` | `HeadersMatchBody` |
| `FreshEnough` | the action property `FreshIsRecent` |

`Inv` has three layers. `ScriptOK` and `WorksOK` say which fields are set at which
label: that a stale `resp_is_cached` meets only an empty path is the fact on which
`reset` depends, and where `ReadsComeLast` is used. The shares (`StoredOK`,
`HeldOK`, `OwnedOK`, `NoneForgotten`, `RefsOK`) say that every allocated entry is
either stored, and held by as many Works as the cache counts, or owned by one Work and
known to nobody else; hits, puts, give-backs, deletions, lost connections and evictions
each move an entry from one to the other and have a lemma of their own. `FlagsOK` and `TimesOK`
say that the manipulators of an entry are off unless a Work is about to output it, and that an
entry of a file is older than every write after it; `OldEntryInvalidated`,
`HeadersMatchBody` and `FreshIsRecent` follow from them.

**DomainSocket** (`DomainSocketProofs`): `TypeCorrect`, `AtMostOneWorker` (`OneWorker`),
`ResponseIsWhole` (`WholeResponse`), `WakeupNotLost` (`NoLostWakeup`). The
invariant counts who may execute the server Work now or soon (`Tokens`): epoll, the
job queue and the first execution together hold one token, and only a wake-up that
came too early adds another. A server Work that was woken keeps a token, because
`nosch`, which alone lets one go without rescheduling, is off from then on (`WakeOK`).

**Lifecycle** (`LifecycleProofs`; any number of workers, threads, signals and starts):
`TypeCorrect`, `FindersAreListed` (`FinderIsListed`), `ObjectsOutlive`
(`ObjectsOutliveThreads`), `SafelyServed` (`ServesSafely`). The invariant ties the main thread's stage to the objects, the
list, the mutex and the places of the threads (`MainOK`, `PoolOK`, `MutexOK`); it
assumes finitely many threads.

**LockFreeQueue** (`LockFreeQueueProofs`; any finite number of enqueuers, dequeuers,
nodes and items). All theorems have the hypothesis `~ Reuse`, that `operator new` hands
out no address twice: otherwise a compare-and-swap may succeed on a node that was
freed and came back, and `next` may be read from a freed node (run `queue_freed`).

| Theorem | States |
|---|---|
| `TypeCorrect` | `TypeOK`; `head` and `tail` are never null, the semaphore never below zero |
| `SemaphoreCounts` | `SemaphoreCountsItems` |
| `Refinement` | the safety of `ImplementsQueue`: initial states and steps of `ConcurrentQueue` |

The invariant says that there are a chain `s` of all nodes ever linked, in the order of
their `next` fields, and its inverse `pos`, such that `head` and `tail` are on it,
`head` not behind `tail`, and every local of a thread that has read the list has a
place on it that its program counter bounds (`Enqueuing`, `Dequeuing`). `tail` may lag
behind the end of the chain, and so may what a thread has read. A compare-and-swap
that succeeds has then read what is still true: a link appends to the chain, a swing
moves an end by one. From the chain follows what `Contents` is (`ContentsOfChain`),
and from that which steps are an `Enq` or a `Deq` and which change nothing, and what
each step does to the number of items and to the semaphore's debts.

**Server** (`ServerProofs`; any connections, descriptors, Works, workers, signals).

| Theorem | Hypothesis | States |
|---|---|---|
| `TypeCorrect` | none | `TypeOK` |
| `OnlyOnePlace` | `Quiet` | `OnePlace` |
| `OneFdOneOwner` | `Quiet`, `FdsSuffice` | `WorksMatchConnections` |
| `NoStaleWork` | `Quiet`, no client leaves | `NoUseAfterFree` |

`Quiet` says that requests are for persistent connections, and that either no client
hangs up or there is only one worker: the union of the instances of the two passing
runs. Outside it the Work that was rescheduled can be deleted before `deleteme` is
tested (finding two), and then nothing can be said of it. `FdsSuffice` says that there
are descriptors for all clients; with fewer, `accept` fails and ends the process. The
invariant (`Good`) says, unless the process has ended: a descriptor is in the epoll set
as long as it is open (`OpenFds`); map, live Works and open connections belong together
one to one, except for a Work whose deletion has begun (`Mapped`); chunks in the store
are free (`Stored`); an event, a place in the job queue and a worker that has a Work to
itself exclude each other and all mean that the descriptor is disarmed (`InBatch`,
`InQueue`, `InHand`); a Work marked for deletion is with the worker that will delete
it (`Marked`); and while the scheduler polls every Work is somewhere (`NoneLost`).
`OnePlace` counts these places. `EPOLLONESHOT` is what makes it inductive: a
descriptor is reported only while armed, and is disarmed by the report.

**Parsing** (`ParsingProofs`; any scripts of well-formed requests, of any length and
number, cut anywhere; any limits).

| Theorem | States |
|---|---|
| `TypeCorrect` | `TypeOK`; the count of missing bytes keeps the range of its type |
| `Intact` | `IntactUnlessTorn` |

`IInv` says that, until a read was torn, `inbuf` and `wire` are the rest of what the
client sends (`Synced`), a CR in `inbuf` is not its last symbol while more is to come
(`Uncut`), and the place so reached fits what has been kept: before, between or after
the header lines with the headers kept so far, after the head, inside or after the
body (`Progress`). Most of the proof says what is where in the bytes of all requests
(`SentLayout`, `EncodeLayout`) and which line comes next at each place (`TheLine`).
From that, `Buffered` shows that getline either finds just this line or takes all of
`inbuf` for an unfinished one and puts it back. That `Bytes` satisfies its recursion, and
the two inductions over the number of requests, are proved from the least element of
a set of numbers (`Least`), for want of an induction rule the provers can use.

**Only model-checked**: liveness (`SomeOperationReturns`, `RequestAnswered`,
`HangupReclaimed`, `HaltCompletes`, `HaltObeyed`, both `AllAnswered`,
`ProceedsOnlyIfReused`, `IterationEnds`, `HaltEndsServer`, and the liveness of `ImplementsQueue`), which is
out of the prover's reach. Every invariant and action property of the passing runs
is proved.

## 5. Not modelled

The components marked `not_modelled` in `PROJECT.json`, with reasons: tables,
compression, logging, test programs, and `DoubleLockedQueue`, which no file
includes. The command line is parsed once, alone, before anything else. The
scheduler's fallback to ordinary signal handlers, for kernels without signalfd, is
left out. The data race inside the unordered_map of `FindWork_prealloc` is taken as
atomic access. Exhaustion of descriptors is modelled (`Crash` of `Scheduler`), and
the instances avoid it. HTML, MIME types and the text of headers are left out.

## 6. Order of work, and what could follow

The modules were written from the parts on which the others rest outwards: the cache
and its contract, the queue and the dispatch, then parsing, responses, domain-socket
clients and the life of the process; the proofs followed the same order, the largest
components last. What could follow: the queue with reuse of addresses, for which the
code would first need a scheme such as counted pointers; requests with Connection:
close in `Server`, once `deleteme` is tested after the response; the map of
`FindWork_prealloc` at the level of single accesses, once it is locked.
