------------------------------- MODULE Cache -------------------------------
(***************************************************************************)
(* The reference-counting cache of src/src/Cache.hpp, shared by all worker *)
(* threads.  A client is one user of the cache: an HTTP_2616_Server_Work,  *)
(* which holds at most one entry at a time (from a successful get or put   *)
(* to the matching unget).                                                 *)
(*                                                                         *)
(* Grain of atomicity.  Every critical section of cachelock and evictlock  *)
(* is one action, and the two locks are never nested.  The wrlock sections *)
(* exclude everything.  The rdlock sections may overlap, but each changes  *)
(* shared state by a single __sync builtin; the only section with a second *)
(* access is unget (decrement, then read "invalid"), and that read commutes*)
(* to the left with every other reader's refcnt step while advise_evict's  *)
(* write commutes to the left of the decrement, so overlapping sections    *)
(* reach no state that the atomic ones do not.  The updates of cur outside *)
(* the locks are actions of their own.                                     *)
(***************************************************************************)
EXTENDS Integers, FiniteSets

CONSTANTS
    Clients,    \* users of the cache (concurrent)
    Handles,    \* keys
    NoHandle,   \* no key
    Objs,       \* addresses that new _Stuff can return
    NoObj,      \* the null pointer
    Sizes,      \* sizes of the entries clients try to put
    MaxSize,    \* the constructor's max
    SizeMod     \* 2^w, for the w bits of size_t

ASSUME NullAssumption == NoObj \notin Objs /\ NoHandle \notin Handles
ASSUME ClientsAssumption == IsFiniteSet(Clients)
ASSUME SizesAssumption ==
    /\ SizeMod \in Nat \ {0}
    /\ MaxSize \in 0 .. (SizeMod - 1)
    /\ Sizes \subseteq 0 .. (SizeMod - 1)

VARIABLES
    cache,      \* handle -> the _Stuff stored under it, or NoObj
    refcnt,     \* address -> refcnt of the _Stuff there
    invalid,    \* address -> its invalid flag
    sz,         \* address -> its sz
    live,       \* the addresses allocated and not yet deleted
    toevict,    \* handles queued for eviction
    cur,        \* bytes accounted for, modulo SizeMod
    op,         \* client -> the operation it is executing, with its locals
    key,        \* client -> the handle of the entry it holds, or NoHandle
    ref         \* client -> the entry it holds a reference to, or NoObj

stuff == <<refcnt, invalid, sz>>

vars == <<cache, stuff, live, toevict, cur, op, key, ref>>

PC == {"idle", "unget_evict", "unget_enq", "put_reserve", "put_unreserve",
       "evict_pop", "evict_one", "put_new", "put_insert"}

\* h, sz: the parameters; victim: what evict() has popped; new: what put has
\* allocated and not yet published.
Op == [pc: PC, h: Handles \cup {NoHandle}, sz: 0 .. (SizeMod - 1),
       victim: Handles \cup {NoHandle}, new: Objs \cup {NoObj}]

Idle == [pc |-> "idle", h |-> NoHandle, sz |-> 0, victim |-> NoHandle, new |-> NoObj]

\* Type correctness; an int refcnt that goes below zero is a miscount.
TypeOK ==
    /\ cache \in [Handles -> Objs \cup {NoObj}]
    /\ refcnt \in [Objs -> Nat]
    /\ invalid \in [Objs -> BOOLEAN]
    /\ sz \in [Objs -> 0 .. (SizeMod - 1)]
    /\ live \in SUBSET Objs
    /\ toevict \in SUBSET Handles
    /\ cur \in 0 .. (SizeMod - 1)
    /\ op \in [Clients -> Op]
    /\ key \in [Clients -> Handles \cup {NoHandle}]
    /\ ref \in [Clients -> Objs \cup {NoObj}]

----------------------------------------------------------------------------
(* Helpers *)

Start(c, label, h, n) ==
    op' = [op EXCEPT ![c] = [pc |-> label, h |-> h, sz |-> n,
                             victim |-> NoHandle, new |-> NoObj]]

Goto(c, label) == op' = [op EXCEPT ![c].pc = label]

Return(c) == op' = [op EXCEPT ![c] = Idle]

Present(h) == cache[h] # NoObj

AddRef(o, n) == refcnt' = [refcnt EXCEPT ![o] = @ + n]

\* The fields of a _Stuff; memory that holds none keeps a fixed value.
SetStuff(o, r, n) ==
    /\ refcnt' = [refcnt EXCEPT ![o] = r]
    /\ invalid' = [invalid EXCEPT ![o] = FALSE]
    /\ sz' = [sz EXCEPT ![o] = n]

Delete(o) == live' = live \ {o} /\ SetStuff(o, 0, 0)

Charge(n) == (cur + n) % SizeMod

Discharge(n) == (cur - n) % SizeMod

Evictable_IgnoresRefs(h) == Present(h)

\* The test of evict(h): there is an entry, and nobody holds it.
Evictable(h) == Present(h) /\ refcnt[cache[h]] = 0

\* The wrlock section of evict(h).
EvictHandle(h) ==
    IF Evictable(h)
    THEN /\ cur' = Discharge(sz[cache[h]])
         /\ Delete(cache[h])
         /\ cache' = [cache EXCEPT ![h] = NoObj]
    ELSE UNCHANGED <<cur, live, stuff, cache>>

----------------------------------------------------------------------------
Init ==
    /\ cache = [h \in Handles |-> NoObj]
    /\ refcnt = [o \in Objs |-> 0]
    /\ invalid = [o \in Objs |-> FALSE]
    /\ sz = [o \in Objs |-> 0]
    /\ live = {}
    /\ toevict = {}
    /\ cur = 0
    /\ op = [c \in Clients |-> Idle]
    /\ key = [c \in Clients |-> NoHandle]
    /\ ref = [c \in Clients |-> NoObj]

\* bool get(h, s)
Get(c, h) ==
    /\ op[c].pc = "idle" /\ ref[c] = NoObj
    /\ Present(h)
    /\ AddRef(cache[h], 1)
    /\ ref' = [ref EXCEPT ![c] = cache[h]]
    /\ key' = [key EXCEPT ![c] = h]
    /\ UNCHANGED <<cache, invalid, sz, live, toevict, cur, op>>

\* get that finds nothing changes nothing.
GetMiss(c, h) ==
    /\ op[c].pc = "idle" /\ ref[c] = NoObj
    /\ ~ Present(h)
    /\ UNCHANGED vars

\* void unget(h): the rdlock section.  The entry is looked up again by handle.
\* doenq is refcnt = 1, doevict is doenq /\ invalid.
Unget(c) ==
    /\ op[c].pc = "idle" /\ ref[c] # NoObj
    /\ ref' = [ref EXCEPT ![c] = NoObj]
    /\ key' = [key EXCEPT ![c] = NoHandle]
    /\ LET o == cache[key[c]]
       IN  /\ IF o = NoObj THEN UNCHANGED refcnt ELSE AddRef(o, -1)
           /\ IF o # NoObj /\ refcnt[o] = 1
              THEN Start(c, IF invalid[o] THEN "unget_evict" ELSE "unget_enq",
                         key[c], 0)
              ELSE UNCHANGED op
    /\ UNCHANGED <<cache, invalid, sz, live, toevict, cur>>

\* unget: doevict && evict(h)
UngetEvict(c) ==
    /\ op[c].pc = "unget_evict"
    /\ EvictHandle(op[c].h)
    /\ IF Evictable(op[c].h) THEN Return(c) ELSE Goto(c, "unget_enq")
    /\ UNCHANGED <<toevict, key, ref>>

QueueForEviction_Forgets(h) == UNCHANGED toevict

QueueForEviction(h) == toevict' = toevict \cup {h}

\* unget: the evictlock section
UngetEnq(c) ==
    /\ op[c].pc = "unget_enq"
    /\ QueueForEviction(op[c].h)
    /\ Return(c)
    /\ UNCHANGED <<cache, stuff, live, cur, key, ref>>

\* bool put(h, s, sz): the size test and the first look for an entry
Put(c, h, n) ==
    /\ op[c].pc = "idle" /\ ref[c] = NoObj
    /\ n <= MaxSize
    /\ ~ Present(h)
    /\ Start(c, "put_reserve", h, n)
    /\ UNCHANGED <<cache, stuff, live, toevict, cur, key, ref>>

\* put that returns false at once: too large, or already an entry.
PutRefused(c, h, n) ==
    /\ op[c].pc = "idle" /\ ref[c] = NoObj
    /\ n > MaxSize \/ Present(h)
    /\ UNCHANGED vars

Fits_IgnoresOwnSize(c) == cur <= MaxSize

\* put: !(__sync_add_and_fetch(&cur, sz) > max)
Fits(c) == Charge(op[c].sz) <= MaxSize

PutReserve(c) ==
    /\ op[c].pc = "put_reserve"
    /\ cur' = Charge(op[c].sz)
    /\ Goto(c, IF Fits(c) THEN "put_new" ELSE "put_unreserve")
    /\ UNCHANGED <<cache, stuff, live, toevict, key, ref>>

\* put: the reservation is given back before looking for a victim.
PutUnreserve(c) ==
    /\ op[c].pc = "put_unreserve"
    /\ cur' = Discharge(op[c].sz)
    /\ Goto(c, "evict_pop")
    /\ UNCHANGED <<cache, stuff, live, toevict, key, ref>>

Unqueue_Keeps(h) == UNCHANGED toevict

Unqueue(h) == toevict' = toevict \ {h}

\* evict(): the evictlock section
EvictPop(c) ==
    /\ op[c].pc = "evict_pop"
    /\ \E h \in toevict :
          /\ Unqueue(h)
          /\ op' = [op EXCEPT ![c].pc = "evict_one", ![c].victim = h]
    /\ UNCHANGED <<cache, stuff, live, cur, key, ref>>

\* evict() with nothing to evict returns false, and so does put.
EvictNothing(c) ==
    /\ op[c].pc = "evict_pop"
    /\ toevict = {}
    /\ Return(c)
    /\ UNCHANGED <<cache, stuff, live, toevict, cur, key, ref>>

\* evict(): while (!evict(h)); on success put tries its reservation again.
EvictOne(c) ==
    /\ op[c].pc = "evict_one"
    /\ EvictHandle(op[c].victim)
    /\ op' = [op EXCEPT ![c].victim = NoHandle, ![c].pc =
                 IF Evictable(op[c].victim) THEN "put_reserve" ELSE "evict_pop"]
    /\ UNCHANGED <<toevict, key, ref>>

\* put: new _Stuff(s, sz)
PutNew(c) ==
    /\ op[c].pc = "put_new"
    /\ \E o \in Objs \ live :
          /\ live' = live \cup {o}
          /\ SetStuff(o, 1, op[c].sz)
          /\ op' = [op EXCEPT ![c].pc = "put_insert", ![c].new = o]
    /\ UNCHANGED <<cache, toevict, cur, key, ref>>

GiveUp_KeepsReservation(c) == UNCHANGED cur

\* put: the reservation is given back when there is no _Stuff.
GiveUp(c) == cur' = Discharge(op[c].sz)

\* put: new throws bad_alloc
PutBadAlloc(c) ==
    /\ op[c].pc = "put_new"
    /\ GiveUp(c)
    /\ Return(c)
    /\ UNCHANGED <<cache, stuff, live, toevict, key, ref>>

MayInsert_NoRecheck(h) == TRUE

MayInsert(h) == ~ Present(h)

\* put: the wrlock section.  If an entry appeared meanwhile, put returns false
\* and neither deletes the new _Stuff nor gives its reservation back.
PutInsert(c) ==
    /\ op[c].pc = "put_insert"
    /\ IF MayInsert(op[c].h)
       THEN /\ cache' = [cache EXCEPT ![op[c].h] = op[c].new]
            /\ ref' = [ref EXCEPT ![c] = op[c].new]
            /\ key' = [key EXCEPT ![c] = op[c].h]
       ELSE UNCHANGED <<cache, ref, key>>
    /\ Return(c)
    /\ UNCHANGED <<stuff, live, toevict, cur>>

\* void advise_evict(h)
AdviseEvict(c, h) ==
    /\ op[c].pc = "idle"
    /\ Present(h)
    /\ invalid' = [invalid EXCEPT ![cache[h]] = TRUE]
    /\ UNCHANGED <<cache, refcnt, sz, live, toevict, cur, op, key, ref>>

Resident == {cache[h] : h \in {g \in Handles : Present(g)}}

\* void flush(), which the scheduler thread calls from CachingServer::flush
Flush ==
    /\ live' = live \ Resident
    /\ refcnt' = [o \in Objs |-> IF o \in Resident THEN 0 ELSE refcnt[o]]
    /\ invalid' = [o \in Objs |-> o \notin Resident /\ invalid[o]]
    /\ sz' = [o \in Objs |-> IF o \in Resident THEN 0 ELSE sz[o]]
    /\ cur' = 0
    /\ cache' = [h \in Handles |-> NoObj]
    /\ UNCHANGED <<toevict, op, key, ref>>

----------------------------------------------------------------------------
\* The steps of an operation that has begun.
Continue(c) ==
    \/ UngetEvict(c) \/ UngetEnq(c)
    \/ PutReserve(c) \/ PutUnreserve(c)
    \/ EvictPop(c) \/ EvictNothing(c) \/ EvictOne(c)
    \/ PutNew(c) \/ PutBadAlloc(c) \/ PutInsert(c)

Begin(c) ==
    \/ Unget(c)
    \/ \E h \in Handles : Get(c, h) \/ GetMiss(c, h) \/ AdviseEvict(c, h)
    \/ \E h \in Handles, n \in Sizes : Put(c, h, n) \/ PutRefused(c, h, n)

Next == \E c \in Clients : Begin(c) \/ Continue(c)

\* The locks are held only for bounded sections, so a client that has begun an
\* operation keeps taking steps; nothing obliges it to begin one.
Fairness == \A c \in Clients : WF_vars(Continue(c))

Spec == Init /\ [][Next]_vars

FairSpec == Spec /\ Fairness

\* The cache while the flush signal may arrive.
FlushSpec == Init /\ [][Next \/ Flush]_vars

----------------------------------------------------------------------------
(* Properties *)

Holders(o) == {c \in Clients : ref[c] = o}

\* "Between a successful call to get() and the corresponding call to unget(),
\* the requested entry is not going to go away": what a client holds is
\* allocated and is still what the cache stores under the handle.
HeldEntryStays ==
    \A c \in Clients :
        ref[c] # NoObj => ref[c] \in live /\ cache[key[c]] = ref[c]

\* The refcnt of a stored entry is the number of clients that hold it, so no
\* get, put, unget or eviction in any order miscounts it.
RefcntIsHolders ==
    \A h \in Handles :
        Present(h) => refcnt[cache[h]] = Cardinality(Holders(cache[h]))

\* An entry nobody holds is queued for eviction, or some client in unget is about
\* to evict or queue it, or a client in evict() has popped it: its space can be
\* reclaimed, although get may take it again at any moment.
EvictableNotForgotten ==
    \A h \in Handles :
        Evictable(h) =>
            \/ h \in toevict
            \/ \E c \in Clients :
                  \/ op[c].pc \in {"unget_evict", "unget_enq"} /\ op[c].h = h
                  \/ op[c].pc = "evict_one" /\ op[c].victim = h

\* The bytes of the blocks in S, of sizes f, each known by its block and its place
\* there, and how many they are.
Bytes(f, S) == {b \in S \X (0 .. (SizeMod - 1)) : b[2] < f[b[1]]}

Total(f, S) == Cardinality(Bytes(f, S))

\* What the clients at one of the labels L have asked to store.
Asked(L) == Total([c \in Clients |-> op[c].sz], {c \in Clients : op[c].pc \in L})

\* What the stored entries and the puts about to store one occupy.
Occupied == Total(sz, Resident) + Asked({"put_new", "put_insert"})

\* The constructor's "maximum size of cache, in bytes": concurrent puts and
\* evictions, each adding to and subtracting from cur outside the lock, never
\* let the entries outgrow max.
ResidentWithinMax == Occupied <= MaxSize

\* The _Stuff of a put that found its handle taken in the end: deleted by nobody.
Orphans == live \ (Resident \cup {op[c].new : c \in Clients})

\* cur is exactly what is stored, what puts have reserved and what the orphans
\* keep: of all the ways through put and evict, only losing the race for a handle
\* takes room from the cache for ever.
CurAccounted ==
    cur = (Occupied + Total(sz, Orphans) + Asked({"put_unreserve"})) % SizeMod

\* The retry loops of put and evict() always end for someone: it is never the
\* case that from some point on every client is stuck inside an operation.
SomeOperationReturns == []<>(\E c \in Clients : op[c].pc = "idle")

\* What the cache stores, as CacheContract sees it.
Contract == INSTANCE CacheContract WITH
    stored <- cache,
    refs <- [h \in Handles |-> IF Present(h) THEN refcnt[cache[h]] ELSE 0],
    doomed <- [h \in Handles |-> Present(h) /\ invalid[cache[h]]]

\* The operations, in all their overlapping sections, look atomic to their users:
\* each changes what is stored, and its count of references, in one step, and an
\* entry with references is never dropped, nor replaced by another put.
ImplementsContract == Contract!ContractSpec
============================================================================
