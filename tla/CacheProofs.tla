---------------------------- MODULE CacheProofs ----------------------------
(***************************************************************************)
(* Proofs about Cache, for any number of clients, handles and addresses.   *)
(***************************************************************************)
EXTENDS Cache, FiniteSetTheorems, TLAPS

\* An address is stored under at most one handle, and only while allocated.
StoredOnce ==
    /\ \A h \in Handles : Present(h) => cache[h] \in live
    /\ \A g, h \in Handles : Present(g) /\ cache[g] = cache[h] => g = h

\* What the locals of an operation in progress refer to.
OpOK ==
    \A c \in Clients :
        /\ op[c].pc # "idle" => op[c].h \in Handles /\ ref[c] = NoObj
        /\ op[c].pc = "evict_one" => op[c].victim \in Handles
        /\ ref[c] # NoObj => key[c] \in Handles

\* A _Stuff that put has allocated and not published belongs to that put alone.
FreshOwned ==
    \A c \in Clients : op[c].pc = "put_insert" =>
        /\ op[c].new \in live
        /\ refcnt[op[c].new] = 1
        /\ \A h \in Handles : cache[h] # op[c].new
        /\ \A d \in Clients \ {c} : op[d].pc = "put_insert" => op[d].new # op[c].new

\* The inductive invariant: HeldEntryStays is not inductive, since an entry may be
\* evicted when its refcnt is 0, and only RefcntIsHolders says that nobody then
\* holds it; RefcntIsHolders in turn needs a new entry to start with one holder.
Inv ==
    /\ TypeOK
    /\ StoredOnce
    /\ OpOK
    /\ FreshOwned
    /\ HeldEntryStays
    /\ RefcntIsHolders

\* A set of clients has a cardinality, which is 0 only for the empty set.
LEMMA ClientSets ==
    ASSUME NEW S \in SUBSET Clients
    PROVE  IsFiniteSet(S) /\ Cardinality(S) \in Nat /\ (Cardinality(S) = 0 <=> S = {})
BY ClientsAssumption, FS_Subset, FS_CardinalityType, FS_EmptySet

\* Taking a reference adds one holder.
LEMMA AddClient ==
    ASSUME NEW S \in SUBSET Clients, NEW c \in Clients, c \notin S
    PROVE  Cardinality(S \cup {c}) = Cardinality(S) + 1
BY ClientSets, FS_AddElement

\* Dropping a reference removes one holder.
LEMMA RemoveClient ==
    ASSUME NEW S \in SUBSET Clients, NEW c \in S
    PROVE  Cardinality(S \ {c}) = Cardinality(S) - 1
BY ClientSets, FS_RemoveElement

\* Arithmetic on size_t stays within its width.
LEMMA SizeArithmetic ==
    ASSUME cur \in 0 .. (SizeMod - 1), NEW n \in 0 .. (SizeMod - 1)
    PROVE  Charge(n) \in 0 .. (SizeMod - 1) /\ Discharge(n) \in 0 .. (SizeMod - 1)
BY SizesAssumption DEF Charge, Discharge

\* A handle with an evictable entry has no holder.
LEMMA EvictableUnheld ==
    ASSUME Inv, NEW h \in Handles, Evictable(h)
    PROVE  \A c \in Clients : ref[c] # cache[h]
<1>1. Cardinality(Holders(cache[h])) = 0
  BY DEF Inv, RefcntIsHolders, Evictable
<1>2. Holders(cache[h]) = {}
  BY <1>1, ClientSets DEF Holders
<1> QED
  BY <1>2 DEF Holders

LEMMA InitInv == Init => Inv
<1> SUFFICES ASSUME Init PROVE Inv
  OBVIOUS
<1>1. TypeOK
  BY SizesAssumption DEF Init, TypeOK, Op, PC, Idle
<1>2. StoredOnce /\ OpOK /\ FreshOwned /\ HeldEntryStays /\ RefcntIsHolders
  BY DEF Init, StoredOnce, OpOK, FreshOwned, HeldEntryStays, RefcntIsHolders,
         Present, Idle
<1> QED
  BY <1>1, <1>2 DEF Inv

\* get: the entry gains one reference and one holder.
LEMMA GetInv ==
    ASSUME Inv, NEW c \in Clients, NEW h \in Handles, Get(c, h)
    PROVE  Inv'
<1> PICK o : o = cache[h]
  OBVIOUS
<1>1. o \in Objs /\ o \in live
  BY NullAssumption DEF Inv, TypeOK, StoredOnce, Get, Present
<1>2. /\ refcnt' = [refcnt EXCEPT ![o] = @ + 1]
      /\ ref' = [ref EXCEPT ![c] = o]
      /\ key' = [key EXCEPT ![c] = h]
      /\ UNCHANGED <<cache, invalid, sz, live, toevict, cur, op>>
      /\ op[c].pc = "idle" /\ ref[c] = NoObj
  BY DEF Get, AddRef
<1>3. TypeOK'
  BY <1>1, <1>2 DEF Inv, TypeOK
<1>4. StoredOnce' /\ OpOK' /\ FreshOwned'
  BY <1>1, <1>2, NullAssumption
  DEF Inv, TypeOK, StoredOnce, OpOK, FreshOwned, Present
<1>5. HeldEntryStays'
  BY <1>1, <1>2 DEF Inv, TypeOK, HeldEntryStays
<1>6. ASSUME NEW g \in Handles, Present(g)'
      PROVE  refcnt'[cache'[g]] = Cardinality(Holders(cache[g])')
  <2>1. CASE g = h
    <3>1. Holders(o)' = Holders(o) \cup {c} /\ c \notin Holders(o)
      BY <1>1, <1>2, NullAssumption DEF Inv, TypeOK, Holders
    <3>2. Cardinality(Holders(o)') = Cardinality(Holders(o)) + 1
      BY <3>1, AddClient DEF Holders
    <3> QED
      BY <1>1, <1>2, <1>6, <2>1, <3>2
      DEF Inv, TypeOK, RefcntIsHolders, Present
  <2>2. CASE g # h
    <3>1. cache[g] # o /\ cache[g] \in Objs
      BY <1>2, <1>6, <2>2 DEF Inv, TypeOK, StoredOnce, Present
    <3>2. Holders(cache[g])' = Holders(cache[g])
      BY <1>2, <3>1, <1>6 DEF Inv, TypeOK, Holders, Present
    <3> QED
      BY <1>1, <1>2, <1>6, <3>1, <3>2
      DEF Inv, TypeOK, RefcntIsHolders, Present
  <2> QED
    BY <2>1, <2>2
<1>7. RefcntIsHolders'
  BY <1>2, <1>6 DEF RefcntIsHolders, Present, Holders
<1> QED
  BY <1>3, <1>4, <1>5, <1>7 DEF Inv

\* unget: the entry is the one the client holds, and loses one reference and holder.
LEMMA UngetInv ==
    ASSUME Inv, NEW c \in Clients, Unget(c)
    PROVE  Inv'
<1> PICK o : o = cache[key[c]]
  OBVIOUS
<1>1. /\ key[c] \in Handles /\ o = ref[c] /\ o # NoObj
      /\ o \in Objs /\ o \in live
  BY DEF Inv, TypeOK, OpOK, HeldEntryStays, Unget
<1>2. /\ refcnt' = [refcnt EXCEPT ![o] = @ - 1]
      /\ ref' = [ref EXCEPT ![c] = NoObj]
      /\ key' = [key EXCEPT ![c] = NoHandle]
      /\ UNCHANGED <<cache, invalid, sz, live, toevict, cur>>
      /\ op[c].pc = "idle"
  BY <1>1 DEF Unget, AddRef, Inv, TypeOK
<1>3. \/ UNCHANGED op
      \/ \E l \in {"unget_evict", "unget_enq"} :
            op' = [op EXCEPT ![c] = [pc |-> l, h |-> key[c], sz |-> 0,
                                     victim |-> NoHandle, new |-> NoObj]]
  BY <1>1 DEF Unget, Start
<1>4. refcnt[o] \in Nat /\ refcnt[o] # 0
  <2>1. c \in Holders(o)
    BY <1>1 DEF Holders
  <2>2. refcnt[o] = Cardinality(Holders(o))
    BY <1>1 DEF Inv, RefcntIsHolders, Present
  <2> QED
    BY <2>1, <2>2, ClientSets DEF Holders
<1>5. TypeOK'
  <2>1. refcnt' \in [Objs -> Nat]
    BY <1>1, <1>2, <1>4 DEF Inv, TypeOK
  <2>2. op' \in [Clients -> Op]
    <3>1. CASE UNCHANGED op
      BY <3>1 DEF Inv, TypeOK
    <3>2. ASSUME NEW l \in {"unget_evict", "unget_enq"},
                 op' = [op EXCEPT ![c] = [pc |-> l, h |-> key[c], sz |-> 0,
                                          victim |-> NoHandle, new |-> NoObj]]
          PROVE  op' \in [Clients -> Op]
      <4>1. [pc |-> l, h |-> key[c], sz |-> 0, victim |-> NoHandle, new |-> NoObj] \in Op
        BY <1>1, SizesAssumption DEF Op, PC
      <4> QED
        BY <3>2, <4>1 DEF Inv, TypeOK
    <3> QED
      BY <1>3, <3>1, <3>2
  <2> QED
    BY <1>1, <1>2, <2>1, <2>2 DEF Inv, TypeOK
<1>6. StoredOnce'
  BY <1>2 DEF Inv, StoredOnce, Present
<1>7. OpOK'
  BY <1>1, <1>2, <1>3 DEF Inv, TypeOK, OpOK, Idle, Op
<1>8. FreshOwned'
  <2>1. \A d \in Clients : op'[d].pc = "put_insert" =>
           op[d].pc = "put_insert" /\ op'[d].new = op[d].new
    BY <1>2, <1>3 DEF Inv, TypeOK, Idle, Op
  <2> QED
    <3>1. \A d \in Clients : op[d].pc = "put_insert" => op[d].new # o
      BY <1>1 DEF Inv, FreshOwned
    <3>2. \A d \in Clients : op[d].pc = "put_insert" =>
             refcnt'[op[d].new] = refcnt[op[d].new]
      BY <1>1, <1>2, <3>1 DEF Inv, TypeOK
    <3> QED
      BY <1>2, <2>1, <3>2 DEF Inv, FreshOwned
<1>9. HeldEntryStays'
  BY <1>1, <1>2 DEF Inv, TypeOK, HeldEntryStays
<1>10. ASSUME NEW g \in Handles, Present(g)'
       PROVE  refcnt'[cache'[g]] = Cardinality(Holders(cache[g])')
  <2>1. CASE g = key[c]
    <3>1. Holders(o)' = Holders(o) \ {c} /\ c \in Holders(o)
      BY <1>1, <1>2, NullAssumption DEF Inv, TypeOK, Holders
    <3>2. Cardinality(Holders(o)') = Cardinality(Holders(o)) - 1
      BY <3>1, RemoveClient DEF Holders
    <3> QED
      BY <1>1, <1>2, <1>10, <2>1, <3>2
      DEF Inv, TypeOK, RefcntIsHolders, Present
  <2>2. CASE g # key[c]
    <3>1. cache[g] # o /\ cache[g] \in Objs
      BY <1>1, <1>2, <1>10, <2>2 DEF Inv, TypeOK, StoredOnce, Present
    <3>2. Holders(cache[g])' = Holders(cache[g])
      BY <1>1, <1>2, <3>1, NullAssumption DEF Inv, TypeOK, Holders
    <3> QED
      BY <1>1, <1>2, <1>10, <3>1, <3>2
      DEF Inv, TypeOK, RefcntIsHolders, Present
  <2> QED
    BY <2>1, <2>2
<1>11. RefcntIsHolders'
  BY <1>2, <1>10 DEF RefcntIsHolders, Present, Holders
<1> QED
  BY <1>5, <1>6, <1>7, <1>8, <1>9, <1>11 DEF Inv

\* No step but PutNew makes a client the owner of an unpublished _Stuff.
FreshKept ==
    \A d \in Clients : op'[d].pc = "put_insert" =>
        op[d].pc = "put_insert" /\ op'[d].new = op[d].new

\* A step that leaves the entries and the references alone.
LEMMA QuietInv ==
    ASSUME Inv, TypeOK', OpOK', FreshKept,
           UNCHANGED <<cache, refcnt, live, key, ref>>
    PROVE  Inv'
<1>1. StoredOnce' /\ HeldEntryStays' /\ RefcntIsHolders'
  BY DEF Inv, StoredOnce, HeldEntryStays, RefcntIsHolders, Present, Holders
<1>2. FreshOwned'
  BY DEF Inv, FreshOwned, FreshKept
<1> QED
  BY <1>1, <1>2 DEF Inv

\* evict(h) that deletes the entry: nobody held it.
LEMMA EvictedInv ==
    ASSUME Inv, NEW h \in Handles, Evictable(h), EvictHandle(h),
           TypeOK', OpOK', FreshKept, UNCHANGED <<key, ref>>
    PROVE  Inv'
<1> PICK o : o = cache[h]
  OBVIOUS
<1>1. o \in Objs /\ o # NoObj /\ o \in live
  BY DEF Inv, TypeOK, StoredOnce, Evictable, Present
<1>2. /\ live' = live \ {o}
      /\ refcnt' = [refcnt EXCEPT ![o] = 0]
      /\ cache' = [cache EXCEPT ![h] = NoObj]
  BY DEF EvictHandle, Delete, SetStuff
<1>3. \A c \in Clients : ref[c] # o
  BY EvictableUnheld
<1>4. \A g \in Handles : cache'[g] # NoObj => g # h /\ cache'[g] = cache[g] /\ cache[g] # o
  BY <1>1, <1>2 DEF Inv, TypeOK, StoredOnce, Present
<1>5. StoredOnce'
  BY <1>2, <1>4 DEF Inv, TypeOK, StoredOnce, Present
<1>6. HeldEntryStays'
  BY <1>2, <1>3, <1>4 DEF Inv, TypeOK, HeldEntryStays, OpOK
<1>7. RefcntIsHolders'
  BY <1>1, <1>2, <1>4 DEF Inv, TypeOK, RefcntIsHolders, Present, Holders
<1>8. FreshOwned'
  <2>1. \A d \in Clients : op[d].pc = "put_insert" => op[d].new # o /\ op[d].new \in Objs
    BY NullAssumption DEF Inv, TypeOK, FreshOwned, Op
  <2>2. \A d \in Clients : op[d].pc = "put_insert" =>
           /\ op[d].new \in live'
           /\ refcnt'[op[d].new] = 1
           /\ \A g \in Handles : cache'[g] # op[d].new
    BY <1>1, <1>2, <2>1, NullAssumption DEF Inv, TypeOK, FreshOwned
  <2> QED
    BY <2>2 DEF Inv, FreshOwned, FreshKept
<1> QED
  BY <1>5, <1>6, <1>7, <1>8 DEF Inv

\* Moving to another label, or returning, keeps op well typed.
LEMMA OpTypes ==
    ASSUME op \in [Clients -> Op], NEW c \in Clients
    PROVE  /\ \A l \in PC : Goto(c, l) => op' \in [Clients -> Op]
           /\ Return(c) => op' \in [Clients -> Op]
           /\ \A l \in PC, h \in Handles, n \in 0 .. (SizeMod - 1) :
                 Start(c, l, h, n) => op' \in [Clients -> Op]
<1>1. ASSUME NEW l \in PC, Goto(c, l) PROVE op' \in [Clients -> Op]
  BY <1>1 DEF Goto, Op
<1>2. ASSUME Return(c) PROVE op' \in [Clients -> Op]
  <2>1. Idle \in Op
    BY SizesAssumption DEF Idle, Op, PC
  <2> QED
    BY <1>2, <2>1 DEF Return
<1>3. ASSUME NEW l \in PC, NEW h \in Handles, NEW n \in 0 .. (SizeMod - 1),
             Start(c, l, h, n)
      PROVE  op' \in [Clients -> Op]
  <2>1. [pc |-> l, h |-> h, sz |-> n, victim |-> NoHandle, new |-> NoObj] \in Op
    BY <1>3 DEF Op
  <2> QED
    BY <1>3, <2>1 DEF Start
<1> QED
  BY <1>1, <1>2, <1>3

\* What evict(h) does to the typed state.
LEMMA EvictTypes ==
    ASSUME TypeOK, NEW h \in Handles, EvictHandle(h)
    PROVE  /\ cache' \in [Handles -> Objs \cup {NoObj}]
           /\ refcnt' \in [Objs -> Nat] /\ invalid' \in [Objs -> BOOLEAN]
           /\ sz' \in [Objs -> 0 .. (SizeMod - 1)]
           /\ live' \in SUBSET Objs
           /\ cur' \in 0 .. (SizeMod - 1)
<1>1. CASE ~ Evictable(h)
  BY <1>1 DEF EvictHandle, TypeOK, stuff
<1>2. CASE Evictable(h)
  <2>1. cache[h] \in Objs
    BY <1>2 DEF Evictable, Present, TypeOK
  <2>2. cur' \in 0 .. (SizeMod - 1)
    BY <1>2, <2>1, SizeArithmetic DEF EvictHandle, TypeOK
  <2>3. invalid' \in [Objs -> BOOLEAN]
    BY <1>2 DEF EvictHandle, TypeOK, Delete, SetStuff
  <2>4. refcnt' \in [Objs -> Nat] /\ sz' \in [Objs -> 0 .. (SizeMod - 1)]
    BY <1>2, SizesAssumption DEF EvictHandle, TypeOK, Delete, SetStuff
  <2>5. cache' \in [Handles -> Objs \cup {NoObj}] /\ live' \in SUBSET Objs
    BY <1>2 DEF EvictHandle, TypeOK, Delete
  <2> QED
    BY <2>2, <2>3, <2>4, <2>5
<1> QED
  BY <1>1, <1>2

\* unget's attempt to evict at once
LEMMA UngetEvictInv ==
    ASSUME Inv, NEW c \in Clients, UngetEvict(c)
    PROVE  Inv'
<1>1. op[c].h \in Handles
  BY DEF Inv, OpOK, UngetEvict
<1>2. op' \in [Clients -> Op]
  BY OpTypes DEF UngetEvict, Inv, TypeOK, PC
<1>3. TypeOK'
  BY <1>1, <1>2, EvictTypes DEF UngetEvict, Inv, TypeOK
<1>4. OpOK' /\ FreshKept
  <2>1. op[c] \in Op
    BY DEF Inv, TypeOK
  <2>2. \A d \in Clients \ {c} : op'[d] = op[d]
    BY DEF UngetEvict, Goto, Return, Inv, TypeOK
  <2>3. op'[c] = Idle \/ op'[c] = [op[c] EXCEPT !.pc = "unget_enq"]
    BY DEF UngetEvict, Goto, Return, Inv, TypeOK
  <2>4. op'[c].pc = "idle" \/ (op'[c].pc = "unget_enq" /\ op'[c].h = op[c].h)
    BY <2>1, <2>3 DEF Idle, Op
  <2>5. op[c].pc = "unget_evict" /\ UNCHANGED <<key, ref>>
    BY DEF UngetEvict
  <2> QED
    BY <2>2, <2>4, <2>5 DEF Inv, OpOK, FreshKept
<1>5. CASE Evictable(op[c].h)
  BY <1>1, <1>3, <1>4, <1>5, EvictedInv DEF UngetEvict
<1>6. CASE ~ Evictable(op[c].h)
  BY <1>3, <1>4, <1>6, QuietInv DEF UngetEvict, EvictHandle, stuff
<1> QED
  BY <1>5, <1>6

\* the loop of evict()
LEMMA EvictOneInv ==
    ASSUME Inv, NEW c \in Clients, EvictOne(c)
    PROVE  Inv'
<1>1. op[c].victim \in Handles
  BY DEF Inv, OpOK, EvictOne
<1>2. op' \in [Clients -> Op]
  BY DEF EvictOne, Inv, TypeOK, Op, PC
<1>3. TypeOK'
  BY <1>1, <1>2, EvictTypes DEF EvictOne, Inv, TypeOK
<1>4. OpOK' /\ FreshKept
  BY DEF EvictOne, Inv, TypeOK, OpOK, FreshKept, Op
<1>5. CASE Evictable(op[c].victim)
  BY <1>1, <1>3, <1>4, <1>5, EvictedInv DEF EvictOne
<1>6. CASE ~ Evictable(op[c].victim)
  BY <1>3, <1>4, <1>6, QuietInv DEF EvictOne, EvictHandle, stuff
<1> QED
  BY <1>5, <1>6

\* put: the steps before the new _Stuff, and the whole of an unsuccessful put
LEMMA PutStepsInv ==
    ASSUME Inv, NEW c \in Clients,
           \/ \E h \in Handles, n \in Sizes : Put(c, h, n)
           \/ PutReserve(c) \/ PutUnreserve(c) \/ PutBadAlloc(c)
           \/ EvictPop(c) \/ EvictNothing(c) \/ UngetEnq(c)
    PROVE  Inv'
<1> USE DEF Inv, TypeOK
<1>0. op[c].sz \in 0 .. (SizeMod - 1)
  BY DEF Op
<1>1. ASSUME NEW h \in Handles, NEW n \in Sizes, Put(c, h, n) PROVE Inv'
  <2>1. TypeOK'
    BY <1>1, OpTypes, SizesAssumption DEF Put, PC, stuff
  <2>2. OpOK' /\ FreshKept
    BY <1>1 DEF Put, Start, OpOK, FreshKept, Op
  <2> QED
    BY <1>1, <2>1, <2>2, QuietInv DEF Put, stuff
<1>2. CASE PutReserve(c)
  <2>1. TypeOK'
    BY <1>0, <1>2, OpTypes, SizeArithmetic DEF PutReserve, PC, stuff
  <2>2. OpOK' /\ FreshKept
    BY <1>2 DEF PutReserve, Goto, OpOK, FreshKept, Op
  <2> QED
    BY <1>2, <2>1, <2>2, QuietInv DEF PutReserve, stuff
<1>3. CASE PutUnreserve(c)
  <2>1. TypeOK'
    BY <1>0, <1>3, OpTypes, SizeArithmetic DEF PutUnreserve, PC, stuff
  <2>2. OpOK' /\ FreshKept
    BY <1>3 DEF PutUnreserve, Goto, OpOK, FreshKept, Op
  <2> QED
    BY <1>3, <2>1, <2>2, QuietInv DEF PutUnreserve, stuff
<1>4. CASE PutBadAlloc(c)
  <2>1. TypeOK'
    BY <1>0, <1>4, OpTypes, SizeArithmetic DEF PutBadAlloc, GiveUp, stuff
  <2>2. OpOK' /\ FreshKept
    BY <1>4 DEF PutBadAlloc, Return, Idle, OpOK, FreshKept, Op
  <2> QED
    BY <1>4, <2>1, <2>2, QuietInv DEF PutBadAlloc, stuff
<1>5. CASE EvictPop(c)
  <2> PICK h \in toevict : op' = [op EXCEPT ![c].pc = "evict_one", ![c].victim = h]
    BY <1>5 DEF EvictPop
  <2>0. /\ h \in Handles
        /\ op'[c] = [op[c] EXCEPT !.pc = "evict_one", !.victim = h]
        /\ \A d \in Clients \ {c} : op'[d] = op[d]
        /\ op' = [op EXCEPT ![c] = op'[c]]
    OBVIOUS
  <2>1. /\ op'[c] \in Op
        /\ op'[c].pc = "evict_one" /\ op'[c].victim = h /\ op'[c].h = op[c].h
    <3>1. op[c] \in Op
      OBVIOUS
    <3> QED
      BY <2>0, <3>1 DEF Op, PC
  <2>2. TypeOK'
    BY <1>5, <2>0, <2>1 DEF EvictPop, Unqueue, stuff
  <2>3. OpOK' /\ FreshKept
    BY <1>5, <2>0, <2>1 DEF EvictPop, OpOK, FreshKept
  <2> QED
    BY <1>5, <2>2, <2>3, QuietInv DEF EvictPop, stuff
<1>6. CASE EvictNothing(c)
  <2>1. TypeOK'
    BY <1>6, OpTypes DEF EvictNothing, stuff
  <2>2. OpOK' /\ FreshKept
    BY <1>6 DEF EvictNothing, Return, Idle, OpOK, FreshKept, Op
  <2> QED
    BY <1>6, <2>1, <2>2, QuietInv DEF EvictNothing, stuff
<1>7. CASE UngetEnq(c)
  <2>1. TypeOK'
    BY <1>7, OpTypes DEF UngetEnq, QueueForEviction, OpOK, stuff
  <2>2. OpOK' /\ FreshKept
    BY <1>7 DEF UngetEnq, Return, Idle, OpOK, FreshKept, Op
  <2> QED
    BY <1>7, <2>1, <2>2, QuietInv DEF UngetEnq, stuff
<1> QED
  BY <1>1, <1>2, <1>3, <1>4, <1>5, <1>6, <1>7

\* put: new _Stuff starts with the one reference of the client that puts it
LEMMA PutNewInv ==
    ASSUME Inv, NEW c \in Clients, PutNew(c)
    PROVE  Inv'
<1> USE DEF Inv, TypeOK
<1> PICK o \in Objs \ live :
        /\ live' = live \cup {o}
        /\ SetStuff(o, 1, op[c].sz)
        /\ op' = [op EXCEPT ![c].pc = "put_insert", ![c].new = o]
  BY DEF PutNew
<1>1. /\ op'[c] = [op[c] EXCEPT !.pc = "put_insert", !.new = o]
      /\ \A d \in Clients \ {c} : op'[d] = op[d]
      /\ op' = [op EXCEPT ![c] = op'[c]]
  OBVIOUS
<1>2. /\ op'[c] \in Op
      /\ op'[c].new = o /\ op'[c].pc = "put_insert" /\ op'[c].h = op[c].h
  <2>1. op[c] \in Op
    OBVIOUS
  <2> QED
    BY <1>1, <2>1 DEF Op, PC
<1>3. refcnt' = [refcnt EXCEPT ![o] = 1]
  BY DEF SetStuff
<1>4. TypeOK'
  <2>1. op[c].sz \in 0 .. (SizeMod - 1)
    BY DEF Op
  <2>2. sz' \in [Objs -> 0 .. (SizeMod - 1)] /\ refcnt' \in [Objs -> Nat]
    BY <2>1 DEF SetStuff
  <2>3. invalid' \in [Objs -> BOOLEAN]
    BY DEF SetStuff
  <2> QED
    BY <1>1, <1>2, <2>2, <2>3 DEF PutNew
<1>5. StoredOnce'
  BY DEF PutNew, StoredOnce, Present
<1>6. OpOK'
  BY <1>1, <1>2 DEF PutNew, OpOK
<1>7. \A h \in Handles : cache[h] # o
  BY NullAssumption DEF StoredOnce, Present
<1>8. FreshOwned'
  <2>1. ASSUME NEW d \in Clients \ {c}, op'[d].pc = "put_insert"
        PROVE  /\ op'[d].new = op[d].new /\ op[d].new \in live /\ op[d].new # o
               /\ op[d].new \in Objs /\ refcnt'[op[d].new] = 1
    BY <1>1, <1>3, <2>1 DEF FreshOwned
  <2> QED
    BY <1>1, <1>2, <1>3, <1>7, <2>1 DEF FreshOwned, PutNew
<1>9. HeldEntryStays'
  BY DEF PutNew, HeldEntryStays
<1>10. RefcntIsHolders'
  BY <1>3, <1>7 DEF PutNew, RefcntIsHolders, Present, Holders
<1> QED
  BY <1>4, <1>5, <1>6, <1>8, <1>9, <1>10

\* put: the wrlock section publishes the entry, whose one holder is this client
LEMMA PutInsertInv ==
    ASSUME Inv, NEW c \in Clients, PutInsert(c)
    PROVE  Inv'
<1> USE DEF Inv, TypeOK
<1> PICK o, h : o = op[c].new /\ h = op[c].h
  OBVIOUS
<1>1. /\ h \in Handles /\ o \in live /\ o \in Objs /\ o # NoObj
      /\ refcnt[o] = 1 /\ ref[c] = NoObj
      /\ \A g \in Handles : cache[g] # o
  BY NullAssumption DEF PutInsert, OpOK, FreshOwned
<1>2. op' \in [Clients -> Op]
  BY OpTypes DEF PutInsert
<1>3. FreshKept /\ op'[c].pc = "idle" /\ \A d \in Clients \ {c} : op'[d] = op[d]
  BY DEF PutInsert, Return, Idle, FreshKept, Op
<1>4. CASE ~ MayInsert(h)
  <2>1. TypeOK' /\ OpOK'
    BY <1>2, <1>3, <1>4 DEF PutInsert, OpOK, stuff
  <2> QED
    BY <1>3, <1>4, <2>1, QuietInv DEF PutInsert, stuff
<1>5. CASE MayInsert(h)
  <2>1. /\ cache' = [cache EXCEPT ![h] = o]
        /\ ref' = [ref EXCEPT ![c] = o]
        /\ key' = [key EXCEPT ![c] = h]
        /\ UNCHANGED <<refcnt, invalid, sz, live, toevict, cur>>
        /\ cache[h] = NoObj
    BY <1>5 DEF PutInsert, MayInsert, Present, stuff
  <2>2. TypeOK'
    BY <1>1, <1>2, <2>1
  <2>3. StoredOnce'
    BY <1>1, <2>1 DEF StoredOnce, Present
  <2>4. OpOK'
    BY <1>1, <1>3, <2>1 DEF OpOK
  <2>5. FreshOwned'
    <3>1. \A d \in Clients \ {c} : op[d].pc = "put_insert" => op[d].new # o
      BY DEF FreshOwned, PutInsert
    <3> QED
      BY <1>1, <1>3, <2>1, <3>1 DEF FreshOwned
  <2>6. HeldEntryStays'
    BY <1>1, <2>1 DEF HeldEntryStays, OpOK
  <2>7. ASSUME NEW g \in Handles, Present(g)'
        PROVE  refcnt'[cache'[g]] = Cardinality(Holders(cache[g])')
    <3>1. CASE g = h
      <4>1. \A d \in Clients : ref[d] # o
        BY <1>1 DEF HeldEntryStays, OpOK
      <4>2. Holders(cache[g])' = {c}
        BY <1>1, <2>1, <3>1, <4>1 DEF Holders
      <4> QED
        BY <1>1, <2>1, <3>1, <4>2, FS_Singleton
    <3>2. CASE g # h
      <4>1. cache'[g] = cache[g] /\ cache[g] # o /\ cache[g] # NoObj
        BY <1>1, <2>1, <2>7, <3>2 DEF Present
      <4>2. Holders(cache[g])' = Holders(cache[g])
        BY <1>1, <2>1, <4>1 DEF Holders
      <4> QED
        BY <2>1, <4>1, <4>2 DEF RefcntIsHolders, Present
    <3> QED
      BY <3>1, <3>2
  <2>8. RefcntIsHolders'
    BY <2>7 DEF RefcntIsHolders, Holders
  <2> QED
    BY <2>2, <2>3, <2>4, <2>5, <2>6, <2>8
<1> QED
  BY <1>4, <1>5

\* Every step of every client preserves the invariant.
LEMMA NextInv == Inv /\ [Next]_vars => Inv'
<1> SUFFICES ASSUME Inv, [Next]_vars PROVE Inv'
  OBVIOUS
<1>1. CASE UNCHANGED vars
  BY <1>1 DEF vars, stuff, Inv, TypeOK, StoredOnce, OpOK, FreshOwned, HeldEntryStays,
              RefcntIsHolders, Present, Holders
<1>2. ASSUME NEW c \in Clients, Begin(c) PROVE Inv'
  <2>1. CASE Unget(c)
    BY <2>1, UngetInv
  <2>2. ASSUME NEW h \in Handles, Get(c, h) PROVE Inv'
    BY <2>2, GetInv
  <2>3. ASSUME NEW h \in Handles, GetMiss(c, h) PROVE Inv'
    BY <1>1, <2>3 DEF GetMiss
  <2>4. ASSUME NEW h \in Handles, AdviseEvict(c, h) PROVE Inv'
    <3>1. cache[h] \in Objs
      BY <2>4 DEF AdviseEvict, Present, Inv, TypeOK
    <3>2. TypeOK'
      BY <2>4, <3>1 DEF AdviseEvict, Inv, TypeOK
    <3>3. OpOK' /\ FreshKept
      BY <2>4 DEF AdviseEvict, Inv, OpOK, FreshKept
    <3> QED
      BY <2>4, <3>2, <3>3, QuietInv DEF AdviseEvict
  <2>5. ASSUME NEW h \in Handles, NEW n \in Sizes, Put(c, h, n) PROVE Inv'
    BY <2>5, PutStepsInv
  <2>6. ASSUME NEW h \in Handles, NEW n \in Sizes, PutRefused(c, h, n) PROVE Inv'
    BY <1>1, <2>6 DEF PutRefused
  <2> QED
    BY <1>2, <2>1, <2>2, <2>3, <2>4, <2>5, <2>6 DEF Begin
<1>3. ASSUME NEW c \in Clients, Continue(c) PROVE Inv'
  BY <1>3, UngetEvictInv, EvictOneInv, PutStepsInv, PutNewInv, PutInsertInv
  DEF Continue
<1> QED
  BY <1>1, <1>2, <1>3 DEF Next

\* The inductive invariant holds in every reachable state.
THEOREM Invariance == Spec => []Inv
BY InitInv, NextInv, PTL DEF Spec

\* TypeOK: all operations keep the cache's state well formed, and no refcnt ever
\* goes below zero.
THEOREM TypeCorrect == Spec => []TypeOK
<1>1. Inv => TypeOK
  BY DEF Inv
<1> QED
  BY <1>1, Invariance, PTL

\* HeldEntryStays, the guarantee of Cache.hpp: from a successful get or put to the
\* unget, no concurrent put, unget or eviction deletes the entry.
THEOREM HeldEntriesStay == Spec => []HeldEntryStays
<1>1. Inv => HeldEntryStays
  BY DEF Inv
<1> QED
  BY <1>1, Invariance, PTL

\* RefcntIsHolders: the atomic increments and decrements, taken outside any common
\* lock with the eviction test, always add up to the number of holders.
THEOREM RefcntCountsHolders == Spec => []RefcntIsHolders
<1>1. Inv => RefcntIsHolders
  BY DEF Inv
<1> QED
  BY <1>1, Invariance, PTL

----------------------------------------------------------------------------
(* EvictableNotForgotten *)

\* Client c is inside an operation that will evict or queue h.
Carries(c, h) ==
    \/ op[c].pc \in {"unget_evict", "unget_enq"} /\ op[c].h = h
    \/ op[c].pc = "evict_one" /\ op[c].victim = h

\* A step of client c forgets no handle if, for what is evictable afterwards, c
\* keeps what it carried and the queue what it had.
LEMMA Remembered ==
    ASSUME EvictableNotForgotten, NEW c \in Clients,
           \A d \in Clients \ {c} : op'[d] = op[d],
           \A h \in Handles : Evictable(h)' =>
               \/ Carries(c, h)' \/ h \in toevict'
               \/ /\ Evictable(h)
                  /\ h \in toevict => h \in toevict'
                  /\ ~ Carries(c, h)
    PROVE  EvictableNotForgotten'
BY DEF EvictableNotForgotten, Carries

\* Where refcnt and the map are unchanged, the same handles are evictable.
LEMMA SameEvictable ==
    ASSUME UNCHANGED <<cache, refcnt>>, NEW h
    PROVE  Evictable(h)' <=> Evictable(h)
BY DEF Evictable, Present

LEMMA NotForgottenNext ==
    Inv /\ EvictableNotForgotten /\ [Next]_vars => EvictableNotForgotten'
<1> SUFFICES ASSUME Inv, EvictableNotForgotten, [Next]_vars
             PROVE  EvictableNotForgotten'
  OBVIOUS
<1> USE DEF Inv, TypeOK
<1>1. CASE UNCHANGED vars
  BY <1>1 DEF vars, stuff, EvictableNotForgotten, Evictable, Present
<1>2. ASSUME NEW c \in Clients, NEW h \in Handles, Get(c, h) PROVE EvictableNotForgotten'
  <2>1. cache[h] \in Objs
    BY <1>2 DEF Get, Present
  <2>2. \A g \in Handles : Evictable(g)' => Evictable(g)
    BY <1>2, <2>1 DEF Get, AddRef, Evictable, Present
  <2> QED
    BY <1>2, <2>2, Remembered DEF Get, Carries
<1>3. ASSUME NEW c \in Clients, Unget(c) PROVE EvictableNotForgotten'
  <2> DEFINE o == cache[key[c]]
  <2>1. /\ key[c] \in Handles /\ o \in Objs /\ o # NoObj /\ op[c].pc = "idle"
        /\ refcnt' = [refcnt EXCEPT ![o] = @ - 1]
        /\ UNCHANGED <<cache, toevict>>
    BY <1>3 DEF OpOK, HeldEntryStays, Unget, AddRef
  <2>2. \A d \in Clients \ {c} : op'[d] = op[d]
    BY <1>3 DEF Unget, Start
  <2>3. ASSUME NEW g \in Handles, Evictable(g)', g # key[c]
        PROVE  Evictable(g)
    BY <2>1, <2>3 DEF Evictable, Present, StoredOnce
  <2>4. ASSUME NEW g \in Handles, Evictable(g)', g = key[c]
        PROVE  Carries(c, g)'
    <3>1. refcnt[cache[g]] = 1 /\ cache[g] # NoObj
      BY <2>1, <2>4 DEF Evictable
    <3>2. \E l \in {"unget_evict", "unget_enq"} : Start(c, l, g, 0)
      BY <1>3, <2>4, <3>1 DEF Unget
    <3>3. \E l \in {"unget_evict", "unget_enq"} :
             op'[c] = [pc |-> l, h |-> g, sz |-> 0, victim |-> NoHandle, new |-> NoObj]
      BY <3>2 DEF Start
    <3>4. op'[c].pc \in {"unget_evict", "unget_enq"} /\ op'[c].h = g
      BY <3>3
    <3> QED
      BY <3>4 DEF Carries
  <2>5. \A g \in Handles : ~ Carries(c, g)
    BY <2>1 DEF Carries
  <2> QED
    BY <2>1, <2>2, <2>3, <2>4, <2>5, Remembered
<1>4. ASSUME NEW c \in Clients, UngetEvict(c) PROVE EvictableNotForgotten'
  <2>1. /\ op[c].h \in Handles /\ op[c].pc = "unget_evict" /\ UNCHANGED toevict
        /\ \A d \in Clients \ {c} : op'[d] = op[d]
    BY <1>4 DEF UngetEvict, OpOK, Return, Goto
  <2>2. CASE Evictable(op[c].h)
    <3>1. \A g \in Handles : Evictable(g)' => Evictable(g) /\ g # op[c].h
      BY <1>4, <2>1, <2>2 DEF UngetEvict, EvictHandle, Delete, SetStuff, Evictable, Present, StoredOnce
    <3> QED
      BY <2>1, <3>1, Remembered DEF Carries
  <2>3. CASE ~ Evictable(op[c].h)
    <3>1. UNCHANGED <<cache, refcnt>> /\ op' = [op EXCEPT ![c].pc = "unget_enq"]
      BY <1>4, <2>3 DEF UngetEvict, EvictHandle, stuff, Goto
    <3>2. Carries(c, op[c].h)'
      BY <2>1, <3>1 DEF Carries, Op
    <3> QED
      BY <2>1, <3>1, <3>2, SameEvictable, Remembered DEF Carries
  <2> QED
    BY <2>2, <2>3
<1>5. ASSUME NEW c \in Clients, EvictOne(c) PROVE EvictableNotForgotten'
  <2>1. /\ op[c].victim \in Handles /\ op[c].pc = "evict_one" /\ UNCHANGED toevict
        /\ \A d \in Clients \ {c} : op'[d] = op[d]
    BY <1>5 DEF EvictOne, OpOK
  <2>2. \A g \in Handles : Evictable(g)' => Evictable(g) /\ g # op[c].victim
    BY <1>5, <2>1 DEF EvictOne, EvictHandle, Delete, SetStuff, stuff, Evictable, Present, StoredOnce
  <2> QED
    BY <2>1, <2>2, Remembered DEF Carries
<1>6. ASSUME NEW c \in Clients, UngetEnq(c) PROVE EvictableNotForgotten'
  <2>1. /\ op[c].h \in Handles /\ op[c].pc = "unget_enq" /\ toevict' = toevict \cup {op[c].h}
        /\ \A d \in Clients \ {c} : op'[d] = op[d]
        /\ UNCHANGED <<cache, refcnt>>
    BY <1>6 DEF UngetEnq, OpOK, QueueForEviction, Return, stuff
  <2> QED
    BY <2>1, SameEvictable, Remembered DEF Carries
<1>7. ASSUME NEW c \in Clients, EvictPop(c) PROVE EvictableNotForgotten'
  <2> PICK h \in toevict : /\ toevict' = toevict \ {h}
                           /\ op' = [op EXCEPT ![c].pc = "evict_one", ![c].victim = h]
    BY <1>7 DEF EvictPop, Unqueue
  <2>1. /\ op[c].pc = "evict_pop" /\ UNCHANGED <<cache, refcnt>>
        /\ op'[c] = [op[c] EXCEPT !.pc = "evict_one", !.victim = h]
        /\ \A d \in Clients \ {c} : op'[d] = op[d]
    BY <1>7 DEF EvictPop, stuff
  <2>2. op'[c].pc = "evict_one" /\ op'[c].victim = h
    <3>1. op[c] \in Op
      OBVIOUS
    <3> QED
      BY <2>1, <3>1 DEF Op
  <2> QED
    BY <2>1, <2>2, SameEvictable, Remembered DEF Carries
<1>8. ASSUME NEW c \in Clients,
             \/ \E h \in Handles, n \in Sizes : Put(c, h, n)
             \/ \E h \in Handles : AdviseEvict(c, h)
             \/ PutReserve(c) \/ PutUnreserve(c) \/ EvictNothing(c) \/ PutBadAlloc(c)
      PROVE  EvictableNotForgotten'
  <2>1. /\ op[c].pc \notin {"unget_evict", "unget_enq", "evict_one"}
        /\ UNCHANGED <<cache, refcnt, toevict>>
        /\ \A d \in Clients \ {c} : op'[d] = op[d]
    BY <1>8 DEF Put, AdviseEvict, PutReserve, PutUnreserve, EvictNothing, PutBadAlloc,
                Start, Goto, Return, stuff
  <2> QED
    BY <2>1, SameEvictable, Remembered DEF Carries
<1>9. ASSUME NEW c \in Clients, PutNew(c) PROVE EvictableNotForgotten'
  <2>1. /\ op[c].pc = "put_new"
        /\ \E o \in Objs \ live : refcnt' = [refcnt EXCEPT ![o] = 1]
        /\ UNCHANGED <<cache, toevict>>
        /\ \A d \in Clients \ {c} : op'[d] = op[d]
    BY <1>9 DEF PutNew, SetStuff
  <2>2. \A g \in Handles : Evictable(g)' => Evictable(g)
    BY <2>1 DEF Evictable, Present, StoredOnce
  <2> QED
    BY <2>1, <2>2, Remembered DEF Carries
<1>10. ASSUME NEW c \in Clients, PutInsert(c) PROVE EvictableNotForgotten'
  <2>1. /\ op[c].pc = "put_insert" /\ op[c].h \in Handles /\ refcnt[op[c].new] = 1
        /\ UNCHANGED <<refcnt, toevict>>
        /\ \A d \in Clients \ {c} : op'[d] = op[d]
        /\ cache' \in {cache, [cache EXCEPT ![op[c].h] = op[c].new]}
    BY <1>10 DEF PutInsert, OpOK, FreshOwned, Return, stuff
  <2>2. \A g \in Handles : Evictable(g)' => Evictable(g)
    BY <2>1 DEF Evictable, Present
  <2> QED
    BY <2>1, <2>2, Remembered DEF Carries
<1> QED
  BY <1>1, <1>2, <1>3, <1>4, <1>5, <1>6, <1>7, <1>8, <1>9, <1>10
  DEF Next, Begin, Continue, GetMiss, PutRefused

\* EvictableNotForgotten: although unget decides in one locked section and queues
\* in another, and evict() pops before it evicts, an entry nobody holds is always
\* queued or in the hands of a client that will evict or queue it.
THEOREM NothingForgotten == Spec => []EvictableNotForgotten
<1>1. Init => EvictableNotForgotten
  BY DEF Init, EvictableNotForgotten, Evictable, Present
<1> QED
  BY <1>1, NotForgottenNext, Invariance, PTL DEF Spec

----------------------------------------------------------------------------
(* ImplementsContract *)

\* The references and the mark of handle h, as CacheContract sees them.
RefsOf(h) == IF Present(h) THEN refcnt[cache[h]] ELSE 0

DoomedOf(h) == Present(h) /\ invalid[cache[h]]

\* An unpublished _Stuff is not marked invalid: only what is stored can be.
FreshValid ==
    \A c \in Clients : op[c].pc = "put_insert" => ~ invalid[op[c].new]

\* A step that changes no stored entry, mark or count looks like a stutter.
LEMMA SilentStep ==
    ASSUME UNCHANGED cache,
           \A h \in Handles : RefsOf(h)' = RefsOf(h) /\ (DoomedOf(h)' <=> DoomedOf(h))
    PROVE  UNCHANGED Contract!contractvars
<1>1. [h \in Handles |-> RefsOf(h)]' = [h \in Handles |-> RefsOf(h)]
  OBVIOUS
<1>2. [h \in Handles |-> DoomedOf(h)]' = [h \in Handles |-> DoomedOf(h)]
  <2>1. \A h \in Handles : DoomedOf(h)' = DoomedOf(h)
    BY Zenon DEF DoomedOf
  <2> QED
    BY <2>1
<1> QED
  BY <1>1, <1>2 DEF Contract!contractvars, RefsOf, DoomedOf

\* FreshValid is kept: a new _Stuff starts valid, and advise_evict and evict(h)
\* write only to the flags of what is stored.
LEMMA FreshValidNext == Inv /\ FreshValid /\ [Next]_vars => FreshValid'
<1> SUFFICES ASSUME Inv, FreshValid, [Next]_vars,
                    NEW d \in Clients, op'[d].pc = "put_insert"
             PROVE  ~ invalid'[op'[d].new]
  BY DEF FreshValid
<1> USE DEF Inv, TypeOK
<1>1. CASE UNCHANGED vars
  BY <1>1 DEF vars, stuff, FreshValid
<1>2. CASE FreshKept /\ UNCHANGED invalid
  BY <1>2 DEF FreshKept, FreshValid
<1>3. CASE /\ FreshKept
           /\ \E h \in Handles, b \in BOOLEAN :
                 Present(h) /\ invalid' = [invalid EXCEPT ![cache[h]] = b]
  <2>1. op'[d].new = op[d].new /\ \A h \in Handles : cache[h] # op[d].new
    BY <1>3 DEF FreshKept, FreshOwned
  <2> QED
    BY <1>3, <2>1 DEF FreshKept, FreshValid
<1>4. ASSUME NEW c \in Clients, PutNew(c) PROVE ~ invalid'[op'[d].new]
  <2> PICK o \in Objs \ live :
         /\ invalid' = [invalid EXCEPT ![o] = FALSE]
         /\ op' = [op EXCEPT ![c].pc = "put_insert", ![c].new = o]
    BY <1>4 DEF PutNew, SetStuff
  <2>1. CASE d = c
    BY <2>1 DEF Op
  <2>2. CASE d # c
    BY <2>2 DEF FreshOwned, FreshValid
  <2> QED
    BY <2>1, <2>2
<1>5. ASSUME NEW c \in Clients, NEW h \in Handles, EvictHandle(h), FreshKept
      PROVE  ~ invalid'[op'[d].new]
  BY <1>2, <1>3, <1>5 DEF EvictHandle, Delete, SetStuff, Evictable, stuff
<1>6. ASSUME NEW c \in Clients, UngetEvict(c) \/ EvictOne(c)
      PROVE  ~ invalid'[op'[d].new]
  <2>1. op[c] \in Op /\ \A e \in Clients \ {c} : op'[e] = op[e]
    BY <1>6 DEF UngetEvict, EvictOne, Return, Goto
  <2>2. ASSUME UngetEvict(c) PROVE FreshKept
    <3>1. op'[c] = Idle \/ op'[c] = [op[c] EXCEPT !.pc = "unget_enq"]
      BY <2>2 DEF UngetEvict, Return, Goto
    <3>2. op'[c].pc # "put_insert"
      BY <2>1, <3>1 DEF Idle, Op
    <3> QED
      BY <2>1, <3>2 DEF FreshKept
  <2>3. ASSUME EvictOne(c) PROVE FreshKept
    <3>1. op'[c].pc \in {"put_reserve", "evict_pop"}
      BY <2>1, <2>3 DEF EvictOne, Op
    <3> QED
      BY <2>1, <3>1 DEF FreshKept
  <2>4. FreshKept
    BY <1>6, <2>2, <2>3
  <2> QED
    BY <1>5, <1>6, <2>4 DEF UngetEvict, EvictOne, OpOK
<1>7. ASSUME NEW c \in Clients, NEW h \in Handles, AdviseEvict(c, h)
      PROVE  ~ invalid'[op'[d].new]
  BY <1>3, <1>7 DEF AdviseEvict, FreshKept
<1>8. ASSUME NEW c \in Clients, Begin(c), \A h \in Handles : ~ AdviseEvict(c, h)
      PROVE  ~ invalid'[op'[d].new]
  <2>1. FreshKept
    BY <1>8 DEF Begin, Unget, Get, GetMiss, Put, PutRefused, Start, FreshKept, vars
  <2> QED
    BY <1>2, <1>8, <2>1 DEF Begin, Unget, Get, GetMiss, Put, PutRefused, vars, stuff
<1>9. ASSUME NEW c \in Clients, Continue(c), ~ PutNew(c), ~ UngetEvict(c), ~ EvictOne(c)
      PROVE  ~ invalid'[op'[d].new]
  <2>0. op[c] \in Op
    OBVIOUS
  <2>2. \/ op'[c] = Idle
        \/ op'[c] = [op[c] EXCEPT !.pc = "put_new"]
        \/ op'[c] = [op[c] EXCEPT !.pc = "put_unreserve"]
        \/ op'[c] = [op[c] EXCEPT !.pc = "evict_pop"]
        \/ \E h \in Handles : op'[c] = [op[c] EXCEPT !.pc = "evict_one", !.victim = h]
    BY <1>9 DEF Continue, UngetEnq, PutReserve, PutUnreserve, EvictPop, EvictNothing,
                PutBadAlloc, PutInsert, Return, Goto
  <2>3. op'[c].pc # "put_insert"
    <3>1. Idle.pc # "put_insert"
      BY DEF Idle
    <3>2. \A h \in Handles : [op[c] EXCEPT !.pc = "evict_one", !.victim = h].pc = "evict_one"
      BY <2>0 DEF Op
    <3> QED
      BY <2>0, <2>2, <3>1, <3>2 DEF Op
  <2>1. FreshKept
    BY <1>9, <2>3 DEF Continue, UngetEnq, PutReserve, PutUnreserve, EvictPop, EvictNothing,
                PutBadAlloc, PutInsert, Return, Goto, FreshKept
  <2> QED
    BY <1>2, <1>9, <2>1 DEF Continue, UngetEnq, PutReserve, PutUnreserve, EvictPop,
                EvictNothing, PutBadAlloc, PutInsert, stuff
<1> QED
  BY <1>1, <1>4, <1>6, <1>7, <1>8, <1>9 DEF Next

\* What each handle shows for a step that touches the entry under h alone.
LEMMA OtherHandles ==
    ASSUME Inv, NEW h \in Handles, Present(h) \/ Present(h)',
           \A g \in Handles \ {h} : cache'[g] = cache[g],
           \A o \in Objs : o # cache[h] /\ o # cache'[h] =>
               refcnt'[o] = refcnt[o] /\ invalid'[o] = invalid[o],
           Inv'
    PROVE  \A g \in Handles \ {h} : RefsOf(g)' = RefsOf(g) /\ DoomedOf(g)' = DoomedOf(g)
<1> TAKE g \in Handles \ {h}
<1>1. CASE ~ Present(g)
  BY <1>1 DEF RefsOf, DoomedOf, Present
<1>2. CASE Present(g)
  <2>1. cache[g] \in Objs /\ cache[g] # cache[h] /\ cache[g] # cache'[h]
    BY <1>2 DEF Inv, TypeOK, StoredOnce, Present
  <2>2. refcnt'[cache[g]] = refcnt[cache[g]] /\ invalid'[cache[g]] = invalid[cache[g]]
    BY <2>1
  <2> QED
    BY <2>2 DEF RefsOf, DoomedOf, Present
<1> QED
  BY <1>1, <1>2

\* get is Take.
LEMMA GetTakes ==
    ASSUME Inv, Inv', NEW c \in Clients, NEW h \in Handles, Get(c, h)
    PROVE  Contract!Take(h)
<1>1. /\ Present(h) /\ cache[h] \in Objs /\ UNCHANGED <<cache, invalid>>
      /\ refcnt' = [refcnt EXCEPT ![cache[h]] = @ + 1]
  BY DEF Get, AddRef, Present, Inv, TypeOK
<1>2. RefsOf(h)' = RefsOf(h) + 1 /\ DoomedOf(h)' = DoomedOf(h)
  BY <1>1 DEF RefsOf, DoomedOf, Present, Inv, TypeOK
<1>3. \A g \in Handles \ {h} : RefsOf(g)' = RefsOf(g) /\ DoomedOf(g)' = DoomedOf(g)
  BY <1>1, OtherHandles DEF Inv, TypeOK
<1>4. /\ [g \in Handles |-> RefsOf(g)]' = [[g \in Handles |-> RefsOf(g)] EXCEPT ![h] = @ + 1]
      /\ [g \in Handles |-> DoomedOf(g)]' = [g \in Handles |-> DoomedOf(g)]
  BY <1>2, <1>3
<1> QED
  BY <1>1, <1>4 DEF Contract!Take, Contract!IsStored, RefsOf, DoomedOf, Present

\* unget is GiveBack of the handle that the client holds.
LEMMA UngetGivesBack ==
    ASSUME Inv, Inv', NEW c \in Clients, Unget(c)
    PROVE  \E h \in Handles : Contract!GiveBack(h)
<1> PICK h \in Handles : h = key[c]
  BY DEF Inv, OpOK, Unget
<1>1. /\ Present(h) /\ cache[h] \in Objs /\ UNCHANGED <<cache, invalid>>
      /\ refcnt' = [refcnt EXCEPT ![cache[h]] = @ - 1]
  BY DEF Unget, AddRef, Present, Inv, TypeOK, HeldEntryStays
<1>2. RefsOf(h)' = RefsOf(h) - 1 /\ DoomedOf(h)' = DoomedOf(h)
  BY <1>1 DEF RefsOf, DoomedOf, Present, Inv, TypeOK
<1>3. \A g \in Handles \ {h} : RefsOf(g)' = RefsOf(g) /\ DoomedOf(g)' = DoomedOf(g)
  BY <1>1, OtherHandles DEF Inv, TypeOK
<1>4. /\ [g \in Handles |-> RefsOf(g)]' = [[g \in Handles |-> RefsOf(g)] EXCEPT ![h] = @ - 1]
      /\ [g \in Handles |-> DoomedOf(g)]' = [g \in Handles |-> DoomedOf(g)]
  BY <1>2, <1>3
<1>5. Contract!GiveBack(h)
  BY <1>1, <1>4 DEF Contract!GiveBack, Contract!IsStored, RefsOf, DoomedOf, Present
<1> QED
  BY <1>5

\* advise_evict is Doom.
LEMMA AdviseDooms ==
    ASSUME Inv, Inv', NEW c \in Clients, NEW h \in Handles, AdviseEvict(c, h)
    PROVE  Contract!Doom(h)
<1>1. /\ Present(h) /\ cache[h] \in Objs /\ UNCHANGED <<cache, refcnt>>
      /\ invalid' = [invalid EXCEPT ![cache[h]] = TRUE]
  BY DEF AdviseEvict, Present, Inv, TypeOK
<1>2. RefsOf(h)' = RefsOf(h) /\ DoomedOf(h)' = TRUE
  BY <1>1 DEF RefsOf, DoomedOf, Present, Inv, TypeOK
<1>3. \A g \in Handles \ {h} : RefsOf(g)' = RefsOf(g) /\ DoomedOf(g)' = DoomedOf(g)
  BY <1>1, OtherHandles DEF Inv, TypeOK
<1>4. /\ [g \in Handles |-> RefsOf(g)]' = [g \in Handles |-> RefsOf(g)]
      /\ [g \in Handles |-> DoomedOf(g)]' = [[g \in Handles |-> DoomedOf(g)] EXCEPT ![h] = TRUE]
  BY <1>2, <1>3
<1>5. (cache[h] # NoObj) = TRUE
  BY <1>1 DEF Present
<1> QED
  BY <1>1, <1>4, <1>5 DEF Contract!Doom, Contract!IsStored, RefsOf, DoomedOf, Present

\* evict(h), in unget or in put, is Drop of an entry without references, or nothing.
LEMMA EvictDrops ==
    ASSUME Inv, Inv', NEW h \in Handles, EvictHandle(h)
    PROVE  Contract!Drop(h) \/ UNCHANGED Contract!contractvars
<1>1. CASE ~ Evictable(h)
  <2>1. UNCHANGED <<cache, refcnt, invalid>>
    BY <1>1 DEF EvictHandle, stuff
  <2> QED
    BY <2>1 DEF Contract!contractvars, Present
<1>2. CASE Evictable(h)
  <2>1. /\ Present(h) /\ cache[h] \in Objs /\ refcnt[cache[h]] = 0
        /\ cache' = [cache EXCEPT ![h] = NoObj]
        /\ refcnt' = [refcnt EXCEPT ![cache[h]] = 0]
        /\ invalid' = [invalid EXCEPT ![cache[h]] = FALSE]
    BY <1>2 DEF EvictHandle, Evictable, Present, Delete, SetStuff, Inv, TypeOK
  <2>2. RefsOf(h)' = 0 /\ RefsOf(h) = 0 /\ DoomedOf(h)' = FALSE
    BY <2>1 DEF RefsOf, DoomedOf, Present, Inv, TypeOK
  <2>3. \A g \in Handles \ {h} : RefsOf(g)' = RefsOf(g) /\ DoomedOf(g)' = DoomedOf(g)
    BY <2>1, OtherHandles DEF Inv, TypeOK
  <2>4. /\ [g \in Handles |-> RefsOf(g)]' = [g \in Handles |-> RefsOf(g)]
        /\ [g \in Handles |-> DoomedOf(g)]' = [[g \in Handles |-> DoomedOf(g)] EXCEPT ![h] = FALSE]
    BY <2>2, <2>3
  <2>5. [g \in Handles |-> RefsOf(g)][h] = 0
    BY <2>2
  <2> QED
    BY <2>1, <2>4, <2>5 DEF Contract!Drop, Contract!IsStored, RefsOf, DoomedOf, Present
<1> QED
  BY <1>1, <1>2

\* put's last section is Store of an entry with one reference and no mark, or nothing.
LEMMA InsertStores ==
    ASSUME Inv, Inv', FreshValid, NEW c \in Clients, PutInsert(c)
    PROVE  \/ \E h \in Handles, o \in Objs : Contract!Store(h, o)
           \/ UNCHANGED Contract!contractvars
<1> PICK h \in Handles, o \in Objs : h = op[c].h /\ o = op[c].new
  BY NullAssumption DEF PutInsert, Inv, TypeOK, OpOK, FreshOwned, Op
<1>1. CASE ~ MayInsert(h)
  <2>1. UNCHANGED <<cache, refcnt, invalid>>
    BY <1>1 DEF PutInsert, stuff
  <2> QED
    BY <2>1 DEF Contract!contractvars, Present
<1>2. CASE MayInsert(h)
  <2>1. /\ cache[h] = NoObj /\ o # NoObj /\ cache' = [cache EXCEPT ![h] = o]
        /\ UNCHANGED <<refcnt, invalid>> /\ refcnt[o] = 1 /\ invalid[o] = FALSE
    BY <1>2, NullAssumption DEF PutInsert, MayInsert, Present, stuff, Inv, TypeOK, FreshOwned, FreshValid
  <2>2. RefsOf(h)' = 1 /\ DoomedOf(h)' = FALSE
    BY <2>1 DEF RefsOf, DoomedOf, Present, Inv, TypeOK
  <2>3. \A g \in Handles \ {h} : RefsOf(g)' = RefsOf(g) /\ DoomedOf(g)' = DoomedOf(g)
    BY <2>1, OtherHandles DEF Inv, TypeOK, Present
  <2>4. /\ [g \in Handles |-> RefsOf(g)]' = [[g \in Handles |-> RefsOf(g)] EXCEPT ![h] = 1]
        /\ [g \in Handles |-> DoomedOf(g)]' = [[g \in Handles |-> DoomedOf(g)] EXCEPT ![h] = FALSE]
    BY <2>2, <2>3
  <2>5. Contract!Store(h, o)
    BY <2>1, <2>4 DEF Contract!Store, Contract!IsStored, RefsOf, DoomedOf, Present
  <2> QED
    BY <2>5
<1> QED
  BY <1>1, <1>2

\* The remaining sections of put, evict() and unget change nothing a user can see.
LEMMA OthersSilent ==
    ASSUME Inv, NEW c \in Clients,
           \/ \E h \in Handles, n \in Sizes : Put(c, h, n) \/ PutRefused(c, h, n)
           \/ \E h \in Handles : GetMiss(c, h)
           \/ UngetEnq(c) \/ PutReserve(c) \/ PutUnreserve(c) \/ EvictPop(c)
           \/ EvictNothing(c) \/ PutNew(c) \/ PutBadAlloc(c)
    PROVE  UNCHANGED Contract!contractvars
<1>1. CASE ~ PutNew(c)
  <2>1. UNCHANGED <<cache, refcnt, invalid>>
    BY <1>1 DEF Put, PutRefused, GetMiss, UngetEnq, PutReserve, PutUnreserve, EvictPop,
                EvictNothing, PutBadAlloc, vars, stuff
  <2> QED
    BY <2>1 DEF Contract!contractvars, Present
<1>2. CASE PutNew(c)
  <2> PICK o \in Objs \ live : SetStuff(o, 1, op[c].sz)
    BY <1>2 DEF PutNew
  <2>1. UNCHANGED cache
    BY <1>2 DEF PutNew
  <2>2. ASSUME NEW h \in Handles
        PROVE  RefsOf(h)' = RefsOf(h) /\ (DoomedOf(h)' <=> DoomedOf(h))
    BY <2>1 DEF SetStuff, RefsOf, DoomedOf, Present, Inv, TypeOK, StoredOnce
  <2> QED
    BY <2>1, <2>2, SilentStep
<1> QED
  BY <1>1, <1>2

\* Every step of the cache is a step of the contract, or none.
LEMMA ContractStep ==
    Inv /\ Inv' /\ FreshValid /\ [Next]_vars
        => [Contract!ContractNext]_(Contract!contractvars)
<1> SUFFICES ASSUME Inv, Inv', FreshValid, [Next]_vars
             PROVE  Contract!ContractNext \/ UNCHANGED Contract!contractvars
  OBVIOUS
<1>1. CASE UNCHANGED vars
  BY <1>1 DEF vars, stuff, Contract!contractvars, Present
<1>2. ASSUME NEW c \in Clients, Begin(c)
      PROVE  Contract!ContractNext \/ UNCHANGED Contract!contractvars
  BY <1>2, GetTakes, UngetGivesBack, AdviseDooms, OthersSilent
  DEF Begin, Contract!ContractNext
<1>3. ASSUME NEW c \in Clients, Continue(c)
      PROVE  Contract!ContractNext \/ UNCHANGED Contract!contractvars
  <2>1. CASE UngetEvict(c)
    BY <2>1, EvictDrops DEF UngetEvict, Inv, OpOK, Contract!ContractNext
  <2>2. CASE EvictOne(c)
    BY <2>2, EvictDrops DEF EvictOne, Inv, OpOK, Contract!ContractNext
  <2>3. CASE PutInsert(c)
    BY <2>3, InsertStores DEF Contract!ContractNext
  <2> QED
    BY <1>3, <2>1, <2>2, <2>3, OthersSilent DEF Continue
<1> QED
  BY <1>1, <1>2, <1>3 DEF Next

\* ImplementsContract: the operations of Cache.hpp, interleaved section by section,
\* are the atomic operations of CacheContract, each taking effect at one of its
\* sections: get and unget at the refcnt builtin, put at its last wrlock section, an
\* eviction at evict(h)'s.
THEOREM Refinement == Spec => ImplementsContract
<1>1. Init => Contract!ContractInit
  BY DEF Init, Contract!ContractInit, Present
<1>2. Init => FreshValid
  BY DEF Init, FreshValid, Idle
<1> QED
  BY <1>1, <1>2, Invariance, FreshValidNext, ContractStep, PTL
  DEF Spec, ImplementsContract, Contract!ContractSpec
============================================================================
