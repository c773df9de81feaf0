----------------------------- MODULE CacheSums -----------------------------
(***************************************************************************)
(* Proofs about the size of Cache: that cur accounts for every byte, and   *)
(* that the entries stay within max.                                       *)
(***************************************************************************)
EXTENDS CacheProofs

(* Sums *)

\* The bytes of finitely many blocks can be counted.
LEMMA TotalType ==
    ASSUME NEW f, NEW S, IsFiniteSet(S)
    PROVE  IsFiniteSet(Bytes(f, S)) /\ Total(f, S) \in Nat
<1>1. IsFiniteSet(0 .. (SizeMod - 1))
  BY SizesAssumption, FS_Interval
<1>2. IsFiniteSet(S \X (0 .. (SizeMod - 1)))
  BY <1>1, FS_Product
<1>3. Bytes(f, S) \subseteq S \X (0 .. (SizeMod - 1))
  BY DEF Bytes
<1> QED
  BY <1>2, <1>3, FS_Subset, FS_CardinalityType DEF Total

\* No blocks have no bytes.
LEMMA TotalEmpty == ASSUME NEW f PROVE Total(f, {}) = 0
<1>1. Bytes(f, {}) = {}
  BY DEF Bytes
<1> QED
  BY <1>1, FS_EmptySet DEF Total

\* Only the sizes of the blocks in S matter.
LEMMA TotalSame ==
    ASSUME NEW f, NEW g, NEW S, \A x \in S : f[x] = g[x]
    PROVE  Total(f, S) = Total(g, S)
<1>1. Bytes(f, S) = Bytes(g, S)
  BY DEF Bytes
<1> QED
  BY <1>1 DEF Total

\* One more block adds its size.
LEMMA TotalAdd ==
    ASSUME NEW f, NEW S, IsFiniteSet(S), NEW x, x \notin S, f[x] \in 0 .. (SizeMod - 1)
    PROVE  Total(f, S \cup {x}) = Total(f, S) + f[x]
<1> DEFINE B == {x} \X (0 .. (f[x] - 1))
<1>0. f[x] \in Nat
  BY SizesAssumption
<1>1. Bytes(f, S \cup {x}) = Bytes(f, S) \cup B
  BY SizesAssumption DEF Bytes
<1>2. Bytes(f, S) \cap B = {}
  BY DEF Bytes
<1>3. IsFiniteSet(B) /\ Cardinality(B) = f[x]
  <2>1. IsFiniteSet({x}) /\ Cardinality({x}) = 1
    BY FS_Singleton
  <2>2. IsFiniteSet(0 .. (f[x] - 1)) /\ Cardinality(0 .. (f[x] - 1)) = f[x]
    <3>1. ASSUME NEW n \in Nat
          PROVE  IsFiniteSet(0 .. (n - 1)) /\ Cardinality(0 .. (n - 1)) = n
      BY FS_Interval, SMTT(30)
    <3> QED
      BY <1>0, <3>1
  <2> HIDE DEF B
  <2>3. IsFiniteSet(B) /\ Cardinality(B) = 1 * f[x]
    BY <2>1, <2>2, FS_Product, SMTT(30) DEF B
  <2> QED
    BY <2>3, <1>0
<1> HIDE DEF B
<1>4. IsFiniteSet(Bytes(f, S)) /\ Cardinality(Bytes(f, S)) \in Nat
  BY TotalType DEF Total
<1>5. Cardinality(Bytes(f, S) \cup B) =
         Cardinality(Bytes(f, S)) + Cardinality(B) - Cardinality(Bytes(f, S) \cap B)
  BY <1>3, <1>4, FS_Union
<1>6. Cardinality(Bytes(f, S) \cap B) = 0
  BY <1>2, FS_EmptySet
<1> QED
  <2>1. ASSUME NEW a \in Nat, NEW n \in Nat, NEW u, u = a + n - 0
        PROVE  u = a + n
    BY <2>1
  <2>2. Cardinality(Bytes(f, S) \cup B) = Cardinality(Bytes(f, S)) + f[x]
    BY <1>0, <1>3, <1>4, <1>5, <1>6, <2>1
  <2> QED
    BY <1>1, <2>2 DEF Total

\* One block fewer takes its size away.
LEMMA TotalRemove ==
    ASSUME NEW f, NEW S, IsFiniteSet(S), NEW x \in S, f[x] \in 0 .. (SizeMod - 1)
    PROVE  Total(f, S) = Total(f, S \ {x}) + f[x]
<1>1. IsFiniteSet(S \ {x}) /\ x \notin S \ {x} /\ (S \ {x}) \cup {x} = S
  BY FS_Subset
<1> QED
  BY <1>1, TotalAdd

\* Blocks of at most n bytes each.
LEMMA TotalBound ==
    ASSUME NEW f, NEW S, IsFiniteSet(S), NEW n \in Nat, \A x \in S : f[x] \in 0 .. n
    PROVE  Total(f, S) <= Cardinality(S) * n
<1>1. IsFiniteSet(0 .. (n - 1)) /\ Cardinality(0 .. (n - 1)) = n
  BY FS_Interval
<1>2. /\ IsFiniteSet(S \X (0 .. (n - 1)))
      /\ Cardinality(S \X (0 .. (n - 1))) = Cardinality(S) * n
  BY <1>1, FS_Product
<1>3. Bytes(f, S) \subseteq S \X (0 .. (n - 1))
  BY DEF Bytes
<1> QED
  BY <1>2, <1>3, FS_Subset DEF Total

(* Arithmetic of size_t *)

\* What % and \div are.
LEMMA ModDef ==
    ASSUME NEW x \in Int, NEW m \in Nat \ {0}
    PROVE  x % m \in 0 .. (m - 1) /\ x \div m \in Int /\ x = m * (x \div m) + (x % m)
OBVIOUS

\* The remainder is the only one.
LEMMA ModUnique ==
    ASSUME NEW m \in Nat \ {0}, NEW q \in Int, NEW r \in 0 .. (m - 1)
    PROVE  (m * q + r) % m = r
BY Z3

\* Adding to, or subtracting from, a number that has wrapped around.
LEMMA ModAdd ==
    ASSUME NEW x \in Int, NEW n \in Int, NEW m \in Nat \ {0}
    PROVE  ((x % m) + n) % m = (x + n) % m
<1> DEFINE q == x \div m
           r == x % m
           k == (r + n) \div m
           s == (r + n) % m
<1>1. q \in Int /\ r \in 0 .. (m - 1) /\ x = m * q + r
  BY ModDef
<1>2. k \in Int /\ s \in 0 .. (m - 1) /\ r + n = m * k + s
  BY <1>1, ModDef
<1> HIDE DEF q, r, k, s
<1>3. x + n = m * (q + k) + s
  BY <1>1, <1>2
<1>4. (m * (q + k) + s) % m = s
  <2>1. q + k \in Int
    BY <1>1, <1>2
  <2> QED
    BY <1>2, <2>1, ModUnique
<1> QED
  BY <1>3, <1>4 DEF r, s

----------------------------------------------------------------------------
(* CurAccounted *)

\* Labels at which a put has charged cur and will either store its entry or give the
\* charge back.
Storing == {"put_new", "put_insert"}

Returning == {"put_unreserve"}

\* What the sums need besides Inv: finitely many blocks are allocated, and a _Stuff
\* not yet published has the size its put was charged for.
SumOK ==
    /\ IsFiniteSet(live)
    /\ \A c \in Clients : op[c].new # NoObj => op[c].pc = "put_insert"
    /\ \A c \in Clients : op[c].pc = "put_insert" => sz[op[c].new] = op[c].sz

\* All that has been charged to cur.
Charged ==
    Total(sz, Resident) + Asked(Storing) + Total(sz, Orphans) + Asked(Returning)

LEMMA CurIsCharged == CurAccounted <=> cur = Charged % SizeMod
BY DEF CurAccounted, Occupied, Charged, Storing, Returning

\* The sums are numbers.
LEMMA SumTypes ==
    ASSUME Inv, SumOK
    PROVE  /\ IsFiniteSet(Resident) /\ IsFiniteSet(Orphans)
           /\ Total(sz, Resident) \in Nat /\ Total(sz, Orphans) \in Nat
           /\ \A L : Asked(L) \in Nat
           /\ Charged \in Nat
<1>1. Resident \subseteq live /\ Orphans \subseteq live
  BY DEF Inv, StoredOnce, Resident, Orphans, Present
<1>2. IsFiniteSet(Resident) /\ IsFiniteSet(Orphans)
  BY <1>1, FS_Subset DEF SumOK
<1>3. Total(sz, Resident) \in Nat /\ Total(sz, Orphans) \in Nat
  BY <1>2, TotalType
<1>4. ASSUME NEW L PROVE Asked(L) \in Nat
  <2>1. IsFiniteSet({c \in Clients : op[c].pc \in L})
    BY ClientSets
  <2> QED
    BY <2>1, TotalType DEF Asked
<1> QED
  BY <1>2, <1>3, <1>4 DEF Charged

\* A step of client c that keeps it within, or out of, L.
LEMMA AskedSame ==
    ASSUME NEW L, NEW c \in Clients, \A d \in Clients \ {c} : op'[d] = op[d],
           op'[c].pc \in L <=> op[c].pc \in L,
           op[c].pc \in L => op'[c].sz = op[c].sz
    PROVE  Asked(L)' = Asked(L)
<1> DEFINE S == {d \in Clients : op[d].pc \in L}
           f == [d \in Clients |-> op[d].sz]
           g == [d \in Clients |-> op'[d].sz]
<1>1. {d \in Clients : op'[d].pc \in L} = S
  OBVIOUS
<1>2. \A d \in S : f[d] = g[d]
  OBVIOUS
<1>3. Asked(L) = Total(f, S) /\ Asked(L)' = Total(g, S)
  BY <1>1 DEF Asked, Total, Bytes
<1> HIDE DEF S, f, g
<1> QED
  BY <1>2, <1>3, TotalSame

\* Client c comes to L.
LEMMA AskedMore ==
    ASSUME NEW L, NEW c \in Clients, \A d \in Clients \ {c} : op'[d] = op[d],
           op[c].pc \notin L, op'[c].pc \in L, op'[c].sz \in 0 .. (SizeMod - 1)
    PROVE  Asked(L)' = Asked(L) + op'[c].sz
<1> DEFINE S == {d \in Clients : op[d].pc \in L}
           f == [d \in Clients |-> op[d].sz]
           g == [d \in Clients |-> op'[d].sz]
<1>1. {d \in Clients : op'[d].pc \in L} = S \cup {c} /\ c \notin S /\ g[c] = op'[c].sz
  OBVIOUS
<1>2. \A d \in S : f[d] = g[d]
  OBVIOUS
<1>3. Asked(L) = Total(f, S) /\ Asked(L)' = Total(g, S \cup {c})
  BY <1>1 DEF Asked, Total, Bytes
<1>4. IsFiniteSet(S)
  BY ClientSets
<1> HIDE DEF S, f, g
<1>5. Total(g, S \cup {c}) = Total(g, S) + g[c]
  BY <1>1, <1>4, TotalAdd
<1>6. Total(f, S) = Total(g, S)
  BY <1>2, TotalSame
<1> QED
  BY <1>1, <1>3, <1>5, <1>6

\* Client c leaves L.
LEMMA AskedLess ==
    ASSUME NEW L, NEW c \in Clients, \A d \in Clients \ {c} : op'[d] = op[d],
           op[c].pc \in L, op'[c].pc \notin L, op[c].sz \in 0 .. (SizeMod - 1)
    PROVE  Asked(L) = Asked(L)' + op[c].sz
<1> DEFINE S == {d \in Clients : op'[d].pc \in L}
           f == [d \in Clients |-> op[d].sz]
           g == [d \in Clients |-> op'[d].sz]
<1>1. {d \in Clients : op[d].pc \in L} = S \cup {c} /\ c \notin S /\ f[c] = op[c].sz
  OBVIOUS
<1>2. \A d \in S : f[d] = g[d]
  OBVIOUS
<1>3. Asked(L) = Total(f, S \cup {c}) /\ Asked(L)' = Total(g, S)
  BY <1>1 DEF Asked, Total, Bytes
<1>4. IsFiniteSet(S)
  BY ClientSets
<1> HIDE DEF S, f, g
<1>5. Total(f, S \cup {c}) = Total(f, S) + f[c]
  BY <1>1, <1>4, TotalAdd
<1>6. Total(f, S) = Total(g, S)
  BY <1>2, TotalSame
<1> QED
  BY <1>1, <1>3, <1>5, <1>6

\* SumTypes, after a step.
LEMMA SumTypesNext ==
    ASSUME Inv', SumOK'
    PROVE  /\ Total(sz, Resident)' \in Nat /\ Total(sz, Orphans)' \in Nat
           /\ \A L : Asked(L)' \in Nat
           /\ Charged' \in Nat
<1>1. Resident' \subseteq live' /\ Orphans' \subseteq live'
  BY DEF Inv, StoredOnce, Resident, Orphans, Present
<1>2. IsFiniteSet(Resident') /\ IsFiniteSet(Orphans')
  BY <1>1, FS_Subset DEF SumOK
<1>3. Total(sz', Resident') \in Nat /\ Total(sz', Orphans') \in Nat
  BY <1>2, TotalType
<1>4. ASSUME NEW L PROVE Asked(L)' \in Nat
  <2>1. IsFiniteSet({c \in Clients : op'[c].pc \in L})
    BY ClientSets
  <2>2. Total([c \in Clients |-> op'[c].sz], {c \in Clients : op'[c].pc \in L}) \in Nat
    BY <2>1, TotalType
  <2> QED
    BY <2>2 DEF Asked, Total, Bytes
<1>5. Total(sz, Resident)' \in Nat /\ Total(sz, Orphans)' \in Nat
  BY <1>3 DEF Total, Bytes
<1> QED
  BY <1>4, <1>5 DEF Charged

\* __sync_add_and_fetch(&cur, n) for n bytes more.
LEMMA ChargedMore ==
    ASSUME Inv, SumOK, CurAccounted, NEW n \in 0 .. (SizeMod - 1),
           Charged' = Charged + n, cur' = Charge(n)
    PROVE  CurAccounted'
<1>1. Charged \in Int /\ n \in Int /\ SizeMod \in Nat \ {0}
  BY SumTypes, SizesAssumption
<1>2. cur = Charged % SizeMod
  BY CurIsCharged
<1>3. cur' = (Charged + n) % SizeMod
  BY <1>1, <1>2, ModAdd DEF Charge
<1> QED
  BY <1>3 DEF CurAccounted, Occupied, Charged, Storing, Returning

\* __sync_sub_and_fetch(&cur, n) for n bytes fewer.
LEMMA ChargedLess ==
    ASSUME Inv, SumOK, CurAccounted, Inv', SumOK', NEW n \in 0 .. (SizeMod - 1),
           Charged = Charged' + n, cur' = Discharge(n)
    PROVE  CurAccounted'
<1>1. Charged \in Int /\ Charged' \in Int /\ -n \in Int /\ SizeMod \in Nat \ {0}
  BY SumTypes, SumTypesNext, SizesAssumption
<1>2. cur = Charged % SizeMod
  BY CurIsCharged
<1>3. (cur + (-n)) % SizeMod = (Charged + (-n)) % SizeMod
  BY <1>1, <1>2, ModAdd
<1>4. cur - n = cur + (-n) /\ Charged + (-n) = Charged'
  <2>1. cur \in Int
    BY SizesAssumption DEF Inv, TypeOK
  <2>2. n \in Int
    BY SizesAssumption
  <2>3. \A x, y, z \in Int : x - y = x + (-y) /\ (x = z + y => x + (-y) = z)
    OBVIOUS
  <2> QED
    BY <1>1, <2>1, <2>2, <2>3
<1>5. cur' = Charged' % SizeMod
  BY <1>3, <1>4 DEF Discharge
<1> QED
  BY <1>5 DEF CurAccounted, Occupied, Charged, Storing, Returning

\* Nothing charged.
LEMMA ChargedSame ==
    ASSUME CurAccounted, Charged' = Charged, UNCHANGED cur
    PROVE  CurAccounted'
BY DEF CurAccounted, Occupied, Charged, Storing, Returning

\* The blocks of the heap where nothing is allocated, stored or deleted.
LEMMA BlocksSame ==
    ASSUME UNCHANGED <<cache, sz, live>>, \A d \in Clients : op'[d].new = op[d].new
    PROVE  /\ Total(sz, Resident)' = Total(sz, Resident)
           /\ Total(sz, Orphans)' = Total(sz, Orphans)
<1>1. Resident' = Resident
  BY DEF Resident, Present
<1>2. Orphans' = Orphans
  BY <1>1 DEF Orphans
<1> QED
  BY <1>1, <1>2 DEF Total, Bytes

\* evict(h) that deletes the entry.
LEMMA BlocksEvicted ==
    ASSUME Inv, SumOK, NEW h \in Handles, Evictable(h), EvictHandle(h),
           \A d \in Clients : op'[d].new = op[d].new
    PROVE  /\ sz[cache[h]] \in 0 .. (SizeMod - 1)
           /\ Total(sz, Resident) = Total(sz, Resident)' + sz[cache[h]]
           /\ Total(sz, Orphans)' = Total(sz, Orphans)
<1> PICK o : o = cache[h]
  OBVIOUS
<1>1. /\ o \in Objs /\ o # NoObj /\ o \in live /\ o \in Resident
      /\ live' = live \ {o} /\ sz' = [sz EXCEPT ![o] = 0]
      /\ cache' = [cache EXCEPT ![h] = NoObj]
      /\ sz[o] \in 0 .. (SizeMod - 1)
  BY DEF Inv, TypeOK, StoredOnce, Evictable, Present, EvictHandle, Delete, SetStuff, Resident
<1>2. Resident' = Resident \ {o}
  BY <1>1 DEF Inv, TypeOK, StoredOnce, Resident, Present
<1>3. Orphans' = Orphans /\ o \notin Orphans
  <2>1. {op'[c].new : c \in Clients} = {op[c].new : c \in Clients}
    OBVIOUS
  <2> QED
    BY <1>1, <1>2, <2>1 DEF Orphans
<1>4. \A x \in Resident \ {o} : sz'[x] = sz[x]
  BY <1>1
<1>5. \A x \in Orphans : sz'[x] = sz[x]
  BY <1>1, <1>3
<1>6. Total(sz, Resident) = Total(sz, Resident \ {o}) + sz[o]
  BY <1>1, SumTypes, TotalRemove
<1>7. Total(sz', Resident \ {o}) = Total(sz, Resident \ {o})
  BY <1>4, TotalSame
<1>8. Total(sz', Orphans) = Total(sz, Orphans)
  BY <1>5, TotalSame
<1>9. Total(sz, Resident)' = Total(sz', Resident \ {o}) /\ Total(sz, Orphans)' = Total(sz', Orphans)
  BY <1>2, <1>3 DEF Total, Bytes
<1> QED
  BY <1>1, <1>6, <1>7, <1>8, <1>9

\* An operation that is not charging, storing or giving back.
Elsewhere(c) ==
    /\ \A d \in Clients \ {c} : op'[d] = op[d]
    /\ op[c].pc \notin Storing \cup Returning
    /\ op'[c].pc \notin Storing \cup Returning
    /\ op'[c].new = op[c].new

\* Which steps these are.
LEMMA ElsewhereSteps ==
    ASSUME Inv, SumOK, NEW c \in Clients,
           \/ Unget(c) \/ UngetEvict(c) \/ UngetEnq(c)
           \/ EvictPop(c) \/ EvictNothing(c) \/ EvictOne(c)
           \/ \E h \in Handles, n \in Sizes : Put(c, h, n)
           \/ \E h \in Handles : Get(c, h) \/ AdviseEvict(c, h)
    PROVE  Elsewhere(c)
<1> USE DEF Storing, Returning
<1>0. op[c] \in Op /\ op \in [Clients -> Op]
  BY DEF Inv, TypeOK
<1>1. CASE UNCHANGED op /\ op[c].pc = "idle"
  BY <1>1 DEF Elsewhere
<1>2. ASSUME op[c].pc \notin Storing \cup Returning,
             NEW l \in PC \ (Storing \cup Returning), NEW h, NEW n, Start(c, l, h, n)
      PROVE  Elsewhere(c)
  <2>1. op[c].new = NoObj
    BY <1>2 DEF SumOK
  <2>2. op'[c] = [pc |-> l, h |-> h, sz |-> n, victim |-> NoHandle, new |-> NoObj]
        /\ \A d \in Clients \ {c} : op'[d] = op[d]
    BY <1>0, <1>2 DEF Start
  <2> QED
    BY <1>2, <2>1, <2>2 DEF Elsewhere
<1>3. ASSUME op[c].pc \notin Storing \cup Returning, Return(c)
      PROVE  Elsewhere(c)
  <2>1. op[c].new = NoObj
    BY <1>3 DEF SumOK
  <2>2. op'[c] = Idle /\ \A d \in Clients \ {c} : op'[d] = op[d]
    BY <1>0, <1>3 DEF Return
  <2>3. Idle.pc = "idle" /\ Idle.new = NoObj
    BY DEF Idle
  <2> QED
    BY <1>3, <2>1, <2>2, <2>3 DEF Elsewhere
<1>4. ASSUME op[c].pc \notin Storing \cup Returning,
             NEW l \in PC \ (Storing \cup Returning), Goto(c, l)
      PROVE  Elsewhere(c)
  <2>1. /\ op'[c] = [op[c] EXCEPT !.pc = l]
        /\ \A d \in Clients \ {c} : op'[d] = op[d]
    BY <1>0, <1>4 DEF Goto
  <2>2. op'[c].pc = l /\ op'[c].new = op[c].new
    BY <1>0, <2>1 DEF Op
  <2> QED
    BY <1>4, <2>1, <2>2 DEF Elsewhere
<1>5. CASE Unget(c)
  BY <1>1, <1>2, <1>5 DEF Unget, PC
<1>6. CASE UngetEvict(c)
  BY <1>3, <1>4, <1>6 DEF UngetEvict, PC
<1>7. CASE UngetEnq(c) \/ EvictNothing(c)
  BY <1>3, <1>7 DEF UngetEnq, EvictNothing
<1>8. CASE EvictPop(c)
  <2>1. PICK h : op' = [op EXCEPT ![c].pc = "evict_one", ![c].victim = h]
    BY <1>8 DEF EvictPop
  <2>2. /\ op'[c] = [op[c] EXCEPT !.pc = "evict_one", !.victim = h]
        /\ \A d \in Clients \ {c} : op'[d] = op[d]
    BY <1>0, <2>1
  <2>3. op'[c].pc = "evict_one" /\ op'[c].new = op[c].new
    BY <1>0, <2>2 DEF Op
  <2> QED
    BY <1>8, <2>2, <2>3 DEF Elsewhere, EvictPop
<1>9. CASE EvictOne(c)
  <2>1. PICK l \in {"put_reserve", "evict_pop"} :
           op' = [op EXCEPT ![c].victim = NoHandle, ![c].pc = l]
    BY <1>9 DEF EvictOne
  <2>2. /\ op'[c] = [op[c] EXCEPT !.victim = NoHandle, !.pc = l]
        /\ \A d \in Clients \ {c} : op'[d] = op[d]
    BY <1>0, <2>1
  <2>3. op'[c].pc = l /\ op'[c].new = op[c].new
    BY <1>0, <2>2 DEF Op
  <2> QED
    BY <1>9, <2>2, <2>3 DEF Elsewhere, EvictOne
<1>10. ASSUME NEW h \in Handles, NEW n \in Sizes, Put(c, h, n) PROVE Elsewhere(c)
  BY <1>2, <1>10 DEF Put, PC
<1>11. ASSUME NEW h \in Handles, Get(c, h) \/ AdviseEvict(c, h) PROVE Elsewhere(c)
  BY <1>1, <1>11 DEF Get, AdviseEvict
<1> QED
  BY <1>5, <1>6, <1>7, <1>8, <1>9, <1>10, <1>11

\* The steps of put that charge, store or give back.
LEMMA PutSteps ==
    ASSUME Inv, SumOK, NEW c \in Clients,
           PutReserve(c) \/ PutUnreserve(c) \/ PutBadAlloc(c) \/ PutNew(c) \/ PutInsert(c)
    PROVE  /\ op[c].sz \in 0 .. (SizeMod - 1)
           /\ \A d \in Clients \ {c} : op'[d] = op[d]
           /\ PutReserve(c) =>
                 /\ op'[c].pc = IF Fits(c) THEN "put_new" ELSE "put_unreserve"
                 /\ op'[c].sz = op[c].sz /\ op'[c].new = op[c].new
           /\ PutUnreserve(c) => op'[c].pc = "evict_pop" /\ op'[c].new = op[c].new
           /\ PutBadAlloc(c) \/ PutInsert(c) => op'[c].pc = "idle" /\ op'[c].new = NoObj
           /\ PutNew(c) => op'[c].pc = "put_insert" /\ op'[c].sz = op[c].sz
                           /\ op'[c].new \in Objs \ live
<1>0. op[c] \in Op /\ op \in [Clients -> Op]
  BY DEF Inv, TypeOK
<1>1. op[c].sz \in 0 .. (SizeMod - 1)
  BY <1>0 DEF Op
<1>2. \A d \in Clients \ {c} : op'[d] = op[d]
  BY <1>0 DEF PutReserve, PutUnreserve, PutBadAlloc, PutNew, PutInsert, Goto, Return
<1>3. ASSUME PutReserve(c)
      PROVE  /\ op'[c].pc = IF Fits(c) THEN "put_new" ELSE "put_unreserve"
             /\ op'[c].sz = op[c].sz /\ op'[c].new = op[c].new
  <2>1. op'[c] = [op[c] EXCEPT !.pc = IF Fits(c) THEN "put_new" ELSE "put_unreserve"]
    BY <1>0, <1>3 DEF PutReserve, Goto
  <2> QED
    BY <1>0, <2>1 DEF Op
<1>4. ASSUME PutUnreserve(c) PROVE op'[c].pc = "evict_pop" /\ op'[c].new = op[c].new
  <2>1. op'[c] = [op[c] EXCEPT !.pc = "evict_pop"]
    BY <1>0, <1>4 DEF PutUnreserve, Goto
  <2> QED
    BY <1>0, <2>1 DEF Op
<1>5. ASSUME PutBadAlloc(c) \/ PutInsert(c) PROVE op'[c].pc = "idle" /\ op'[c].new = NoObj
  <2>1. op'[c] = Idle
    BY <1>0, <1>5 DEF PutBadAlloc, PutInsert, Return
  <2> QED
    BY <2>1 DEF Idle
<1>6. ASSUME PutNew(c)
      PROVE  op'[c].pc = "put_insert" /\ op'[c].sz = op[c].sz /\ op'[c].new \in Objs \ live
  <2>1. PICK o \in Objs \ live : op' = [op EXCEPT ![c].pc = "put_insert", ![c].new = o]
    BY <1>6 DEF PutNew
  <2>2. op'[c] = [op[c] EXCEPT !.pc = "put_insert", !.new = o]
    BY <1>0, <2>1
  <2> QED
    BY <1>0, <2>2 DEF Op
<1> QED
  BY <1>1, <1>2, <1>3, <1>4, <1>5, <1>6

\* A step that keeps the unpublished blocks and their sizes.
LEMMA SumOKKept ==
    ASSUME SumOK, live' \subseteq live,
           \A d \in Clients :
               \/ op'[d].new = NoObj /\ op'[d].pc # "put_insert"
               \/ /\ op'[d].new = op[d].new
                  /\ op'[d].pc = "put_insert" <=> op[d].pc = "put_insert"
                  /\ op[d].pc = "put_insert" =>
                        op'[d].sz = op[d].sz /\ sz'[op[d].new] = sz[op[d].new]
    PROVE  SumOK'
<1>1. IsFiniteSet(live')
  BY FS_Subset DEF SumOK
<1> QED
  BY <1>1 DEF SumOK

\* The blocks of an eviction are none of the unpublished ones.
LEMMA EvictSumOK ==
    ASSUME Inv, SumOK, NEW c \in Clients, NEW h \in Handles, EvictHandle(h), Elsewhere(c)
    PROVE  SumOK'
<1>1. \A d \in Clients : op[d].pc = "put_insert" => sz'[op[d].new] = sz[op[d].new]
  BY DEF Inv, TypeOK, FreshOwned, EvictHandle, Delete, SetStuff, stuff
<1>2. live' \subseteq live
  BY DEF EvictHandle, Delete, stuff
<1>3. \A d \in Clients :
         /\ op'[d].new = op[d].new
         /\ op'[d].pc = "put_insert" <=> op[d].pc = "put_insert"
         /\ op[d].pc = "put_insert" => op'[d].sz = op[d].sz
  BY DEF Elsewhere, Storing
<1> QED
  BY <1>1, <1>2, <1>3, SumOKKept

\* A step elsewhere that changes no block.
LEMMA ElsewhereSumOK ==
    ASSUME SumOK, NEW c \in Clients, Elsewhere(c), UNCHANGED <<live, sz>>
    PROVE  SumOK'
<1>1. \A d \in Clients :
         /\ op'[d].new = op[d].new
         /\ op'[d].pc = "put_insert" <=> op[d].pc = "put_insert"
         /\ op[d].pc = "put_insert" => op'[d].sz = op[d].sz
  BY DEF Elsewhere, Storing
<1> QED
  BY <1>1, SumOKKept

\* Every step keeps SumOK.
LEMMA SumOKNext == Inv /\ SumOK /\ [Next]_vars => SumOK'
<1> SUFFICES ASSUME Inv, SumOK, [Next]_vars PROVE SumOK'
  OBVIOUS
<1>1. CASE UNCHANGED vars
  BY <1>1 DEF vars, stuff, SumOK
<1>2. ASSUME NEW c \in Clients, Begin(c) PROVE SumOK'
  <2>1. ASSUME NEW h \in Handles, NEW n \in Sizes, PutRefused(c, h, n) PROVE SumOK'
    BY <1>1, <2>1 DEF PutRefused
  <2>2. ASSUME NEW h \in Handles, GetMiss(c, h) PROVE SumOK'
    BY <1>1, <2>2 DEF GetMiss
  <2>3. CASE Unget(c)
    BY <2>3, ElsewhereSteps, ElsewhereSumOK DEF Unget
  <2>4. ASSUME NEW h \in Handles, Get(c, h) \/ AdviseEvict(c, h) PROVE SumOK'
    BY <2>4, ElsewhereSteps, ElsewhereSumOK DEF Get, AdviseEvict
  <2>5. ASSUME NEW h \in Handles, NEW n \in Sizes, Put(c, h, n) PROVE SumOK'
    BY <2>5, ElsewhereSteps, ElsewhereSumOK DEF Put, stuff
  <2> QED
    BY <1>2, <2>1, <2>2, <2>3, <2>4, <2>5 DEF Begin
<1>3. ASSUME NEW c \in Clients, Continue(c) PROVE SumOK'
  <2>1. CASE UngetEvict(c) \/ EvictOne(c)
    BY <2>1, ElsewhereSteps, EvictSumOK DEF UngetEvict, EvictOne, Inv, OpOK
  <2>2. CASE UngetEnq(c) \/ EvictPop(c) \/ EvictNothing(c)
    BY <2>2, ElsewhereSteps, ElsewhereSumOK DEF UngetEnq, EvictPop, EvictNothing, stuff
  <2>3. CASE PutReserve(c) \/ PutUnreserve(c) \/ PutBadAlloc(c) \/ PutInsert(c)
    <3>1. UNCHANGED <<live, sz>>
      BY <2>3 DEF PutReserve, PutUnreserve, PutBadAlloc, PutInsert, stuff
    <3>2. op'[c].pc # "put_insert" /\ op'[c].new = NoObj
      BY <2>3, PutSteps DEF SumOK, PutReserve, PutUnreserve
    <3>3. \A d \in Clients \ {c} : op'[d] = op[d]
      BY <2>3, PutSteps
    <3> QED
      BY <3>1, <3>2, <3>3, SumOKKept
  <2>4. CASE PutNew(c)
    <3> PICK o \in Objs \ live :
           /\ live' = live \cup {o} /\ sz' = [sz EXCEPT ![o] = op[c].sz]
           /\ op' = [op EXCEPT ![c].pc = "put_insert", ![c].new = o]
      BY <2>4 DEF PutNew, SetStuff
    <3>1. IsFiniteSet(live')
      BY FS_AddElement DEF SumOK
    <3>2. /\ op'[c].pc = "put_insert" /\ op'[c].sz = op[c].sz
          /\ \A d \in Clients \ {c} : op'[d] = op[d]
      BY <2>4, PutSteps
    <3>3. op'[c].new = o
      BY DEF Inv, TypeOK, Op
    <3>4. sz'[o] = op[c].sz /\ \A x \in live : sz'[x] = sz[x]
      BY DEF Inv, TypeOK
    <3>5. \A d \in Clients : op[d].pc = "put_insert" => op[d].new \in live
      BY DEF Inv, FreshOwned
    <3>6. \A d \in Clients : op'[d].new # NoObj => op'[d].pc = "put_insert"
      BY <3>2 DEF SumOK
    <3>7. ASSUME NEW d \in Clients, op'[d].pc = "put_insert" PROVE sz'[op'[d].new] = op'[d].sz
      <4>1. CASE d = c
        BY <3>2, <3>3, <3>4, <4>1
      <4>2. CASE d # c
        <5>1. op'[d] = op[d] /\ op[d].pc = "put_insert"
          BY <3>2, <3>7, <4>2
        <5>2. op[d].new \in live /\ sz[op[d].new] = op[d].sz
          BY <3>5, <5>1 DEF SumOK
        <5> QED
          BY <3>4, <5>1, <5>2
      <4> QED
        BY <4>1, <4>2
    <3> QED
      BY <3>1, <3>6, <3>7 DEF SumOK
  <2> QED
    BY <1>3, <2>1, <2>2, <2>3, <2>4 DEF Continue
<1> QED
  BY <1>1, <1>2, <1>3 DEF Next

\* A step elsewhere that changes no block and no charge.
LEMMA ElsewhereAccounted ==
    ASSUME CurAccounted, NEW c \in Clients, Elsewhere(c), UNCHANGED <<cache, sz, live, cur>>
    PROVE  CurAccounted'
<1>1. Asked(Storing)' = Asked(Storing) /\ Asked(Returning)' = Asked(Returning)
  BY AskedSame DEF Elsewhere
<1>2. /\ Total(sz, Resident)' = Total(sz, Resident)
      /\ Total(sz, Orphans)' = Total(sz, Orphans)
  BY BlocksSame DEF Elsewhere
<1> QED
  BY <1>1, <1>2, ChargedSame DEF Charged

\* evict(h) gives back what the entry took.
LEMMA EvictAccounted ==
    ASSUME Inv, SumOK, CurAccounted, Inv', SumOK', NEW c \in Clients, NEW h \in Handles,
           EvictHandle(h), Elsewhere(c)
    PROVE  CurAccounted'
<1>1. CASE ~ Evictable(h)
  BY <1>1, ElsewhereAccounted DEF EvictHandle, stuff
<1>2. CASE Evictable(h)
  <2>1. Asked(Storing)' = Asked(Storing) /\ Asked(Returning)' = Asked(Returning)
    BY AskedSame DEF Elsewhere
  <2>2. \A d \in Clients : op'[d].new = op[d].new
    BY DEF Elsewhere
  <2>3. /\ sz[cache[h]] \in 0 .. (SizeMod - 1)
        /\ Total(sz, Resident) = Total(sz, Resident)' + sz[cache[h]]
        /\ Total(sz, Orphans)' = Total(sz, Orphans)
    BY <1>2, <2>2, BlocksEvicted
  <2>4. cur' = Discharge(sz[cache[h]])
    BY <1>2 DEF EvictHandle
  <2>5. Charged = Charged' + sz[cache[h]]
    <3>1. /\ Total(sz, Resident)' \in Nat /\ Total(sz, Orphans)' \in Nat
          /\ Asked(Storing)' \in Nat /\ Asked(Returning)' \in Nat
      BY SumTypesNext
    <3>2. sz[cache[h]] \in Nat
      BY <2>3, SizesAssumption
    <3> QED
      BY <2>1, <2>3, <3>1, <3>2 DEF Charged
  <2> QED
    BY <2>3, <2>4, <2>5, ChargedLess
<1> QED
  BY <1>1, <1>2

\* put: reserving, and giving the reservation back.
LEMMA ReserveAccounted ==
    ASSUME Inv, SumOK, CurAccounted, Inv', SumOK', NEW c \in Clients,
           PutReserve(c) \/ PutUnreserve(c) \/ PutBadAlloc(c)
    PROVE  CurAccounted'
<1>1. /\ op[c].sz \in 0 .. (SizeMod - 1) /\ op[c].sz \in Nat
      /\ \A d \in Clients \ {c} : op'[d] = op[d]
  BY PutSteps, SizesAssumption
<1>2. /\ Total(sz, Resident)' = Total(sz, Resident)
      /\ Total(sz, Orphans)' = Total(sz, Orphans)
  <2>1. UNCHANGED <<cache, sz, live>>
    BY DEF PutReserve, PutUnreserve, PutBadAlloc, stuff
  <2>2. op'[c].new = op[c].new
    BY PutSteps DEF PutReserve, PutUnreserve, PutBadAlloc, SumOK
  <2> QED
    BY <1>1, <2>1, <2>2, BlocksSame
<1>3. /\ Total(sz, Resident)' \in Nat /\ Total(sz, Orphans)' \in Nat
      /\ Asked(Storing)' \in Nat /\ Asked(Returning)' \in Nat
      /\ Asked(Storing) \in Nat /\ Asked(Returning) \in Nat
  BY SumTypes, SumTypesNext
<1>4. CASE PutReserve(c)
  <2>1. /\ op[c].pc = "put_reserve" /\ cur' = Charge(op[c].sz)
        /\ op'[c].pc = IF Fits(c) THEN "put_new" ELSE "put_unreserve"
        /\ op'[c].sz = op[c].sz
    BY <1>4, PutSteps DEF PutReserve
  <2>2. CASE Fits(c)
    <3>1. Asked(Storing)' = Asked(Storing) + op'[c].sz
      BY <1>1, <2>1, <2>2, AskedMore DEF Storing
    <3>2. Asked(Returning)' = Asked(Returning)
      BY <1>1, <2>1, <2>2, AskedSame DEF Returning
    <3>3. Charged' = Charged + op[c].sz
      BY <1>1, <1>2, <1>3, <2>1, <3>1, <3>2 DEF Charged
    <3> QED
      BY <1>1, <2>1, <3>3, ChargedMore
  <2>3. CASE ~ Fits(c)
    <3>1. Asked(Returning)' = Asked(Returning) + op'[c].sz
      BY <1>1, <2>1, <2>3, AskedMore DEF Returning
    <3>2. Asked(Storing)' = Asked(Storing)
      BY <1>1, <2>1, <2>3, AskedSame DEF Storing
    <3>3. Charged' = Charged + op[c].sz
      BY <1>1, <1>2, <1>3, <2>1, <3>1, <3>2 DEF Charged
    <3> QED
      BY <1>1, <2>1, <3>3, ChargedMore
  <2> QED
    BY <2>2, <2>3
<1>5. CASE PutUnreserve(c)
  <2>1. op[c].pc = "put_unreserve" /\ cur' = Discharge(op[c].sz) /\ op'[c].pc = "evict_pop"
    BY <1>5, PutSteps DEF PutUnreserve
  <2>2. Asked(Returning) = Asked(Returning)' + op[c].sz
    BY <1>1, <2>1, AskedLess DEF Returning
  <2>3. Asked(Storing)' = Asked(Storing)
    BY <1>1, <2>1, AskedSame DEF Storing
  <2>4. Charged = Charged' + op[c].sz
    BY <1>1, <1>2, <1>3, <2>2, <2>3 DEF Charged
  <2> QED
    BY <1>1, <2>1, <2>4, ChargedLess
<1>6. CASE PutBadAlloc(c)
  <2>1. op[c].pc = "put_new" /\ cur' = Discharge(op[c].sz) /\ op'[c].pc = "idle"
    BY <1>6, PutSteps DEF PutBadAlloc, GiveUp
  <2>2. Asked(Storing) = Asked(Storing)' + op[c].sz
    BY <1>1, <2>1, AskedLess DEF Storing
  <2>3. Asked(Returning)' = Asked(Returning)
    BY <1>1, <2>1, AskedSame DEF Returning
  <2>4. Charged = Charged' + op[c].sz
    BY <1>1, <1>2, <1>3, <2>2, <2>3 DEF Charged
  <2> QED
    BY <1>1, <2>1, <2>4, ChargedLess
<1> QED
  BY <1>4, <1>5, <1>6

\* put: the new _Stuff is neither stored nor lost yet.
LEMMA PutNewBlocks ==
    ASSUME Inv, SumOK, NEW c \in Clients, PutNew(c)
    PROVE  /\ Total(sz, Resident)' = Total(sz, Resident)
           /\ Total(sz, Orphans)' = Total(sz, Orphans)
           /\ Asked(Storing)' = Asked(Storing)
           /\ Asked(Returning)' = Asked(Returning)
<1>0. PICK o \in Objs \ live :
       /\ live' = live \cup {o} /\ sz' = [sz EXCEPT ![o] = op[c].sz]
       /\ op' = [op EXCEPT ![c].pc = "put_insert", ![c].new = o]
  BY DEF PutNew, SetStuff
<1>1. /\ op[c].pc = "put_new" /\ op[c].new = NoObj /\ UNCHANGED cache
      /\ op'[c].pc = "put_insert" /\ op'[c].sz = op[c].sz
      /\ \A d \in Clients \ {c} : op'[d] = op[d]
  BY PutSteps DEF PutNew, SumOK
<1>2. op'[c].new = o
  BY <1>0 DEF Inv, TypeOK, Op
<1>3. NoObj \notin live /\ live \subseteq Objs
  BY NullAssumption DEF Inv, TypeOK
<1>4. Resident' = Resident /\ Resident \subseteq live
  BY <1>1 DEF Inv, StoredOnce, Resident, Present
<1>5. Orphans' = Orphans /\ Orphans \subseteq live
  <2>1. ASSUME NEW x \in live
        PROVE  x \in {op'[d].new : d \in Clients} <=> x \in {op[d].new : d \in Clients}
    <3>1. x # o /\ x # NoObj
      BY <1>0, <1>3
    <3>2. \A d \in Clients : op'[d].new = x <=> op[d].new = x
      BY <1>1, <1>2, <3>1
    <3> QED
      BY <3>2
  <2>2. o \in {op'[d].new : d \in Clients}
    BY <1>2
  <2> QED
    BY <1>0, <1>4, <2>1, <2>2 DEF Orphans
<1>6. \A x \in live : sz'[x] = sz[x]
  BY <1>0 DEF Inv, TypeOK
<1>7. Total(sz', Resident) = Total(sz, Resident) /\ Total(sz', Orphans) = Total(sz, Orphans)
  <2>1. \A x \in Resident : sz'[x] = sz[x]
    BY <1>4, <1>6
  <2>2. \A x \in Orphans : sz'[x] = sz[x]
    BY <1>5, <1>6
  <2>3. Total(sz', Resident) = Total(sz, Resident)
    BY <2>1, TotalSame
  <2> QED
    BY <2>2, <2>3, TotalSame
<1>8. Total(sz, Resident)' = Total(sz', Resident) /\ Total(sz, Orphans)' = Total(sz', Orphans)
  BY <1>4, <1>5 DEF Total, Bytes
<1>9. Asked(Storing)' = Asked(Storing)
  BY <1>1, AskedSame DEF Storing
<1>10. Asked(Returning)' = Asked(Returning)
  BY <1>1, AskedSame DEF Returning
<1> QED
  BY <1>7, <1>8, <1>9, <1>10

\* put: the new _Stuff becomes an entry, or an orphan.
LEMMA PutInsertBlocks ==
    ASSUME Inv, SumOK, NEW c \in Clients, PutInsert(c)
    PROVE  /\ \/ /\ Total(sz, Resident)' = Total(sz, Resident) + op[c].sz
                 /\ Total(sz, Orphans)' = Total(sz, Orphans)
              \/ /\ Total(sz, Resident)' = Total(sz, Resident)
                 /\ Total(sz, Orphans)' = Total(sz, Orphans) + op[c].sz
           /\ Asked(Storing) = Asked(Storing)' + op[c].sz
           /\ Asked(Returning)' = Asked(Returning)
<1> PICK o : o = op[c].new
  OBVIOUS
<1>1. /\ op[c].pc = "put_insert" /\ UNCHANGED <<live, sz>>
      /\ op[c].sz \in 0 .. (SizeMod - 1)
      /\ op'[c].pc = "idle" /\ op'[c].new = NoObj
      /\ \A d \in Clients \ {c} : op'[d] = op[d]
  BY PutSteps DEF PutInsert, stuff
<1>2. /\ o \in live /\ o # NoObj /\ o \notin Resident /\ NoObj \notin live
      /\ sz[o] = op[c].sz /\ op[c].h \in Handles
      /\ \A d \in Clients \ {c} : op[d].new # o
  BY <1>1, NullAssumption DEF Inv, TypeOK, FreshOwned, SumOK, OpOK, Resident
<1>3. \A x \in live : x \in {op[d].new : d \in Clients} <=>
                         x \in {op'[d].new : d \in Clients} \/ x = o
  BY <1>1, <1>2
<1>4. o \notin {op'[d].new : d \in Clients} /\ o \notin Orphans
  BY <1>1, <1>2 DEF Orphans
<1>5. IsFiniteSet(Resident) /\ IsFiniteSet(Orphans)
  BY SumTypes
<1>6. /\ Total(sz, Resident \cup {o}) = Total(sz, Resident) + op[c].sz
      /\ Total(sz, Orphans \cup {o}) = Total(sz, Orphans) + op[c].sz
  BY <1>1, <1>2, <1>4, <1>5, TotalAdd
<1>7. Asked(Storing) = Asked(Storing)' + op[c].sz
  BY <1>1, AskedLess DEF Storing
<1>8. Asked(Returning)' = Asked(Returning)
  BY <1>1, AskedSame DEF Returning
<1>9. CASE MayInsert(op[c].h)
  <2>1. cache' = [cache EXCEPT ![op[c].h] = o] /\ ~ Present(op[c].h)
    BY <1>9 DEF PutInsert, MayInsert
  <2>2. Resident' = Resident \cup {o}
    BY <1>2, <2>1 DEF Resident, Present, Inv, TypeOK
  <2>3. Orphans' = Orphans
    BY <1>1, <1>3, <1>4, <2>2 DEF Orphans
  <2>4. /\ Total(sz, Resident)' = Total(sz, Resident \cup {o})
        /\ Total(sz, Orphans)' = Total(sz, Orphans)
    BY <1>1, <2>2, <2>3 DEF Total, Bytes
  <2> QED
    BY <1>6, <1>7, <1>8, <2>4
<1>10. CASE ~ MayInsert(op[c].h)
  <2>1. Resident' = Resident
    BY <1>10 DEF PutInsert, Resident, Present
  <2>2. Orphans' = Orphans \cup {o}
    BY <1>1, <1>2, <1>3, <1>4, <2>1 DEF Orphans
  <2>3. /\ Total(sz, Resident)' = Total(sz, Resident)
        /\ Total(sz, Orphans)' = Total(sz, Orphans \cup {o})
    BY <1>1, <2>1, <2>2 DEF Total, Bytes
  <2> QED
    BY <1>6, <1>7, <1>8, <2>3
<1> QED
  BY <1>9, <1>10

\* put: storing the entry, or losing the race for its handle, charges nothing.
LEMMA StoreAccounted ==
    ASSUME Inv, SumOK, CurAccounted, Inv', SumOK', NEW c \in Clients,
           PutNew(c) \/ PutInsert(c)
    PROVE  CurAccounted'
<1>1. /\ Total(sz, Resident) \in Nat /\ Total(sz, Orphans) \in Nat
      /\ Asked(Storing)' \in Nat /\ Asked(Returning) \in Nat
      /\ op[c].sz \in Nat
  BY SumTypes, SumTypesNext, PutSteps, SizesAssumption
<1>2. Charged' = Charged
  <2>1. CASE PutNew(c)
    BY <2>1, PutNewBlocks DEF Charged
  <2>2. CASE PutInsert(c)
    BY <1>1, <2>2, PutInsertBlocks DEF Charged
  <2> QED
    BY <2>1, <2>2
<1>3. UNCHANGED cur
  BY DEF PutNew, PutInsert
<1> QED
  BY <1>2, <1>3, ChargedSame

\* Every step keeps the accounts.
LEMMA AccountedNext ==
    ASSUME Inv, SumOK, CurAccounted, Inv', SumOK', [Next]_vars
    PROVE  CurAccounted'
<1>1. CASE UNCHANGED vars
  <2>1. UNCHANGED <<cache, sz, live, op, cur>>
    BY <1>1 DEF vars, stuff
  <2> QED
    BY <2>1 DEF CurAccounted, Occupied, Asked, Total, Bytes, Orphans, Resident, Present
<1>2. ASSUME NEW c \in Clients, Begin(c) PROVE CurAccounted'
  <2>1. ASSUME NEW h \in Handles, NEW n \in Sizes, PutRefused(c, h, n) PROVE CurAccounted'
    BY <1>1, <2>1 DEF PutRefused
  <2>2. ASSUME NEW h \in Handles, GetMiss(c, h) PROVE CurAccounted'
    BY <1>1, <2>2 DEF GetMiss
  <2>3. CASE Unget(c)
    BY <2>3, ElsewhereSteps, ElsewhereAccounted DEF Unget
  <2>4. ASSUME NEW h \in Handles, Get(c, h) \/ AdviseEvict(c, h) PROVE CurAccounted'
    BY <2>4, ElsewhereSteps, ElsewhereAccounted DEF Get, AdviseEvict
  <2>5. ASSUME NEW h \in Handles, NEW n \in Sizes, Put(c, h, n) PROVE CurAccounted'
    BY <2>5, ElsewhereSteps, ElsewhereAccounted DEF Put, stuff
  <2> QED
    BY <1>2, <2>1, <2>2, <2>3, <2>4, <2>5 DEF Begin
<1>3. ASSUME NEW c \in Clients, Continue(c) PROVE CurAccounted'
  <2>1. CASE UngetEvict(c) \/ EvictOne(c)
    BY <2>1, ElsewhereSteps, EvictAccounted DEF UngetEvict, EvictOne, Inv, OpOK
  <2>2. CASE UngetEnq(c) \/ EvictPop(c) \/ EvictNothing(c)
    BY <2>2, ElsewhereSteps, ElsewhereAccounted DEF UngetEnq, EvictPop, EvictNothing, stuff
  <2>3. CASE PutReserve(c) \/ PutUnreserve(c) \/ PutBadAlloc(c)
    BY <2>3, ReserveAccounted
  <2>4. CASE PutNew(c) \/ PutInsert(c)
    BY <2>4, StoreAccounted
  <2> QED
    BY <1>3, <2>1, <2>2, <2>3, <2>4 DEF Continue
<1> QED
  BY <1>1, <1>2, <1>3 DEF Next

\* Before the first step nothing is charged.
LEMMA InitCharged ==
    ASSUME Init
    PROVE  /\ SumOK /\ Occupied = 0
           /\ Total(sz, Orphans) = 0 /\ Asked(Returning) = 0
<1>1. Resident = {} /\ Orphans = {}
  BY DEF Init, Resident, Orphans, Present
<1>2. \A L \in {Storing, Returning} : {c \in Clients : op[c].pc \in L} = {}
  BY DEF Init, Idle, Storing, Returning
<1>3. Asked(Storing) = 0 /\ Asked(Returning) = 0
  BY <1>2, TotalEmpty DEF Asked
<1>4. Total(sz, Resident) = 0 /\ Total(sz, Orphans) = 0
  BY <1>1, TotalEmpty
<1>5. SumOK
  <2>1. live = {} /\ \A c \in Clients : op[c].pc = "idle" /\ op[c].new = NoObj
    BY DEF Init, Idle
  <2> QED
    BY <2>1, FS_EmptySet DEF SumOK
<1> QED
  BY <1>3, <1>4, <1>5 DEF Occupied, Storing

\* cur, which every put and every eviction changes outside the locks, is at every
\* moment exactly the bytes of the stored entries, of the puts under way and of the
\* orphans of lost races, modulo the width of size_t.
THEOREM Accounted == Spec => []CurAccounted
<1>1. Init => SumOK /\ CurAccounted
  <2> SUFFICES ASSUME Init PROVE SumOK /\ CurAccounted
    OBVIOUS
  <2>1. SumOK /\ Charged = 0
    BY InitCharged DEF Charged, Occupied, Storing
  <2>2. cur = 0 % SizeMod
    BY SizesAssumption DEF Init
  <2> QED
    BY <2>1, <2>2, CurIsCharged
<1>2. Inv /\ Inv' /\ SumOK /\ CurAccounted /\ [Next]_vars => SumOK' /\ CurAccounted'
  BY SumOKNext, AccountedNext
<1> QED
  BY <1>1, <1>2, Invariance, PTL DEF Spec

----------------------------------------------------------------------------
(* ResidentWithinMax *)

\* Every client reserving max on top of a full cache stays below 2^w: without this
\* the sum in cur can wrap around, and Fits then admits what does not fit.
NoWrap == (Cardinality(Clients) + 1) * MaxSize < SizeMod

Putting == {"put_reserve", "put_unreserve", "evict_pop", "evict_one", "put_new", "put_insert"}

\* put went past its first test: what it wants to store is not larger than max.
AskOK == \A c \in Clients : op[c].pc \in Putting => op[c].sz <= MaxSize

\* What the cache keeps: entries, puts about to store one, and orphans.  Orphans count
\* too, since a put that loses its race turns its reservation into one.
Kept == Occupied + Total(sz, Orphans)

\* The inductive invariant of ResidentWithinMax, next to Inv, SumOK and CurAccounted.
KeptOK == AskOK /\ Kept <= MaxSize

\* Every step keeps AskOK.
LEMMA AskOKNext == ASSUME Inv, AskOK, [Next]_vars PROVE AskOK'
<1>0. op \in [Clients -> Op]
  BY DEF Inv, TypeOK
<1>1. CASE UNCHANGED vars
  BY <1>1 DEF vars, AskOK
<1>2. ASSUME NEW c \in Clients, \A d \in Clients \ {c} : op'[d] = op[d],
             \/ op'[c].pc \notin Putting
             \/ op[c].pc \in Putting /\ op'[c].sz = op[c].sz
             \/ op'[c].sz <= MaxSize
      PROVE  AskOK'
  BY <1>2 DEF AskOK
<1>3. CASE UNCHANGED op
  BY <1>3 DEF AskOK
<1>4. ASSUME NEW c \in Clients, NEW l, NEW h, NEW n, Start(c, l, h, n),
             l \notin Putting \/ n <= MaxSize
      PROVE  AskOK'
  <2>1. op'[c].pc = l /\ op'[c].sz = n /\ \A d \in Clients \ {c} : op'[d] = op[d]
    BY <1>0, <1>4 DEF Start
  <2> QED
    BY <1>2, <1>4, <2>1
<1>5. ASSUME NEW c \in Clients, Return(c) PROVE AskOK'
  <2>1. op'[c].pc = "idle" /\ \A d \in Clients \ {c} : op'[d] = op[d]
    BY <1>0, <1>5 DEF Return, Idle
  <2> QED
    BY <1>2, <2>1 DEF Putting
<1>6. ASSUME NEW c \in Clients, NEW l, Goto(c, l), l \notin Putting \/ op[c].pc \in Putting
      PROVE  AskOK'
  <2>1. /\ op'[c] = [op[c] EXCEPT !.pc = l]
        /\ \A d \in Clients \ {c} : op'[d] = op[d]
    BY <1>0, <1>6 DEF Goto
  <2>2. op'[c].pc = l /\ op'[c].sz = op[c].sz
    BY <1>0, <2>1 DEF Op
  <2> QED
    BY <1>2, <1>6, <2>1, <2>2
<1>7. ASSUME NEW c \in Clients, Begin(c) PROVE AskOK'
  <2>1. CASE Unget(c)
    BY <1>3, <1>4, <2>1 DEF Unget, Putting
  <2>2. ASSUME NEW h \in Handles, Get(c, h) \/ GetMiss(c, h) \/ AdviseEvict(c, h) PROVE AskOK'
    BY <1>3, <2>2 DEF Get, GetMiss, AdviseEvict, vars
  <2>3. ASSUME NEW h \in Handles, NEW n \in Sizes, Put(c, h, n) PROVE AskOK'
    BY <1>4, <2>3 DEF Put
  <2>4. ASSUME NEW h \in Handles, NEW n \in Sizes, PutRefused(c, h, n) PROVE AskOK'
    BY <1>3, <2>4 DEF PutRefused, vars
  <2> QED
    BY <1>7, <2>1, <2>2, <2>3, <2>4 DEF Begin
<1>8. ASSUME NEW c \in Clients, Continue(c) PROVE AskOK'
  <2>1. CASE UngetEvict(c)
    BY <1>5, <1>6, <2>1 DEF UngetEvict, Putting
  <2>2. CASE UngetEnq(c) \/ EvictNothing(c) \/ PutBadAlloc(c) \/ PutInsert(c)
    BY <1>5, <2>2 DEF UngetEnq, EvictNothing, PutBadAlloc, PutInsert
  <2>3. CASE PutReserve(c) \/ PutUnreserve(c)
    BY <1>6, <2>3 DEF PutReserve, PutUnreserve, Putting
  <2>4. ASSUME op[c].pc \in Putting,
               NEW l, NEW h, NEW o, \/ op' = [op EXCEPT ![c].pc = l, ![c].victim = h]
                                    \/ op' = [op EXCEPT ![c].victim = h, ![c].pc = l]
                                    \/ op' = [op EXCEPT ![c].pc = l, ![c].new = o]
        PROVE  AskOK'
    <3>1. /\ \/ op'[c] = [op[c] EXCEPT !.pc = l, !.victim = h]
             \/ op'[c] = [op[c] EXCEPT !.victim = h, !.pc = l]
             \/ op'[c] = [op[c] EXCEPT !.pc = l, !.new = o]
          /\ \A d \in Clients \ {c} : op'[d] = op[d]
      BY <1>0, <2>4
    <3>2. op'[c].sz = op[c].sz
      BY <1>0, <3>1 DEF Op
    <3> QED
      BY <1>2, <2>4, <3>1, <3>2
  <2>5. CASE EvictPop(c)
    BY <2>4, <2>5 DEF EvictPop, Putting
  <2>6. CASE EvictOne(c)
    BY <2>4, <2>6 DEF EvictOne, Putting
  <2>7. CASE PutNew(c)
    BY <2>4, <2>7 DEF PutNew, Putting
  <2> QED
    BY <1>8, <2>1, <2>2, <2>3, <2>5, <2>6, <2>7 DEF Continue
<1> QED
  BY <1>1, <1>7, <1>8 DEF Next

\* A client about to reserve n, and those giving a reservation back, are at most all
\* the clients: together they ask for at most max each.
LEMMA ReturningBound ==
    ASSUME Inv, AskOK, NEW c \in Clients, op[c].pc = "put_reserve"
    PROVE  Asked(Returning) + op[c].sz <= Cardinality(Clients) * MaxSize
<1> DEFINE S == {d \in Clients : op[d].pc \in Returning}
           f == [d \in Clients |-> op[d].sz]
<1>1. /\ IsFiniteSet(S) /\ IsFiniteSet(S \cup {c}) /\ c \notin S
      /\ S \cup {c} \subseteq Clients
      /\ f[c] = op[c].sz /\ f[c] \in 0 .. (SizeMod - 1)
  <2>1. S \in SUBSET Clients /\ S \cup {c} \in SUBSET Clients
    OBVIOUS
  <2>2. IsFiniteSet(S) /\ IsFiniteSet(S \cup {c})
    BY <2>1, ClientSets
  <2> QED
    BY <2>2 DEF Inv, TypeOK, Op, Returning
<1>2. MaxSize \in Nat /\ \A d \in S \cup {c} : f[d] \in 0 .. MaxSize
  BY SizesAssumption DEF Inv, TypeOK, Op, AskOK, Putting, Returning
<1>3. Asked(Returning) = Total(f, S)
  BY DEF Asked
<1> HIDE DEF S, f
<1>4. Total(f, S \cup {c}) = Total(f, S) + f[c]
  BY <1>1, TotalAdd
<1>5. Total(f, S \cup {c}) <= Cardinality(S \cup {c}) * MaxSize
  BY <1>1, <1>2, TotalBound
<1>6. /\ Cardinality(S \cup {c}) <= Cardinality(Clients)
      /\ Cardinality(S \cup {c}) \in Nat /\ Cardinality(Clients) \in Nat
  BY <1>1, ClientsAssumption, FS_Subset, FS_CardinalityType
<1>7. \A i, j, n \in Nat : i <= j => i * n <= j * n
  OBVIOUS
<1>8. Cardinality(S \cup {c}) * MaxSize <= Cardinality(Clients) * MaxSize
  BY <1>2, <1>6, <1>7
<1>9. Total(f, S \cup {c}) \in Nat
  BY <1>1, TotalType
<1>10. /\ Cardinality(S \cup {c}) * MaxSize \in Int
       /\ Cardinality(Clients) * MaxSize \in Int
  BY <1>2, <1>6
<1>11. \A x, y, z \in Int : x <= y /\ y <= z => x <= z
  OBVIOUS
<1>12. Total(f, S \cup {c}) <= Cardinality(Clients) * MaxSize
  BY <1>5, <1>8, <1>9, <1>10, <1>11
<1> QED
  BY <1>1, <1>3, <1>4, <1>12

\* A reservation that fits leaves the cache within max.
LEMMA FitsKept ==
    ASSUME NoWrap, Inv, SumOK, CurAccounted, KeptOK,
           NEW c \in Clients, op[c].pc = "put_reserve", Fits(c)
    PROVE  Kept + op[c].sz <= MaxSize
<1> DEFINE n == op[c].sz
           bound == Cardinality(Clients) * MaxSize
<1>1. /\ n \in Nat /\ Kept \in Nat /\ Asked(Returning) \in Nat
      /\ SizeMod \in Nat \ {0} /\ MaxSize \in Nat
      /\ Charged = Kept + Asked(Returning)
  <2>1. op[c].sz \in 0 .. (SizeMod - 1)
    BY DEF Inv, TypeOK, Op
  <2> QED
    BY <2>1, SumTypes, SizesAssumption DEF Kept, Occupied, Charged, Storing
<1>2. Cardinality(Clients) \in Nat
  BY ClientsAssumption, FS_CardinalityType
<1>3. bound \in Int /\ bound + MaxSize < SizeMod
  <2>1. \A i, m \in Nat : i * m \in Int /\ (i + 1) * m = i * m + m
    OBVIOUS
  <2> QED
    BY <1>1, <1>2, <2>1 DEF NoWrap
<1>4. Asked(Returning) + n <= bound
  BY ReturningBound DEF KeptOK
<1>5. Kept <= MaxSize
  BY DEF KeptOK
<1>6. Charge(n) = (Charged + n) % SizeMod
  <2>1. cur = Charged % SizeMod
    BY CurIsCharged
  <2>2. Charged \in Int /\ n \in Int
    BY <1>1
  <2> HIDE DEF n
  <2>3. ((Charged % SizeMod) + n) % SizeMod = (Charged + n) % SizeMod
    BY <1>1, <2>2, ModAdd
  <2> QED
    BY <2>1, <2>3 DEF Charge
<1> HIDE DEF n, bound
<1>7. Charged + n \in 0 .. (SizeMod - 1)
  BY <1>1, <1>3, <1>4, <1>5
<1>8. (Charged + n) % SizeMod = Charged + n
  <2>1. ASSUME NEW m \in Nat \ {0}, NEW x \in 0 .. (m - 1) PROVE x % m = x
    OBVIOUS
  <2> QED
    BY <1>1, <1>7, <2>1
<1>9. Charged + n <= MaxSize
  BY <1>6, <1>8 DEF Fits, n
<1> QED
  BY <1>1, <1>9 DEF n

\* Every step keeps the cache within max; only a reservation that fits adds to it.
LEMMA KeptNext ==
    ASSUME NoWrap, Inv, SumOK, CurAccounted, KeptOK, Inv', SumOK', [Next]_vars
    PROVE  Kept' <= MaxSize
<1>1. /\ Total(sz, Resident) \in Nat /\ Total(sz, Orphans) \in Nat /\ Asked(Storing) \in Nat
      /\ Total(sz, Resident)' \in Nat /\ Total(sz, Orphans)' \in Nat /\ Asked(Storing)' \in Nat
      /\ MaxSize \in Nat
  BY SumTypes, SumTypesNext, SizesAssumption
<1>2. /\ Kept = Total(sz, Resident) + Asked(Storing) + Total(sz, Orphans)
      /\ Kept' = Total(sz, Resident)' + Asked(Storing)' + Total(sz, Orphans)'
  BY DEF Kept, Occupied, Storing
<1>3. Kept <= MaxSize
  BY DEF KeptOK
<1>4. ASSUME NEW c \in Clients, Elsewhere(c), UNCHANGED <<cache, sz, live>>
      PROVE  Kept' <= MaxSize
  <2>1. Asked(Storing)' = Asked(Storing)
    BY <1>4, AskedSame DEF Elsewhere
  <2>2. /\ Total(sz, Resident)' = Total(sz, Resident)
        /\ Total(sz, Orphans)' = Total(sz, Orphans)
    BY <1>4, BlocksSame DEF Elsewhere
  <2> QED
    BY <1>2, <1>3, <2>1, <2>2
<1>5. ASSUME NEW c \in Clients, NEW h \in Handles, EvictHandle(h), Elsewhere(c)
      PROVE  Kept' <= MaxSize
  <2>1. CASE ~ Evictable(h)
    BY <1>4, <1>5, <2>1 DEF EvictHandle, stuff
  <2>2. CASE Evictable(h)
    <3>1. Asked(Storing)' = Asked(Storing)
      BY <1>5, AskedSame DEF Elsewhere
    <3>2. \A d \in Clients : op'[d].new = op[d].new
      BY <1>5 DEF Elsewhere
    <3>3. /\ sz[cache[h]] \in 0 .. (SizeMod - 1)
          /\ Total(sz, Resident) = Total(sz, Resident)' + sz[cache[h]]
          /\ Total(sz, Orphans)' = Total(sz, Orphans)
      BY <1>5, <2>2, <3>2, BlocksEvicted
    <3>4. sz[cache[h]] \in Nat
      BY <3>3, SizesAssumption
    <3> QED
      BY <1>1, <1>2, <1>3, <3>1, <3>3, <3>4
  <2> QED
    BY <2>1, <2>2
<1>6. ASSUME NEW c \in Clients, PutNew(c) \/ PutInsert(c) PROVE Kept' <= MaxSize
  <2>1. op[c].sz \in Nat
    BY <1>6, PutSteps, SizesAssumption
  <2>2. CASE PutNew(c)
    BY <1>2, <1>3, <2>2, PutNewBlocks
  <2>3. CASE PutInsert(c)
    BY <1>1, <1>2, <1>3, <2>1, <2>3, PutInsertBlocks
  <2> QED
    BY <1>6, <2>2, <2>3
<1>7. ASSUME NEW c \in Clients, PutReserve(c) \/ PutUnreserve(c) \/ PutBadAlloc(c)
      PROVE  Kept' <= MaxSize
  <2>1. /\ op[c].sz \in 0 .. (SizeMod - 1) /\ op[c].sz \in Nat
        /\ \A d \in Clients \ {c} : op'[d] = op[d]
    BY <1>7, PutSteps, SizesAssumption
  <2>2. /\ Total(sz, Resident)' = Total(sz, Resident)
        /\ Total(sz, Orphans)' = Total(sz, Orphans)
    <3>1. UNCHANGED <<cache, sz, live>>
      BY <1>7 DEF PutReserve, PutUnreserve, PutBadAlloc, stuff
    <3>2. op'[c].new = op[c].new
      BY <1>7, PutSteps DEF PutReserve, PutUnreserve, PutBadAlloc, SumOK
    <3> QED
      BY <2>1, <3>1, <3>2, BlocksSame
  <2>3. CASE PutReserve(c) /\ Fits(c)
    <3>1. op[c].pc = "put_reserve" /\ op'[c].pc = "put_new" /\ op'[c].sz = op[c].sz
      BY <2>3, PutSteps DEF PutReserve
    <3>2. Asked(Storing)' = Asked(Storing) + op[c].sz
      BY <2>1, <3>1, AskedMore DEF Storing
    <3>3. Kept + op[c].sz <= MaxSize
      BY <2>3, <3>1, FitsKept
    <3> QED
      BY <1>1, <1>2, <2>1, <2>2, <3>2, <3>3
  <2>4. CASE (PutReserve(c) /\ ~ Fits(c)) \/ PutUnreserve(c)
    <3>1. op[c].pc \notin Storing /\ op'[c].pc \notin Storing
      BY <2>4, PutSteps DEF PutReserve, PutUnreserve, Storing
    <3>2. Asked(Storing)' = Asked(Storing)
      BY <2>1, <3>1, AskedSame
    <3> QED
      BY <1>2, <1>3, <2>2, <3>2
  <2>5. CASE PutBadAlloc(c)
    <3>1. op[c].pc = "put_new" /\ op'[c].pc = "idle"
      BY <2>5, PutSteps DEF PutBadAlloc
    <3>2. Asked(Storing) = Asked(Storing)' + op[c].sz
      BY <2>1, <3>1, AskedLess DEF Storing
    <3> QED
      BY <1>1, <1>2, <1>3, <2>1, <2>2, <3>2
  <2> QED
    BY <1>7, <2>3, <2>4, <2>5
<1>8. CASE UNCHANGED vars
  <2>1. UNCHANGED <<cache, sz, live, op>>
    BY <1>8 DEF vars, stuff
  <2>2. Kept' = Kept
    BY <2>1 DEF Kept, Occupied, Asked, Total, Bytes, Orphans, Resident, Present
  <2> QED
    BY <1>3, <2>2
<1>9. ASSUME NEW c \in Clients, Begin(c) PROVE Kept' <= MaxSize
  <2>1. ASSUME NEW h \in Handles, NEW n \in Sizes, PutRefused(c, h, n) PROVE Kept' <= MaxSize
    BY <1>8, <2>1 DEF PutRefused
  <2>2. ASSUME NEW h \in Handles, GetMiss(c, h) PROVE Kept' <= MaxSize
    BY <1>8, <2>2 DEF GetMiss
  <2>3. CASE Unget(c)
    BY <1>4, <2>3, ElsewhereSteps DEF Unget
  <2>4. ASSUME NEW h \in Handles, Get(c, h) \/ AdviseEvict(c, h) PROVE Kept' <= MaxSize
    BY <1>4, <2>4, ElsewhereSteps DEF Get, AdviseEvict
  <2>5. ASSUME NEW h \in Handles, NEW n \in Sizes, Put(c, h, n) PROVE Kept' <= MaxSize
    BY <1>4, <2>5, ElsewhereSteps DEF Put, stuff
  <2> QED
    BY <1>9, <2>1, <2>2, <2>3, <2>4, <2>5 DEF Begin
<1>10. ASSUME NEW c \in Clients, Continue(c) PROVE Kept' <= MaxSize
  <2>1. CASE UngetEvict(c) \/ EvictOne(c)
    BY <1>5, <2>1, ElsewhereSteps DEF UngetEvict, EvictOne, Inv, OpOK
  <2>2. CASE UngetEnq(c) \/ EvictPop(c) \/ EvictNothing(c)
    BY <1>4, <2>2, ElsewhereSteps DEF UngetEnq, EvictPop, EvictNothing, stuff
  <2> QED
    BY <1>6, <1>7, <1>10, <2>1, <2>2 DEF Continue
<1> QED
  BY <1>8, <1>9, <1>10 DEF Next

\* The entries, and the puts that will store one, never outgrow max, whatever
\* concurrent puts and evictions do to cur: provided that the clients cannot all
\* reserve enough at once to make cur wrap around.
THEOREM WithinMax == NoWrap => (Spec => []ResidentWithinMax)
<1> SUFFICES ASSUME NoWrap PROVE Spec => []ResidentWithinMax
  OBVIOUS
<1>1. Init => SumOK /\ KeptOK
  <2> SUFFICES ASSUME Init PROVE SumOK /\ KeptOK
    OBVIOUS
  <2>1. Kept = 0
    BY InitCharged DEF Kept
  <2>2. AskOK
    BY DEF Init, Idle, AskOK, Putting
  <2> QED
    BY <2>1, <2>2, InitCharged, SizesAssumption DEF KeptOK
<1>2. /\ Inv /\ Inv' /\ SumOK /\ CurAccounted /\ KeptOK /\ [Next]_vars
      => SumOK' /\ KeptOK'
  <2> SUFFICES ASSUME Inv, Inv', SumOK, CurAccounted, KeptOK, [Next]_vars
               PROVE  SumOK' /\ KeptOK'
    OBVIOUS
  <2>1. SumOK'
    BY SumOKNext
  <2>2. AskOK'
    BY AskOKNext DEF KeptOK
  <2> QED
    BY <2>1, <2>2, KeptNext DEF KeptOK
<1>3. Inv /\ SumOK /\ KeptOK => ResidentWithinMax
  <2> SUFFICES ASSUME Inv, SumOK, KeptOK PROVE ResidentWithinMax
    OBVIOUS
  <2>1. /\ Total(sz, Resident) \in Nat /\ Total(sz, Orphans) \in Nat
        /\ Asked({"put_new", "put_insert"}) \in Nat /\ MaxSize \in Nat
    BY SumTypes, SizesAssumption
  <2> QED
    BY <2>1 DEF KeptOK, Kept, ResidentWithinMax, Occupied
<1> QED
  BY <1>1, <1>2, <1>3, Invariance, Accounted, PTL DEF Spec
============================================================================
