-------------------------- MODULE ResponsesProofs --------------------------
(***************************************************************************)
(* Proofs about Responses, for any number of connections, paths, entries   *)
(* and requests.  Inv has three layers: which fields a Work uses at which  *)
(* label, who holds or owns each entry and how the cache counts it, and    *)
(* what the flags and the times of an entry say.                           *)
(***************************************************************************)
EXTENDS Responses, SequenceTheorems, FiniteSetTheorems, TLAPS

(* The scripts *)

\* A request after which resp_is_cached may stay set, since reset does not clear it.
Reads(r) ==
    r.error = "none" /\ r.meth \notin {"PUT", "POST", "CONNECT"} /\ Kind[r.path] = "reg"

\* A request that sets path and is answered without setting resp_is_cached.
Disturbs(r) ==
    r.error = "header" \/ (r.error = "none" /\ r.meth \in {"PUT", "POST", "CONNECT"})

ReadsLast(s) == \A i, j \in DOMAIN s : i < j /\ Reads(s[i]) => ~ Disturbs(s[j])

\* No connection makes a request that disturbs after one that reads.  Otherwise reset
\* gives back a reference that the Work does not have: the run responses_stale.
ReadsComeLast == \A s \in Scripts : \A k \in Conns : ReadsLast(s[k])

----------------------------------------------------------------------------
(* The inductive invariant *)

\* resp_is_cached is set, or may come to be.
MayBeCached(w) ==
    \/ w.resp_is_cached
    \/ w.pc \in {"lookup", "check", "stat", "read", "put"} /\ Kind[w.path] = "reg"

\* The requests still to come keep ReadsLast, after the present one too.
ScriptOK ==
    \A k \in Conns :
        /\ ReadsLast(todo[k])
        /\ MayBeCached(work[k]) => \A i \in DOMAIN todo[k] : ~ Disturbs(todo[k][i])

\* Which fields of a Work are set at which label.
WorkOK(w) ==
    /\ w.pc = "idle" => w.path = NoPath
    /\ w.pc \notin {"idle", "send"} => w.path \in Paths /\ w.req \in Request
    /\ w.pc \in {"check", "put", "output", "emit"} => w.c # NoEntry
    /\ w.pc \notin {"check", "put", "output", "emit", "send"} => w.c = NoEntry
    /\ w.c # NoEntry => w.path \in Paths
    /\ w.resp_is_cached => w.pc \in {"idle", "lookup", "check", "output", "emit", "send"}
    /\ w.resp_is_cached /\ w.pc = "send" /\ w.c = NoEntry => w.path = NoPath
    /\ w.pc = "send" /\ w.how # "oops" => w.c # NoEntry
    /\ w.pc \in {"read", "put"} => Kind[w.path] = "reg"
    /\ w.pc = "read" => w.st.at <= clock

WorksOK ==
    /\ \A k \in Conns : WorkOK(work[k])
    /\ \A i \in DOMAIN lost : lost[i].pc = "send" /\ lost[i].c # NoEntry

\* The cache stores an entry once, while it is allocated, and for a file.
StoredOK ==
    /\ \A p \in Paths : IsStored(p) => stored[p] \in live /\ Kind[p] = "reg"
    /\ \A p, q \in Paths : IsStored(p) /\ stored[p] = stored[q] => p = q

\* The Work w counts on a reference, or will delete its entry.
Holding(w) == w.c # NoEntry /\ Holds(w, w.c)
Owning(w) == w.c # NoEntry /\ Owns(w, w.c)

\* What a Work holds is stored under its path.
HeldOK ==
    /\ \A k \in Conns : Holding(work[k]) => stored[work[k].path] = work[k].c
    /\ \A i \in DOMAIN lost :
          Holding(lost[i]) => lost[i].path \in Paths /\ stored[lost[i].path] = lost[i].c

\* What a Work owns is allocated, is not stored, and is no other Work's.
OwnedOK ==
    /\ \A k \in Conns : Owning(work[k]) =>
          /\ work[k].c \in live
          /\ \A p \in Paths : stored[p] # work[k].c
          /\ \A j \in Conns \ {k} : work[j].c # work[k].c
          /\ \A i \in DOMAIN lost : lost[i].c # work[k].c
    /\ \A i \in DOMAIN lost : Owning(lost[i]) =>
          /\ lost[i].c \in live
          /\ \A p \in Paths : stored[p] # lost[i].c
          /\ \A k \in Conns : work[k].c # lost[i].c
          /\ \A j \in DOMAIN lost \ {i} : lost[j].c # lost[i].c

\* Nothing allocated is forgotten.
NoneForgotten ==
    \A o \in live :
        \/ \E p \in Paths : stored[p] = o
        \/ \E k \in Conns : Owns(work[k], o)
        \/ \E i \in DOMAIN lost : Owns(lost[i], o)

WorksHolding(o) == {k \in Conns : Holds(work[k], o)}
LostHolding(o) == {i \in DOMAIN lost : Holds(lost[i], o)}

RefsOK ==
    \A p \in Paths : IsStored(p) =>
        refs[p] = Cardinality(WorksHolding(stored[p])) + Cardinality(LostHolding(stored[p]))

\* The manipulators of an entry are off except while a Work is about to output it,
\* and then they are what that Work asked for, unless it shares the entry.
FlagsOK ==
    /\ \A o \in Entries : (\A k \in Conns : ~ Emitting(k, o)) =>
          ~ entry[o].omit_body /\ ~ entry[o].asif_uncompressed
    /\ \A k \in Conns : At(k, "emit") /\ ~ work[k].shared =>
          /\ work[k].how # "oops"
          /\ entry[work[k].c].omit_body = (work[k].how = "head")
          /\ entry[work[k].c].asif_uncompressed = (work[k].how = "identity")
          /\ \A j \in Conns \ {k} : ~ Emitting(j, work[k].c)

\* An entry of the file p: made after it was asked for and not in the future, and
\* older than every write since.
Dated(e, p) ==
    /\ e.request_time <= e.response_time /\ e.response_time <= clock
    /\ e.expires_value = e.response_time + Lifetime
    /\ e.contents <= Contents(p)
    /\ e.contents < Contents(p) => e.response_time <= writes[p][e.contents + 1]

TimesOK ==
    /\ \A p \in Paths : IsStored(p) => Dated(entry[stored[p]], p)
    /\ \A k \in Conns : At(k, "put") => Dated(entry[work[k].c], Path(k))

Inv ==
    /\ TypeOK /\ ScriptOK /\ WorksOK
    /\ StoredOK /\ HeldOK /\ OwnedOK /\ NoneForgotten /\ RefsOK
    /\ FlagsOK /\ HeadersMatchBody
    /\ TimesOK /\ OldEntryInvalidated

----------------------------------------------------------------------------
(* The fields of a Work after a step *)

\* Assigning to one Work leaves the others alone.
LEMMA BecomeOne ==
    ASSUME TypeOK, NEW k \in Conns, NEW w, Become(k, w)
    PROVE  work'[k] = w /\ \A j \in Conns \ {k} : work'[j] = work[j]
BY DEF TypeOK, Become

LEMMA NoStatType == NoStat \in [size: Nat, modified: 0 .. MaxClock, at: 0 .. MaxClock]
BY FileAssumption DEF NoStat

\* A new Work.
LEMMA NewWorkFields ==
    /\ NewWork \in WorkType /\ NewWork.pc = "idle" /\ NewWork.path = NoPath
    /\ NewWork.c = NoEntry /\ NewWork.resp_is_cached = FALSE
BY NoStatType DEF NewWork, WorkType, Forms

\* The response is an error.
LEMMA OopsFields ==
    ASSUME NEW w \in WorkType
    PROVE  /\ Oops(w) \in WorkType
           /\ Oops(w).pc = "send" /\ Oops(w).how = "oops" /\ Oops(w).announced = "oops"
           /\ Oops(w).path = w.path /\ Oops(w).c = w.c
           /\ Oops(w).resp_is_cached = w.resp_is_cached
<1>1. Oops(w) \in WorkType
  BY NoStatType, ZenonT(60) DEF Oops, WorkType, Forms
<1> QED
  BY <1>1 DEF Oops, WorkType

\* browse_req.
LEMMA BrowsedFields ==
    ASSUME NEW w \in WorkType, NEW r \in Request
    PROVE  /\ Browsed(w, r) \in WorkType
           /\ Browsed(w, r).path = r.path /\ r.path \in Paths
           /\ Browsed(w, r).req = r /\ Browsed(w, r).c = w.c
           /\ Browsed(w, r).resp_is_cached = w.resp_is_cached
           /\ Browsed(w, r).how = w.how
<1>1. /\ r.path \in Paths
      /\ r.accept = "unsaid" \/ r.accept \in {"gzip", "identity"}
  BY DEF Request
<1>2. Browsed(w, r) \in WorkType
  BY <1>1, ZenonT(60) DEF Browsed, WorkType
<1> QED
  BY <1>1, <1>2 DEF Browsed, WorkType

\* A request that goes on to the branches of prepare_response.
LEMMA AdmittedFields ==
    ASSUME NEW w \in WorkType, NEW r \in Request
    PROVE  /\ Admitted(w, r) \in WorkType
           /\ Admitted(w, r).pc = Entrance(r) /\ Entrance(r) \in {"stat_put", "stat", "lookup"}
           /\ Admitted(w, r).path = r.path
           /\ Admitted(w, r).req = r /\ Admitted(w, r).c = w.c
           /\ Admitted(w, r).resp_is_cached =
                 IF Entrance(r) = "stat" THEN FALSE ELSE w.resp_is_cached
<1> DEFINE b == Browsed(w, r)
<1>1. /\ b \in WorkType /\ b.path = r.path /\ b.req = r /\ b.c = w.c
      /\ b.resp_is_cached = w.resp_is_cached
  BY BrowsedFields
<1>2. Entrance(r) \in {"stat_put", "stat", "lookup"}
  BY DEF Entrance
<1>3. Admitted(w, r) = [b EXCEPT !.pc = Entrance(r),
                                 !.resp_is_cached = IF Entrance(r) = "stat" THEN FALSE ELSE @]
  BY DEF Admitted
<1> HIDE DEF b
<1>4. Admitted(w, r) \in WorkType
  BY <1>1, <1>2, <1>3, ZenonT(60) DEF WorkType
<1> QED
  BY <1>1, <1>2, <1>3, <1>4 DEF WorkType

\* cache_get returns false.
LEMMA MissedFields ==
    ASSUME NEW w \in WorkType
    PROVE  /\ Missed(w) \in WorkType
           /\ Missed(w).pc \in {"stat", "send"} /\ Missed(w).resp_is_cached = FALSE
           /\ Missed(w).path = w.path /\ Missed(w).c = w.c
           /\ Missed(w).pc = "send" => Missed(w).how = "oops" /\ Missed(w).announced = "oops"
           /\ Missed(w).pc = "stat" => Missed(w).req = w.req
<1> DEFINE v == [w EXCEPT !.resp_is_cached = FALSE]
<1>1. v \in WorkType /\ v.resp_is_cached = FALSE /\ v.path = w.path /\ v.c = w.c /\ v.req = w.req
  BY DEF WorkType
<1>2. CASE w.req.cc = "only_if_cached"
  <2>1. Missed(w) = Oops(v)
    BY <1>2 DEF Missed
  <2> HIDE DEF v
  <2> QED
    BY <1>1, <2>1, OopsFields
<1>3. CASE w.req.cc # "only_if_cached"
  <2>1. Missed(w) = [v EXCEPT !.pc = "stat"]
    BY <1>3 DEF Missed
  <2> HIDE DEF v
  <2>2. Missed(w) \in WorkType
    BY <1>1, <2>1 DEF WorkType
  <2> QED
    BY <1>1, <2>1, <2>2 DEF WorkType
<1> QED
  BY <1>2, <1>3

\* reset.
LEMMA ClearedFields ==
    ASSUME NEW w \in WorkType
    PROVE  /\ Cleared(w) \in WorkType
           /\ Cleared(w).pc = "idle" /\ Cleared(w).path = NoPath /\ Cleared(w).c = NoEntry
           /\ Cleared(w).resp_is_cached = w.resp_is_cached
<1>1. Cleared(w) \in WorkType
  BY NoStatType DEF Cleared, NewWork, WorkType, Forms
<1> QED
  BY <1>1 DEF Cleared, NewWork, WorkType

\* Only the label changes.
LEMMA GotoFields ==
    ASSUME TypeOK, NEW k \in Conns, Goto(k, "dir") \/ Goto(k, "socket") \/ Goto(k, "open")
                                    \/ Goto(k, "write") \/ Goto(k, "advise")
    PROVE  /\ \A j \in Conns \ {k} : work'[j] = work[j]
           /\ work'[k] \in WorkType
           /\ \E l \in {"dir", "socket", "open", "write", "advise"} :
                 Goto(k, l) /\ work'[k].pc = l
           /\ work'[k].path = work[k].path /\ work'[k].req = work[k].req
           /\ work'[k].c = work[k].c
           /\ work'[k].resp_is_cached = work[k].resp_is_cached
<1>1. PICK l \in {"dir", "socket", "open", "write", "advise"} : Goto(k, l)
  OBVIOUS
<1>2. work[k] \in WorkType
  BY DEF TypeOK
<1>3. /\ work'[k] = [work[k] EXCEPT !.pc = l]
      /\ \A j \in Conns \ {k} : work'[j] = work[j]
  BY <1>1, BecomeOne DEF Goto
<1>4. work'[k] \in WorkType
  BY <1>2, <1>3 DEF WorkType
<1> QED
  BY <1>1, <1>2, <1>3, <1>4 DEF WorkType

\* The response is an error.
LEMMA ThrowFields ==
    ASSUME TypeOK, NEW k \in Conns, Throw(k)
    PROVE  /\ \A j \in Conns \ {k} : work'[j] = work[j]
           /\ work'[k] \in WorkType /\ work'[k].pc = "send"
           /\ work'[k].how = "oops" /\ work'[k].announced = "oops"
           /\ work'[k].path = work[k].path /\ work'[k].c = work[k].c
           /\ work'[k].resp_is_cached = work[k].resp_is_cached
<1>1. work[k] \in WorkType
  BY DEF TypeOK
<1>2. work'[k] = Oops(work[k]) /\ \A j \in Conns \ {k} : work'[j] = work[j]
  BY BecomeOne DEF Throw
<1> QED
  BY <1>1, <1>2, OopsFields

\* The response is ready to be output, from the cache or not.
LEMMA OutputFields ==
    ASSUME TypeOK, NEW k \in Conns, NEW b \in BOOLEAN,
           Become(k, [work[k] EXCEPT !.pc = "output", !.resp_is_cached = b])
    PROVE  /\ \A j \in Conns \ {k} : work'[j] = work[j]
           /\ work'[k] \in WorkType /\ work'[k].pc = "output"
           /\ work'[k].resp_is_cached = b
           /\ work'[k].path = work[k].path /\ work'[k].req = work[k].req
           /\ work'[k].c = work[k].c
<1>1. work[k] \in WorkType
  BY DEF TypeOK
<1>2. /\ work'[k] = [work[k] EXCEPT !.pc = "output", !.resp_is_cached = b]
      /\ \A j \in Conns \ {k} : work'[j] = work[j]
  BY BecomeOne
<1>3. work'[k] \in WorkType
  BY <1>1, <1>2 DEF WorkType
<1> QED
  BY <1>1, <1>2, <1>3 DEF WorkType

\* cache_get finds an entry.
LEMMA HitFields ==
    ASSUME TypeOK, NEW k \in Conns, Hit(k), Path(k) \in Paths
    PROVE  /\ \A j \in Conns \ {k} : work'[j] = work[j]
           /\ work'[k] \in WorkType /\ work'[k].pc = "check"
           /\ work'[k].c = stored[Path(k)] /\ stored[Path(k)] \in Entries
           /\ work'[k].path = work[k].path /\ work'[k].req = work[k].req
           /\ work'[k].resp_is_cached = work[k].resp_is_cached
<1>1. work[k] \in WorkType /\ stored[Path(k)] \in Entries
  BY DEF TypeOK, Hit, Take, IsStored
<1>2. /\ work'[k] = [work[k] EXCEPT !.pc = "check", !.c = stored[Path(k)]]
      /\ \A j \in Conns \ {k} : work'[j] = work[j]
  BY BecomeOne DEF Hit
<1>3. work'[k] \in WorkType
  BY <1>1, <1>2 DEF WorkType
<1> QED
  BY <1>1, <1>2, <1>3 DEF WorkType

\* cache_get finds none, or one that may not be used.
LEMMA MissFields ==
    ASSUME TypeOK, NEW k \in Conns, Miss(k) \/ Refuse(k)
    PROVE  /\ \A j \in Conns \ {k} : work'[j] = work[j]
           /\ work'[k] \in WorkType
           /\ work'[k].pc \in {"stat", "send"} /\ work'[k].resp_is_cached = FALSE
           /\ work'[k].path = work[k].path
           /\ work'[k].c = IF Miss(k) THEN work[k].c ELSE NoEntry
           /\ work'[k].pc = "send" => work'[k].how = "oops" /\ work'[k].announced = "oops"
           /\ work'[k].pc = "stat" => work'[k].req = work[k].req
<1> DEFINE v == Missed(work[k])
<1>1. work[k] \in WorkType
  BY DEF TypeOK
<1>2. /\ v \in WorkType
      /\ v.pc \in {"stat", "send"} /\ v.resp_is_cached = FALSE
      /\ v.path = work[k].path /\ v.c = work[k].c
      /\ v.pc = "send" => v.how = "oops" /\ v.announced = "oops"
      /\ v.pc = "stat" => v.req = work[k].req
  BY <1>1, MissedFields
<1>3. CASE Miss(k)
  <2>1. work'[k] = v /\ \A j \in Conns \ {k} : work'[j] = work[j]
    BY <1>3, BecomeOne DEF Miss
  <2> HIDE DEF v
  <2> QED
    BY <1>2, <1>3, <2>1
<1>4. CASE Refuse(k)
  <2>0. ~ Miss(k)
    BY <1>4 DEF Miss, Refuse, At
  <2>1. work'[k] = [v EXCEPT !.c = NoEntry] /\ \A j \in Conns \ {k} : work'[j] = work[j]
    BY <1>4, BecomeOne DEF Refuse
  <2> HIDE DEF v
  <2>2. work'[k] \in WorkType
    BY <1>2, <2>1 DEF WorkType
  <2> QED
    BY <1>2, <2>0, <2>1, <2>2 DEF WorkType
<1> QED
  BY <1>3, <1>4

\* stat says that there is a file.
LEMMA StatFields ==
    ASSUME TypeOK, NEW k \in Conns, Path(k) \in Paths,
           Become(k, [work[k] EXCEPT !.pc = "read", !.st =
               [size |-> size[Path(k)], modified |-> Modified(Path(k)), at |-> clock]])
    PROVE  /\ \A j \in Conns \ {k} : work'[j] = work[j]
           /\ work'[k] \in WorkType /\ work'[k].pc = "read" /\ work'[k].st.at = clock
           /\ work'[k].path = work[k].path /\ work'[k].req = work[k].req
           /\ work'[k].c = work[k].c
           /\ work'[k].resp_is_cached = work[k].resp_is_cached
<1> DEFINE s == [size |-> size[Path(k)], modified |-> Modified(Path(k)), at |-> clock]
<1>1. work[k] \in WorkType
  BY DEF TypeOK
<1>2. s \in [size: Nat, modified: 0 .. MaxClock, at: 0 .. MaxClock] /\ s.at = clock
  <2>1. Modified(Path(k)) \in 0 .. MaxClock
    <3>1. writes[Path(k)] \in Seq(0 .. MaxClock)
      BY DEF TypeOK, OriginTypeOK
    <3> QED
      BY <3>1, FileAssumption DEF Modified, Last
  <2> QED
    BY <2>1 DEF TypeOK, OriginTypeOK
<1>3. /\ work'[k] = [work[k] EXCEPT !.pc = "read", !.st = s]
      /\ \A j \in Conns \ {k} : work'[j] = work[j]
  BY BecomeOne
<1> HIDE DEF s
<1>4. work'[k] \in WorkType
  BY <1>1, <1>2, <1>3 DEF WorkType
<1> QED
  BY <1>1, <1>2, <1>3, <1>4 DEF WorkType

\* What request makes of the file's kind.
LEMMA StatSplit ==
    ASSUME WorksOK, NEW k \in Conns, Stat(k)
    PROVE  /\ Path(k) \in Paths
           /\ \/ Throw(k) \/ Goto(k, "dir") \/ Goto(k, "socket")
              \/ /\ Kind[Path(k)] = "reg"
                 /\ Become(k, [work[k] EXCEPT !.pc = "read", !.st =
                      [size |-> size[Path(k)], modified |-> Modified(Path(k)), at |-> clock]])
<1>1. Path(k) \in Paths /\ Kind[Path(k)] \in Kinds
  BY KindAssumption DEF Stat, At, Path, WorksOK, WorkOK
<1> QED
  BY <1>1 DEF Stat, Kinds

\* What putorpost makes of it.
LEMMA StatPutSplit ==
    ASSUME WorksOK, NEW k \in Conns, StatPut(k)
    PROVE  Path(k) \in Paths /\ (Throw(k) \/ Goto(k, "socket") \/ Goto(k, "open"))
<1>1. Path(k) \in Paths /\ Kind[Path(k)] \in Kinds
  BY KindAssumption DEF StatPut, At, Path, WorksOK, WorkOK
<1> QED
  BY <1>1 DEF StatPut, Kinds

\* An entry is made.
LEMMA NewEntryFields ==
    ASSUME TypeOK, NEW k \in Conns, NEW e, NEW l \in {"put", "output"}, NewEntryFor(k, e, l)
    PROVE  /\ \A j \in Conns \ {k} : work'[j] = work[j]
           /\ work'[k] \in WorkType /\ work'[k].pc = l
           /\ work'[k].path = work[k].path /\ work'[k].req = work[k].req
           /\ work'[k].resp_is_cached = work[k].resp_is_cached
           /\ work'[k].c \in Unused
           /\ live' = live \cup {work'[k].c}
           /\ entry' = [entry EXCEPT ![work'[k].c] = e]
<1> DEFINE o == CHOOSE x \in Unused : TRUE
<1>1. work[k] \in WorkType
  BY DEF TypeOK
<1>2. /\ Unused # {} /\ live' = live \cup {o} /\ entry' = [entry EXCEPT ![o] = e]
      /\ Become(k, [work[k] EXCEPT !.pc = l, !.c = o, !.st = NoStat])
  BY DEF NewEntryFor
<1>3. o \in Unused /\ o \in Entries
  BY <1>2 DEF Unused
<1>4. /\ work'[k] = [work[k] EXCEPT !.pc = l, !.c = o, !.st = NoStat]
      /\ \A j \in Conns \ {k} : work'[j] = work[j]
  BY <1>2, BecomeOne
<1> HIDE DEF o
<1>5. work'[k] \in WorkType
  BY <1>1, <1>3, <1>4, NoStatType, ZenonT(60) DEF WorkType
<1>6. work'[k].c = o
  BY <1>1, <1>4, <1>5 DEF WorkType
<1> QED
  BY <1>1, <1>2, <1>3, <1>4, <1>5, <1>6 DEF WorkType

\* hdrstream << *c.
LEMMA EmitFields ==
    ASSUME TypeOK, NEW k \in Conns, Emit(k)
    PROVE  /\ \A j \in Conns \ {k} : work'[j] = work[j]
           /\ work'[k] \in WorkType /\ work'[k].pc = "send"
           /\ work'[k].announced = Announced(entry[work[k].c])
           /\ work'[k].how = work[k].how /\ work'[k].shared = work[k].shared
           /\ work'[k].path = work[k].path /\ work'[k].c = work[k].c
           /\ work'[k].resp_is_cached = work[k].resp_is_cached
<1>1. work[k] \in WorkType
  BY DEF TypeOK
<1> DEFINE a == Announced(entry[work[k].c])
<1>2. a \in Forms
  BY DEF Announced, Forms
<1>3. /\ work'[k] = [work[k] EXCEPT !.pc = "send", !.announced = a]
      /\ \A j \in Conns \ {k} : work'[j] = work[j]
  BY BecomeOne DEF Emit
<1> HIDE DEF a
<1>4. work'[k] \in WorkType
  BY <1>1, <1>2, <1>3 DEF WorkType
<1> QED
  BY <1>1, <1>3, <1>4 DEF WorkType, a

\* The manipulator is pushed; those about to output the same entry share it.
LEMMA ManipulateFields ==
    ASSUME TypeOK, NEW k \in Conns, Manipulate(k)
    PROVE  /\ \A j \in Conns \ {k} :
                 /\ work'[j] \in WorkType
                 /\ work'[j].pc = work[j].pc /\ work'[j].req = work[j].req
                 /\ work'[j].path = work[j].path /\ work'[j].c = work[j].c
                 /\ work'[j].resp_is_cached = work[j].resp_is_cached
                 /\ work'[j].how = work[j].how /\ work'[j].announced = work[j].announced
                 /\ work'[j].st = work[j].st
                 /\ work'[j].shared = (work[j].shared \/ Emitting(j, work[k].c))
           /\ work' \in [Conns -> WorkType]
           /\ work'[k].pc = "emit" /\ work'[k].how = HowToSend(k)
           /\ work'[k].shared = (\E j \in Conns : Emitting(j, work[k].c))
           /\ work'[k].path = work[k].path /\ work'[k].req = work[k].req
           /\ work'[k].c = work[k].c
           /\ work'[k].resp_is_cached = work[k].resp_is_cached
           /\ HowToSend(k) \in {"head", "identity", "gzip"}
<1> DEFINE o == work[k].c
           others == {j \in Conns : Emitting(j, o)}
           b == (others # {})
<1>1. \A j \in Conns : work[j] \in WorkType
  BY DEF TypeOK
<1>2. /\ work' = [j \in Conns |->
                  CASE j = k -> [work[k] EXCEPT !.pc = "emit", !.how = HowToSend(k), !.shared = b]
                    [] j \in others -> [work[j] EXCEPT !.shared = TRUE]
                    [] OTHER -> work[j]]
      /\ work[k].pc = "output"
  BY DEF Manipulate, At
<1>3. HowToSend(k) \in {"head", "identity", "gzip"} /\ HowToSend(k) \in Forms
  BY <1>1 DEF HowToSend, WorkType, Forms
<1>4. b \in BOOLEAN /\ b = (\E j \in Conns : Emitting(j, o)) /\ k \notin others
  BY <1>2 DEF Emitting, At
<1>5. work'[k] = [work[k] EXCEPT !.pc = "emit", !.how = HowToSend(k), !.shared = b]
  <2> HIDE DEF others, b
  <2> QED
    BY <1>2, <1>4
<1>6. \A j \in Conns \ {k} :
         work'[j] = IF j \in others THEN [work[j] EXCEPT !.shared = TRUE] ELSE work[j]
  <2> SUFFICES ASSUME NEW j \in Conns \ {k}
               PROVE  work'[j] = IF j \in others THEN [work[j] EXCEPT !.shared = TRUE] ELSE work[j]
    OBVIOUS
  <2> HIDE DEF others, b
  <2>1. work'[j] = CASE j = k -> [work[k] EXCEPT !.pc = "emit", !.how = HowToSend(k), !.shared = b]
                     [] j \in others -> [work[j] EXCEPT !.shared = TRUE]
                     [] OTHER -> work[j]
    BY <1>2
  <2>2. CASE j \in others
    BY <2>1, <2>2
  <2>3. CASE j \notin others
    BY <2>1, <2>3
  <2> QED
    BY <2>2, <2>3
<1>7. \A j \in Conns \ {k} : j \in others <=> Emitting(j, o)
  OBVIOUS
<1> HIDE DEF others, b
<1>8. work'[k] \in WorkType
  BY <1>1, <1>3, <1>4, <1>5 DEF WorkType
<1>9. ASSUME NEW j \in Conns \ {k}
      PROVE  /\ work'[j] \in WorkType
             /\ work'[j].pc = work[j].pc /\ work'[j].req = work[j].req
             /\ work'[j].path = work[j].path /\ work'[j].c = work[j].c
             /\ work'[j].resp_is_cached = work[j].resp_is_cached
             /\ work'[j].how = work[j].how /\ work'[j].announced = work[j].announced
             /\ work'[j].st = work[j].st
             /\ work'[j].shared = (work[j].shared \/ Emitting(j, work[k].c))
  <2>1. work[j] \in WorkType /\ work[j].shared \in BOOLEAN
    BY <1>1 DEF WorkType
  <2>2. CASE j \in others
    <3>1. work'[j] = [work[j] EXCEPT !.shared = TRUE] /\ Emitting(j, work[k].c)
      BY <1>6, <1>7, <2>2
    <3>2. work'[j] \in WorkType
      BY <2>1, <3>1 DEF WorkType
    <3> QED
      BY <2>1, <3>1, <3>2 DEF WorkType
  <2>3. CASE j \notin others
    <3>1. work'[j] = work[j] /\ ~ Emitting(j, work[k].c)
      BY <1>6, <1>7, <2>3
    <3> QED
      BY <2>1, <3>1
  <2> QED
    BY <2>2, <2>3
<1>10. work' \in [Conns -> WorkType]
  <2>1. work' = [j \in Conns |-> work'[j]]
    BY <1>2
  <2>2. \A j \in Conns : work'[j] \in WorkType
    BY <1>8, <1>9
  <2> QED
    BY <2>1, <2>2
<1>11. /\ work'[k].pc = "emit" /\ work'[k].how = HowToSend(k) /\ work'[k].shared = b
       /\ work'[k].path = work[k].path /\ work'[k].req = work[k].req
       /\ work'[k].c = work[k].c
       /\ work'[k].resp_is_cached = work[k].resp_is_cached
  BY <1>1, <1>5, <1>8 DEF WorkType
<1> QED
  BY <1>3, <1>4, <1>9, <1>10, <1>11

\* reset, and the destructor.
LEMMA EndFields ==
    ASSUME TypeOK, NEW k \in Conns, Reset(k) \/ Abort(k)
    PROVE  /\ \A j \in Conns \ {k} : work'[j] = work[j]
           /\ work'[k] \in WorkType
           /\ work'[k].pc = "idle" /\ work'[k].path = NoPath /\ work'[k].c = NoEntry
           /\ work'[k].resp_is_cached => work[k].resp_is_cached
<1>1. work[k] \in WorkType
  BY DEF TypeOK
<1>2. CASE Reset(k)
  <2>1. work'[k] = Cleared(work[k]) /\ \A j \in Conns \ {k} : work'[j] = work[j]
    BY <1>2, BecomeOne DEF Reset
  <2> QED
    BY <1>1, <2>1, ClearedFields
<1>3. CASE Abort(k)
  <2>1. work'[k] = NewWork /\ \A j \in Conns \ {k} : work'[j] = work[j]
    BY <1>3, BecomeOne DEF Abort
  <2> QED
    BY <2>1, NewWorkFields
<1> QED
  BY <1>2, <1>3

\* A request arrives.
LEMMA ReceiveFields ==
    ASSUME TypeOK, WorksOK, NEW k \in Conns, Receive(k)
    PROVE  /\ \A j \in Conns \ {k} : work'[j] = work[j]
           /\ work'[k] \in WorkType /\ work'[k].c = NoEntry /\ work[k].c = NoEntry
           /\ work[k].pc = "idle" /\ work[k].path = NoPath
           /\ todo[k] # << >> /\ todo' = [todo EXCEPT ![k] = Tail(@)]
           /\ Head(todo[k]) \in Request
           /\ LET r == Head(todo[k])
                  v == work'[k]
              IN  \/ /\ v.pc = "send" /\ v.how = "oops" /\ v.announced = "oops"
                     /\ v.path = NoPath /\ v.resp_is_cached = work[k].resp_is_cached
                  \/ /\ v.pc = "send" /\ v.how = "oops" /\ v.announced = "oops"
                     /\ Disturbs(r) /\ v.path = r.path
                     /\ v.resp_is_cached = work[k].resp_is_cached
                  \/ /\ v.pc = "stat_put" /\ Disturbs(r) /\ v.path = r.path /\ v.req = r
                     /\ v.resp_is_cached = work[k].resp_is_cached
                  \/ /\ v.pc = "lookup" /\ v.path = r.path /\ v.req = r
                     /\ r.error = "none" /\ r.meth \notin {"PUT", "POST", "CONNECT"}
                     /\ v.resp_is_cached = work[k].resp_is_cached
                  \/ /\ v.pc = "stat" /\ v.path = r.path /\ v.req = r
                     /\ r.error = "none" /\ r.meth \notin {"PUT", "POST", "CONNECT"}
                     /\ v.resp_is_cached = FALSE
<1> DEFINE r == Head(todo[k])
           w == work[k]
<1>1. /\ w \in WorkType /\ w.pc = "idle" /\ w.path = NoPath /\ w.c = NoEntry
  BY DEF TypeOK, WorksOK, WorkOK, Receive, At
<1>2. todo[k] # << >> /\ r \in Request
  <2>1. todo[k] \in Seq(Request) /\ todo[k] # << >>
    BY DEF TypeOK, Receive
  <2> QED
    BY <2>1, HeadTailProperties
<1>3. todo' = [todo EXCEPT ![k] = Tail(@)]
  BY DEF Receive
<1>4. \/ r.error = "uri" /\ Become(k, Oops(w))
      \/ /\ r.error = "header" \/ (r.error = "none" /\ r.meth = "CONNECT")
         /\ Become(k, Oops(Browsed(w, r)))
      \/ r.error = "none" /\ r.meth # "CONNECT" /\ Become(k, Admitted(w, r))
  <2>1. (CASE r.error = "uri" -> Throw(k)
           [] r.error = "header" \/ (r.error = "none" /\ r.meth = "CONNECT") ->
                  Become(k, Oops(Browsed(w, r)))
           [] OTHER -> Become(k, Admitted(w, r)))
    BY DEF Receive
  <2>2. r.error \in {"none", "uri", "header"}
    BY <1>2 DEF Request
  <2> HIDE DEF r, w
  <2>3. CASE r.error = "uri"
    BY <2>1, <2>3 DEF Throw, w
  <2>4. CASE r.error = "header" \/ (r.error = "none" /\ r.meth = "CONNECT")
    BY <2>1, <2>4
  <2>5. CASE r.error = "none" /\ r.meth # "CONNECT"
    BY <2>1, <2>5
  <2> QED
    BY <2>2, <2>3, <2>4, <2>5
<1> DEFINE b == Browsed(w, r)
           a == Admitted(w, r)
<1>5. /\ b \in WorkType /\ b.path = r.path /\ b.c = NoEntry
      /\ b.resp_is_cached = w.resp_is_cached
  BY <1>1, <1>2, BrowsedFields
<1>11. /\ a \in WorkType
       /\ a.pc = Entrance(r) /\ Entrance(r) \in {"stat_put", "stat", "lookup"}
       /\ a.path = r.path /\ a.req = r /\ a.c = NoEntry
       /\ a.resp_is_cached = IF Entrance(r) = "stat" THEN FALSE ELSE w.resp_is_cached
  BY <1>1, <1>2, AdmittedFields
<1>6. Entrance(r) = "stat_put" <=> r.meth \in {"PUT", "POST"}
  BY DEF Entrance
<1>7. r.error \in {"none", "uri", "header"}
  BY <1>2 DEF Request
<1> HIDE DEF r, w, b, a
<1>8. CASE r.error = "uri" /\ Become(k, Oops(w))
  <2>1. work'[k] = Oops(w) /\ \A j \in Conns \ {k} : work'[j] = work[j]
    BY <1>8, BecomeOne
  <2> QED
    BY <1>1, <1>2, <1>3, <2>1, OopsFields DEF r, w
<1>9. CASE /\ r.error = "header" \/ (r.error = "none" /\ r.meth = "CONNECT")
           /\ Become(k, Oops(b))
  <2>1. work'[k] = Oops(b) /\ \A j \in Conns \ {k} : work'[j] = work[j]
    BY <1>9, BecomeOne
  <2>2. Disturbs(r)
    BY <1>7, <1>9 DEF Disturbs
  <2>3. /\ Oops(b) \in WorkType
        /\ Oops(b).pc = "send" /\ Oops(b).how = "oops" /\ Oops(b).announced = "oops"
        /\ Oops(b).path = r.path /\ Oops(b).c = NoEntry
        /\ Oops(b).resp_is_cached = w.resp_is_cached
    BY <1>5, OopsFields
  <2> QED
    BY <1>1, <1>2, <1>3, <2>1, <2>2, <2>3 DEF r, w
<1>10. CASE r.error = "none" /\ r.meth # "CONNECT" /\ Become(k, a)
  <2>1. work'[k] = a /\ \A j \in Conns \ {k} : work'[j] = work[j]
    BY <1>10, BecomeOne
  <2>2. r.meth \in {"PUT", "POST"} => Disturbs(r)
    BY <1>10 DEF Disturbs
  <2> QED
    BY <1>1, <1>2, <1>3, <1>6, <1>10, <1>11, <2>1, <2>2 DEF r, w
<1> QED
  BY <1>4, <1>8, <1>9, <1>10 DEF a, b

----------------------------------------------------------------------------
(* Counting *)

\* The sets that the counts count are finite.
LEMMA Countable ==
    ASSUME TypeOK, NEW S, NEW L, S \subseteq Conns, L \subseteq DOMAIN lost
    PROVE  /\ IsFiniteSet(S) /\ Cardinality(S) \in Nat
           /\ IsFiniteSet(L) /\ Cardinality(L) \in Nat
<1>1. IsFiniteSet(S) /\ Cardinality(S) \in Nat
  BY ConnsAssumption, FS_Subset, FS_CardinalityType
<1>2. DOMAIN lost = 1 .. Len(lost) /\ Len(lost) \in Nat
  BY DEF TypeOK
<1>3. IsFiniteSet(1 .. Len(lost))
  BY <1>2, FS_Interval
<1>4. IsFiniteSet(L)
  BY <1>2, <1>3, FS_Subset
<1> QED
  BY <1>1, <1>4, FS_CardinalityType

\* A Work that holds its entry is among those counted.
LEMMA HolderCounted ==
    ASSUME TypeOK, WorksOK, HeldOK, RefsOK, NEW k \in Conns, Holding(work[k])
    PROVE  /\ Path(k) \in Paths /\ stored[Path(k)] = work[k].c /\ IsStored(Path(k))
           /\ refs[Path(k)] \in Nat \ {0}
<1> DEFINE o == work[k].c
           p == Path(k)
           W == WorksHolding(o)
           L == LostHolding(o)
<1>1. p \in Paths /\ stored[p] = o /\ IsStored(p)
  BY DEF WorksOK, WorkOK, HeldOK, Holding, Path, IsStored
<1>2. refs[p] = Cardinality(W) + Cardinality(L)
  BY <1>1 DEF RefsOK
<1>3. k \in W
  BY DEF WorksHolding, Holding
<1>4. W \subseteq Conns /\ L \subseteq DOMAIN lost
  BY DEF WorksHolding, LostHolding
<1> HIDE DEF W, L
<1>5. Cardinality(W) \in Nat /\ Cardinality(L) \in Nat /\ IsFiniteSet(W)
  BY <1>4, Countable
<1>6. Cardinality(W) # 0
  BY <1>3, <1>5, FS_EmptySet
<1> QED
  BY <1>1, <1>2, <1>5, <1>6

----------------------------------------------------------------------------
(* TypeOK *)

LEMMA BlankType == Blank \in Entry(Nat, 0 .. MaxClock)
BY FileAssumption, LifetimeAssumption DEF Blank, NewEntry, Entry

\* The manipulators change flags only.
LEMMA FlagsType ==
    ASSUME NEW e \in Entry(Nat, 0 .. MaxClock), NEW how \in {"head", "identity", "gzip"},
           NEW b \in BOOLEAN
    PROVE  /\ Manipulated(e, how) \in Entry(Nat, 0 .. MaxClock)
           /\ AfterOutput(e) \in Entry(Nat, 0 .. MaxClock)
           /\ [e EXCEPT !.warned = TRUE] \in Entry(Nat, 0 .. MaxClock)
           /\ [e EXCEPT !.late = b] \in Entry(Nat, 0 .. MaxClock)
<1>1. CASE how = "head"
  BY <1>1 DEF Manipulated, AfterOutput, Entry
<1>2. CASE how = "identity"
  BY <1>2 DEF Manipulated, AfterOutput, Entry
<1>3. CASE how = "gzip"
  BY <1>3 DEF Manipulated, AfterOutput, Entry
<1> QED
  BY <1>1, <1>2, <1>3

\* A step that assigns to one Work.
LEMMA OneWorkType ==
    ASSUME TypeOK, NEW k \in Conns, NEW w, Become(k, w), work'[k] \in WorkType
    PROVE  work' \in [Conns -> WorkType]
BY DEF TypeOK, Become

\* Where only Works change.
LEMMA WorksOnlyType ==
    ASSUME TypeOK, work' \in [Conns -> WorkType],
           UNCHANGED <<clock, filevars, cachevars, heapvars, todo, lost>>, crashed' \in BOOLEAN
    PROVE  TypeOK'
BY DEF TypeOK, OriginTypeOK, filevars, cachevars, heapvars

\* What prepare_response does without changing anything shared.
LEMMA QuietType ==
    ASSUME Inv, NEW k \in Conns,
           \/ Miss(k) \/ UseFresh(k) \/ Stat(k) \/ OriginFails(k) \/ CachePutRefused(k)
           \/ UncompressFails(k) \/ SocketAnswers(k) \/ StatPut(k) \/ PutFails(k)
    PROVE  TypeOK'
<1>1. /\ UNCHANGED <<clock, filevars, cachevars, heapvars, todo, lost, crashed>>
      /\ TypeOK /\ crashed \in BOOLEAN
  BY DEF Inv, TypeOK, Miss, UseFresh, Stat, OriginFails, CachePutRefused, UncompressFails,
         SocketAnswers, StatPut, PutFails
<1>2. work' \in [Conns -> WorkType]
  <2>1. ASSUME Throw(k) PROVE work' \in [Conns -> WorkType]
    BY <1>1, <2>1, ThrowFields, OneWorkType DEF Throw
  <2>2. ASSUME Goto(k, "dir") \/ Goto(k, "socket") \/ Goto(k, "open")
        PROVE  work' \in [Conns -> WorkType]
    BY <1>1, <2>2, GotoFields, OneWorkType DEF Goto
  <2>3. CASE Miss(k)
    BY <1>1, <2>3, MissFields, OneWorkType DEF Miss
  <2>4. CASE UseFresh(k) \/ CachePutRefused(k)
    BY <1>1, <2>4, OutputFields, OneWorkType DEF UseFresh, CachePutRefused, Refused
  <2>5. CASE Stat(k)
    BY <1>1, <2>1, <2>2, <2>5, StatSplit, StatFields, OneWorkType DEF Inv
  <2>6. CASE StatPut(k)
    BY <2>1, <2>2, <2>6, StatPutSplit DEF Inv
  <2>7. CASE OriginFails(k) \/ UncompressFails(k) \/ SocketAnswers(k) \/ PutFails(k)
    BY <2>1, <2>7 DEF OriginFails, UncompressFails, SocketAnswers, PutFails
  <2> QED
    BY <2>3, <2>4, <2>5, <2>6, <2>7
<1> QED
  BY <1>1, <1>2, WorksOnlyType

\* The steps that change the cache, the entries or the files.
LEMMA CacheType ==
    ASSUME Inv, NEW k \in Conns, Hit(k) \/ UseStale(k) \/ Refuse(k) \/ CachePut(k) \/ Advise(k)
    PROVE  TypeOK'
<1>1. TypeOK /\ WorksOK /\ Path(k) \in Paths /\ work[k] \in WorkType
  BY DEF Inv, TypeOK, WorksOK, WorkOK, Hit, UseStale, Refuse, CachePut, Advise, At, Path
<1>2. CASE Hit(k)
  <2>1. work' \in [Conns -> WorkType]
    BY <1>1, <1>2, HitFields, OneWorkType DEF Hit
  <2> QED
    BY <1>1, <1>2, <2>1 DEF Hit, Take, TypeOK, OriginTypeOK, filevars, heapvars
<1>3. CASE UseStale(k)
  <2>1. work' \in [Conns -> WorkType]
    BY <1>1, <1>3, OutputFields, OneWorkType DEF UseStale
  <2>2. entry' \in [Entries -> Entry(Nat, 0 .. MaxClock)]
    <3>1. entry' = [entry EXCEPT ![work[k].c] = [entry[work[k].c] EXCEPT !.warned = TRUE]]
      BY <1>3 DEF UseStale
    <3>2. work[k].c \in Entries
      BY <1>1, <1>3 DEF UseStale, At, WorksOK, WorkOK, WorkType
    <3>3. [entry[work[k].c] EXCEPT !.warned = TRUE] \in Entry(Nat, 0 .. MaxClock)
      BY <1>1, <3>2, FlagsType DEF TypeOK
    <3> QED
      BY <1>1, <3>1, <3>3 DEF TypeOK
  <2>3. doomed' \in [Paths -> BOOLEAN] /\ UNCHANGED <<stored, refs>>
    BY <1>1, <1>3 DEF UseStale, Doom, TypeOK, IsStored
  <2> QED
    BY <1>1, <1>3, <2>1, <2>2, <2>3 DEF UseStale, TypeOK, OriginTypeOK, filevars
<1>4. CASE Refuse(k)
  <2>1. work' \in [Conns -> WorkType]
    BY <1>1, <1>4, MissFields, OneWorkType DEF Refuse
  <2>2. Holding(work[k])
    BY <1>1, <1>4 DEF Refuse, At, WorksOK, WorkOK, Holding, Holds
  <2>3. refs[Path(k)] \in Nat \ {0}
    BY <1>1, <2>2, HolderCounted DEF Inv
  <2>4. refs' \in [Paths -> Nat] /\ UNCHANGED <<stored, doomed>>
    BY <1>1, <1>4, <2>3 DEF Refuse, Decline, GiveBack, TypeOK
  <2> QED
    BY <1>1, <1>4, <2>1, <2>4 DEF Refuse, TypeOK, OriginTypeOK, filevars, heapvars
<1>5. CASE CachePut(k)
  <2>1. work' \in [Conns -> WorkType]
    BY <1>1, <1>5, OutputFields, OneWorkType DEF CachePut
  <2>2. work[k].c \in Entries
    BY <1>1, <1>5 DEF CachePut, At, WorksOK, WorkOK, WorkType
  <2>3. entry' \in [Entries -> Entry(Nat, 0 .. MaxClock)]
    <3>1. PICK b \in BOOLEAN :
             entry' = [entry EXCEPT ![work[k].c] = [entry[work[k].c] EXCEPT !.late = b]]
      BY <1>5 DEF CachePut
    <3>2. [entry[work[k].c] EXCEPT !.late = b] \in Entry(Nat, 0 .. MaxClock)
      BY <1>1, <2>2, FlagsType DEF TypeOK
    <3> QED
      BY <1>1, <3>1, <3>2 DEF TypeOK
  <2>4. /\ stored' \in [Paths -> Entries \cup {NoEntry}] /\ refs' \in [Paths -> Nat]
        /\ doomed' \in [Paths -> BOOLEAN]
    BY <1>1, <1>5, <2>2 DEF CachePut, Store, TypeOK
  <2> QED
    BY <1>1, <1>5, <2>1, <2>3, <2>4 DEF CachePut, TypeOK, OriginTypeOK, filevars
<1>6. CASE Advise(k)
  <2>1. work' \in [Conns -> WorkType]
    BY <1>1, <1>6, ThrowFields, OneWorkType DEF Advise, Throw
  <2>2. doomed' \in [Paths -> BOOLEAN] /\ UNCHANGED <<stored, refs>>
    BY <1>1, <1>6 DEF Advise, Invalidate, Doom, TypeOK, IsStored
  <2> QED
    BY <1>1, <1>6, <2>1, <2>2 DEF Advise, TypeOK, OriginTypeOK, filevars, heapvars
<1> QED
  BY <1>2, <1>3, <1>4, <1>5, <1>6

\* Entries are made, output and deleted.
LEMMA HeapType ==
    ASSUME Inv, NEW k \in Conns, Read(k) \/ ListDirectory(k) \/ Manipulate(k) \/ Emit(k)
    PROVE  TypeOK'
<1>1. TypeOK /\ WorksOK /\ Path(k) \in Paths /\ work[k] \in WorkType
  BY DEF Inv, TypeOK, WorksOK, WorkOK, Read, ListDirectory, Manipulate, Emit, At, Path
<1>2. ASSUME NEW e \in Entry(Nat, 0 .. MaxClock), NEW l \in {"put", "output"},
             NewEntryFor(k, e, l), UNCHANGED <<clock, filevars, cachevars, todo, lost, crashed>>
      PROVE  TypeOK'
  <2>1. work'[k] \in WorkType /\ work'[k].c \in Unused /\ live' = live \cup {work'[k].c}
        /\ entry' = [entry EXCEPT ![work'[k].c] = e]
    BY <1>1, <1>2, NewEntryFields
  <2>2. work' \in [Conns -> WorkType]
    BY <1>1, <1>2, <2>1, OneWorkType DEF NewEntryFor
  <2>3. live' \in SUBSET Entries /\ entry' \in [Entries -> Entry(Nat, 0 .. MaxClock)]
    BY <1>1, <2>1 DEF TypeOK, Unused
  <2> QED
    BY <1>1, <1>2, <2>2, <2>3 DEF TypeOK, OriginTypeOK, filevars, cachevars
<1>3. Contents(Path(k)) \in Nat /\ clock \in 0 .. MaxClock
  BY <1>1 DEF TypeOK, OriginTypeOK, Contents
<1>4. CASE Read(k)
  <2>1. work[k].st.modified \in 0 .. MaxClock /\ work[k].st.at \in 0 .. MaxClock
    BY <1>1 DEF WorkType
  <2>2. NewEntry(Contents(Path(k)), work[k].st.modified, work[k].st.at, clock)
           \in Entry(Nat, 0 .. MaxClock)
    BY <1>3, <2>1, FileAssumption, LifetimeAssumption DEF NewEntry, Entry
  <2> QED
    BY <1>2, <1>4, <2>2 DEF Read
<1>5. CASE ListDirectory(k)
  <2>1. NewEntry(Contents(Path(k)), clock, clock, clock) \in Entry(Nat, 0 .. MaxClock)
    BY <1>3, FileAssumption, LifetimeAssumption DEF NewEntry, Entry
  <2> QED
    BY <1>2, <1>5, <2>1 DEF ListDirectory
<1>6. CASE Manipulate(k)
  <2>1. work' \in [Conns -> WorkType] /\ HowToSend(k) \in {"head", "identity", "gzip"}
    BY <1>1, <1>6, ManipulateFields
  <2>2. work[k].c \in Entries
    BY <1>1, <1>6 DEF Manipulate, At, WorksOK, WorkOK, WorkType
  <2>3. Manipulated(entry[work[k].c], HowToSend(k)) \in Entry(Nat, 0 .. MaxClock)
    BY <1>1, <2>1, <2>2, FlagsType DEF TypeOK
  <2>4. entry' = [entry EXCEPT ![work[k].c] = Manipulated(entry[work[k].c], HowToSend(k))]
    BY <1>6 DEF Manipulate
  <2>5. entry' \in [Entries -> Entry(Nat, 0 .. MaxClock)]
    BY <1>1, <2>3, <2>4 DEF TypeOK
  <2> QED
    BY <1>1, <1>6, <2>1, <2>5 DEF Manipulate, TypeOK, OriginTypeOK, filevars, cachevars
<1>7. CASE Emit(k)
  <2>1. work' \in [Conns -> WorkType]
    BY <1>1, <1>7, EmitFields, OneWorkType DEF Emit
  <2>2. work[k].c \in Entries
    BY <1>1, <1>7 DEF Emit, At, WorksOK, WorkOK, WorkType
  <2>3. AfterOutput(entry[work[k].c]) \in Entry(Nat, 0 .. MaxClock)
    BY <1>1, <2>2, FlagsType DEF TypeOK
  <2>4. entry' = [entry EXCEPT ![work[k].c] = AfterOutput(entry[work[k].c])]
    BY <1>7 DEF Emit
  <2>5. entry' \in [Entries -> Entry(Nat, 0 .. MaxClock)]
    BY <1>1, <2>3, <2>4 DEF TypeOK
  <2> QED
    BY <1>1, <1>7, <2>1, <2>5 DEF Emit, TypeOK, OriginTypeOK, filevars, cachevars
<1> QED
  BY <1>4, <1>5, <1>6, <1>7, SMTT(30)

\* Requests arrive, and responses end.
LEMMA EndsType ==
    ASSUME Inv, NEW k \in Conns, Receive(k) \/ Reset(k) \/ Abort(k)
    PROVE  TypeOK'
<1>1. TypeOK /\ WorksOK /\ work[k] \in WorkType
  BY DEF Inv, TypeOK
<1>2. CASE Receive(k)
  <2>1. \E w : Become(k, w)
    <3>1. Head(todo[k]) \in Request
      BY <1>1, <1>2, ReceiveFields
    <3>2. Head(todo[k]).error \in {"none", "uri", "header"}
      BY <3>1 DEF Request
    <3> QED
      BY <1>2, <3>2 DEF Receive, Throw
  <2>2. /\ work'[k] \in WorkType /\ todo[k] # << >>
        /\ todo' = [todo EXCEPT ![k] = Tail(@)]
    BY <1>1, <1>2, ReceiveFields
  <2>3. work' \in [Conns -> WorkType]
    BY <1>1, <2>1, <2>2, OneWorkType
  <2>4. todo' \in [Conns -> Seq(Request)]
    <3>1. todo[k] \in Seq(Request)
      BY <1>1 DEF TypeOK
    <3>2. Tail(todo[k]) \in Seq(Request)
      BY <2>2, <3>1, HeadTailProperties
    <3> QED
      BY <1>1, <2>2, <3>2 DEF TypeOK
  <2>5. crashed' \in BOOLEAN /\ UNCHANGED <<clock, filevars, cachevars, heapvars, lost>>
    BY <1>2 DEF Receive
  <2> QED
    BY <1>1, <2>3, <2>4, <2>5 DEF TypeOK, OriginTypeOK, filevars, cachevars, heapvars
<1>3. CASE Reset(k)
  <2>1. work' \in [Conns -> WorkType]
    BY <1>1, <1>3, EndFields, OneWorkType DEF Reset
  <2>2. CASE work[k].resp_is_cached
    <3>1. CASE Path(k) = NoPath
      BY <1>1, <1>3, <2>1, <2>2, <3>1
      DEF Reset, TypeOK, OriginTypeOK, filevars, cachevars, heapvars
    <3>2. CASE Path(k) # NoPath
      <4>1. Holding(work[k])
        BY <1>1, <1>3, <2>2, <3>2 DEF Reset, At, Path, WorksOK, WorkOK, Holding, Holds
      <4>2. Path(k) \in Paths /\ refs[Path(k)] \in Nat \ {0}
        BY <1>1, <4>1, HolderCounted DEF Inv
      <4>3. refs' \in [Paths -> Nat] /\ UNCHANGED <<stored, doomed, heapvars>>
        BY <1>1, <1>3, <2>2, <3>2, <4>2 DEF Reset, GiveBack, TypeOK
      <4> QED
        BY <1>1, <1>3, <2>1, <4>3 DEF Reset, TypeOK, OriginTypeOK, filevars, heapvars
    <3> QED
      BY <3>1, <3>2
  <2>3. CASE ~ work[k].resp_is_cached
    <3>1. /\ live' = live \ Deleted(k) /\ UNCHANGED cachevars
          /\ entry' = [o \in Entries |-> IF o \in Deleted(k) THEN Blank ELSE entry[o]]
      BY <1>3, <2>3 DEF Reset
    <3>2. live' \in SUBSET Entries /\ entry' \in [Entries -> Entry(Nat, 0 .. MaxClock)]
      BY <1>1, <3>1, BlankType DEF TypeOK
    <3> QED
      BY <1>1, <1>3, <2>1, <3>1, <3>2 DEF Reset, TypeOK, OriginTypeOK, filevars, cachevars
  <2> QED
    BY <2>2, <2>3
<1>4. CASE Abort(k)
  <2>1. work' \in [Conns -> WorkType]
    BY <1>1, <1>4, EndFields, OneWorkType DEF Abort
  <2>2. lost' \in Seq(WorkType)
    <3>1. lost' = Append(lost, work[k]) /\ lost \in Seq(WorkType)
      BY <1>1, <1>4 DEF Abort, TypeOK
    <3> QED
      BY <1>1, <3>1, AppendProperties
  <2> QED
    BY <1>1, <1>4, <2>1, <2>2
    DEF Abort, TypeOK, OriginTypeOK, filevars, cachevars, heapvars
<1> QED
  BY <1>2, <1>3, <1>4

\* The file is opened, or written.
LEMMA FileType ==
    ASSUME Inv, NEW k \in Conns, OpenPut(k) \/ WritePut(k)
    PROVE  TypeOK'
<1>1. TypeOK /\ Path(k) \in Paths
  BY DEF Inv, WorksOK, WorkOK, OpenPut, WritePut, At, Path
<1>2. work' \in [Conns -> WorkType]
  BY <1>1, GotoFields, OneWorkType DEF OpenPut, WritePut, Goto
<1>3. ASSUME NEW n \in Nat, SetFile(Path(k), n)
      PROVE  size' \in [Paths -> Nat] /\ writes' \in [Paths -> Seq(0 .. MaxClock)]
  <2>1. writes[Path(k)] \in Seq(0 .. MaxClock) /\ clock \in 0 .. MaxClock
    BY <1>1 DEF TypeOK, OriginTypeOK
  <2>2. Append(writes[Path(k)], clock) \in Seq(0 .. MaxClock)
    BY <2>1, AppendProperties
  <2> QED
    BY <1>1, <1>3, <2>2 DEF SetFile, TypeOK, OriginTypeOK
<1>4. size' \in [Paths -> Nat] /\ writes' \in [Paths -> Seq(0 .. MaxClock)]
  <2>1. CASE OpenPut(k)
    <3>1. SetFile(Path(k), 0) \/ UNCHANGED filevars
      BY <2>1 DEF OpenPut, Open
    <3> QED
      BY <1>1, <1>3, <3>1 DEF TypeOK, OriginTypeOK, filevars
  <2>2. CASE WritePut(k)
    <3>1. size[Path(k)] \in Nat /\ BodySize \in Nat
      BY <1>1, FileAssumption DEF TypeOK, OriginTypeOK
    <3>2. Max({size[Path(k)], BodySize}) \in Nat
      <4>1. \E x \in {size[Path(k)], BodySize} : \A y \in {size[Path(k)], BodySize} : x >= y
        BY <3>1
      <4>2. Max({size[Path(k)], BodySize}) \in {size[Path(k)], BodySize}
        BY <4>1 DEF Max
      <4> QED
        BY <3>1, <4>2
    <3>3. \E n \in Nat : SetFile(Path(k), n)
      BY <2>2, <3>1, <3>2 DEF WritePut, Write
    <3> QED
      BY <1>3, <3>3
  <2> QED
    BY <2>1, <2>2
<1> QED
  BY <1>1, <1>2, <1>4 DEF OpenPut, WritePut, TypeOK, OriginTypeOK, cachevars, heapvars

\* The cache deletes an entry, and time passes.
LEMMA EnvironmentType ==
    ASSUME Inv, Time \/ \E p \in Paths : Evict(p)
    PROVE  TypeOK'
<1>1. CASE Time
  BY <1>1, FileAssumption
  DEF Time, Tick, Inv, TypeOK, OriginTypeOK, filevars, cachevars, heapvars
<1>2. ASSUME NEW p \in Paths, Evict(p) PROVE TypeOK'
  <2>1. entry' \in [Entries -> Entry(Nat, 0 .. MaxClock)] /\ live' \in SUBSET Entries
    BY <1>2, BlankType DEF Evict, Inv, TypeOK
  <2>2. stored' \in [Paths -> Entries \cup {NoEntry}] /\ doomed' \in [Paths -> BOOLEAN]
        /\ UNCHANGED refs
    BY <1>2 DEF Evict, Drop, Inv, TypeOK
  <2> QED
    BY <1>2, <2>1, <2>2 DEF Evict, Inv, TypeOK, OriginTypeOK, filevars
<1> QED
  BY <1>1, <1>2

----------------------------------------------------------------------------
(* WorksOK and ScriptOK *)

\* A step of one Work.
LEMMA OneWorkOK ==
    ASSUME WorksOK, NEW k \in Conns, UNCHANGED <<clock, lost>>,
           \A j \in Conns \ {k} : work'[j] = work[j], WorkOK(work[k])'
    PROVE  WorksOK'
<1>1. \A j \in Conns \ {k} : WorkOK(work[j])'
  BY DEF WorksOK, WorkOK
<1>2. \A j \in Conns : WorkOK(work[j])'
  BY <1>1
<1> QED
  BY <1>2 DEF WorksOK

\* Every step of a Work leaves its fields as its label requires.
LEMMA WorkStepOK ==
    ASSUME Inv, NEW k \in Conns, Prepare(k) \/ Receive(k) \/ Reset(k) \/ Fail(k)
    PROVE  WorksOK'
<1>1. TypeOK /\ WorksOK /\ WorkOK(work[k])
  BY DEF Inv, WorksOK
<1>2. ASSUME Throw(k), UNCHANGED <<clock, lost>>, work[k].pc # "lookup",
             work[k].pc # "idle"
      PROVE  WorksOK'
  <2>1. WorkOK(work[k])'
    BY <1>1, <1>2, ThrowFields DEF WorkOK
  <2> QED
    BY <1>1, <1>2, <2>1, ThrowFields, OneWorkOK
<1>3. ASSUME Goto(k, "dir") \/ Goto(k, "socket") \/ Goto(k, "open")
               \/ Goto(k, "write") \/ Goto(k, "advise"), UNCHANGED <<clock, lost>>,
             work[k].pc \in {"stat", "stat_put", "open", "write"}
      PROVE  WorksOK'
  <2>1. WorkOK(work[k])'
    BY <1>1, <1>3, GotoFields, SMTT(30) DEF WorkOK
  <2> QED
    BY <1>1, <1>3, <2>1, GotoFields, OneWorkOK
<1>4. CASE Receive(k)
  <2>1. ~ (Disturbs(Head(todo[k])) /\ work[k].resp_is_cached)
    <3>1. todo[k] \in Seq(Request) /\ todo[k] # << >>
      BY <1>1, <1>4, ReceiveFields DEF TypeOK
    <3>2. 1 \in DOMAIN todo[k] /\ todo[k][1] = Head(todo[k])
      BY <3>1
    <3> QED
      BY <3>2 DEF Inv, ScriptOK, MayBeCached
  <2>2. Head(todo[k]).path \in Paths
    BY <1>1, <1>4, ReceiveFields DEF Request
  <2>3. WorkOK(work[k])'
    BY <1>1, <1>4, <2>1, <2>2, ReceiveFields DEF WorkOK
  <2> QED
    BY <1>1, <1>4, <2>3, ReceiveFields, OneWorkOK DEF Receive
<1>5. CASE Hit(k)
  <2>1. Path(k) \in Paths /\ UNCHANGED <<clock, lost>> /\ work[k].pc = "lookup"
    BY <1>1, <1>5 DEF Hit, At, Path, WorkOK
  <2>2. WorkOK(work[k])'
    BY <1>1, <1>5, <2>1, HitFields, NullAssumption DEF WorkOK, Path
  <2> QED
    BY <1>1, <1>5, <2>1, <2>2, HitFields, OneWorkOK
<1>6. CASE Miss(k) \/ Refuse(k)
  <2>1. UNCHANGED <<clock, lost>> /\ work[k].pc \in {"lookup", "check"}
        /\ (Miss(k) => work[k].pc = "lookup")
    BY <1>6 DEF Miss, Refuse, At
  <2>2. WorkOK(work[k])'
    BY <1>1, <1>6, <2>1, MissFields DEF WorkOK
  <2> QED
    BY <1>1, <1>6, <2>1, <2>2, MissFields, OneWorkOK
<1>7. CASE UseFresh(k) \/ UseStale(k) \/ CachePut(k) \/ CachePutRefused(k)
  <2>1. PICK b \in BOOLEAN : Become(k, [work[k] EXCEPT !.pc = "output", !.resp_is_cached = b])
    BY <1>7 DEF UseFresh, UseStale, CachePut, CachePutRefused, Refused
  <2>2. UNCHANGED <<clock, lost>> /\ work[k].pc \in {"check", "put"}
    BY <1>7 DEF UseFresh, UseStale, CachePut, CachePutRefused, At
  <2>3. WorkOK(work[k])'
    BY <1>1, <2>1, <2>2, OutputFields DEF WorkOK
  <2> QED
    BY <1>1, <2>1, <2>2, <2>3, OutputFields, OneWorkOK
<1>8. CASE Stat(k)
  <2>1. UNCHANGED <<clock, lost>> /\ work[k].pc = "stat" /\ Path(k) \in Paths
    BY <1>8, <1>1, StatSplit DEF Stat, At
  <2>2. ASSUME Kind[Path(k)] = "reg",
               Become(k, [work[k] EXCEPT !.pc = "read", !.st =
                   [size |-> size[Path(k)], modified |-> Modified(Path(k)), at |-> clock]])
        PROVE  WorksOK'
    <3>1. clock <= clock'
      BY <1>1, <2>1, SMTT(30) DEF TypeOK, OriginTypeOK
    <3>2. WorkOK(work[k])'
      BY <1>1, <2>1, <2>2, <3>1, StatFields DEF WorkOK, Path
    <3> QED
      BY <1>1, <2>1, <2>2, <3>2, StatFields, OneWorkOK
  <2> QED
    BY <1>1, <1>2, <1>3, <1>8, <2>1, <2>2, StatSplit
<1>9. CASE StatPut(k)
  <2>1. UNCHANGED <<clock, lost>> /\ work[k].pc = "stat_put"
    BY <1>9 DEF StatPut, At
  <2> QED
    BY <1>1, <1>2, <1>3, <1>9, <2>1, StatPutSplit
<1>10. CASE Read(k) \/ ListDirectory(k)
  <2>0. PICK e : \/ NewEntryFor(k, e, "put") /\ work[k].pc = "read"
                 \/ NewEntryFor(k, e, "output")
    BY <1>10 DEF Read, ListDirectory, At
  <2>1. PICK l \in {"put", "output"} :
           /\ NewEntryFor(k, e, l)
           /\ l = "put" => work[k].pc = "read"
    BY <2>0
  <2>2. UNCHANGED <<clock, lost>> /\ work[k].pc \in {"read", "dir"}
    BY <1>10 DEF Read, ListDirectory, At
  <2>3. work'[k].c # NoEntry
    BY <1>1, <2>1, NewEntryFields, NullAssumption DEF Unused
  <2>4. WorkOK(work[k])'
    BY <1>1, <2>1, <2>2, <2>3, NewEntryFields DEF WorkOK
  <2> QED
    BY <1>1, <2>1, <2>2, <2>4, NewEntryFields, OneWorkOK
<1>11. CASE OriginFails(k) \/ UncompressFails(k) \/ SocketAnswers(k) \/ PutFails(k) \/ Advise(k)
  BY <1>2, <1>11 DEF OriginFails, UncompressFails, SocketAnswers, PutFails, Advise, At
<1>12. CASE OpenPut(k) \/ WritePut(k)
  BY <1>3, <1>12 DEF OpenPut, WritePut, At
<1>13. CASE Emit(k)
  <2>1. UNCHANGED <<clock, lost>> /\ work[k].pc = "emit"
    BY <1>13 DEF Emit, At
  <2>2. WorkOK(work[k])'
    BY <1>1, <1>13, <2>1, EmitFields DEF WorkOK
  <2> QED
    BY <1>1, <1>13, <2>1, <2>2, EmitFields, OneWorkOK
<1>14. CASE Manipulate(k)
  <2>1. UNCHANGED <<clock, lost>> /\ work[k].pc = "output"
    BY <1>14 DEF Manipulate, At
  <2>2. WorkOK(work[k])'
    BY <1>1, <1>14, <2>1, ManipulateFields DEF WorkOK
  <2>3. ASSUME NEW j \in Conns \ {k} PROVE WorkOK(work[j])'
    <3>1. WorkOK(work[j])
      BY <1>1 DEF WorksOK
    <3> QED
      BY <1>1, <1>14, <2>1, <3>1, ManipulateFields DEF WorkOK
  <2>4. \A j \in Conns : WorkOK(work[j])'
    BY <2>2, <2>3
  <2> QED
    BY <1>1, <2>1, <2>4 DEF WorksOK
<1>15. CASE Reset(k)
  <2>1. UNCHANGED <<clock, lost>> /\ work[k].pc = "send"
    BY <1>15 DEF Reset, At
  <2>2. WorkOK(work[k])'
    BY <1>1, <1>15, <2>1, EndFields DEF WorkOK
  <2> QED
    BY <1>1, <1>15, <2>1, <2>2, EndFields, OneWorkOK
<1>16. CASE Abort(k)
  <2>1. /\ UNCHANGED clock /\ lost' = Append(lost, work[k]) /\ work[k].pc = "send"
        /\ work[k].c # NoEntry
    BY <1>16 DEF Abort, At
  <2>2. WorkOK(work[k])'
    BY <1>1, <1>16, <2>1, EndFields DEF WorkOK
  <2>3. \A j \in Conns \ {k} : WorkOK(work[j])'
    BY <1>1, <1>16, <2>1, EndFields DEF WorksOK, WorkOK
  <2>4. \A j \in Conns : WorkOK(work[j])'
    BY <2>2, <2>3
  <2>5. \A i \in DOMAIN lost' : lost'[i].pc = "send" /\ lost'[i].c # NoEntry
    <3>1. /\ DOMAIN lost' = DOMAIN lost \cup {Len(lost) + 1}
          /\ \A i \in DOMAIN lost : lost'[i] = lost[i]
          /\ lost'[Len(lost) + 1] = work[k]
      BY <1>1, <2>1 DEF TypeOK
    <3> QED
      BY <1>1, <2>1, <3>1 DEF WorksOK
  <2> QED
    BY <2>4, <2>5 DEF WorksOK
<1> QED
  BY <1>4, <1>5, <1>6, <1>7, <1>8, <1>9, <1>10, <1>11, <1>12, <1>13, <1>14, <1>15, <1>16
  DEF Prepare, Fail

\* What is left of a sequence after its first element.
LEMMA TailElements ==
    ASSUME NEW s \in Seq(Request), s # << >>
    PROVE  /\ 1 \in DOMAIN s /\ s[1] = Head(s)
           /\ \A i \in DOMAIN Tail(s) : i + 1 \in DOMAIN s /\ 1 < i + 1 /\ Tail(s)[i] = s[i + 1]
<1>1. Len(s) \in Nat \ {0} /\ DOMAIN s = 1 .. Len(s)
  OBVIOUS
<1>2. Len(Tail(s)) = Len(s) - 1 /\ \A i \in 1 .. Len(Tail(s)) : Tail(s)[i] = s[i + 1]
  BY HeadTailProperties
<1>3. DOMAIN Tail(s) = 1 .. Len(Tail(s))
  OBVIOUS
<1> QED
  BY <1>1, <1>2, <1>3

\* A step that does not take a request.
LEMMA ScriptKept ==
    ASSUME ScriptOK, UNCHANGED todo,
           \A j \in Conns : MayBeCached(work[j])' => MayBeCached(work[j])
    PROVE  ScriptOK'
<1>1. ASSUME NEW j \in Conns
      PROVE  /\ ReadsLast(todo'[j])
             /\ MayBeCached(work[j])' => \A i \in DOMAIN todo'[j] : ~ Disturbs(todo'[j][i])
  BY DEF ScriptOK
<1> QED
  BY <1>1 DEF ScriptOK, ReadsLast, Reads, Disturbs

\* Every step of a Work keeps ScriptOK.
LEMMA ScriptStepOK ==
    ASSUME Inv, NEW k \in Conns, Prepare(k) \/ Receive(k) \/ Reset(k) \/ Fail(k)
    PROVE  ScriptOK'
<1>1. TypeOK /\ WorksOK /\ ScriptOK /\ WorkOK(work[k])
  BY DEF Inv, WorksOK
<1>2. ASSUME \A j \in Conns \ {k} : work'[j] = work[j], UNCHANGED todo,
             MayBeCached(work[k])' => MayBeCached(work[k])
      PROVE  ScriptOK'
  <2>1. \A j \in Conns : MayBeCached(work[j])' => MayBeCached(work[j])
    BY <1>2 DEF MayBeCached
  <2> QED
    BY <1>1, <1>2, <2>1, ScriptKept
<1>3. ASSUME Throw(k), UNCHANGED todo PROVE ScriptOK'
  BY <1>1, <1>2, <1>3, ThrowFields DEF MayBeCached
<1>4. ASSUME Goto(k, "dir") \/ Goto(k, "socket") \/ Goto(k, "open")
               \/ Goto(k, "write") \/ Goto(k, "advise"), UNCHANGED todo
      PROVE  ScriptOK'
  BY <1>1, <1>2, <1>4, GotoFields DEF MayBeCached
<1>5. CASE Receive(k)
  <2> DEFINE s == todo[k]
  <2>1. s \in Seq(Request) /\ s # << >> /\ todo' = [todo EXCEPT ![k] = Tail(@)]
    BY <1>1, <1>5, ReceiveFields DEF TypeOK
  <2>2. todo'[k] = Tail(s) /\ \A j \in Conns \ {k} : todo'[j] = todo[j]
    BY <1>1, <2>1 DEF TypeOK
  <2>3. ReadsLast(s) /\ (MayBeCached(work[k]) => \A i \in DOMAIN s : ~ Disturbs(s[i]))
    BY <1>1 DEF ScriptOK
  <2>4. \A j \in Conns \ {k} : work'[j] = work[j]
    BY <1>1, <1>5, ReceiveFields
  <2>5. MayBeCached(work[k])' => MayBeCached(work[k]) \/ Reads(Head(s))
    BY <1>1, <1>5, ReceiveFields DEF MayBeCached, Reads
  <2>6. ASSUME NEW j \in Conns \ {k}
        PROVE  /\ ReadsLast(todo'[j])
               /\ MayBeCached(work[j])' => \A i \in DOMAIN todo'[j] : ~ Disturbs(todo'[j][i])
    BY <1>1, <2>2, <2>4 DEF ScriptOK, MayBeCached
  <2> HIDE DEF s
  <2>7. ReadsLast(Tail(s))
    <3>1. SUFFICES ASSUME NEW i \in DOMAIN Tail(s), NEW j \in DOMAIN Tail(s),
                          i < j, Reads(Tail(s)[i])
                   PROVE  ~ Disturbs(Tail(s)[j])
      BY DEF ReadsLast
    <3>2. i \in Int /\ j \in Int
      BY <2>1
    <3>3. /\ i + 1 \in DOMAIN s /\ j + 1 \in DOMAIN s
          /\ Tail(s)[i] = s[i + 1] /\ Tail(s)[j] = s[j + 1]
      BY <2>1, TailElements
    <3>4. i + 1 < j + 1
      BY <3>1, <3>2
    <3> QED
      BY <2>3, <3>1, <3>3, <3>4 DEF ReadsLast
  <2>8. ASSUME MayBeCached(work[k])', NEW i \in DOMAIN Tail(s) PROVE ~ Disturbs(Tail(s)[i])
    <3>1. /\ 1 \in DOMAIN s /\ s[1] = Head(s)
          /\ i + 1 \in DOMAIN s /\ 1 < i + 1 /\ Tail(s)[i] = s[i + 1]
      BY <2>1, TailElements
    <3> QED
      BY <2>3, <2>5, <2>8, <3>1 DEF ReadsLast
  <2>9. ASSUME NEW j \in Conns
        PROVE  /\ ReadsLast(todo'[j])
               /\ MayBeCached(work[j])' => \A i \in DOMAIN todo'[j] : ~ Disturbs(todo'[j][i])
    BY <2>2, <2>6, <2>7, <2>8
  <2> QED
    BY <2>9 DEF ScriptOK, ReadsLast, Reads, Disturbs
<1>6. CASE Hit(k)
  <2>1. Path(k) \in Paths /\ UNCHANGED todo /\ work[k].pc = "lookup"
    BY <1>1, <1>6 DEF Hit, At, Path, WorkOK
  <2> QED
    BY <1>1, <1>2, <1>6, <2>1, HitFields DEF MayBeCached
<1>7. CASE Miss(k) \/ Refuse(k)
  <2>1. UNCHANGED todo /\ work[k].pc \in {"lookup", "check"}
    BY <1>7 DEF Miss, Refuse, At
  <2> QED
    BY <1>1, <1>2, <1>7, <2>1, MissFields DEF MayBeCached
<1>8. CASE UseFresh(k) \/ UseStale(k) \/ CachePut(k) \/ CachePutRefused(k)
  <2>1. PICK b \in BOOLEAN : Become(k, [work[k] EXCEPT !.pc = "output", !.resp_is_cached = b])
    BY <1>8 DEF UseFresh, UseStale, CachePut, CachePutRefused, Refused
  <2>2. UNCHANGED todo /\ work[k].pc \in {"check", "put"}
    BY <1>8 DEF UseFresh, UseStale, CachePut, CachePutRefused, At
  <2>3. Kind[work[k].path] = "reg"
    <3>1. CASE work[k].pc = "put"
      BY <1>1, <3>1 DEF WorkOK
    <3>2. CASE work[k].pc = "check"
      <4>1. Holding(work[k])
        BY <1>1, <3>2 DEF WorkOK, Holding, Holds
      <4> QED
        BY <1>1, <4>1, HolderCounted DEF Inv, StoredOK, Path
    <3> QED
      BY <2>2, <3>1, <3>2
  <2> QED
    BY <1>1, <1>2, <2>1, <2>2, <2>3, OutputFields DEF MayBeCached
<1>9. CASE Stat(k)
  <2>1. UNCHANGED todo /\ work[k].pc = "stat" /\ Path(k) \in Paths
    BY <1>9, <1>1, StatSplit DEF Stat, At
  <2>2. ASSUME Kind[Path(k)] = "reg",
               Become(k, [work[k] EXCEPT !.pc = "read", !.st =
                   [size |-> size[Path(k)], modified |-> Modified(Path(k)), at |-> clock]])
        PROVE  ScriptOK'
    BY <1>1, <1>2, <2>1, <2>2, StatFields DEF MayBeCached, Path
  <2> QED
    BY <1>1, <1>3, <1>4, <1>9, <2>1, <2>2, StatSplit
<1>10. CASE StatPut(k)
  BY <1>1, <1>3, <1>4, <1>10, StatPutSplit DEF StatPut
<1>11. CASE Read(k) \/ ListDirectory(k)
  <2>0. PICK e : \/ NewEntryFor(k, e, "put") /\ work[k].pc = "read"
                 \/ NewEntryFor(k, e, "output")
    BY <1>11 DEF Read, ListDirectory, At
  <2>1. PICK l \in {"put", "output"} :
           /\ NewEntryFor(k, e, l)
           /\ l = "put" => work[k].pc = "read"
    BY <2>0
  <2>2. UNCHANGED todo
    BY <1>11 DEF Read, ListDirectory
  <2> QED
    BY <1>1, <1>2, <2>1, <2>2, NewEntryFields DEF MayBeCached
<1>12. CASE OriginFails(k) \/ UncompressFails(k) \/ SocketAnswers(k) \/ PutFails(k) \/ Advise(k)
  BY <1>3, <1>12 DEF OriginFails, UncompressFails, SocketAnswers, PutFails, Advise
<1>13. CASE OpenPut(k) \/ WritePut(k)
  BY <1>4, <1>13 DEF OpenPut, WritePut
<1>14. CASE Emit(k)
  BY <1>1, <1>2, <1>14, EmitFields DEF MayBeCached, Emit
<1>15. CASE Manipulate(k)
  <2>1. \A j \in Conns : MayBeCached(work[j])' => MayBeCached(work[j])
    BY <1>1, <1>15, ManipulateFields, ZenonT(60) DEF MayBeCached
  <2> QED
    BY <1>1, <1>15, <2>1, ScriptKept DEF Manipulate
<1>16. CASE Reset(k) \/ Abort(k)
  BY <1>1, <1>2, <1>16, EndFields DEF MayBeCached, Reset, Abort
<1> QED
  BY <1>5, <1>6, <1>7, <1>8, <1>9, <1>10, <1>11, <1>12, <1>13, <1>14, <1>15, <1>16
  DEF Prepare, Fail

----------------------------------------------------------------------------
(* Who holds and who owns an entry *)

Shares == StoredOK /\ HeldOK /\ OwnedOK /\ NoneForgotten /\ RefsOK

\* The other Works.
OthersSame(k) == \A j \in Conns \ {k} : work'[j] = work[j]

\* The Work j keeps what it holds or owns.
KeepsEntry(j) ==
    /\ work'[j].c = work[j].c
    /\ work[j].c # NoEntry =>
          /\ work'[j].path = work[j].path
          /\ Holds(work'[j], work[j].c) <=> Holds(work[j], work[j].c)

\* A step in which nothing is taken, given back, made or deleted.
LEMMA QuietShares ==
    ASSUME TypeOK, Shares, UNCHANGED <<stored, refs, live, lost>>, \A j \in Conns : KeepsEntry(j)
    PROVE  Shares'
<1>1. StoredOK'
  BY DEF Shares, StoredOK, IsStored
<1>2. \A j \in Conns : /\ Holding(work'[j]) <=> Holding(work[j])
                       /\ Owning(work'[j]) <=> Owning(work[j])
                       /\ Holding(work[j]) => work'[j].path = work[j].path
                       /\ work'[j].c = work[j].c
  BY DEF KeepsEntry, Holding, Owning, Holds, Owns
<1>3. HeldOK'
  BY <1>2 DEF Shares, HeldOK, Holding, Holds
<1>4. OwnedOK'
  BY <1>2 DEF Shares, OwnedOK, Owning, Owns, Holds
<1>5. NoneForgotten'
  <2>1. ASSUME NEW o \in live, NEW j \in Conns, Owns(work[j], o) PROVE Owns(work'[j], o)
    BY <2>1, NullAssumption DEF TypeOK, KeepsEntry, Owns, Holds
  <2> QED
    BY <2>1 DEF Shares, NoneForgotten
<1>6. RefsOK'
  <2>1. ASSUME NEW p \in Paths, IsStored(p)
        PROVE  WorksHolding(stored[p])' = WorksHolding(stored[p])
               /\ LostHolding(stored[p])' = LostHolding(stored[p])
    BY <2>1 DEF KeepsEntry, WorksHolding, LostHolding, Holds, IsStored
  <2> QED
    BY <2>1 DEF Shares, RefsOK, IsStored
<1> QED
  BY <1>1, <1>3, <1>4, <1>5, <1>6 DEF Shares

\* Everything a Work or a destroyed Work has is allocated.
LEMMA EntriesLive ==
    ASSUME TypeOK, WorksOK, Shares
    PROVE  /\ \A k \in Conns : work[k].c # NoEntry => work[k].c \in live
           /\ \A i \in DOMAIN lost : lost[i].c \in live
<1>1. \A p \in Paths : stored[p] # NoEntry => stored[p] \in live
  BY DEF Shares, StoredOK, IsStored
<1>2. ASSUME NEW k \in Conns, work[k].c # NoEntry PROVE work[k].c \in live
  <2>1. CASE Holding(work[k])
    BY <1>1, <1>2, <2>1 DEF Shares, HeldOK, WorksOK, WorkOK
  <2>2. CASE Owning(work[k])
    BY <2>2 DEF Shares, OwnedOK
  <2> QED
    BY <1>2, <2>1, <2>2 DEF Holding, Owning, Owns
<1>3. ASSUME NEW i \in DOMAIN lost PROVE lost[i].c \in live
  <2>1. lost[i].c # NoEntry
    BY DEF WorksOK
  <2>2. CASE Holding(lost[i])
    BY <1>1, <2>1, <2>2 DEF Shares, HeldOK
  <2>3. CASE Owning(lost[i])
    BY <2>3 DEF Shares, OwnedOK
  <2> QED
    BY <2>1, <2>2, <2>3 DEF Holding, Owning, Owns
<1> QED
  BY <1>2, <1>3

\* get: one more reference, one more holder.
LEMMA HitShares ==
    ASSUME TypeOK, WorksOK, Shares, NEW k \in Conns, Hit(k)
    PROVE  Shares'
<1> DEFINE p == Path(k)
           o == stored[p]
<1>1. /\ work[k].pc = "lookup" /\ p \in Paths /\ o # NoEntry
      /\ work[k].c = NoEntry /\ UNCHANGED <<stored, live, lost>>
      /\ refs' = [refs EXCEPT ![p] = @ + 1]
  BY DEF Hit, At, WorksOK, WorkOK, Path, Take, IsStored, heapvars
<1>2. /\ OthersSame(k) /\ work'[k].pc = "check" /\ work'[k].c = o
      /\ work'[k].path = p
  BY <1>1, HitFields DEF OthersSame, Path
<1> HIDE DEF p, o
<1>3. Holding(work'[k]) /\ ~ Owning(work'[k]) /\ Holds(work'[k], o)
  BY <1>1, <1>2 DEF Holding, Owning, Owns, Holds
<1>4. StoredOK'
  BY <1>1 DEF Shares, StoredOK, IsStored
<1>5. HeldOK'
  BY <1>1, <1>2, <1>3 DEF Shares, HeldOK, OthersSame, o
<1>6. OwnedOK'
  BY <1>1, <1>2, <1>3 DEF Shares, OwnedOK, OthersSame, o
<1>7. NoneForgotten'
  <2>1. ASSUME NEW x \in live, NEW j \in Conns, Owns(work[j], x) PROVE Owns(work'[j], x)
    BY <1>1, <1>2, <2>1, NullAssumption DEF TypeOK, OthersSame, Owns
  <2> QED
    BY <1>1, <2>1 DEF Shares, NoneForgotten
<1>8. RefsOK'
  <2>1. ASSUME NEW q \in Paths, IsStored(q)
        PROVE  refs'[q] = Cardinality(WorksHolding(stored[q])')
                          + Cardinality(LostHolding(stored[q])')
    <3> DEFINE W == WorksHolding(stored[q])
               L == LostHolding(stored[q])
    <3>1. refs[q] = Cardinality(W) + Cardinality(L)
      BY <2>1 DEF Shares, RefsOK
    <3>2. LostHolding(stored[q])' = L
      BY <1>1 DEF LostHolding
    <3>3. CASE q = p
      <4>1. WorksHolding(stored[q])' = W \cup {k} /\ k \notin W
        BY <1>1, <1>2, <1>3, <3>3 DEF WorksHolding, Holds, OthersSame, o
      <4>2. refs'[q] = refs[q] + 1
        BY <1>1, <3>3 DEF TypeOK
      <4>3. W \subseteq Conns /\ L \subseteq DOMAIN lost
        BY DEF WorksHolding, LostHolding
      <4> HIDE DEF W, L
      <4>4. IsFiniteSet(W) /\ Cardinality(W) \in Nat /\ Cardinality(L) \in Nat
        BY <4>3, Countable
      <4>5. Cardinality(W \cup {k}) = Cardinality(W) + 1
        BY <4>1, <4>4, FS_AddElement
      <4> QED
        BY <3>1, <3>2, <4>1, <4>2, <4>4, <4>5
    <3>4. CASE q # p
      <4>1. stored[q] # o
        BY <1>1, <2>1, <3>4 DEF Shares, StoredOK, o
      <4>2. WorksHolding(stored[q])' = W
        BY <1>1, <1>2, <2>1, <4>1 DEF WorksHolding, Holds, OthersSame, IsStored
      <4>3. refs'[q] = refs[q]
        BY <1>1, <3>4 DEF TypeOK
      <4> QED
        BY <3>1, <3>2, <4>2, <4>3
    <3> QED
      BY <3>3, <3>4
  <2> QED
    BY <1>1, <2>1 DEF RefsOK, IsStored
<1> QED
  BY <1>4, <1>5, <1>6, <1>7, <1>8 DEF Shares

\* unget by the holder: one reference fewer, one holder fewer.
LEMMA GiveBackShares ==
    ASSUME TypeOK, WorksOK, Shares, NEW k \in Conns, Holding(work[k]), GiveBack(Path(k)),
           OthersSame(k), work'[k].c = NoEntry, UNCHANGED <<live, lost>>
    PROVE  Shares'
<1> DEFINE p == Path(k)
           o == work[k].c
<1>1. /\ p \in Paths /\ stored[p] = o /\ IsStored(p) /\ refs[p] \in Nat \ {0}
      /\ UNCHANGED stored /\ refs' = [refs EXCEPT ![p] = @ - 1] /\ o # NoEntry
  BY HolderCounted DEF Shares, GiveBack, IsStored
<1> HIDE DEF p, o
<1>2. ~ Holding(work'[k]) /\ ~ Owning(work'[k]) /\ ~ Owning(work[k])
  BY DEF Holding, Owning, Owns
<1>3. StoredOK'
  BY <1>1 DEF Shares, StoredOK, IsStored
<1>4. HeldOK'
  BY <1>1, <1>2 DEF Shares, HeldOK, OthersSame
<1>5. OwnedOK'
  <2>1. \A j \in Conns : Owning(work'[j]) => j # k /\ work'[j] = work[j]
    BY <1>2 DEF OthersSame
  <2>2. \A j \in Conns : work'[j].c = work[j].c \/ work'[j].c = NoEntry
    BY DEF OthersSame
  <2>3. \A j \in Conns : Owning(work[j]) => work[j].c # NoEntry
    BY DEF Owning
  <2>4. \A i \in DOMAIN lost : Owning(lost[i]) => lost[i].c # NoEntry
    BY DEF Owning
  <2> QED
    BY <1>1, <2>1, <2>2, <2>3, <2>4 DEF Shares, OwnedOK
<1>6. NoneForgotten'
  <2>1. ASSUME NEW x \in live, NEW j \in Conns, Owns(work[j], x) PROVE Owns(work'[j], x)
    <3>1. x # NoEntry
      BY NullAssumption DEF TypeOK
    <3>2. j # k
      BY <1>2, <2>1, <3>1 DEF Owning, Owns
    <3> QED
      BY <2>1, <3>2 DEF OthersSame
  <2> QED
    BY <1>1, <2>1 DEF Shares, NoneForgotten
<1>7. RefsOK'
  <2>1. ASSUME NEW q \in Paths, IsStored(q)
        PROVE  refs'[q] = Cardinality(WorksHolding(stored[q])')
                          + Cardinality(LostHolding(stored[q])')
    <3> DEFINE W == WorksHolding(stored[q])
               L == LostHolding(stored[q])
    <3>1. refs[q] = Cardinality(W) + Cardinality(L)
      BY <2>1 DEF Shares, RefsOK
    <3>2. LostHolding(stored[q])' = L
      BY <1>1 DEF LostHolding
    <3>3. CASE q = p
      <4>1. WorksHolding(stored[q])' = W \ {k} /\ k \in W
        BY <1>1, <3>3 DEF WorksHolding, Holding, Holds, OthersSame, o
      <4>2. refs'[q] = refs[q] - 1
        BY <1>1, <3>3 DEF TypeOK
      <4>3. W \subseteq Conns /\ L \subseteq DOMAIN lost
        BY DEF WorksHolding, LostHolding
      <4> HIDE DEF W, L
      <4>4. IsFiniteSet(W) /\ Cardinality(W) \in Nat /\ Cardinality(L) \in Nat
        BY <4>3, Countable
      <4>5. Cardinality(W \ {k}) = Cardinality(W) - 1
        BY <4>1, <4>4, FS_RemoveElement
      <4> QED
        BY <3>1, <3>2, <4>1, <4>2, <4>4, <4>5
    <3>4. CASE q # p
      <4>1. stored[q] # o /\ stored[q] # NoEntry
        BY <1>1, <2>1, <3>4 DEF Shares, StoredOK, IsStored
      <4>2. WorksHolding(stored[q])' = W
        BY <1>1, <4>1 DEF WorksHolding, Holds, OthersSame, o
      <4>3. refs'[q] = refs[q]
        BY <1>1, <3>4 DEF TypeOK
      <4> QED
        BY <3>1, <3>2, <4>2, <4>3
    <3> QED
      BY <3>3, <3>4
  <2> QED
    BY <1>1, <2>1 DEF RefsOK, IsStored
<1> QED
  BY <1>3, <1>4, <1>5, <1>6, <1>7 DEF Shares

\* A new entry belongs to the Work that made it.
LEMMA NewEntryShares ==
    ASSUME TypeOK, WorksOK, Shares, NEW k \in Conns, Read(k) \/ ListDirectory(k)
    PROVE  Shares'
<1>1. /\ work[k].pc \in {"read", "dir"} /\ work[k].c = NoEntry /\ ~ work[k].resp_is_cached
      /\ UNCHANGED <<stored, refs, lost>>
  BY DEF Read, ListDirectory, At, WorksOK, WorkOK, cachevars
<1>2. PICK e : NewEntryFor(k, e, "put") \/ NewEntryFor(k, e, "output")
  BY DEF Read, ListDirectory
<1> DEFINE o == work'[k].c
<1>3. /\ OthersSame(k) /\ work'[k].pc \in {"put", "output"} /\ ~ work'[k].resp_is_cached
      /\ o \in Unused /\ live' = live \cup {o}
  BY <1>1, <1>2, NewEntryFields DEF OthersSame
<1>4. /\ o \in Entries /\ o # NoEntry /\ o \notin live
      /\ \A j \in Conns : work[j].c # o
  BY <1>3, NullAssumption DEF Unused
<1>5. \A i \in DOMAIN lost : lost[i].c # o
  BY <1>4, EntriesLive
<1>6. \A p \in Paths : stored[p] # o
  BY <1>4 DEF Shares, StoredOK, IsStored
<1>7. ~ Holding(work'[k]) /\ Owns(work'[k], o)
  BY <1>3 DEF Holding, Holds, Owns
<1>8. StoredOK'
  BY <1>1, <1>3 DEF Shares, StoredOK, IsStored
<1>9. HeldOK'
  BY <1>1, <1>3, <1>7 DEF Shares, HeldOK, OthersSame
<1>10. OwnedOK'
  <2>1. ASSUME NEW j \in Conns, Owning(work'[j])
        PROVE  /\ work'[j].c \in live'
               /\ \A p \in Paths : stored'[p] # work'[j].c
               /\ \A i \in Conns \ {j} : work'[i].c # work'[j].c
               /\ \A i \in DOMAIN lost' : lost'[i].c # work'[j].c
    <3>1. CASE j = k
      BY <1>1, <1>3, <1>4, <1>5, <1>6, <3>1 DEF OthersSame
    <3>2. CASE j # k
      <4>1. work'[j] = work[j] /\ Owning(work[j])
        BY <1>3, <2>1, <3>2 DEF OthersSame
      <4>2. work[j].c # o
        BY <1>4
      <4> QED
        BY <1>1, <1>3, <4>1, <4>2 DEF Shares, OwnedOK, OthersSame
    <3> QED
      BY <3>1, <3>2
  <2>2. ASSUME NEW i \in DOMAIN lost', Owning(lost'[i])
        PROVE  /\ lost'[i].c \in live'
               /\ \A p \in Paths : stored'[p] # lost'[i].c
               /\ \A j \in Conns : work'[j].c # lost'[i].c
               /\ \A j \in DOMAIN lost' \ {i} : lost'[j].c # lost'[i].c
    BY <1>1, <1>3, <1>5, <2>2 DEF Shares, OwnedOK, OthersSame
  <2> QED
    BY <2>1, <2>2 DEF OwnedOK
<1>11. NoneForgotten'
  <2>1. ASSUME NEW x \in live, NEW j \in Conns, Owns(work[j], x) PROVE Owns(work'[j], x)
    <3>1. j # k
      BY <1>1, <2>1, NullAssumption DEF TypeOK, Owns
    <3> QED
      BY <1>3, <2>1, <3>1 DEF OthersSame
  <2> QED
    BY <1>1, <1>3, <1>7, <2>1 DEF Shares, NoneForgotten
<1>12. RefsOK'
  <2>1. ASSUME NEW p \in Paths, IsStored(p)
        PROVE  WorksHolding(stored[p])' = WorksHolding(stored[p])
               /\ LostHolding(stored[p])' = LostHolding(stored[p])
    BY <1>1, <1>3, <1>6, <2>1 DEF WorksHolding, LostHolding, Holds, IsStored, OthersSame
  <2> QED
    BY <1>1, <2>1 DEF Shares, RefsOK, IsStored
<1> QED
  BY <1>8, <1>9, <1>10, <1>11, <1>12 DEF Shares

\* put: the entry passes from the Work that made it to the cache, which counts that
\* Work as its first holder.
LEMMA CachePutShares ==
    ASSUME TypeOK, WorksOK, Shares, NEW k \in Conns, CachePut(k)
    PROVE  Shares'
<1> DEFINE p == Path(k)
           o == work[k].c
<1>1. /\ work[k].pc = "put" /\ o # NoEntry /\ ~ work[k].resp_is_cached
      /\ p \in Paths /\ Kind[p] = "reg"
      /\ UNCHANGED <<live, lost>>
      /\ stored[p] = NoEntry
      /\ stored' = [stored EXCEPT ![p] = o] /\ refs' = [refs EXCEPT ![p] = 1]
  BY DEF CachePut, At, WorksOK, WorkOK, Path, Store, IsStored
<1>2. /\ OthersSame(k) /\ work'[k].pc = "output" /\ work'[k].resp_is_cached
      /\ work'[k].c = o /\ work'[k].path = p
  BY OutputFields DEF CachePut, OthersSame, Path
<1>3. Owning(work[k])
  BY <1>1 DEF Owning, Owns, Holds
<1>4. /\ o \in live /\ \A q \in Paths : stored[q] # o
      /\ \A j \in Conns \ {k} : work[j].c # o
      /\ \A i \in DOMAIN lost : lost[i].c # o
  BY <1>3 DEF Shares, OwnedOK
<1> HIDE DEF p, o
<1>5. stored'[p] = o /\ \A q \in Paths \ {p} : stored'[q] = stored[q]
  BY <1>1 DEF TypeOK
<1>6. refs'[p] = 1 /\ \A q \in Paths \ {p} : refs'[q] = refs[q]
  BY <1>1 DEF TypeOK
<1>7. Holding(work'[k]) /\ Holds(work'[k], o) /\ ~ Owning(work'[k])
  BY <1>1, <1>2 DEF Holding, Owning, Owns, Holds
<1>8. StoredOK'
  BY <1>1, <1>4, <1>5 DEF Shares, StoredOK, IsStored
<1>9. HeldOK'
  <2>1. ASSUME NEW j \in Conns, Holding(work'[j]) PROVE stored'[work'[j].path] = work'[j].c
    <3>1. CASE j = k
      BY <1>2, <1>5, <3>1
    <3>2. CASE j # k
      <4>1. work'[j] = work[j] /\ Holding(work[j]) /\ work[j].c # NoEntry
        BY <1>2, <2>1, <3>2 DEF OthersSame, Holding
      <4>2. stored[work[j].path] = work[j].c /\ work[j].path \in Paths
        BY <4>1 DEF Shares, HeldOK, WorksOK, WorkOK
      <4> QED
        BY <1>1, <1>5, <4>1, <4>2
    <3> QED
      BY <3>1, <3>2
  <2>2. ASSUME NEW i \in DOMAIN lost', Holding(lost'[i])
        PROVE  lost'[i].path \in Paths /\ stored'[lost'[i].path] = lost'[i].c
    <3>1. lost' = lost /\ lost[i].c # NoEntry
      BY <1>1, <2>2 DEF Holding
    <3>2. lost[i].path \in Paths /\ stored[lost[i].path] = lost[i].c
      BY <2>2, <3>1 DEF Shares, HeldOK
    <3> QED
      BY <1>1, <1>5, <3>1, <3>2
  <2> QED
    BY <2>1, <2>2 DEF HeldOK
<1>10. OwnedOK'
  <2>1. ASSUME NEW j \in Conns, Owning(work'[j])
        PROVE  /\ work'[j].c \in live'
               /\ \A q \in Paths : stored'[q] # work'[j].c
               /\ \A i \in Conns \ {j} : work'[i].c # work'[j].c
               /\ \A i \in DOMAIN lost' : lost'[i].c # work'[j].c
    <3>1. j # k /\ work'[j] = work[j] /\ Owning(work[j])
      BY <1>2, <1>7, <2>1 DEF OthersSame
    <3>2. \A i \in Conns : work'[i].c = work[i].c
      BY <1>2 DEF OthersSame, o
    <3>3. work[j].c # o
      BY <1>4, <3>1
    <3> QED
      BY <1>1, <1>5, <3>1, <3>2, <3>3 DEF Shares, OwnedOK
  <2>2. ASSUME NEW i \in DOMAIN lost', Owning(lost'[i])
        PROVE  /\ lost'[i].c \in live'
               /\ \A q \in Paths : stored'[q] # lost'[i].c
               /\ \A j \in Conns : work'[j].c # lost'[i].c
               /\ \A j \in DOMAIN lost' \ {i} : lost'[j].c # lost'[i].c
    <3>1. \A j \in Conns : work'[j].c = work[j].c
      BY <1>2 DEF OthersSame, o
    <3> QED
      BY <1>1, <1>4, <1>5, <2>2, <3>1 DEF Shares, OwnedOK
  <2> QED
    BY <2>1, <2>2 DEF OwnedOK
<1>11. NoneForgotten'
  <2> SUFFICES ASSUME NEW x \in live
               PROVE  \/ \E q \in Paths : stored'[q] = x
                      \/ \E j \in Conns : Owns(work'[j], x)
                      \/ \E i \in DOMAIN lost : Owns(lost[i], x)
    BY <1>1 DEF NoneForgotten
  <2>1. CASE \E i \in DOMAIN lost : Owns(lost[i], x)
    BY <2>1
  <2>2. ASSUME NEW q \in Paths, stored[q] = x PROVE \E r \in Paths : stored'[r] = x
    <3>1. x # NoEntry
      BY NullAssumption DEF TypeOK
    <3> QED
      BY <1>1, <1>5, <2>2, <3>1
  <2>3. ASSUME NEW j \in Conns, Owns(work[j], x)
        PROVE  (\E q \in Paths : stored'[q] = x) \/ Owns(work'[j], x)
    <3>1. CASE j = k
      BY <1>1, <1>5, <2>3, <3>1 DEF Owns, o
    <3>2. CASE j # k
      BY <1>2, <2>3, <3>2 DEF OthersSame
    <3> QED
      BY <3>1, <3>2
  <2> QED
    BY <2>1, <2>2, <2>3 DEF Shares, NoneForgotten
<1>12. RefsOK'
  <2>1. ASSUME NEW q \in Paths, IsStored(q)'
        PROVE  refs'[q] = Cardinality(WorksHolding(stored[q])')
                          + Cardinality(LostHolding(stored[q])')
    <3>1. CASE q = p
      <4>1. WorksHolding(stored[q])' = {k} /\ LostHolding(stored[q])' = {}
        BY <1>1, <1>2, <1>4, <1>5, <1>7, <3>1 DEF WorksHolding, LostHolding, Holds, OthersSame
      <4> QED
        BY <1>6, <3>1, <4>1, FS_Singleton, FS_EmptySet, SMTT(30)
    <3>2. CASE q # p
      <4>1. stored'[q] = stored[q] /\ IsStored(q) /\ stored[q] # o
        BY <1>4, <1>5, <2>1, <3>2 DEF IsStored
      <4>2. /\ WorksHolding(stored[q])' = WorksHolding(stored[q])
            /\ LostHolding(stored[q])' = LostHolding(stored[q])
        BY <1>1, <1>2, <4>1 DEF WorksHolding, LostHolding, Holds, OthersSame, o
      <4> QED
        BY <1>6, <3>2, <4>1, <4>2 DEF Shares, RefsOK
    <3> QED
      BY <3>1, <3>2
  <2> QED
    BY <2>1 DEF RefsOK
<1> QED
  BY <1>8, <1>9, <1>10, <1>11, <1>12 DEF Shares

\* reset by the Work that owns its entry: nobody else knows it.
LEMMA DeleteShares ==
    ASSUME TypeOK, WorksOK, Shares, NEW k \in Conns, Owning(work[k]),
           live' = live \ {work[k].c}, UNCHANGED <<stored, refs, lost>>,
           OthersSame(k), work'[k].c = NoEntry
    PROVE  Shares'
<1> DEFINE o == work[k].c
<1>1. /\ o # NoEntry /\ \A q \in Paths : stored[q] # o
      /\ \A j \in Conns \ {k} : work[j].c # o
      /\ \A i \in DOMAIN lost : lost[i].c # o
      /\ live' = live \ {o}
  BY DEF Shares, OwnedOK, Owning
<1>2. ~ Holding(work'[k]) /\ ~ Owning(work'[k]) /\ ~ Holding(work[k])
  BY DEF Holding, Owning, Owns
<1>3. StoredOK'
  BY <1>1 DEF Shares, StoredOK, IsStored
<1>4. HeldOK'
  BY <1>1, <1>2 DEF Shares, HeldOK, OthersSame
<1>5. OwnedOK'
  <2>1. ASSUME NEW j \in Conns, Owning(work'[j])
        PROVE  /\ work'[j].c \in live'
               /\ \A q \in Paths : stored'[q] # work'[j].c
               /\ \A i \in Conns \ {j} : work'[i].c # work'[j].c
               /\ \A i \in DOMAIN lost' : lost'[i].c # work'[j].c
    <3>1. j # k /\ work'[j] = work[j] /\ Owning(work[j]) /\ work[j].c # NoEntry
      BY <1>2, <2>1 DEF OthersSame, Owning
    <3>2. work[j].c # o
      BY <1>1, <3>1
    <3> QED
      BY <1>1, <3>1, <3>2 DEF Shares, OwnedOK, OthersSame
  <2>2. ASSUME NEW i \in DOMAIN lost', Owning(lost'[i])
        PROVE  /\ lost'[i].c \in live'
               /\ \A q \in Paths : stored'[q] # lost'[i].c
               /\ \A j \in Conns : work'[j].c # lost'[i].c
               /\ \A j \in DOMAIN lost' \ {i} : lost'[j].c # lost'[i].c
    <3>1. lost[i].c # NoEntry
      BY <2>2 DEF Owning
    <3> QED
      BY <1>1, <2>2, <3>1 DEF Shares, OwnedOK, OthersSame
  <2> QED
    BY <2>1, <2>2 DEF OwnedOK
<1>6. NoneForgotten'
  <2>1. ASSUME NEW x \in live \ {o}, NEW j \in Conns, Owns(work[j], x) PROVE Owns(work'[j], x)
    <3>1. j # k
      BY <2>1 DEF Owns
    <3> QED
      BY <2>1, <3>1 DEF OthersSame
  <2> QED
    BY <1>1, <2>1 DEF Shares, NoneForgotten
<1>7. RefsOK'
  <2>1. ASSUME NEW p \in Paths, IsStored(p)
        PROVE  WorksHolding(stored[p])' = WorksHolding(stored[p])
               /\ LostHolding(stored[p])' = LostHolding(stored[p])
    BY <1>1, <2>1 DEF WorksHolding, LostHolding, Holds, IsStored, OthersSame
  <2> QED
    BY <2>1 DEF Shares, RefsOK, IsStored
<1> QED
  BY <1>3, <1>4, <1>5, <1>6, <1>7 DEF Shares

\* A Work is destroyed: what it held or owned stays so for ever.
LEMMA AbortShares ==
    ASSUME TypeOK, WorksOK, Shares, NEW k \in Conns, Abort(k)
    PROVE  Shares'
<1> DEFINE w == work[k]
           n == Len(lost) + 1
<1>1. /\ w.c # NoEntry /\ w.path \in Paths /\ w.pc = "send" /\ lost' = Append(lost, w)
      /\ UNCHANGED <<stored, refs, live>>
  BY DEF Abort, At, WorksOK, WorkOK, cachevars, heapvars
<1>2. OthersSame(k) /\ work'[k].c = NoEntry
  BY EndFields DEF OthersSame
<1>3. /\ DOMAIN lost' = DOMAIN lost \cup {n} /\ n \notin DOMAIN lost
      /\ \A i \in DOMAIN lost : lost'[i] = lost[i]
      /\ lost'[n] = w
  BY <1>1 DEF TypeOK
<1>4. ~ Holding(work'[k]) /\ ~ Owning(work'[k])
  BY <1>2 DEF Holding, Owning
<1> HIDE DEF w, n
<1>5. StoredOK'
  BY <1>1 DEF Shares, StoredOK, IsStored
<1>6. HeldOK'
  <2>1. \A j \in Conns : Holding(work'[j]) => stored'[work'[j].path] = work'[j].c
    BY <1>1, <1>2, <1>4 DEF Shares, HeldOK, OthersSame
  <2>2. \A i \in DOMAIN lost' :
           Holding(lost'[i]) => lost'[i].path \in Paths /\ stored'[lost'[i].path] = lost'[i].c
    BY <1>1, <1>3 DEF Shares, HeldOK, w
  <2> QED
    BY <2>1, <2>2 DEF HeldOK
<1>7. OwnedOK'
  <2>1. ASSUME NEW j \in Conns, Owning(work'[j])
        PROVE  /\ work'[j].c \in live'
               /\ \A q \in Paths : stored'[q] # work'[j].c
               /\ \A i \in Conns \ {j} : work'[i].c # work'[j].c
               /\ \A i \in DOMAIN lost' : lost'[i].c # work'[j].c
    <3>1. j # k /\ work'[j] = work[j] /\ Owning(work[j]) /\ work[j].c # NoEntry
      BY <1>2, <1>4, <2>1 DEF OthersSame, Owning
    <3>2. /\ work[j].c \in live
          /\ \A q \in Paths : stored[q] # work[j].c
          /\ \A i \in Conns \ {j} : work[i].c # work[j].c
          /\ \A i \in DOMAIN lost : lost[i].c # work[j].c
      BY <3>1 DEF Shares, OwnedOK
    <3>3. \A i \in DOMAIN lost' : lost'[i].c # work[j].c
      BY <1>3, <3>1, <3>2 DEF w
    <3>4. \A i \in Conns \ {j} : work'[i].c # work[j].c
      BY <1>2, <3>1, <3>2 DEF OthersSame
    <3> QED
      BY <1>1, <3>1, <3>2, <3>3, <3>4
  <2>2. ASSUME NEW i \in DOMAIN lost', Owning(lost'[i])
        PROVE  /\ lost'[i].c \in live'
               /\ \A q \in Paths : stored'[q] # lost'[i].c
               /\ \A j \in Conns : work'[j].c # lost'[i].c
               /\ \A j \in DOMAIN lost' \ {i} : lost'[j].c # lost'[i].c
    <3>1. CASE i = n
      <4>1. lost'[i] = work[k] /\ Owning(work[k]) /\ work[k].c # NoEntry
        BY <1>3, <2>2, <3>1 DEF w, Owning
      <4>2. /\ work[k].c \in live
            /\ \A q \in Paths : stored[q] # work[k].c
            /\ \A j \in Conns \ {k} : work[j].c # work[k].c
            /\ \A j \in DOMAIN lost : lost[j].c # work[k].c
        BY <4>1 DEF Shares, OwnedOK
      <4>3. \A j \in Conns : work'[j].c # work[k].c
        BY <1>2, <4>1, <4>2 DEF OthersSame
      <4>4. \A j \in DOMAIN lost' \ {i} : lost'[j].c # work[k].c
        BY <1>3, <3>1, <4>2
      <4> QED
        BY <1>1, <4>1, <4>2, <4>3, <4>4
    <3>2. CASE i # n
      <4>1. i \in DOMAIN lost /\ lost'[i] = lost[i] /\ Owning(lost[i]) /\ lost[i].c # NoEntry
        BY <1>3, <2>2, <3>2 DEF Owning
      <4>2. /\ lost[i].c \in live
            /\ \A q \in Paths : stored[q] # lost[i].c
            /\ \A j \in Conns : work[j].c # lost[i].c
            /\ \A j \in DOMAIN lost \ {i} : lost[j].c # lost[i].c
        BY <4>1 DEF Shares, OwnedOK
      <4>3. \A j \in Conns : work'[j].c # lost[i].c
        BY <1>2, <4>1, <4>2 DEF OthersSame
      <4>4. \A j \in DOMAIN lost' \ {i} : lost'[j].c # lost[i].c
        BY <1>3, <4>2 DEF w
      <4> QED
        BY <1>1, <4>1, <4>2, <4>3, <4>4
    <3> QED
      BY <3>1, <3>2
  <2> QED
    BY <2>1, <2>2 DEF OwnedOK
<1>8. NoneForgotten'
  <2>1. ASSUME NEW x \in live, NEW j \in Conns, Owns(work[j], x)
        PROVE  Owns(work'[j], x) \/ Owns(lost'[n], x)
    BY <1>2, <1>3, <2>1 DEF OthersSame, w
  <2>2. ASSUME NEW x \in live, NEW i \in DOMAIN lost, Owns(lost[i], x)
        PROVE  i \in DOMAIN lost' /\ Owns(lost'[i], x)
    BY <1>3, <2>2
  <2>3. n \in DOMAIN lost'
    BY <1>3
  <2> QED
    BY <1>1, <2>1, <2>2, <2>3 DEF Shares, NoneForgotten
<1>9. RefsOK'
  <2>1. ASSUME NEW q \in Paths, IsStored(q)
        PROVE  refs[q] = Cardinality(WorksHolding(stored[q])')
                          + Cardinality(LostHolding(stored[q])')
    <3> DEFINE W == WorksHolding(stored[q])
               L == LostHolding(stored[q])
    <3>1. refs[q] = Cardinality(W) + Cardinality(L)
      BY <2>1 DEF Shares, RefsOK
    <3>2. W \subseteq Conns /\ L \subseteq DOMAIN lost
      BY DEF WorksHolding, LostHolding
    <3>3. CASE Holds(work[k], stored[q])
      <4>1. WorksHolding(stored[q])' = W \ {k} /\ k \in W
        BY <1>1, <1>2, <2>1, <3>3 DEF WorksHolding, Holds, OthersSame, IsStored
      <4>2. LostHolding(stored[q])' = L \cup {n} /\ n \notin L
        BY <1>1, <1>3, <3>3 DEF LostHolding, w
      <4> HIDE DEF W, L
      <4>3. /\ IsFiniteSet(W) /\ Cardinality(W) \in Nat
            /\ IsFiniteSet(L) /\ Cardinality(L) \in Nat
        BY <3>2, Countable
      <4>4. Cardinality(W \ {k}) = Cardinality(W) - 1
        BY <4>1, <4>3, FS_RemoveElement
      <4>5. Cardinality(L \cup {n}) = Cardinality(L) + 1
        BY <4>2, <4>3, FS_AddElement
      <4> QED
        BY <3>1, <4>1, <4>2, <4>3, <4>4, <4>5
    <3>4. CASE ~ Holds(work[k], stored[q])
      <4>1. WorksHolding(stored[q])' = W
        BY <1>1, <1>2, <2>1, <3>4 DEF WorksHolding, Holds, OthersSame, IsStored
      <4>2. LostHolding(stored[q])' = L
        BY <1>1, <1>3, <3>4 DEF LostHolding, w
      <4> QED
        BY <3>1, <4>1, <4>2
    <3> QED
      BY <3>3, <3>4
  <2> QED
    BY <1>1, <2>1 DEF RefsOK, IsStored
<1> QED
  BY <1>5, <1>6, <1>7, <1>8, <1>9 DEF Shares

\* The cache drops an entry that nobody holds.
LEMMA EvictShares ==
    ASSUME TypeOK, WorksOK, Shares, NEW p \in Paths, Evict(p)
    PROVE  Shares'
<1> DEFINE o == stored[p]
<1>1. /\ o # NoEntry /\ refs[p] = 0 /\ stored' = [stored EXCEPT ![p] = NoEntry]
      /\ live' = live \ {o} /\ UNCHANGED <<refs, work, lost>>
  BY DEF Evict, Drop, IsStored
<1>2. /\ \A k \in Conns : ~ Holds(work[k], o)
      /\ \A i \in DOMAIN lost : ~ Holds(lost[i], o)
  <2> DEFINE W == WorksHolding(o)
             L == LostHolding(o)
  <2>1. 0 = Cardinality(W) + Cardinality(L)
    BY <1>1 DEF Shares, RefsOK, IsStored
  <2>2. W \subseteq Conns /\ L \subseteq DOMAIN lost
    BY DEF WorksHolding, LostHolding
  <2> HIDE DEF W, L
  <2>3. /\ IsFiniteSet(W) /\ Cardinality(W) \in Nat
        /\ IsFiniteSet(L) /\ Cardinality(L) \in Nat
    BY <2>2, Countable
  <2>4. Cardinality(W) = 0 /\ Cardinality(L) = 0
    BY <2>1, <2>3
  <2>5. W = {} /\ L = {}
    BY <2>3, <2>4, FS_EmptySet
  <2> QED
    BY <2>5 DEF W, L, WorksHolding, LostHolding
<1>3. \A q \in Paths \ {p} : stored'[q] = stored[q]
  BY <1>1 DEF TypeOK
<1>4. stored'[p] = NoEntry
  BY <1>1 DEF TypeOK
<1>5. \A q \in Paths \ {p} : IsStored(q) => stored[q] # o
  BY <1>1 DEF Shares, StoredOK, IsStored
<1> HIDE DEF o
<1>6. StoredOK'
  BY <1>1, <1>3, <1>4, <1>5 DEF Shares, StoredOK, IsStored
<1>7. HeldOK'
  <2>1. ASSUME NEW k \in Conns, Holding(work[k]) PROVE stored'[work[k].path] = work[k].c
    <3>1. work[k].path \in Paths /\ stored[work[k].path] = work[k].c
      BY <2>1 DEF Shares, HeldOK, WorksOK, WorkOK, Holding
    <3>2. work[k].path # p
      BY <1>2, <2>1, <3>1 DEF Holding, o
    <3> QED
      BY <1>3, <3>1, <3>2
  <2>2. ASSUME NEW i \in DOMAIN lost, Holding(lost[i])
        PROVE  lost[i].path \in Paths /\ stored'[lost[i].path] = lost[i].c
    <3>1. lost[i].path \in Paths /\ stored[lost[i].path] = lost[i].c
      BY <2>2 DEF Shares, HeldOK
    <3>2. lost[i].path # p
      BY <1>2, <2>2, <3>1 DEF Holding, o
    <3> QED
      BY <1>3, <3>1, <3>2
  <2> QED
    BY <1>1, <2>1, <2>2 DEF HeldOK
<1>8. OwnedOK'
  <2>1. ASSUME NEW w, w.c # NoEntry, w.c \in live, \A q \in Paths : stored[q] # w.c
        PROVE  w.c \in live' /\ \A q \in Paths : stored'[q] # w.c
    BY <1>1, <1>3, <1>4, <2>1 DEF o
  <2> QED
    BY <1>1, <2>1 DEF Shares, OwnedOK, Owning
<1>9. NoneForgotten'
  BY <1>1, <1>3, <1>5 DEF Shares, NoneForgotten, o
<1>10. RefsOK'
  <2>1. ASSUME NEW q \in Paths, IsStored(q)'
        PROVE  refs'[q] = Cardinality(WorksHolding(stored[q])')
                          + Cardinality(LostHolding(stored[q])')
    <3>1. q # p /\ stored'[q] = stored[q] /\ IsStored(q)
      BY <1>3, <1>4, <2>1 DEF IsStored
    <3>2. /\ WorksHolding(stored[q])' = WorksHolding(stored[q])
          /\ LostHolding(stored[q])' = LostHolding(stored[q])
      BY <1>1, <3>1 DEF WorksHolding, LostHolding
    <3> QED
      BY <1>1, <3>1, <3>2 DEF Shares, RefsOK
  <2> QED
    BY <2>1 DEF RefsOK
<1> QED
  BY <1>6, <1>7, <1>8, <1>9, <1>10 DEF Shares

\* Every step of a Work keeps the shares.
LEMMA SharesStepOK ==
    ASSUME Inv, NEW k \in Conns, Prepare(k) \/ Receive(k) \/ Reset(k) \/ Fail(k)
    PROVE  Shares'
<1>1. TypeOK /\ WorksOK /\ Shares /\ WorkOK(work[k])
  BY DEF Inv, WorksOK, Shares
<1>2. ASSUME OthersSame(k), KeepsEntry(k), UNCHANGED <<stored, refs, live, lost>>
      PROVE  Shares'
  <2>1. \A j \in Conns : KeepsEntry(j)
    BY <1>2 DEF OthersSame, KeepsEntry
  <2> QED
    BY <1>1, <1>2, <2>1, QuietShares
<1>3. ASSUME Throw(k), work[k].pc # "check", UNCHANGED <<stored, refs, live, lost>>
      PROVE  Shares'
  BY <1>1, <1>2, <1>3, ThrowFields DEF OthersSame, KeepsEntry, Holds
<1>4. ASSUME Goto(k, "dir") \/ Goto(k, "socket") \/ Goto(k, "open")
               \/ Goto(k, "write") \/ Goto(k, "advise"),
             work[k].pc # "check", UNCHANGED <<stored, refs, live, lost>>
      PROVE  Shares'
  BY <1>1, <1>2, <1>4, GotoFields DEF OthersSame, KeepsEntry, Holds
<1>5. CASE Receive(k)
  <2>1. UNCHANGED <<stored, refs, live, lost>>
    BY <1>5 DEF Receive, cachevars, heapvars
  <2> QED
    BY <1>1, <1>2, <1>5, <2>1, ReceiveFields DEF OthersSame, KeepsEntry
<1>6. CASE Hit(k)
  BY <1>1, <1>6, HitShares
<1>7. CASE Miss(k)
  <2>1. UNCHANGED <<stored, refs, live, lost>> /\ work[k].c = NoEntry
    BY <1>1, <1>7 DEF Miss, At, WorkOK, cachevars, heapvars
  <2> QED
    BY <1>1, <1>2, <1>7, <2>1, MissFields DEF OthersSame, KeepsEntry
<1>8. CASE Refuse(k)
  <2>1. /\ UNCHANGED <<live, lost>> /\ GiveBack(Path(k)) /\ Holding(work[k])
    BY <1>1, <1>8 DEF Refuse, Decline, At, WorkOK, heapvars, Holding, Holds
  <2>2. work'[k].c = NoEntry /\ OthersSame(k)
    <3>1. ~ Miss(k)
      BY <1>8 DEF Miss, Refuse, At
    <3> QED
      BY <1>1, <1>8, <3>1, MissFields DEF OthersSame
  <2> QED
    BY <1>1, <2>1, <2>2, GiveBackShares
<1>9. CASE UseFresh(k) \/ UseStale(k) \/ CachePutRefused(k)
  <2>1. PICK b \in BOOLEAN :
           /\ Become(k, [work[k] EXCEPT !.pc = "output", !.resp_is_cached = b])
           /\ b <=> work[k].pc = "check"
    BY <1>9 DEF UseFresh, UseStale, CachePutRefused, Refused, At
  <2>2. UNCHANGED <<stored, refs, live, lost>> /\ work[k].pc \in {"check", "put"}
    BY <1>9 DEF UseFresh, UseStale, CachePutRefused, At, Doom, cachevars, heapvars
  <2> QED
    BY <1>1, <1>2, <2>1, <2>2, OutputFields DEF OthersSame, KeepsEntry, Holds, WorkOK
<1>10. CASE CachePut(k)
  BY <1>1, <1>10, CachePutShares
<1>11. CASE Stat(k)
  <2>1. /\ UNCHANGED <<stored, refs, live, lost>> /\ work[k].pc = "stat" /\ Path(k) \in Paths
        /\ work[k].c = NoEntry
    BY <1>11, <1>1, StatSplit DEF Stat, At, cachevars, heapvars, WorkOK
  <2>2. ASSUME Become(k, [work[k] EXCEPT !.pc = "read", !.st =
                   [size |-> size[Path(k)], modified |-> Modified(Path(k)), at |-> clock]])
        PROVE  Shares'
    BY <1>1, <1>2, <2>1, <2>2, StatFields DEF OthersSame, KeepsEntry
  <2> QED
    BY <1>1, <1>3, <1>4, <1>11, <2>1, <2>2, StatSplit
<1>12. CASE StatPut(k)
  <2>1. UNCHANGED <<stored, refs, live, lost>> /\ work[k].pc = "stat_put"
    BY <1>12 DEF StatPut, At, cachevars, heapvars
  <2> QED
    BY <1>1, <1>3, <1>4, <1>12, <2>1, StatPutSplit
<1>13. CASE Read(k) \/ ListDirectory(k)
  BY <1>1, <1>13, NewEntryShares
<1>14. CASE OriginFails(k) \/ UncompressFails(k) \/ SocketAnswers(k) \/ PutFails(k) \/ Advise(k)
  BY <1>3, <1>14
  DEF OriginFails, UncompressFails, SocketAnswers, PutFails, Advise, At, Invalidate, Doom,
      cachevars, heapvars
<1>15. CASE OpenPut(k) \/ WritePut(k)
  BY <1>4, <1>15 DEF OpenPut, WritePut, At, cachevars, heapvars
<1>16. CASE Emit(k)
  <2>1. UNCHANGED <<stored, refs, live, lost>> /\ work[k].pc = "emit"
    BY <1>16 DEF Emit, At, cachevars
  <2> QED
    BY <1>1, <1>2, <1>16, <2>1, EmitFields DEF OthersSame, KeepsEntry, Holds
<1>17. CASE Manipulate(k)
  <2>1. UNCHANGED <<stored, refs, live, lost>> /\ work[k].pc = "output"
    BY <1>17 DEF Manipulate, At, cachevars
  <2>2. \A j \in Conns : KeepsEntry(j)
    <3>1. KeepsEntry(k)
      BY <1>1, <1>17, <2>1, ManipulateFields DEF KeepsEntry, Holds
    <3>2. \A j \in Conns \ {k} : KeepsEntry(j)
      BY <1>1, <1>17, ManipulateFields, ZenonT(60) DEF KeepsEntry, Holds
    <3> QED
      BY <3>1, <3>2
  <2> QED
    BY <1>1, <2>1, <2>2, QuietShares
<1>18. CASE Reset(k)
  <2>1. OthersSame(k) /\ work'[k].c = NoEntry /\ work[k].pc = "send" /\ UNCHANGED lost
    BY <1>1, <1>18, EndFields DEF OthersSame, Reset, At
  <2>2. CASE work[k].resp_is_cached /\ Path(k) # NoPath
    <3>1. Holding(work[k]) /\ GiveBack(Path(k)) /\ UNCHANGED live
      BY <1>1, <1>18, <2>1, <2>2 DEF Reset, WorkOK, Holding, Holds, Path, heapvars
    <3> QED
      BY <1>1, <2>1, <3>1, GiveBackShares
  <2>3. CASE ~ work[k].resp_is_cached /\ work[k].c # NoEntry
    <3>1. Owning(work[k]) /\ live' = live \ {work[k].c} /\ UNCHANGED <<stored, refs>>
      BY <1>18, <2>1, <2>3 DEF Reset, Deleted, Owning, Owns, Holds, cachevars
    <3> QED
      BY <1>1, <2>1, <3>1, DeleteShares
  <2>4. CASE work[k].c = NoEntry /\ (~ work[k].resp_is_cached \/ Path(k) = NoPath)
    <3>1. UNCHANGED <<stored, refs, live>>
      BY <1>18, <2>4 DEF Reset, Deleted, cachevars, heapvars
    <3> QED
      BY <1>2, <2>1, <2>4, <3>1 DEF KeepsEntry
  <2>5. work[k].c # NoEntry => Path(k) # NoPath
    BY <1>1, NullAssumption DEF WorkOK, Path
  <2> QED
    BY <2>2, <2>3, <2>4, <2>5
<1>19. CASE Abort(k)
  BY <1>1, <1>19, AbortShares
<1> QED
  BY <1>5, <1>6, <1>7, <1>8, <1>9, <1>10, <1>11, <1>12, <1>13, <1>14, <1>15, <1>16, <1>17,
     <1>18, <1>19
  DEF Prepare, Fail

----------------------------------------------------------------------------
(* FlagsOK and HeadersMatchBody *)

FlagsMatch == FlagsOK /\ HeadersMatchBody

\* The flags of an entry.
NoFlags(e) == ~ e.omit_body /\ ~ e.asif_uncompressed

\* A step of Works that are not about to output, and do not become so, which leaves
\* the flags of entries alone, except of those that are none's to output.
LEMMA FlagsKept ==
    ASSUME FlagsMatch,
           \A j \in Conns :
               \/ work'[j] = work[j]
               \/ /\ work[j].pc # "emit" /\ work'[j].pc # "emit"
                  /\ work'[j].pc = "send" => work'[j].announced = work'[j].how,
           \A o \in Entries :
               \/ /\ entry'[o].omit_body = entry[o].omit_body
                  /\ entry'[o].asif_uncompressed = entry[o].asif_uncompressed
               \/ NoFlags(entry'[o]) /\ \A j \in Conns : ~ Emitting(j, o),
           \A j \in Conns : At(j, "emit") => work[j].c \in Entries
    PROVE  FlagsMatch'
<1>1. \A j \in Conns, o \in Entries : Emitting(j, o)' <=> Emitting(j, o)
  BY DEF Emitting, At
<1>2. \A o \in Entries : (\A j \in Conns : ~ Emitting(j, o)') => NoFlags(entry'[o])
  BY <1>1 DEF FlagsMatch, FlagsOK, NoFlags
<1>3. ASSUME NEW j \in Conns, At(j, "emit")', ~ work'[j].shared
      PROVE  /\ work'[j].how # "oops"
             /\ entry'[work'[j].c].omit_body = (work'[j].how = "head")
             /\ entry'[work'[j].c].asif_uncompressed = (work'[j].how = "identity")
             /\ \A i \in Conns \ {j} : ~ Emitting(i, work[j].c)'
  <2>1. work'[j] = work[j] /\ At(j, "emit") /\ ~ work[j].shared
    BY <1>3 DEF At
  <2>2. Emitting(j, work[j].c) /\ work[j].c \in Entries
    BY <2>1 DEF Emitting
  <2>3. /\ entry'[work[j].c].omit_body = entry[work[j].c].omit_body
        /\ entry'[work[j].c].asif_uncompressed = entry[work[j].c].asif_uncompressed
    BY <2>2
  <2> QED
    BY <1>1, <2>1, <2>2, <2>3 DEF FlagsMatch, FlagsOK
<1>4. HeadersMatchBody'
  BY DEF FlagsMatch, HeadersMatchBody, At
<1>5. FlagsOK'
  BY <1>2, <1>3 DEF FlagsOK, NoFlags
<1> QED
  BY <1>4, <1>5 DEF FlagsMatch

\* Where the entries are left alone.
LEMMA FlagsQuiet ==
    ASSUME TypeOK, WorksOK, FlagsMatch, UNCHANGED entry, NEW k \in Conns, OthersSame(k),
           work[k].pc # "emit", work'[k].pc # "emit",
           work'[k].pc = "send" => work'[k].announced = work'[k].how
    PROVE  FlagsMatch'
<1>1. \A j \in Conns : At(j, "emit") => work[j].c \in Entries
  BY DEF TypeOK, WorkType, WorksOK, WorkOK, At
<1>2. \A j \in Conns :
         \/ work'[j] = work[j]
         \/ /\ work[j].pc # "emit" /\ work'[j].pc # "emit"
            /\ work'[j].pc = "send" => work'[j].announced = work'[j].how
  BY DEF OthersSame
<1> QED
  BY <1>1, <1>2, FlagsKept

\* The Work k is about to output the entry that it manipulates; it shares it with
\* those already about to.
LEMMA ManipulateFlags ==
    ASSUME TypeOK, WorksOK, FlagsMatch, NEW k \in Conns, Manipulate(k)
    PROVE  FlagsMatch'
<1>0. PICK o, how : o = work[k].c /\ how = HowToSend(k)
  OBVIOUS
<1>1. work[k].pc = "output" /\ o \in Entries
      /\ entry' = [entry EXCEPT ![o] = Manipulated(entry[o], how)]
  BY <1>0 DEF TypeOK, WorkType, WorksOK, WorkOK, Manipulate, At
<1>2. /\ work'[k].pc = "emit" /\ work'[k].how = how /\ how \in {"head", "identity", "gzip"}
      /\ work'[k].c = o /\ work'[k].shared = (\E j \in Conns : Emitting(j, o))
  BY <1>0, ManipulateFields
<1>3. \A j \in Conns \ {k} :
         /\ work'[j].pc = work[j].pc /\ work'[j].c = work[j].c
         /\ work'[j].how = work[j].how /\ work'[j].announced = work[j].announced
         /\ work'[j].shared = (work[j].shared \/ Emitting(j, o))
  BY <1>0, ManipulateFields
<1>4. \A x \in Entries \ {o} : entry'[x] = entry[x]
  BY <1>1 DEF TypeOK
<1>5. \A j \in Conns \ {k} : \A x : Emitting(j, x)' <=> Emitting(j, x)
  BY <1>3 DEF Emitting, At
<1>6. Emitting(k, o)'
  BY <1>2 DEF Emitting, At
<1>7. ASSUME NEW x \in Entries, \A j \in Conns : ~ Emitting(j, x)' PROVE NoFlags(entry'[x])
  <2>1. x # o
    BY <1>6, <1>7
  <2>2. \A j \in Conns : ~ Emitting(j, x)
    BY <1>1, <1>5, <1>7 DEF Emitting, At
  <2> QED
    BY <1>4, <2>1, <2>2 DEF FlagsMatch, FlagsOK, NoFlags
<1>8. ASSUME NEW j \in Conns, At(j, "emit")', ~ work'[j].shared
      PROVE  /\ work'[j].how # "oops"
             /\ entry'[work'[j].c].omit_body = (work'[j].how = "head")
             /\ entry'[work'[j].c].asif_uncompressed = (work'[j].how = "identity")
             /\ \A i \in Conns \ {j} : ~ Emitting(i, work[j].c)'
  <2>1. CASE j = k
    <3>1. \A i \in Conns : ~ Emitting(i, o)
      BY <1>2, <1>8, <2>1
    <3>2. NoFlags(entry[o]) /\ entry[o] \in Entry(Nat, 0 .. MaxClock)
      BY <1>1, <3>1 DEF FlagsMatch, FlagsOK, NoFlags, TypeOK
    <3>3. entry'[o] = Manipulated(entry[o], how)
      BY <1>1 DEF TypeOK
    <3>4. /\ entry'[o].omit_body = (how = "head")
          /\ entry'[o].asif_uncompressed = (how = "identity")
      <4>0. entry[o].omit_body = FALSE /\ entry[o].asif_uncompressed = FALSE
        BY <3>2 DEF NoFlags, Entry
      <4>1. CASE how = "head"
        BY <3>2, <3>3, <4>0, <4>1 DEF Manipulated, Entry
      <4>2. CASE how = "identity"
        BY <3>2, <3>3, <4>0, <4>2 DEF Manipulated, Entry
      <4>3. CASE how = "gzip"
        BY <3>3, <4>0, <4>3 DEF Manipulated
      <4> QED
        BY <1>2, <4>1, <4>2, <4>3
    <3>5. \A i \in Conns \ {j} : ~ Emitting(i, o)'
      BY <1>5, <2>1, <3>1
    <3> QED
      BY <1>2, <2>1, <3>4, <3>5
  <2>2. CASE j # k
    <3>1. /\ At(j, "emit") /\ ~ work[j].shared /\ ~ Emitting(j, o)
          /\ work'[j].c = work[j].c /\ work'[j].how = work[j].how
      BY <1>3, <1>8, <2>2 DEF At
    <3>2. work[j].c # o /\ work[j].c \in Entries
      BY <3>1 DEF Emitting, At, TypeOK, WorkType, WorksOK, WorkOK
    <3>3. entry'[work[j].c] = entry[work[j].c]
      BY <1>4, <3>2
    <3>4. \A i \in Conns \ {j} : ~ Emitting(i, work[j].c)
      BY <3>1 DEF FlagsMatch, FlagsOK
    <3>5. \A i \in Conns \ {j} : ~ (work'[i].pc = "emit" /\ work'[i].c = work[j].c)
      BY <1>2, <1>3, <3>2, <3>4 DEF Emitting, At
    <3>6. \A i \in Conns \ {j} : ~ Emitting(i, work[j].c)'
      BY <3>1, <3>5 DEF Emitting, At
    <3> QED
      BY <3>1, <3>3, <3>6 DEF FlagsMatch, FlagsOK
  <2> QED
    BY <2>1, <2>2
<1>9. FlagsOK'
  BY <1>7, <1>8 DEF FlagsOK, NoFlags
<1>10. HeadersMatchBody'
  <2>1. ASSUME NEW j \in Conns, At(j, "send")', ~ work'[j].shared
        PROVE  work'[j].announced = work'[j].how
    <3>1. j # k
      BY <1>2, <2>1 DEF At
    <3>2. At(j, "send") /\ ~ work[j].shared
      BY <1>3, <2>1, <3>1 DEF At
    <3> QED
      BY <1>3, <3>1, <3>2 DEF FlagsMatch, HeadersMatchBody
  <2> QED
    BY <2>1 DEF HeadersMatchBody
<1> QED
  BY <1>9, <1>10 DEF FlagsMatch

\* The Work k outputs the entry; the flags are off again.
LEMMA EmitFlags ==
    ASSUME TypeOK, WorksOK, FlagsMatch, NEW k \in Conns, Emit(k)
    PROVE  FlagsMatch'
<1> DEFINE o == work[k].c
<1>1. work[k].pc = "emit" /\ o \in Entries
      /\ entry' = [entry EXCEPT ![o] = AfterOutput(entry[o])]
  BY DEF TypeOK, WorkType, WorksOK, WorkOK, Emit, At
<1>2. /\ OthersSame(k) /\ work'[k].pc = "send" /\ work'[k].how = work[k].how
      /\ work'[k].shared = work[k].shared /\ work'[k].announced = Announced(entry[o])
  BY EmitFields DEF OthersSame
<1>3. work[k].how \in Forms /\ entry[o] \in Entry(Nat, 0 .. MaxClock)
  BY <1>1 DEF TypeOK, WorkType
<1> HIDE DEF o
<1>4. \A x \in Entries \ {o} : entry'[x] = entry[x]
  BY <1>1 DEF TypeOK
<1>5. NoFlags(entry'[o])
  <2>1. entry'[o] = AfterOutput(entry[o])
    BY <1>1 DEF TypeOK
  <2> QED
    BY <1>3, <2>1 DEF AfterOutput, Entry, NoFlags
<1>6. Emitting(k, o)
  BY <1>1 DEF Emitting, At, o
<1>7. \A j \in Conns \ {k} : \A x : Emitting(j, x)' <=> Emitting(j, x)
  BY <1>2 DEF Emitting, At, OthersSame
<1>8. \A x : ~ Emitting(k, x)'
  BY <1>2 DEF Emitting, At
<1>9. ASSUME NEW x \in Entries, \A j \in Conns : ~ Emitting(j, x)' PROVE NoFlags(entry'[x])
  <2>1. CASE x = o
    BY <1>5, <2>1
  <2>2. CASE x # o
    <3>1. \A j \in Conns : ~ Emitting(j, x)
      BY <1>7, <1>9, <2>2 DEF Emitting, o
    <3> QED
      BY <1>4, <2>2, <3>1 DEF FlagsMatch, FlagsOK, NoFlags
  <2> QED
    BY <2>1, <2>2
<1>10. ASSUME NEW j \in Conns, At(j, "emit")', ~ work'[j].shared
       PROVE  /\ work'[j].how # "oops"
              /\ entry'[work'[j].c].omit_body = (work'[j].how = "head")
              /\ entry'[work'[j].c].asif_uncompressed = (work'[j].how = "identity")
              /\ \A i \in Conns \ {j} : ~ Emitting(i, work[j].c)'
  <2>1. j # k
    BY <1>2, <1>10 DEF At
  <2>2. work'[j] = work[j] /\ At(j, "emit") /\ ~ work[j].shared
    BY <1>2, <1>10, <2>1 DEF At, OthersSame
  <2>3. \A i \in Conns \ {j} : ~ Emitting(i, work[j].c)
    BY <2>2 DEF FlagsMatch, FlagsOK
  <2>4. work[j].c # o /\ work[j].c \in Entries
    BY <1>6, <2>1, <2>2, <2>3 DEF At, TypeOK, WorkType, WorksOK, WorkOK
  <2>5. entry'[work[j].c] = entry[work[j].c]
    BY <1>4, <2>4
  <2>6. \A i \in Conns \ {j} : ~ Emitting(i, work[j].c)'
    BY <1>7, <1>8, <2>2, <2>3 DEF Emitting
  <2> QED
    BY <2>2, <2>5, <2>6 DEF FlagsMatch, FlagsOK
<1>11. FlagsOK'
  BY <1>9, <1>10 DEF FlagsOK, NoFlags
<1>12. HeadersMatchBody'
  <2>1. ASSUME ~ work[k].shared PROVE Announced(entry[o]) = work[k].how
    <3>1. /\ work[k].how # "oops"
          /\ entry[o].omit_body = (work[k].how = "head")
          /\ entry[o].asif_uncompressed = (work[k].how = "identity")
      BY <1>1, <2>1 DEF FlagsMatch, FlagsOK, At, o
    <3> QED
      BY <1>3, <3>1 DEF Announced, Forms
  <2>2. ASSUME NEW j \in Conns, At(j, "send")', ~ work'[j].shared
        PROVE  work'[j].announced = work'[j].how
    <3>1. CASE j = k
      BY <1>2, <2>1, <2>2, <3>1
    <3>2. CASE j # k
      BY <1>2, <2>2, <3>2 DEF FlagsMatch, HeadersMatchBody, OthersSame, At
    <3> QED
      BY <3>1, <3>2
  <2> QED
    BY <2>2 DEF HeadersMatchBody
<1> QED
  BY <1>11, <1>12 DEF FlagsMatch

\* What the steps of the Work k do that leave every entry as it is.
QuietStep(k) ==
    \/ Receive(k) \/ Hit(k) \/ Miss(k) \/ Refuse(k) \/ UseFresh(k) \/ CachePutRefused(k)
    \/ Stat(k) \/ StatPut(k) \/ OpenPut(k) \/ WritePut(k) \/ Advise(k)
    \/ OriginFails(k) \/ UncompressFails(k) \/ SocketAnswers(k) \/ PutFails(k)
    \/ Abort(k)

LEMMA QuietFields ==
    ASSUME TypeOK, WorksOK, NEW k \in Conns, QuietStep(k)
    PROVE  /\ UNCHANGED <<clock, stored, live, entry>> /\ OthersSame(k)
           /\ work[k].pc # "emit" /\ work'[k].pc \notin {"emit", "put"}
           /\ work'[k].pc = "send" => work'[k].announced = work'[k].how
<1>1. UNCHANGED <<clock, stored, live, entry>> /\ work[k].pc # "emit"
  BY DEF QuietStep, Receive, Hit, Miss, Refuse, UseFresh, CachePutRefused, Stat, StatPut,
         OpenPut, WritePut, Advise, OriginFails, UncompressFails, SocketAnswers, PutFails, Abort,
         At, Take, Decline, GiveBack, Invalidate, Doom, cachevars, heapvars
<1> DEFINE Goal == /\ OthersSame(k) /\ work'[k].pc \notin {"emit", "put"}
                   /\ work'[k].pc = "send" => work'[k].announced = work'[k].how
<1>2. ASSUME Throw(k) PROVE Goal
  BY <1>2, ThrowFields DEF OthersSame
<1>3. ASSUME Goto(k, "dir") \/ Goto(k, "socket") \/ Goto(k, "open")
               \/ Goto(k, "write") \/ Goto(k, "advise")
      PROVE  Goal
  BY <1>3, GotoFields DEF OthersSame
<1>4. CASE Receive(k)
  BY <1>1, <1>4, ReceiveFields DEF OthersSame
<1>5. CASE Hit(k)
  <2>1. Path(k) \in Paths
    BY <1>5 DEF Hit, At, Path, WorksOK, WorkOK
  <2> QED
    BY <1>1, <1>5, <2>1, HitFields DEF OthersSame
<1>6. CASE Miss(k) \/ Refuse(k)
  BY <1>1, <1>6, MissFields DEF OthersSame
<1>7. CASE UseFresh(k) \/ CachePutRefused(k)
  <2>1. PICK b \in BOOLEAN : Become(k, [work[k] EXCEPT !.pc = "output", !.resp_is_cached = b])
    BY <1>7 DEF UseFresh, CachePutRefused, Refused
  <2> QED
    BY <1>1, <2>1, OutputFields DEF OthersSame
<1>8. CASE Stat(k)
  <2>1. ASSUME Become(k, [work[k] EXCEPT !.pc = "read", !.st =
                   [size |-> size[Path(k)], modified |-> Modified(Path(k)), at |-> clock]])
        PROVE  Goal
    BY <1>8, <2>1, StatSplit, StatFields DEF OthersSame
  <2>2. Goal
    BY <1>2, <1>3, <1>8, <2>1, StatSplit
  <2> QED
    BY <1>1, <2>2
<1>9. CASE StatPut(k)
  <2>1. Goal
    BY <1>2, <1>3, <1>9, StatPutSplit
  <2> QED
    BY <1>1, <2>1
<1>10. CASE OriginFails(k) \/ UncompressFails(k) \/ SocketAnswers(k) \/ PutFails(k) \/ Advise(k)
  <2>1. Throw(k)
    BY <1>10 DEF OriginFails, UncompressFails, SocketAnswers, PutFails, Advise
  <2> QED
    BY <1>1, <1>2, <2>1
<1>11. CASE OpenPut(k) \/ WritePut(k)
  <2>1. Goto(k, "write") \/ Goto(k, "advise")
    BY <1>11 DEF OpenPut, WritePut
  <2> QED
    BY <1>1, <1>3, <2>1
<1>12. CASE Abort(k)
  BY <1>1, <1>12, EndFields DEF OthersSame
<1> QED
  BY <1>4, <1>5, <1>6, <1>7, <1>8, <1>9, <1>10, <1>11, <1>12 DEF QuietStep

\* What reset does: the reference is given back, or the entry that is this Work's own
\* is blank, if it has one.
LEMMA ResetFields ==
    ASSUME TypeOK, WorksOK, Shares, NEW k \in Conns, Reset(k)
    PROVE  /\ UNCHANGED <<clock, filevars, stored, doomed>> /\ OthersSame(k)
           /\ work[k].pc = "send" /\ work'[k].pc = "idle"
           /\ \A o \in Entries :
                 \/ entry'[o] = entry[o]
                 \/ /\ entry'[o] = Blank
                    /\ \A j \in Conns \ {k} : work[j].c # o
                    /\ \A p \in Paths : stored[p] # o
<1>1. /\ OthersSame(k) /\ work'[k].pc = "idle"
  BY EndFields DEF OthersSame
<1>2. /\ UNCHANGED <<clock, filevars, stored, doomed>> /\ work[k].pc = "send"
  BY DEF Reset, At, GiveBack, cachevars
<1>3. CASE work[k].resp_is_cached
  <2>1. UNCHANGED entry
    BY <1>3 DEF Reset, heapvars
  <2> QED
    BY <1>1, <1>2, <2>1
<1>4. CASE ~ work[k].resp_is_cached
  <2>1. entry' = [o \in Entries |-> IF o \in Deleted(k) THEN Blank ELSE entry[o]]
    BY <1>4 DEF Reset
  <2>2. CASE work[k].c = NoEntry
    <3>1. Deleted(k) = {}
      BY <2>2 DEF Deleted
    <3>2. \A o \in Entries : entry'[o] = entry[o]
      BY <2>1, <3>1
    <3> QED
      BY <1>1, <1>2, <3>2
  <2>3. CASE work[k].c # NoEntry
    <3>1. Deleted(k) = {work[k].c}
      BY <2>3 DEF Deleted
    <3>2. Owning(work[k])
      BY <1>2, <1>4, <2>3 DEF Owning, Owns, Holds
    <3>3. /\ \A j \in Conns \ {k} : work[j].c # work[k].c
          /\ \A p \in Paths : stored[p] # work[k].c
      BY <3>2 DEF Shares, OwnedOK
    <3>4. \A o \in Entries : entry'[o] = IF o = work[k].c THEN Blank ELSE entry[o]
      BY <2>1, <3>1
    <3> QED
      BY <1>1, <1>2, <3>3, <3>4
  <2> QED
    BY <2>2, <2>3
<1> QED
  BY <1>3, <1>4

\* The entry that an eviction deletes is nobody's.
LEMMA EvictedUnused ==
    ASSUME TypeOK, WorksOK, Shares, NEW p \in Paths, Evict(p)
    PROVE  \A k \in Conns : work[k].c # stored[p]
<1>1. stored[p] # NoEntry /\ refs[p] = 0
  BY DEF Evict, Drop, IsStored
<1>2. ASSUME NEW k \in Conns, work[k].c = stored[p] PROVE FALSE
  <2>1. CASE Holding(work[k])
    <3>1. work[k].path \in Paths /\ stored[work[k].path] = stored[p]
      BY <1>1, <1>2, <2>1 DEF Shares, HeldOK, WorksOK, WorkOK
    <3>2. work[k].path = p
      BY <1>1, <3>1 DEF Shares, StoredOK, IsStored
    <3>3. refs[work[k].path] \in Nat \ {0}
      BY <2>1, HolderCounted DEF Shares, Path
    <3> QED
      BY <1>1, <3>2, <3>3
  <2>2. CASE Owning(work[k])
    BY <1>2, <2>2 DEF Shares, OwnedOK
  <2> QED
    BY <1>1, <1>2, <2>1, <2>2 DEF Holding, Owning, Owns
<1> QED
  BY <1>2

\* Every step of a Work.
LEMMA FlagsStepOK ==
    ASSUME Inv, NEW k \in Conns, Prepare(k) \/ Receive(k) \/ Reset(k) \/ Fail(k)
    PROVE  FlagsMatch'
<1>1. TypeOK /\ WorksOK /\ Shares /\ FlagsMatch
  BY DEF Inv, Shares, FlagsMatch
<1>2. \A j \in Conns : At(j, "emit") => work[j].c \in Entries
  BY <1>1 DEF TypeOK, WorkType, WorksOK, WorkOK, At
<1>3. ASSUME OthersSame(k), work[k].pc # "emit", work'[k].pc \notin {"emit", "send"},
             \A o \in Entries :
                 \/ /\ entry'[o].omit_body = entry[o].omit_body
                    /\ entry'[o].asif_uncompressed = entry[o].asif_uncompressed
                 \/ NoFlags(entry'[o]) /\ \A j \in Conns \ {k} : work[j].c # o
      PROVE  FlagsMatch'
  <2>1. \A j \in Conns :
           \/ work'[j] = work[j]
           \/ /\ work[j].pc # "emit" /\ work'[j].pc # "emit"
              /\ work'[j].pc = "send" => work'[j].announced = work'[j].how
    BY <1>3 DEF OthersSame
  <2>2. \A o \in Entries :
           \/ /\ entry'[o].omit_body = entry[o].omit_body
              /\ entry'[o].asif_uncompressed = entry[o].asif_uncompressed
           \/ NoFlags(entry'[o]) /\ \A j \in Conns : ~ Emitting(j, o)
    BY <1>3 DEF Emitting, At
  <2> QED
    BY <1>1, <1>2, <2>1, <2>2, FlagsKept
<1>4. CASE QuietStep(k)
  BY <1>1, <1>4, QuietFields, FlagsQuiet
<1>5. CASE UseStale(k) \/ CachePut(k)
  <2>1. Become(k, [work[k] EXCEPT !.pc = "output", !.resp_is_cached = TRUE])
        /\ work[k].pc # "emit"
    BY <1>5 DEF UseStale, CachePut, At
  <2>2. OthersSame(k) /\ work'[k].pc = "output"
    BY <1>1, <2>1, OutputFields DEF OthersSame
  <2>3. \A o \in Entries : /\ entry'[o].omit_body = entry[o].omit_body
                           /\ entry'[o].asif_uncompressed = entry[o].asif_uncompressed
    <3>1. PICK b \in BOOLEAN : \/ entry' = [entry EXCEPT ![work[k].c].warned = TRUE]
                              \/ entry' = [entry EXCEPT ![work[k].c].late = b]
      BY <1>5 DEF UseStale, CachePut
    <3>2. \A o \in Entries : entry[o] \in Entry(Nat, 0 .. MaxClock)
      BY <1>1 DEF TypeOK
    <3>3. \A o \in Entries : \/ entry'[o] = entry[o]
                              \/ entry'[o] = [entry[o] EXCEPT !.warned = TRUE]
                              \/ entry'[o] = [entry[o] EXCEPT !.late = b]
      BY <1>1, <3>1 DEF TypeOK
    <3> QED
      BY <3>2, <3>3 DEF Entry
  <2> QED
    BY <1>3, <2>1, <2>2, <2>3
<1>6. CASE Read(k) \/ ListDirectory(k)
  <2>0. PICK a, b, c, d : \/ NewEntryFor(k, NewEntry(a, b, c, d), "put")
                          \/ NewEntryFor(k, NewEntry(a, b, c, d), "output")
    BY <1>6 DEF Read, ListDirectory
  <2>1. PICK l \in {"put", "output"} : NewEntryFor(k, NewEntry(a, b, c, d), l)
    BY <2>0
  <2>2. /\ OthersSame(k) /\ work'[k].pc \in {"put", "output"} /\ work'[k].c \in Unused
        /\ entry' = [entry EXCEPT ![work'[k].c] = NewEntry(a, b, c, d)]
    BY <1>1, <2>1, NewEntryFields DEF OthersSame
  <2>3. work[k].pc # "emit"
    BY <1>6 DEF Read, ListDirectory, At
  <2>4. \A o \in Entries : entry'[o] = entry[o] \/ o = work'[k].c
    BY <1>1, <2>2 DEF TypeOK
  <2>5. NoFlags(entry'[work'[k].c])
    BY <1>1, <2>2 DEF TypeOK, NewEntry, NoFlags, Unused
  <2>6. \A j \in Conns : work[j].c # work'[k].c
    BY <2>2 DEF Unused
  <2> QED
    BY <1>3, <2>2, <2>3, <2>4, <2>5, <2>6
<1>7. CASE Manipulate(k)
  BY <1>1, <1>7, ManipulateFlags
<1>8. CASE Emit(k)
  BY <1>1, <1>8, EmitFlags
<1>9. CASE Reset(k)
  <2>1. NoFlags(Blank)
    BY DEF NoFlags, Blank, NewEntry
  <2> QED
    BY <1>1, <1>3, <1>9, <2>1, ResetFields
<1> QED
  BY <1>4, <1>5, <1>6, <1>7, <1>8, <1>9 DEF Prepare, Fail, QuietStep

\* An eviction.
LEMMA EvictFlags ==
    ASSUME TypeOK, WorksOK, Shares, FlagsMatch, NEW p \in Paths, Evict(p)
    PROVE  FlagsMatch'
<1>1. \A j \in Conns : At(j, "emit") => work[j].c \in Entries
  BY DEF TypeOK, WorkType, WorksOK, WorkOK, At
<1>2. UNCHANGED work /\ entry' = [entry EXCEPT ![stored[p]] = Blank]
  BY DEF Evict
<1>3. \A j \in Conns : ~ Emitting(j, stored[p])
  BY EvictedUnused DEF Emitting
<1>4. NoFlags(Blank)
  BY DEF NoFlags, Blank, NewEntry
<1>5. \A o \in Entries :
         \/ /\ entry'[o].omit_body = entry[o].omit_body
            /\ entry'[o].asif_uncompressed = entry[o].asif_uncompressed
         \/ NoFlags(entry'[o]) /\ \A j \in Conns : ~ Emitting(j, o)
  BY <1>2, <1>3, <1>4 DEF TypeOK
<1> QED
  BY <1>1, <1>2, <1>5, FlagsKept

----------------------------------------------------------------------------
(* TimesOK and OldEntryInvalidated *)

Dates == TimesOK /\ OldEntryInvalidated

\* Only flags and headers differ.
SameDates(e, f) ==
    /\ f.contents = e.contents /\ f.late = e.late
    /\ f.request_time = e.request_time /\ f.response_time = e.response_time
    /\ f.expires_value = e.expires_value

\* The contents of p are left alone, or replaced now, by a Work that is not done.
Rewrites(p) ==
    \/ writes'[p] = writes[p]
    \/ /\ writes'[p] = Append(writes[p], clock)
       /\ \E j \in Conns : work'[j].pc \in {"write", "advise"} /\ work'[j].path = p

\* Time passes and the contents are replaced after the entry was made.
LEMMA DatedKept ==
    ASSUME TypeOK, TypeOK', NEW p \in Paths, NEW e \in Entry(Nat, 0 .. MaxClock),
           NEW f \in Entry(Nat, 0 .. MaxClock), SameDates(e, f), clock <= clock',
           Rewrites(p), Dated(e, p)
    PROVE  /\ f.request_time <= f.response_time /\ f.response_time <= clock'
           /\ f.expires_value = f.response_time + Lifetime
           /\ f.contents <= Len(writes'[p])
           /\ f.contents < Len(writes'[p]) => f.response_time <= writes'[p][f.contents + 1]
<1>1. /\ clock \in Nat /\ clock' \in Nat /\ e.response_time \in Nat /\ e.contents \in Nat
      /\ e.request_time \in Nat
  BY FileAssumption DEF TypeOK, OriginTypeOK, Entry
<1>2. writes[p] \in Seq(0 .. MaxClock) /\ Len(writes[p]) \in Nat
  BY DEF TypeOK, OriginTypeOK
<1>3. /\ e.request_time <= e.response_time /\ e.response_time <= clock
      /\ e.expires_value = e.response_time + Lifetime
      /\ e.contents <= Len(writes[p])
      /\ e.contents < Len(writes[p]) => e.response_time <= writes[p][e.contents + 1]
  BY DEF Dated, Contents
<1>4. CASE writes'[p] = writes[p]
  BY <1>1, <1>3, <1>4 DEF SameDates
<1>5. CASE writes'[p] = Append(writes[p], clock)
  <2>1. /\ Len(writes'[p]) = Len(writes[p]) + 1
        /\ writes'[p][Len(writes[p]) + 1] = clock
        /\ \A i \in 1 .. Len(writes[p]) : writes'[p][i] = writes[p][i]
    BY <1>1, <1>2, <1>5
  <2>2. CASE e.contents < Len(writes[p])
    <3>1. e.contents + 1 \in 1 .. Len(writes[p])
      BY <1>1, <1>2, <2>2
    <3>2. writes'[p][e.contents + 1] = writes[p][e.contents + 1]
      BY <2>1, <3>1
    <3>3. e.response_time <= writes'[p][e.contents + 1]
      BY <1>3, <2>2, <3>2
    <3>4. e.contents <= Len(writes'[p]) /\ e.response_time <= clock'
      BY <1>1, <1>2, <1>3, <2>1
    <3> QED
      BY <1>3, <3>3, <3>4 DEF SameDates
  <2>3. CASE e.contents = Len(writes[p])
    BY <1>1, <1>2, <1>3, <2>1, <2>3 DEF SameDates
  <2> QED
    BY <1>1, <1>2, <1>3, <2>2, <2>3
<1> QED
  BY <1>4, <1>5 DEF Rewrites

\* A step that keeps the dates of the entries that are stored or about to be, or gives
\* right ones to those it stores or makes, and after which a Work is done only if what is
\* stored is marked.
LEMMA DatesKept ==
    ASSUME TypeOK, TypeOK', WorksOK, WorksOK', Dates, clock <= clock',
           \A p \in Paths : Rewrites(p),
           \A p \in Paths : IsStored(p)' =>
               \/ /\ stored'[p] = stored[p] /\ (doomed[p] => doomed'[p])
                  /\ SameDates(entry[stored[p]], entry'[stored[p]])
               \/ /\ Dated(entry[stored[p]], p)'
                  /\ entry'[stored'[p]].contents # Len(writes'[p]) => entry'[stored'[p]].late,
           \A j \in Conns : work'[j].pc = "put" =>
               \/ /\ work[j].pc = "put" /\ work'[j].c = work[j].c /\ work'[j].path = work[j].path
                  /\ SameDates(entry[work[j].c], entry'[work[j].c])
               \/ Dated(entry[work[j].c], Path(j))',
           \A j \in Conns : work[j].pc \in {"write", "advise"} =>
               \/ work'[j].pc \in {"write", "advise"} /\ work'[j].path = work[j].path
               \/ stored'[work[j].path] # NoEntry => doomed'[work[j].path]
    PROVE  Dates'
<1>1. ASSUME NEW p \in Paths, IsStored(p)'
      PROVE  /\ Dated(entry[stored[p]], p)'
             /\ entry'[stored'[p]].contents < Len(writes'[p]) =>
                   \/ doomed'[p] \/ entry'[stored'[p]].late
                   \/ \E j \in Conns : work'[j].pc \in {"write", "advise"} /\ work'[j].path = p
  <2>1. stored'[p] \in Entries
    BY <1>1 DEF TypeOK, IsStored
  <2>2. entry'[stored'[p]] \in Entry(Nat, 0 .. MaxClock)
    BY <2>1 DEF TypeOK
  <2>3. entry'[stored'[p]].contents \in Nat /\ Len(writes'[p]) \in Nat
    <3>1. entry'[stored'[p]].contents \in Nat
      BY <2>2 DEF Entry
    <3>2. writes'[p] \in Seq(0 .. MaxClock)
      BY DEF TypeOK, OriginTypeOK
    <3> QED
      BY <3>1, <3>2
  <2>4. CASE /\ Dated(entry[stored[p]], p)'
             /\ entry'[stored'[p]].contents # Len(writes'[p]) => entry'[stored'[p]].late
    BY <2>3, <2>4
  <2>5. CASE /\ stored'[p] = stored[p] /\ (doomed[p] => doomed'[p])
             /\ SameDates(entry[stored[p]], entry'[stored[p]])
    <3>1. stored[p] \in Entries /\ IsStored(p) /\ entry[stored[p]] \in Entry(Nat, 0 .. MaxClock)
      BY <1>1, <2>1, <2>5 DEF TypeOK, IsStored
    <3>2. Dated(entry[stored[p]], p)
      BY <3>1 DEF Dates, TimesOK
    <3>3. Dated(entry[stored[p]], p)'
      BY <2>2, <2>5, <3>1, <3>2, DatedKept DEF Dated, Contents
    <3>4. ASSUME entry'[stored'[p]].contents < Len(writes'[p])
          PROVE  \/ doomed'[p] \/ entry'[stored'[p]].late
                 \/ \E j \in Conns : work'[j].pc \in {"write", "advise"} /\ work'[j].path = p
      <4>1. CASE writes'[p] = writes[p]
        <5>1. entry[stored[p]].contents < Contents(p)
          BY <2>5, <3>4, <4>1 DEF SameDates, Contents
        <5>2. \/ doomed[p] \/ entry[stored[p]].late
              \/ \E j \in Conns : work[j].pc \in {"write", "advise"} /\ work[j].path = p
          BY <3>1, <5>1 DEF Dates, OldEntryInvalidated, Path
        <5> QED
          BY <1>1, <2>5, <5>2 DEF SameDates, IsStored
      <4>2. CASE writes'[p] # writes[p]
        BY <4>2 DEF Rewrites
      <4> QED
        BY <4>1, <4>2
    <3> QED
      BY <3>3, <3>4
  <2> QED
    BY <1>1, <2>4, <2>5
<1>2. ASSUME NEW j \in Conns, At(j, "put")' PROVE Dated(entry[work[j].c], Path(j))'
  <2>1. work'[j].c \in Entries /\ work'[j].path \in Paths
    BY <1>2, SMTT(30) DEF At, TypeOK, WorkType, WorksOK, WorkOK
  <2>2. CASE /\ work[j].pc = "put" /\ work'[j].c = work[j].c /\ work'[j].path = work[j].path
             /\ SameDates(entry[work[j].c], entry'[work[j].c])
    <3>1. /\ entry[work[j].c] \in Entry(Nat, 0 .. MaxClock)
          /\ entry'[work[j].c] \in Entry(Nat, 0 .. MaxClock)
      BY <2>1, <2>2 DEF TypeOK
    <3>2. Dated(entry[work[j].c], work[j].path)
      BY <2>2 DEF Dates, TimesOK, At, Path
    <3>3. work[j].path \in Paths
      BY <2>1, <2>2
    <3> QED
      BY <2>2, <3>1, <3>2, <3>3, DatedKept DEF Dated, Contents, Path
  <2> QED
    BY <1>2, <2>2 DEF At
<1>3. TimesOK'
  BY <1>1, <1>2 DEF TimesOK
<1>4. OldEntryInvalidated'
  BY <1>1 DEF OldEntryInvalidated, Contents, Path
<1> QED
  BY <1>3, <1>4 DEF Dates

\* The manipulators, a Warning and late leave the dates of an entry alone.
LEMMA FlagsSameDates ==
    ASSUME NEW e \in Entry(Nat, 0 .. MaxClock), NEW how \in {"head", "identity", "gzip"}
    PROVE  /\ SameDates(e, e) /\ SameDates(e, Manipulated(e, how))
           /\ SameDates(e, AfterOutput(e)) /\ SameDates(e, [e EXCEPT !.warned = TRUE])
<1>1. CASE how = "head"
  BY <1>1 DEF SameDates, Manipulated, AfterOutput, Entry
<1>2. CASE how = "identity"
  BY <1>2 DEF SameDates, Manipulated, AfterOutput, Entry
<1>3. CASE how = "gzip"
  BY <1>3 DEF SameDates, Manipulated, AfterOutput, Entry
<1> QED
  BY <1>1, <1>2, <1>3

\* A step that changes neither the files nor what is stored, and of the Works only k,
\* where all entries that other Works have or the cache stores keep their dates.
LEMMA DatesQuiet ==
    ASSUME TypeOK, TypeOK', WorksOK, WorksOK', Shares, Dates, NEW k \in Conns,
           UNCHANGED <<clock, filevars, stored>>, OthersSame(k),
           \A p \in Paths : stored[p] # NoEntry /\ doomed[p] => doomed'[p],
           \A o \in Entries :
               \/ SameDates(entry[o], entry'[o])
               \/ /\ \A j \in Conns \ {k} : work[j].c # o
                  /\ \A p \in Paths : stored[p] # o,
           work'[k].pc # "put" \/ Dated(entry[work[k].c], Path(k))',
           work[k].pc \in {"write", "advise"} =>
               (stored[work[k].path] # NoEntry => doomed'[work[k].path])
    PROVE  Dates'
<1>1. clock <= clock' /\ \A p \in Paths : Rewrites(p)
  BY DEF TypeOK, OriginTypeOK, Rewrites, filevars
<1>2. ASSUME NEW p \in Paths, IsStored(p)'
      PROVE  /\ stored'[p] = stored[p] /\ (doomed[p] => doomed'[p])
             /\ SameDates(entry[stored[p]], entry'[stored[p]])
  <2>1. stored[p] \in Entries /\ stored[p] # NoEntry
    BY <1>2 DEF IsStored, TypeOK
  <2> QED
    BY <2>1
<1>3. ASSUME NEW j \in Conns, work'[j].pc = "put"
      PROVE  \/ /\ work[j].pc = "put" /\ work'[j].c = work[j].c /\ work'[j].path = work[j].path
                /\ SameDates(entry[work[j].c], entry'[work[j].c])
             \/ Dated(entry[work[j].c], Path(j))'
  <2>1. CASE j = k
    BY <1>3, <2>1
  <2>2. CASE j # k
    <3>1. work'[j] = work[j]
      BY <2>2 DEF OthersSame
    <3>2. work[j].c \in Entries
      BY <1>3, <3>1 DEF TypeOK, WorkType, WorksOK, WorkOK
    <3> QED
      BY <1>3, <2>2, <3>1, <3>2
  <2> QED
    BY <2>1, <2>2
<1>4. ASSUME NEW j \in Conns, work[j].pc \in {"write", "advise"}
      PROVE  \/ work'[j].pc \in {"write", "advise"} /\ work'[j].path = work[j].path
             \/ stored'[work[j].path] # NoEntry => doomed'[work[j].path]
  BY <1>4 DEF OthersSame
<1> QED
  BY <1>1, <1>2, <1>3, <1>4, DatesKept

\* The file of k is opened or written.
LEMMA WriteDates ==
    ASSUME TypeOK, TypeOK', WorksOK, WorksOK', Dates, NEW k \in Conns, OpenPut(k) \/ WritePut(k)
    PROVE  Dates'
<1>1. /\ work'[k].pc \in {"write", "advise"} /\ work'[k].path = work[k].path
      /\ \A j \in Conns \ {k} : work'[j] = work[j]
  <2>1. Goto(k, "write") \/ Goto(k, "advise")
    BY DEF OpenPut, WritePut
  <2>2. \/ work'[k] = [work[k] EXCEPT !.pc = "write"]
        \/ work'[k] = [work[k] EXCEPT !.pc = "advise"]
    BY <2>1, BecomeOne DEF Goto
  <2>3. work[k] \in WorkType
    BY DEF TypeOK
  <2>4. work'[k].pc \in {"write", "advise"}
    BY <2>2, <2>3 DEF WorkType
  <2> QED
    BY <2>1, <2>4, GotoFields
<1>2. UNCHANGED <<clock, stored, refs, doomed, live, entry>> /\ work[k].path \in Paths
  BY DEF OpenPut, WritePut, cachevars, heapvars, At, WorksOK, WorkOK
<1>3. \/ UNCHANGED writes
      \/ writes' = [writes EXCEPT ![work[k].path] = Append(@, clock)]
  BY DEF OpenPut, WritePut, Open, Write, SetFile, filevars, Path
<1>4. \A p \in Paths : Rewrites(p)
  BY <1>1, <1>2, <1>3 DEF TypeOK, OriginTypeOK, Rewrites
<1>5. clock <= clock'
  BY <1>2 DEF TypeOK, OriginTypeOK
<1>6. \A p \in Paths : IsStored(p)' =>
         /\ stored'[p] = stored[p] /\ (doomed[p] => doomed'[p])
         /\ SameDates(entry[stored[p]], entry'[stored[p]])
  BY <1>2 DEF SameDates
<1>7. \A j \in Conns : work'[j].pc = "put" =>
         /\ work[j].pc = "put" /\ work'[j].c = work[j].c /\ work'[j].path = work[j].path
         /\ SameDates(entry[work[j].c], entry'[work[j].c])
  BY <1>1, <1>2 DEF SameDates
<1>8. \A j \in Conns : work[j].pc \in {"write", "advise"} =>
         work'[j].pc \in {"write", "advise"} /\ work'[j].path = work[j].path
  BY <1>1
<1> QED
  BY <1>4, <1>5, <1>6, <1>7, <1>8, DatesKept

\* A file has been read: the entry is of now, and of the file's contents.
LEMMA ReadDates ==
    ASSUME TypeOK, TypeOK', WorksOK, WorksOK', Shares, Dates, NEW k \in Conns,
           Read(k) \/ ListDirectory(k)
    PROVE  Dates'
<1>1. /\ UNCHANGED <<clock, filevars, stored, doomed>> /\ work[k].pc \in {"read", "dir"}
      /\ work[k].path \in Paths
  BY DEF Read, ListDirectory, At, cachevars, WorksOK, WorkOK
<1>2. PICK e : \/ NewEntryFor(k, e, "output")
               \/ /\ NewEntryFor(k, e, "put") /\ work[k].pc = "read"
                  /\ e = NewEntry(Contents(Path(k)), work[k].st.modified, work[k].st.at, clock)
  BY DEF Read, ListDirectory, At
<1>3. PICK l \in {"put", "output"} :
         /\ NewEntryFor(k, e, l)
         /\ l = "put" =>
               /\ work[k].pc = "read"
               /\ e = NewEntry(Contents(Path(k)), work[k].st.modified, work[k].st.at, clock)
  BY <1>2
<1>4. /\ OthersSame(k) /\ work'[k].pc = l /\ work'[k].path = work[k].path
      /\ work'[k].c \in Unused /\ entry' = [entry EXCEPT ![work'[k].c] = e]
  BY <1>3, NewEntryFields DEF OthersSame
<1>5. /\ work'[k].c \in Entries /\ work'[k].c \notin live
      /\ \A j \in Conns : work[j].c # work'[k].c
      /\ \A p \in Paths : stored[p] # work'[k].c
  BY <1>4, NullAssumption DEF Unused, Shares, StoredOK, IsStored
<1>6. entry'[work'[k].c] = e /\ \A o \in Entries \ {work'[k].c} : entry'[o] = entry[o]
  BY <1>4, <1>5 DEF TypeOK
<1>7. \A o \in Entries :
         \/ SameDates(entry[o], entry'[o])
         \/ /\ \A j \in Conns \ {k} : work[j].c # o
            /\ \A p \in Paths : stored[p] # o
  BY <1>5, <1>6 DEF SameDates
<1>8. ASSUME work'[k].pc = "put" PROVE Dated(entry[work[k].c], Path(k))'
  <2>1. /\ work[k].pc = "read"
        /\ e = NewEntry(Contents(Path(k)), work[k].st.modified, work[k].st.at, clock)
    BY <1>3, <1>4, <1>8
  <2>2. /\ e.request_time = work[k].st.at /\ e.response_time = clock
        /\ e.expires_value = clock + Lifetime /\ e.contents = Len(writes[work[k].path])
    BY <2>1 DEF NewEntry, Contents, Path
  <2>3. work[k].st.at <= clock
    BY <2>1 DEF WorksOK, WorkOK
  <2>4. Len(writes[work[k].path]) \in Nat /\ clock \in Nat /\ UNCHANGED <<clock, writes>>
    <3>1. writes[work[k].path] \in Seq(0 .. MaxClock)
      BY <1>1 DEF TypeOK, OriginTypeOK
    <3> QED
      BY <1>1, <3>1 DEF TypeOK, OriginTypeOK, filevars
  <2> QED
    BY <1>4, <1>6, <2>2, <2>3, <2>4 DEF Dated, Contents, Path
<1>9. work'[k].pc # "put" \/ Dated(entry[work[k].c], Path(k))'
  BY <1>8
<1> QED
  BY <1>1, <1>4, <1>7, <1>9, DatesQuiet

\* An entry is stored; late says whether its contents have been replaced meanwhile.
LEMMA PutDates ==
    ASSUME TypeOK, TypeOK', WorksOK, WorksOK', Shares, Dates, NEW k \in Conns, CachePut(k)
    PROVE  Dates'
<1>0. PICK p, o : p = work[k].path /\ o = work[k].c
  OBVIOUS
<1>1. /\ work[k].pc = "put" /\ p \in Paths /\ o \in Entries
      /\ UNCHANGED <<clock, size, writes>>
      /\ stored' = [stored EXCEPT ![p] = o] /\ doomed' = [doomed EXCEPT ![p] = FALSE]
  BY <1>0 DEF CachePut, At, WorksOK, WorkOK, Path, Store, TypeOK, WorkType, filevars
<1>2. /\ work'[k].pc = "output" /\ \A j \in Conns \ {k} : work'[j] = work[j]
  BY OutputFields DEF CachePut
<1>3. Owning(work[k])
  BY <1>1, <1>0, NullAssumption DEF Owning, Owns, Holds, WorksOK, WorkOK
<1>4. /\ \A q \in Paths : stored[q] # o
      /\ \A j \in Conns \ {k} : work[j].c # o
  BY <1>0, <1>3 DEF Shares, OwnedOK
<1>5. PICK b \in BOOLEAN : /\ b = (entry[o].contents # Contents(p))
                           /\ entry' = [entry EXCEPT ![o].late = b]
  BY <1>0 DEF CachePut, Path
<1>6. /\ entry'[o] = [entry[o] EXCEPT !.late = b]
      /\ \A x \in Entries \ {o} : entry'[x] = entry[x]
      /\ entry[o] \in Entry(Nat, 0 .. MaxClock)
  BY <1>1, <1>5 DEF TypeOK
<1>7. /\ entry'[o].contents = entry[o].contents /\ entry'[o].late = b
      /\ entry'[o].request_time = entry[o].request_time
      /\ entry'[o].response_time = entry[o].response_time
      /\ entry'[o].expires_value = entry[o].expires_value
  BY <1>6 DEF Entry
<1>8. stored'[p] = o /\ \A q \in Paths \ {p} : stored'[q] = stored[q] /\ doomed'[q] = doomed[q]
  BY <1>1 DEF TypeOK
<1>9. /\ Dated(entry[stored[p]], p)'
      /\ entry'[stored'[p]].contents # Len(writes'[p]) => entry'[stored'[p]].late
  <2>1. Dated(entry[o], p)
    BY <1>0, <1>1 DEF Dates, TimesOK, At, Path
  <2>2. Dated(entry[stored[p]], p)'
    BY <1>1, <1>7, <1>8, <2>1 DEF Dated, Contents
  <2> QED
    BY <1>1, <1>5, <1>7, <1>8, <2>2 DEF Contents
<1>10. ASSUME NEW q \in Paths \ {p}, IsStored(q)'
       PROVE  /\ stored'[q] = stored[q] /\ (doomed[q] => doomed'[q])
              /\ SameDates(entry[stored[q]], entry'[stored[q]])
  <2>1. stored[q] \in Entries \ {o}
    BY <1>4, <1>8, <1>10 DEF TypeOK, IsStored
  <2> QED
    BY <1>6, <1>8, <2>1 DEF SameDates
<1>11. ASSUME NEW j \in Conns, work'[j].pc = "put"
       PROVE  /\ work[j].pc = "put" /\ work'[j].c = work[j].c /\ work'[j].path = work[j].path
              /\ SameDates(entry[work[j].c], entry'[work[j].c])
  <2>1. j # k /\ work'[j] = work[j]
    BY <1>2, <1>11
  <2>2. work[j].c \in Entries \ {o}
    BY <1>4, <1>11, <2>1 DEF TypeOK, WorkType, WorksOK, WorkOK
  <2> QED
    BY <1>6, <1>11, <2>1, <2>2 DEF SameDates
<1>12. clock <= clock' /\ \A q \in Paths : Rewrites(q)
  BY <1>1 DEF TypeOK, OriginTypeOK, Rewrites
<1>13. \A j \in Conns : work[j].pc \in {"write", "advise"} =>
          work'[j].pc \in {"write", "advise"} /\ work'[j].path = work[j].path
  BY <1>1, <1>2
<1>14. \A q \in Paths : IsStored(q)' =>
           \/ /\ stored'[q] = stored[q] /\ (doomed[q] => doomed'[q])
              /\ SameDates(entry[stored[q]], entry'[stored[q]])
           \/ /\ Dated(entry[stored[q]], q)'
              /\ entry'[stored'[q]].contents # Len(writes'[q]) => entry'[stored'[q]].late
  BY <1>9, <1>10
<1> QED
  BY <1>11, <1>12, <1>13, <1>14, DatesKept

\* Every step of a Work.
LEMMA DatesStepOK ==
    ASSUME Inv, TypeOK', WorksOK', NEW k \in Conns,
           Prepare(k) \/ Receive(k) \/ Reset(k) \/ Fail(k)
    PROVE  Dates'
<1>1. TypeOK /\ WorksOK /\ Shares /\ Dates
  BY DEF Inv, Shares, Dates
<1>2. \A o \in Entries : entry[o] \in Entry(Nat, 0 .. MaxClock)
  BY <1>1 DEF TypeOK
<1>3. CASE OpenPut(k) \/ WritePut(k)
  BY <1>1, <1>3, WriteDates
<1>4. CASE QuietStep(k) /\ ~ OpenPut(k) /\ ~ WritePut(k)
  <2>1. /\ UNCHANGED <<clock, stored, entry>> /\ OthersSame(k) /\ work'[k].pc # "put"
    BY <1>1, <1>4, QuietFields
  <2>2. CASE Advise(k)
    <3>1. /\ UNCHANGED filevars /\ work[k].path \in Paths
          /\ doomed' = [doomed EXCEPT ![work[k].path] = (stored[work[k].path] # NoEntry)]
      BY <1>1, <2>2 DEF Advise, Invalidate, Doom, IsStored, Path, At, WorksOK, WorkOK
    <3>2. /\ \A p \in Paths : stored[p] # NoEntry /\ doomed[p] => doomed'[p]
          /\ stored[work[k].path] # NoEntry => doomed'[work[k].path]
      BY <1>1, <3>1 DEF TypeOK
    <3> QED
      BY <1>1, <2>1, <3>1, <3>2, DatesQuiet DEF SameDates
  <2>3. CASE ~ Advise(k)
    <3>1. UNCHANGED <<filevars, doomed>> /\ work[k].pc \notin {"write", "advise"}
      BY <1>4, <2>3
      DEF QuietStep, Receive, Hit, Miss, Refuse, UseFresh, CachePutRefused, Stat, StatPut,
          OriginFails, UncompressFails, SocketAnswers, PutFails, Abort,
          At, Take, Decline, GiveBack, cachevars
    <3> QED
      BY <1>1, <2>1, <3>1, DatesQuiet DEF SameDates
  <2> QED
    BY <2>2, <2>3
<1>5. CASE UseStale(k)
  <2>1. /\ UNCHANGED <<clock, filevars, stored>> /\ work[k].pc = "check"
        /\ doomed' = [doomed EXCEPT ![work[k].path] = (stored[work[k].path] # NoEntry)]
        /\ entry' = [entry EXCEPT ![work[k].c].warned = TRUE]
    BY <1>5 DEF UseStale, Doom, IsStored, Path, At
  <2>2. OthersSame(k) /\ work'[k].pc = "output"
    BY <1>1, <1>5, OutputFields DEF UseStale, OthersSame
  <2>3. \A p \in Paths : stored[p] # NoEntry /\ doomed[p] => doomed'[p]
    BY <1>1, <2>1 DEF TypeOK
  <2>4. \A o \in Entries : entry'[o] = entry[o] \/ entry'[o] = [entry[o] EXCEPT !.warned = TRUE]
    BY <1>1, <2>1 DEF TypeOK
  <2>5. \A o \in Entries : SameDates(entry[o], entry'[o])
    BY <1>2, <2>4, FlagsSameDates
  <2> QED
    BY <1>1, <2>1, <2>2, <2>3, <2>5, DatesQuiet
<1>6. CASE CachePut(k)
  BY <1>1, <1>6, PutDates
<1>7. CASE Read(k) \/ ListDirectory(k)
  BY <1>1, <1>7, ReadDates
<1>8. CASE Manipulate(k)
  <2>1. /\ UNCHANGED <<clock, size, writes, stored, doomed>> /\ work[k].pc = "output"
        /\ entry' = [entry EXCEPT ![work[k].c] = Manipulated(@, HowToSend(k))]
    BY <1>8 DEF Manipulate, At, filevars, cachevars
  <2>2. /\ HowToSend(k) \in {"head", "identity", "gzip"} /\ work'[k].pc = "emit"
        /\ \A j \in Conns \ {k} : /\ work'[j].pc = work[j].pc /\ work'[j].c = work[j].c
                                  /\ work'[j].path = work[j].path
    BY <1>1, <1>8, ManipulateFields
  <2>3. \A o \in Entries : \/ entry'[o] = entry[o]
                           \/ entry'[o] = Manipulated(entry[o], HowToSend(k))
    BY <1>1, <2>1 DEF TypeOK
  <2>4. \A o \in Entries : SameDates(entry[o], entry'[o])
    BY <1>2, <2>2, <2>3, FlagsSameDates
  <2>5. clock <= clock' /\ \A p \in Paths : Rewrites(p)
    BY <1>1, <2>1 DEF TypeOK, OriginTypeOK, Rewrites
  <2>6. \A p \in Paths : IsStored(p)' =>
           /\ stored'[p] = stored[p] /\ (doomed[p] => doomed'[p])
           /\ SameDates(entry[stored[p]], entry'[stored[p]])
    BY <1>1, <2>1, <2>4 DEF TypeOK, IsStored
  <2>7. \A j \in Conns : work'[j].pc = "put" =>
           /\ work[j].pc = "put" /\ work'[j].c = work[j].c /\ work'[j].path = work[j].path
           /\ SameDates(entry[work[j].c], entry'[work[j].c])
    BY <1>1, <2>2, <2>4 DEF TypeOK, WorkType, WorksOK, WorkOK
  <2>8. \A j \in Conns : work[j].pc \in {"write", "advise"} =>
           work'[j].pc \in {"write", "advise"} /\ work'[j].path = work[j].path
    BY <2>1, <2>2
  <2> QED
    BY <1>1, <2>5, <2>6, <2>7, <2>8, DatesKept
<1>9. CASE Emit(k)
  <2>1. /\ UNCHANGED <<clock, filevars, stored, doomed>> /\ work[k].pc = "emit"
        /\ entry' = [entry EXCEPT ![work[k].c] = AfterOutput(@)]
    BY <1>9 DEF Emit, At, cachevars
  <2>2. OthersSame(k) /\ work'[k].pc = "send"
    BY <1>1, <1>9, EmitFields DEF OthersSame
  <2>3. \A o \in Entries : entry'[o] = entry[o] \/ entry'[o] = AfterOutput(entry[o])
    BY <1>1, <2>1 DEF TypeOK
  <2>4. \A o \in Entries : SameDates(entry[o], entry'[o])
    BY <1>2, <2>3, FlagsSameDates
  <2> QED
    BY <1>1, <2>1, <2>2, <2>4, DatesQuiet
<1>10. CASE Reset(k)
  <2>1. \A o \in Entries : SameDates(entry[o], entry[o])
    BY DEF SameDates
  <2>2. \A o \in Entries :
           \/ SameDates(entry[o], entry'[o])
           \/ /\ \A j \in Conns \ {k} : work[j].c # o
              /\ \A p \in Paths : stored[p] # o
    BY <1>1, <1>10, <2>1, ResetFields
  <2>3. /\ UNCHANGED <<clock, filevars, stored, doomed>> /\ OthersSame(k)
        /\ work[k].pc = "send" /\ work'[k].pc = "idle"
    BY <1>1, <1>10, ResetFields
  <2> QED
    BY <1>1, <2>2, <2>3, DatesQuiet
<1> QED
  BY <1>3, <1>4, <1>5, <1>6, <1>7, <1>8, <1>9, <1>10 DEF Prepare, Fail, QuietStep

\* An eviction: the entry is stored no more.
LEMMA EvictDates ==
    ASSUME TypeOK, TypeOK', WorksOK, WorksOK', Shares, Dates, NEW p \in Paths, Evict(p)
    PROVE  Dates'
<1>1. /\ UNCHANGED <<clock, size, writes, work>> /\ stored[p] # NoEntry
      /\ stored' = [stored EXCEPT ![p] = NoEntry] /\ doomed' = [doomed EXCEPT ![p] = FALSE]
      /\ entry' = [entry EXCEPT ![stored[p]] = Blank]
  BY DEF Evict, Drop, IsStored, filevars
<1>2. \A o \in Entries \ {stored[p]} : entry'[o] = entry[o]
  BY <1>1 DEF TypeOK
<1>3. ASSUME NEW q \in Paths, IsStored(q)'
      PROVE  /\ stored'[q] = stored[q] /\ (doomed[q] => doomed'[q])
             /\ SameDates(entry[stored[q]], entry'[stored[q]])
  <2>1. q # p /\ stored'[q] = stored[q] /\ doomed'[q] = doomed[q]
    BY <1>1, <1>3 DEF TypeOK, IsStored
  <2>2. stored[q] \in Entries /\ stored[q] # stored[p]
    BY <1>1, <1>3, <2>1 DEF TypeOK, IsStored, Shares, StoredOK
  <2> QED
    BY <1>2, <2>1, <2>2 DEF SameDates
<1>4. \A j \in Conns : work'[j].pc = "put" =>
         /\ work[j].pc = "put" /\ work'[j].c = work[j].c /\ work'[j].path = work[j].path
         /\ SameDates(entry[work[j].c], entry'[work[j].c])
  <2>1. \A j \in Conns : work[j].pc = "put" => work[j].c \in Entries \ {stored[p]}
    BY EvictedUnused DEF TypeOK, WorkType, WorksOK, WorkOK
  <2> QED
    BY <1>1, <1>2, <2>1 DEF SameDates
<1>5. clock <= clock' /\ \A q \in Paths : Rewrites(q)
  BY <1>1 DEF TypeOK, OriginTypeOK, Rewrites
<1> QED
  BY <1>1, <1>3, <1>4, <1>5, DatesKept

\* Time passes.
LEMMA TimeDates ==
    ASSUME TypeOK, TypeOK', WorksOK, WorksOK', Dates, Time
    PROVE  Dates'
<1>1. clock <= clock' /\ UNCHANGED <<size, writes, stored, doomed, entry, work>>
  BY DEF TypeOK, OriginTypeOK, Time, Tick, filevars, cachevars, heapvars
<1> QED
  BY <1>1, DatesKept DEF Rewrites, SameDates

----------------------------------------------------------------------------
(* The theorems *)

LEMMA InitInv ==
    ASSUME ReadsComeLast, Init
    PROVE  Inv
<1>1. /\ clock = 0 /\ size = [p \in Paths |-> FileSize] /\ writes = [p \in Paths |-> << >>]
      /\ stored = [p \in Paths |-> NoEntry] /\ refs = [p \in Paths |-> 0]
      /\ doomed = [p \in Paths |-> FALSE] /\ live = {} /\ lost = << >> /\ crashed = FALSE
      /\ entry = [o \in Entries |-> Blank] /\ work = [k \in Conns |-> NewWork]
      /\ todo \in Scripts
  BY DEF Init, OriginInit, ContractInit
<1>2. \A k \in Conns : /\ work[k].pc = "idle" /\ work[k].path = NoPath /\ work[k].c = NoEntry
                       /\ work[k].resp_is_cached = FALSE
  BY <1>1, NewWorkFields
<1>3. TypeOK
  <2>1. todo \in [Conns -> Seq(Request)]
    BY <1>1, ScriptsAssumption
  <2>2. lost \in Seq(WorkType) /\ writes \in [Paths -> Seq(0 .. MaxClock)]
    BY <1>1
  <2>3. entry \in [Entries -> Entry(Nat, 0 .. MaxClock)] /\ work \in [Conns -> WorkType]
    BY <1>1, BlankType, NewWorkFields
  <2>4. OriginTypeOK
    BY <1>1, <2>2, FileAssumption DEF OriginTypeOK
  <2>5. /\ stored \in [Paths -> Entries \cup {NoEntry}] /\ refs \in [Paths -> Nat]
        /\ doomed \in [Paths -> BOOLEAN] /\ live \in SUBSET Entries /\ crashed \in BOOLEAN
    BY <1>1
  <2> QED
    BY <2>1, <2>2, <2>3, <2>4, <2>5 DEF TypeOK
<1>4. ScriptOK
  <2>1. \A k \in Conns : ~ MayBeCached(work[k])
    BY <1>2 DEF MayBeCached
  <2> QED
    BY <1>1, <2>1 DEF ScriptOK, ReadsComeLast
<1>5. DOMAIN lost = {}
  BY <1>1
<1>6. WorksOK
  BY <1>2, <1>5 DEF WorksOK, WorkOK
<1>7. \A p \in Paths : ~ IsStored(p)
  BY <1>1 DEF IsStored
<1>8. StoredOK /\ HeldOK /\ OwnedOK /\ NoneForgotten /\ RefsOK
  BY <1>1, <1>2, <1>5, <1>7
  DEF StoredOK, HeldOK, OwnedOK, NoneForgotten, RefsOK, Holding, Owning
<1>9. FlagsOK
  <2>1. \A o \in Entries : ~ entry[o].omit_body /\ ~ entry[o].asif_uncompressed
    BY <1>1 DEF Blank, NewEntry
  <2> QED
    BY <1>2, <2>1 DEF FlagsOK, At
<1>10. HeadersMatchBody
  BY <1>2 DEF HeadersMatchBody, At
<1>11. TimesOK /\ OldEntryInvalidated
  BY <1>2, <1>7 DEF TimesOK, OldEntryInvalidated, At
<1> QED
  BY <1>3, <1>4, <1>6, <1>8, <1>9, <1>10, <1>11 DEF Inv

\* The type of every variable.
LEMMA TypeStepOK ==
    ASSUME Inv, NEW k \in Conns, Prepare(k) \/ Receive(k) \/ Reset(k) \/ Fail(k)
    PROVE  TypeOK'
BY QuietType, CacheType, HeapType, EndsType, FileType DEF Prepare, Fail

\* Every step of the system keeps the invariant.
LEMMA InvNext ==
    ASSUME Inv, [Next]_vars
    PROVE  Inv'
<1>1. TypeOK /\ ScriptOK /\ WorksOK /\ Shares /\ FlagsMatch /\ Dates
  BY DEF Inv, Shares, FlagsMatch, Dates
<1>2. ASSUME TypeOK', ScriptOK', WorksOK', Shares', FlagsMatch', Dates' PROVE Inv'
  BY <1>2 DEF Inv, Shares, FlagsMatch, Dates
<1>3. ASSUME NEW k \in Conns, Prepare(k) \/ Receive(k) \/ Reset(k) \/ Fail(k) PROVE Inv'
  <2>1. TypeOK' /\ WorksOK' /\ ScriptOK' /\ Shares' /\ FlagsMatch'
    BY <1>3, TypeStepOK, WorkStepOK, ScriptStepOK, SharesStepOK, FlagsStepOK
  <2>2. Dates'
    BY <1>3, <2>1, DatesStepOK
  <2> QED
    BY <1>2, <2>1, <2>2
<1>4. ASSUME NEW p \in Paths, Evict(p) PROVE Inv'
  <2>1. UNCHANGED <<clock, work, todo, lost>>
    BY <1>4 DEF Evict
  <2>2. TypeOK'
    BY <1>4, EnvironmentType
  <2>3. ScriptOK' /\ WorksOK'
    BY <1>1, <2>1 DEF ScriptOK, WorksOK, WorkOK
  <2>4. Shares' /\ FlagsMatch' /\ Dates'
    BY <1>1, <1>4, <2>2, <2>3, EvictShares, EvictFlags, EvictDates
  <2> QED
    BY <1>2, <2>2, <2>3, <2>4
<1>5. CASE Time
  <2>1. /\ UNCHANGED <<stored, refs, live, entry, work, todo, lost>> /\ clock' = clock + 1
    BY <1>5 DEF Time, Tick, cachevars, heapvars
  <2>2. TypeOK'
    BY <1>5, EnvironmentType
  <2>3. ScriptOK'
    BY <1>1, <2>1 DEF ScriptOK
  <2>4. WorksOK'
    <3>1. \A k \in Conns : work[k].st.at \in Int /\ clock \in Int
      BY <1>1 DEF TypeOK, OriginTypeOK, WorkType
    <3>2. \A k \in Conns : work[k].st.at <= clock => work[k].st.at <= clock'
      BY <2>1, <3>1
    <3> QED
      BY <1>1, <2>1, <3>2 DEF WorksOK, WorkOK
  <2>5. Shares'
    BY <1>1, <2>1, QuietShares DEF KeepsEntry
  <2>6. FlagsMatch'
    BY <1>1, <2>1 DEF FlagsMatch, FlagsOK, HeadersMatchBody, Emitting, At
  <2>7. Dates'
    BY <1>1, <1>5, <2>2, <2>4, TimeDates
  <2> QED
    BY <1>2, <2>2, <2>3, <2>4, <2>5, <2>6, <2>7
<1>6. CASE UNCHANGED vars
  <2>1. UNCHANGED <<clock, size, writes, stored, refs, doomed, live, entry, work, todo, lost,
                    crashed>>
    BY <1>6 DEF vars, filevars, cachevars, heapvars
  <2>2. TypeOK'
    BY <1>1, <2>1 DEF TypeOK, OriginTypeOK
  <2>3. ScriptOK' /\ WorksOK'
    BY <1>1, <2>1 DEF ScriptOK, WorksOK, WorkOK
  <2>4. Shares'
    BY <1>1, <2>1, QuietShares DEF KeepsEntry
  <2>5. FlagsMatch'
    BY <1>1, <2>1 DEF FlagsMatch, FlagsOK, HeadersMatchBody, Emitting, At
  <2>6. Dates'
    BY <1>1, <2>1
    DEF Dates, TimesOK, Dated, Contents, OldEntryInvalidated, Path, IsStored, At
  <2> QED
    BY <1>2, <2>2, <2>3, <2>4, <2>5, <2>6
<1> QED
  BY <1>3, <1>4, <1>5, <1>6 DEF Next, Serve

\* The invariant that the theorems rest on.
THEOREM Invariance == ReadsComeLast => (Spec => []Inv)
<1> SUFFICES ASSUME ReadsComeLast PROVE Spec => []Inv
  OBVIOUS
<1>1. Init => Inv
  BY InitInv
<1>2. Inv /\ [Next]_vars => Inv'
  BY InvNext
<1> QED
  BY <1>1, <1>2, PTL DEF Spec

\* Type correctness.
THEOREM TypeCorrect == ReadsComeLast => (Spec => []TypeOK)
<1>1. Inv => TypeOK
  BY DEF Inv
<1> QED
  BY <1>1, Invariance, PTL

\* The entry that a Work reads, or whose buffer it writes to its client, has not been
\* deleted, whatever other Works, their clients and the cache do.
THEOREM InUseLives == ReadsComeLast => (Spec => []EntryInUseLives)
<1>1. Inv => EntryInUseLives
  <2> SUFFICES ASSUME Inv PROVE EntryInUseLives
    OBVIOUS
  <2>1. TypeOK /\ WorksOK /\ Shares
    BY DEF Inv, Shares
  <2>2. \A k \in Conns : work[k].c # NoEntry => work[k].c \in live
    BY <2>1, EntriesLive
  <2> QED
    BY <2>1, <2>2 DEF EntryInUseLives, WorksOK, WorkOK
<1> QED
  BY <1>1, Invariance, PTL

\* The cache's count of references is the number of Works that will give one back, or
\* were destroyed with it: every path through cache_get, cache_put, the HTTP_oops exits
\* and reset gives back once what it took.
THEOREM RefsCountWorks == ReadsComeLast => (Spec => []RefsAreWorks)
<1>1. Inv => RefsAreWorks
  BY DEF Inv, RefsOK, RefsAreWorks, Count, WorksHolding, LostHolding
<1> QED
  BY <1>1, Invariance, PTL

\* A set of which all elements are the same has one, if it has any.
LEMMA OneElement ==
    ASSUME NEW S, NEW x \in S, \A y \in S : y = x
    PROVE  Cardinality(S) = 1
<1>1. S = {x}
  OBVIOUS
<1> QED
  BY <1>1, FS_Singleton

\* Each entry is one party's to delete: the cache's that stores it, or else the Work's
\* that made it, of which only a destroyed Work forgets its entry.
THEOREM OneDeletes == ReadsComeLast => (Spec => []DeletedByOne)
<1>1. Inv => DeletedByOne
  <2> SUFFICES ASSUME Inv, NEW o \in live
               PROVE  Cardinality({p \in Paths : stored[p] = o})
                      + (Cardinality({k \in Conns : Owns(work[k], o)})
                         + Cardinality({i \in DOMAIN lost : Owns(lost[i], o)})) = 1
    BY DEF DeletedByOne, Count
  <2> DEFINE P == {p \in Paths : stored[p] = o}
             W == {k \in Conns : Owns(work[k], o)}
             L == {i \in DOMAIN lost : Owns(lost[i], o)}
  <2>1. TypeOK /\ StoredOK /\ OwnedOK /\ NoneForgotten /\ o # NoEntry
    BY NullAssumption DEF Inv, TypeOK
  <2>2. \A k \in W : Owning(work[k]) /\ work[k].c = o
    BY <2>1 DEF Owning, Owns
  <2>3. \A i \in L : Owning(lost[i]) /\ lost[i].c = o
    BY <2>1 DEF Owning, Owns
  <2>4. P # {} \/ W # {} \/ L # {}
    BY <2>1 DEF NoneForgotten
  <2>5. ASSUME NEW p \in P PROVE W = {} /\ L = {} /\ \A q \in P : q = p
    BY <2>1, <2>2, <2>3, <2>5 DEF OwnedOK, StoredOK, IsStored
  <2>6. ASSUME NEW k \in W PROVE P = {} /\ L = {} /\ \A j \in W : j = k
    BY <2>1, <2>2, <2>3, <2>6 DEF OwnedOK
  <2>7. ASSUME NEW i \in L PROVE P = {} /\ W = {} /\ \A j \in L : j = i
    BY <2>1, <2>2, <2>3, <2>7 DEF OwnedOK
  <2> HIDE DEF P, W, L
  <2>8. Cardinality({}) = 0
    BY FS_EmptySet
  <2>9. Cardinality(P) + (Cardinality(W) + Cardinality(L)) = 1
    <3>1. CASE P # {}
      <4>1. PICK p \in P : TRUE
        BY <3>1
      <4>2. Cardinality(P) = 1 /\ W = {} /\ L = {}
        BY <2>5, <4>1, OneElement
      <4> QED
        BY <2>8, <4>2
    <3>2. CASE W # {}
      <4>1. PICK k \in W : TRUE
        BY <3>2
      <4>2. Cardinality(W) = 1 /\ P = {} /\ L = {}
        BY <2>6, <4>1, OneElement
      <4> QED
        BY <2>8, <4>2
    <3>3. CASE L # {}
      <4>1. PICK i \in L : TRUE
        BY <3>3
      <4>2. Cardinality(L) = 1 /\ P = {} /\ W = {}
        BY <2>7, <4>1, OneElement
      <4> QED
        BY <2>8, <4>2
    <3> QED
      BY <2>4, <3>1, <3>2, <3>3
  <2> QED
    BY <2>9 DEF P, W, L
<1> QED
  BY <1>1, Invariance, PTL

\* When a PUT or POST is done, a stored entry with older contents has been marked
\* invalid, unless it was stored after its contents had been replaced.
THEOREM OldInvalidated == ReadsComeLast => (Spec => []OldEntryInvalidated)
<1>1. Inv => OldEntryInvalidated
  BY DEF Inv
<1> QED
  BY <1>1, Invariance, PTL

\* The headers announce the body that is sent, unless two Works were sending the same
\* entry at once.
THEOREM HeadersAnnounceBody == ReadsComeLast => (Spec => []HeadersMatchBody)
<1>1. Inv => HeadersMatchBody
  BY DEF Inv
<1> QED
  BY <1>1, Invariance, PTL

\* A step of one Work leaves the others where they are.
LEMMA OthersStay ==
    ASSUME Inv, NEW j \in Conns, NEW k \in Conns \ {j},
           Prepare(j) \/ Receive(j) \/ Reset(j) \/ Fail(j)
    PROVE  work'[k].pc = work[k].pc
<1>1. TypeOK /\ WorksOK /\ Shares
  BY DEF Inv, Shares
<1>2. CASE QuietStep(j)
  BY <1>1, <1>2, QuietFields, SMTT(30) DEF OthersSame
<1>3. CASE UseStale(j) \/ CachePut(j)
  BY <1>1, <1>3, OutputFields DEF UseStale, CachePut
<1>4. CASE Read(j) \/ ListDirectory(j)
  <2>1. PICK e : NewEntryFor(j, e, "put") \/ NewEntryFor(j, e, "output")
    BY <1>4 DEF Read, ListDirectory
  <2> QED
    BY <1>1, <2>1, NewEntryFields
<1>5. CASE Manipulate(j)
  BY <1>1, <1>5, ManipulateFields
<1>6. CASE Emit(j)
  BY <1>1, <1>6, EmitFields
<1>7. CASE Reset(j)
  BY <1>1, <1>7, EndFields
<1> QED
  BY <1>2, <1>3, <1>4, <1>5, <1>6, <1>7 DEF Prepare, Fail, QuietStep

\* A response sent from the cache without a Warning has what the file contained less
\* than Lifetime ago.
THEOREM FreshEnough == ReadsComeLast => (Spec => FreshIsRecent)
<1>1. ASSUME Inv, [Next]_vars, NEW k \in Conns, At(k, "check"), work'[k].pc = "output",
             ~ entry'[work[k].c].warned, NEW v, v = entry[work[k].c].contents,
             v < Contents(Path(k))
      PROVE  writes[Path(k)][v + 1] > clock - Lifetime
  <2>1. TypeOK /\ WorksOK /\ Shares /\ TimesOK
    BY <1>1 DEF Inv, Shares
  <2>2. Prepare(k) \/ Receive(k) \/ Reset(k) \/ Fail(k)
    <3>1. ASSUME NEW j \in Conns \ {k}, Prepare(j) \/ Receive(j) \/ Reset(j) \/ Fail(j)
          PROVE  FALSE
      BY <1>1, <3>1, OthersStay DEF At
    <3>2. ~ UNCHANGED work
      BY <1>1 DEF At
    <3> QED
      BY <1>1, <3>1, <3>2 DEF Next, Serve, vars, Time, Evict
  <2>3. ~ Refuse(k) /\ ~ Miss(k)
    BY <1>1, <2>1, MissFields
  <2>4. UseFresh(k) \/ UseStale(k)
    BY <1>1, <2>2, <2>3
    DEF At, Prepare, Fail, Receive, Reset, Hit, Stat, Read, ListDirectory, CachePut,
        CachePutRefused, Manipulate, Emit, SocketAnswers, StatPut, OpenPut, WritePut, Advise,
        OriginFails, UncompressFails, PutFails, Abort
  <2>5. work[k].c \in Entries /\ work[k].c # NoEntry /\ Path(k) \in Paths
    BY <1>1, <2>1 DEF At, Path, TypeOK, WorkType, WorksOK, WorkOK
  <2>6. ~ UseStale(k)
    <3>1. UseStale(k) => entry'[work[k].c] = [entry[work[k].c] EXCEPT !.warned = TRUE]
      BY <2>1, <2>5 DEF UseStale, TypeOK
    <3>2. entry[work[k].c] \in Entry(Nat, 0 .. MaxClock)
      BY <2>1, <2>5 DEF TypeOK
    <3> QED
      BY <1>1, <3>1, <3>2 DEF Entry
  <2>7. PICK e : e = entry[work[k].c]
    OBVIOUS
  <2>8. Fresh(e, clock) /\ e \in Entry(Nat, 0 .. MaxClock)
    BY <2>1, <2>4, <2>5, <2>6, <2>7 DEF UseFresh, TypeOK
  <2>9. Dated(e, Path(k))
    <3>1. Holding(work[k])
      BY <1>1, <2>5 DEF At, Holding, Holds
    <3>2. stored[Path(k)] = work[k].c
      BY <2>1, <3>1 DEF Shares, HeldOK, Path
    <3> QED
      BY <2>1, <2>5, <2>7, <3>2 DEF TimesOK, IsStored
  <2>10. /\ e.request_time \in Nat /\ e.response_time \in Nat /\ clock \in Nat /\ v \in Nat
         /\ Lifetime \in Nat
    <3>1. e.request_time \in Nat /\ e.response_time \in Nat /\ e.contents \in Nat
      BY <2>8, FileAssumption DEF Entry
    <3>2. clock \in Nat
      BY <2>1, FileAssumption DEF TypeOK, OriginTypeOK
    <3> QED
      BY <1>1, <2>7, <3>1, <3>2, LifetimeAssumption
  <2>11. e.response_time > clock - Lifetime
    BY <2>8, <2>9, <2>10
    DEF Dated, Fresh, FreshnessLifetime, CurrentAge, CorrectedInitialAge, CorrectedReceivedAge,
        ResponseDelay, ResidentTime
  <2>12. writes[Path(k)][v + 1] \in Nat
    <3>1. writes[Path(k)] \in Seq(0 .. MaxClock)
      BY <2>1, <2>5 DEF TypeOK, OriginTypeOK
    <3>2. v + 1 \in 1 .. Len(writes[Path(k)])
      BY <1>1, <2>10, <3>1 DEF Contents
    <3> QED
      BY <3>1, <3>2, FileAssumption
  <2>13. e.response_time <= writes[Path(k)][v + 1]
    BY <1>1, <2>7, <2>9 DEF Dated
  <2> QED
    BY <2>10, <2>11, <2>12, <2>13
<1>2. Inv /\ [Next]_vars =>
         [\A k \in Conns :
             At(k, "check") /\ work'[k].pc = "output" /\ ~ entry'[work[k].c].warned =>
                 LET v == entry[work[k].c].contents
                 IN  v < Contents(Path(k)) => writes[Path(k)][v + 1] > clock - Lifetime]_vars
  BY <1>1
<1> QED
  BY <1>2, Invariance, PTL DEF Spec, FreshIsRecent
============================================================================
