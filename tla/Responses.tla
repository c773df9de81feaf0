------------------------------ MODULE Responses ------------------------------
(***************************************************************************)
(* How an HTTP_2616_Server_Work answers the requests of its connection:    *)
(* browse_req, prepare_response with the cache and the origin server, the  *)
(* output of the response, reset.  Each Work is executed by at most one    *)
(* worker at a time, and several at once share the cache, the entries in   *)
(* it and the files.                                                       *)
(*                                                                         *)
(* Grain of atomicity: each action makes at most one call of the cache and *)
(* at most one access to a file or to the flags of an entry, and reads the *)
(* clock once.  The cache is CacheContract.  A request is what browse_req  *)
(* makes of its headers: a method, a path, at most one cache directive     *)
(* (its tests are else-ifs) with the number extracted for it, and the      *)
(* encoding accepted; error says whether it throws before it has set the   *)
(* path ("uri") or after ("header").                                       *)
(***************************************************************************)
EXTENDS OriginServer, CacheEntry, FiniteSets

CONSTANTS
    Conns,      \* connections, each with its Work
    Scripts,    \* sets of requests: connection -> what its client asks for, in order
    MaxAborts,  \* bound on the connections lost while a response is sent
    Entries,    \* addresses of entries
    NoEntry,    \* the null pointer
    NoPath      \* the empty path

ASSUME NullAssumption == NoEntry \notin Entries /\ NoPath \notin Paths
ASSUME ConnsAssumption == IsFiniteSet(Conns)

Request == [meth: {"GET", "HEAD", "OPTIONS", "PUT", "POST", "DELETE", "CONNECT"},
            path: Paths,
            cc: {"none", "no_cache", "no_store", "only_if_cached", "max_age",
                 "min_fresh", "max_stale"},
            arg: Int, accept: {"unsaid", "gzip", "identity"},
            error: {"none", "uri", "header"}]

ASSUME ScriptsAssumption == Scripts \subseteq [Conns -> Seq(Request)]

VARIABLES
    stored, refs, doomed,   \* the cache
    live,       \* entries allocated and not deleted
    entry,      \* address -> the entry there
    work,       \* connection -> the fields of its Work
    todo,       \* connection -> the requests to come
    lost,       \* history: the Works destroyed while they had a response to send
    crashed     \* the process has ended

INSTANCE CacheContract WITH Handles <- Paths, Objs <- Entries, NoObj <- NoEntry

cachevars == <<stored, refs, doomed>>
heapvars == <<live, entry>>
vars == <<clock, filevars, cachevars, heapvars, work, todo, lost, crashed>>

\* pc: "idle", or the next thing prepare_response or operator() does; req: the
\* request; st: what stat said, and when; how: the form of the body to be sent;
\* announced: the form that the headers announce; shared is a history field.
NoStat == [size |-> 0, modified |-> 0, at |-> 0]

NewWork ==
    [pc |-> "idle", req |-> NoPath, path |-> NoPath, resp_is_cached |-> FALSE,
     c |-> NoEntry, cl_accept_enc |-> "identity", st |-> NoStat,
     how |-> "oops", announced |-> "oops", shared |-> FALSE]

Forms == {"oops", "head", "identity", "gzip"}

WorkType ==
    [pc: {"idle", "lookup", "check", "stat", "read", "put", "dir", "socket", "output",
          "emit", "send", "stat_put", "open", "write", "advise"},
     req: Request \cup {NoPath}, path: Paths \cup {NoPath},
     resp_is_cached: BOOLEAN, c: Entries \cup {NoEntry},
     cl_accept_enc: {"gzip", "identity"},
     st: [size: Nat, modified: 0 .. MaxClock, at: 0 .. MaxClock],
     how: Forms, announced: Forms, shared: BOOLEAN]

TypeOK ==
    /\ OriginTypeOK
    /\ stored \in [Paths -> Entries \cup {NoEntry}]
    /\ refs \in [Paths -> Nat]
    /\ doomed \in [Paths -> BOOLEAN]
    /\ live \in SUBSET Entries
    /\ entry \in [Entries -> Entry(Nat, 0 .. MaxClock)]
    /\ work \in [Conns -> WorkType]
    /\ todo \in [Conns -> Seq(Request)]
    /\ lost \in Seq(WorkType)
    /\ crashed \in BOOLEAN

\* What an address holds that has never been used or has been deleted.
Blank == NewEntry(0, 0, 0, 0)

Init ==
    /\ OriginInit /\ ContractInit
    /\ live = {}
    /\ entry = [o \in Entries |-> Blank]
    /\ work = [k \in Conns |-> NewWork]
    /\ todo \in Scripts
    /\ lost = << >>
    /\ crashed = FALSE

----------------------------------------------------------------------------
(* Helpers *)

At(k, label) == work[k].pc = label
Path(k) == work[k].path
Directive(k) == work[k].req.cc
Mode(k) == IF work[k].req.meth = "POST" THEN "a" ELSE "w"

Become(k, w) == work' = [work EXCEPT ![k] = w]
Goto(k, label) == Become(k, [work[k] EXCEPT !.pc = label])

\* An HTTP_oops is caught in operator(), which makes it the response.
Oops(w) ==
    [w EXCEPT !.pc = "send", !.how = "oops", !.announced = "oops", !.st = NoStat]
Throw(k) == Become(k, Oops(work[k]))

\* Addresses that nobody uses, so that a dangling pointer stays recognisable.
Unused == Entries \ (live \cup {work[k].c : k \in Conns})

NewEntryFor(k, e, label) ==
    LET o == CHOOSE x \in Unused : TRUE
    IN  /\ Unused # {}
        /\ live' = live \cup {o}
        /\ entry' = [entry EXCEPT ![o] = e]
        /\ Become(k, [work[k] EXCEPT !.pc = label, !.c = o, !.st = NoStat])

----------------------------------------------------------------------------
(* browse_req, and the branches of prepare_response before any shared state  *)

\* Where prepare_response begins for a request that browse_req has accepted.
Entrance(r) ==
    CASE r.meth \in {"PUT", "POST"} -> "stat_put"
      [] r.meth \notin {"PUT", "POST"} /\ r.cc = "no_cache" -> "stat"
      [] OTHER -> "lookup"

\* browse_req, whether it throws in the end or not
Browsed(w, r) ==
    [w EXCEPT !.req = r, !.path = r.path,
              !.cl_accept_enc = IF r.accept = "unsaid" THEN @ ELSE r.accept]

\* With no_cache, cache_get returns false at once.
Admitted(w, r) ==
    [Browsed(w, r) EXCEPT !.pc = Entrance(r),
                          !.resp_is_cached = IF Entrance(r) = "stat" THEN FALSE ELSE @]

Receive(k) ==
    /\ At(k, "idle") /\ todo[k] # << >>
    /\ todo' = [todo EXCEPT ![k] = Tail(@)]
    /\ LET r == Head(todo[k])
       IN  /\ CASE r.error = "uri" -> Throw(k)
                [] r.error = "header" \/ (r.error = "none" /\ r.meth = "CONNECT") ->
                       Become(k, Oops(Browsed(work[k], r)))
                [] OTHER -> Become(k, Admitted(work[k], r))
           \* HTTP_Origin_Server::unlink calls itself for ever: the stack overflows.
           /\ crashed' = (r.error = "none" /\ r.meth = "DELETE")
    /\ UNCHANGED <<clock, filevars, cachevars, heapvars, lost>>

----------------------------------------------------------------------------
(* cache_get *)

\* cache_get has returned false.
Missed(w) ==
    LET v == [w EXCEPT !.resp_is_cached = FALSE]
    IN  IF w.req.cc = "only_if_cached" THEN Oops(v) ELSE [v EXCEPT !.pc = "stat"]

Hit(k) ==
    /\ At(k, "lookup") /\ Take(Path(k))
    /\ Become(k, [work[k] EXCEPT !.pc = "check", !.c = stored[Path(k)]])
    /\ UNCHANGED <<clock, filevars, heapvars, todo, lost, crashed>>

Miss(k) ==
    /\ At(k, "lookup") /\ ~ IsStored(Path(k))
    /\ Become(k, Missed(work[k]))
    /\ UNCHANGED <<clock, filevars, cachevars, heapvars, todo, lost, crashed>>

\* The tests of cache_get: whether the client's directives let the entry be used.
\* An entry that is neither fresh nor valid is used if there is no directive.
Acceptable(k) ==
    LET e == entry[work[k].c]
        age == CurrentAge(e, clock)
        arg == work[k].req.arg
    IN  CASE Directive(k) = "min_fresh" -> FreshnessLifetime(e) >= age + arg
          [] Directive(k) = "max_age" -> age <= arg
          [] Directive(k) = "max_stale" ->
                 \/ Fresh(e, clock) \/ Validated(Path(k), e.last_modified)
                 \/ age - FreshnessLifetime(e) <= arg
          [] OTHER -> TRUE

\* cache_ok, with a fresh entry
UseFresh(k) ==
    /\ At(k, "check") /\ Acceptable(k) /\ Fresh(entry[work[k].c], clock)
    /\ Become(k, [work[k] EXCEPT !.pc = "output", !.resp_is_cached = TRUE])
    /\ UNCHANGED <<clock, filevars, cachevars, heapvars, todo, lost, crashed>>

\* cache_ok, with a stale one
UseStale(k) ==
    /\ At(k, "check") /\ Acceptable(k) /\ ~ Fresh(entry[work[k].c], clock)
    /\ Doom(Path(k))
    /\ entry' = [entry EXCEPT ![work[k].c].warned = TRUE]
    /\ Become(k, [work[k] EXCEPT !.pc = "output", !.resp_is_cached = TRUE])
    /\ UNCHANGED <<clock, filevars, live, todo, lost, crashed>>

Decline_KeepsReference(k) == UNCHANGED cachevars

Decline(k) == GiveBack(Path(k))

\* cache_no; the pointer c is not used again before request sets it
Refuse(k) ==
    /\ At(k, "check") /\ ~ Acceptable(k)
    /\ Decline(k)
    /\ Become(k, [Missed(work[k]) EXCEPT !.c = NoEntry])
    /\ UNCHANGED <<clock, filevars, heapvars, todo, lost, crashed>>

----------------------------------------------------------------------------
(* HTTP_Origin_Server::request and dirtoHTML, and cache_put *)

Stat(k) ==
    /\ At(k, "stat")
    /\ LET p == Path(k)
       IN  CASE Kind[p] \in {"none", "other"} -> Throw(k)
             [] Kind[p] = "dir" -> Goto(k, "dir")
             [] Kind[p] = "sock" -> Goto(k, "socket")
             [] Kind[p] = "reg" ->
                  Become(k, [work[k] EXCEPT !.pc = "read", !.st =
                      [size |-> size[p], modified |-> Modified(p), at |-> clock]])
    /\ UNCHANGED <<clock, filevars, cachevars, heapvars, todo, lost, crashed>>

Read(k) ==
    /\ At(k, "read") /\ Readable(Path(k), work[k].st.size)
    /\ NewEntryFor(k, NewEntry(Contents(Path(k)), work[k].st.modified,
                               work[k].st.at, clock), "put")
    /\ UNCHANGED <<clock, filevars, cachevars, todo, lost, crashed>>

ListDirectory(k) ==
    /\ At(k, "dir")
    /\ NewEntryFor(k, NewEntry(Contents(Path(k)), clock, clock, clock), "output")
    /\ UNCHANGED <<clock, filevars, cachevars, todo, lost, crashed>>

\* fopen, opendir, malloc or the compression fails.
OriginFails(k) ==
    /\ At(k, "read") \/ At(k, "dir")
    /\ Throw(k)
    /\ UNCHANGED <<clock, filevars, cachevars, heapvars, todo, lost, crashed>>

MayCache(k) == work[k].req.meth # "OPTIONS" /\ Directive(k) # "no_store"

CachePut(k) ==
    /\ At(k, "put") /\ MayCache(k)
    /\ Store(Path(k), work[k].c)
    /\ entry' = [entry EXCEPT ![work[k].c].late =
                     (entry[work[k].c].contents # Contents(Path(k)))]
    /\ Become(k, [work[k] EXCEPT !.pc = "output", !.resp_is_cached = TRUE])
    /\ UNCHANGED <<clock, filevars, live, todo, lost, crashed>>

Refused_Forgotten(k) == TRUE

\* What cache_put returns if the response is not stored.
Refused(k) == FALSE

\* The response may not be cached, there is an entry already, or there is no room.
CachePutRefused(k) ==
    /\ At(k, "put")
    /\ Become(k, [work[k] EXCEPT !.pc = "output", !.resp_is_cached = Refused(k)])
    /\ UNCHANGED <<clock, filevars, cachevars, heapvars, todo, lost, crashed>>

----------------------------------------------------------------------------
(* Output of the response *)

HowToSend(k) ==
    IF work[k].req.meth = "HEAD" THEN "head" ELSE work[k].cl_accept_enc

Emitting(k, o) == At(k, "emit") /\ work[k].c = o

\* The manipulator is pushed into the entry; with "identity" the body is a copy,
\* with "gzip" it is the buffer of the entry itself.
Manipulate(k) ==
    LET o == work[k].c
        others == {j \in Conns : Emitting(j, o)}
    IN  /\ At(k, "output")
        /\ entry' = [entry EXCEPT ![o] = Manipulated(@, HowToSend(k))]
        /\ work' = [j \in Conns |->
              CASE j = k -> [work[k] EXCEPT !.pc = "emit", !.how = HowToSend(k),
                                            !.shared = (others # {})]
                [] j \in others -> [work[j] EXCEPT !.shared = TRUE]
                [] OTHER -> work[j]]
        /\ UNCHANGED <<clock, filevars, cachevars, live, todo, lost, crashed>>

\* malloc or uncompress fails.
UncompressFails(k) ==
    /\ At(k, "output") /\ HowToSend(k) = "identity"
    /\ Throw(k)
    /\ UNCHANGED <<clock, filevars, cachevars, heapvars, todo, lost, crashed>>

\* hdrstream << *c
Emit(k) ==
    LET o == work[k].c
    IN  /\ At(k, "emit")
        /\ entry' = [entry EXCEPT ![o] = AfterOutput(@)]
        /\ Become(k, [work[k] EXCEPT !.pc = "send", !.announced = Announced(entry[o])])
        /\ UNCHANGED <<clock, filevars, cachevars, live, todo, lost, crashed>>

\* The response of a domain socket, see DomainSocket.
SocketAnswers(k) ==
    /\ At(k, "socket")
    /\ Throw(k)
    /\ UNCHANGED <<clock, filevars, cachevars, heapvars, todo, lost, crashed>>

Deleted_Never(k) == {}

Deleted(k) == IF work[k].c = NoEntry THEN {} ELSE {work[k].c}

\* What reset keeps of a Work.
Cleared(w) ==
    [NewWork EXCEPT !.resp_is_cached = w.resp_is_cached, !.cl_accept_enc = w.cl_accept_enc]

\* The body has been written: reset().  The reference goes back to the cache, or
\* the entry is deleted.  An empty path is in no cache.
Reset(k) ==
    /\ At(k, "send")
    /\ IF work[k].resp_is_cached
       THEN /\ IF Path(k) = NoPath THEN UNCHANGED cachevars ELSE GiveBack(Path(k))
            /\ UNCHANGED heapvars
       ELSE /\ live' = live \ Deleted(k)
            /\ entry' = [o \in Entries |-> IF o \in Deleted(k) THEN Blank ELSE entry[o]]
            /\ UNCHANGED cachevars
    /\ Become(k, Cleared(work[k]))
    /\ UNCHANGED <<clock, filevars, todo, lost, crashed>>

\* The client is gone, or has asked for the connection to be closed: the Work is
\* deleted, whose destructor neither gives its reference back nor deletes c.  The
\* next connection has a new Work.
Abort(k) ==
    /\ At(k, "send") /\ work[k].c # NoEntry
    /\ Len(lost) < MaxAborts
    /\ lost' = Append(lost, work[k])
    /\ Become(k, NewWork)
    /\ UNCHANGED <<clock, filevars, cachevars, heapvars, todo, crashed>>

----------------------------------------------------------------------------
(* PUT and POST *)

StatPut(k) ==
    /\ At(k, "stat_put")
    /\ CASE Kind[Path(k)] \in {"none", "dir", "other"} -> Throw(k)
         [] Kind[Path(k)] = "sock" -> Goto(k, "socket")
         [] Kind[Path(k)] = "reg" -> Goto(k, "open")
    /\ UNCHANGED <<clock, filevars, cachevars, heapvars, todo, lost, crashed>>

OpenPut(k) ==
    /\ At(k, "open")
    /\ Open(Path(k), Mode(k))
    /\ Goto(k, "write")
    /\ UNCHANGED <<clock, cachevars, heapvars, todo, lost, crashed>>

\* The decoding of the body or fopen fails.
PutFails(k) ==
    /\ At(k, "open")
    /\ Throw(k)
    /\ UNCHANGED <<clock, filevars, cachevars, heapvars, todo, lost, crashed>>

WritePut(k) ==
    /\ At(k, "write")
    /\ Write(Path(k), Mode(k))
    /\ Goto(k, "advise")
    /\ UNCHANGED <<clock, cachevars, heapvars, todo, lost, crashed>>

Invalidate_Forgotten(k) == UNCHANGED cachevars

Invalidate(k) == Doom(Path(k))

\* advise_evict, then HTTP_oops(OK)
Advise(k) ==
    /\ At(k, "advise")
    /\ Invalidate(k)
    /\ Throw(k)
    /\ UNCHANGED <<clock, filevars, heapvars, todo, lost, crashed>>

----------------------------------------------------------------------------
\* The cache deletes what it drops.
Evict(p) ==
    /\ Drop(p)
    /\ live' = live \ {stored[p]}
    /\ entry' = [entry EXCEPT ![stored[p]] = Blank]
    /\ UNCHANGED <<clock, filevars, work, todo, lost, crashed>>

Time == Tick /\ UNCHANGED <<filevars, cachevars, heapvars, work, todo, lost, crashed>>

Prepare(k) ==
    \/ Hit(k) \/ Miss(k) \/ UseFresh(k) \/ UseStale(k) \/ Refuse(k)
    \/ Stat(k) \/ Read(k) \/ ListDirectory(k)
    \/ CachePut(k) \/ CachePutRefused(k)
    \/ Manipulate(k) \/ Emit(k) \/ SocketAnswers(k)
    \/ StatPut(k) \/ OpenPut(k) \/ WritePut(k) \/ Advise(k)

Fail(k) == OriginFails(k) \/ UncompressFails(k) \/ PutFails(k) \/ Abort(k)

Serve(k) == ~ crashed /\ (Prepare(k) \/ Reset(k))

Next ==
    \/ \E k \in Conns : Serve(k)
    \/ /\ ~ crashed
       /\ \/ \E k \in Conns : Receive(k) \/ Fail(k)
          \/ \E p \in Paths : Evict(p)
          \/ Time

\* While some worker that executes a Work can go on, some worker does, and a
\* client reads its response.  Nothing need fail.
Fairness == WF_vars(\E k \in Conns : Serve(k))

Spec == Init /\ [][Next]_vars /\ Fairness

----------------------------------------------------------------------------
(* Properties *)

\* w counts on a reference to its entry, which it will give back.
Holds(w, o) == w.c = o /\ (w.pc = "check" \/ w.resp_is_cached)

\* w will delete its entry itself.
Owns(w, o) == w.c = o /\ ~ Holds(w, o)

\* How many Works there are for which P, destroyed ones included.
Count(P(_)) ==
    Cardinality({k \in Conns : P(work[k])}) + Cardinality({i \in DOMAIN lost : P(lost[i])})

\* The entry that a Work reads, or whose buffer it writes to its client, has not
\* been deleted, whatever other Works and the cache do meanwhile: "between a
\* successful call to get() and the corresponding call to unget(), the requested
\* entry is not going to go away" (Cache.hpp).
EntryInUseLives ==
    \A k \in Conns :
        (\/ work[k].pc \in {"check", "put", "output", "emit"}
         \/ work[k].pc = "send" /\ work[k].how = "gzip")
            => work[k].c \in live

\* The cache's count of references is the number of Works that will give one back
\* or were destroyed with it: on every path through cache_get, cache_put, the
\* HTTP_oops exits and reset, what was taken is given back once.
RefsAreWorks ==
    \A p \in Paths :
        IsStored(p) => refs[p] = Count(LAMBDA w : Holds(w, stored[p]))

\* "If neither of these is true we need to remember to delete it ourselves": each
\* entry is deleted by exactly one party, the cache that stores it or the one Work
\* that made it, and none is forgotten except by the destructor of a Work.
DeletedByOne ==
    \A o \in live :
        Cardinality({p \in Paths : stored[p] = o}) + Count(LAMBDA w : Owns(w, o)) = 1

\* A response sent from the cache without a Warning is at most Lifetime old: it has
\* what the file contained at some moment less than Lifetime ago, however the PUTs
\* and the reads of other connections fell.
FreshIsRecent ==
    [][\A k \in Conns :
          At(k, "check") /\ work'[k].pc = "output" /\ ~ entry'[work[k].c].warned =>
              LET v == entry[work[k].c].contents
              IN  v < Contents(Path(k)) => writes[Path(k)][v + 1] > clock - Lifetime]_vars

\* "Write-Through Mandatory": when a PUT or POST is done, a stored entry with older
\* contents has been marked invalid, unless it was put into the cache only after
\* the contents it was made from had been replaced.
OldEntryInvalidated ==
    \A p \in Paths :
        IsStored(p) /\ entry[stored[p]].contents < Contents(p) =>
            \/ doomed[p] \/ entry[stored[p]].late
            \/ \E k \in Conns : work[k].pc \in {"write", "advise"} /\ Path(k) = p

\* The headers announce the body that is sent, since "manipulators change output
\* for this time only", unless two Works were sending the same entry at once.
HeadersMatchBody ==
    \A k \in Conns :
        At(k, "send") /\ ~ work[k].shared => work[k].announced = work[k].how

\* The file has become shorter than stat said before it was read: the loop of
\* request does not end.
Shrunk(k) == At(k, "read") /\ size[Path(k)] < work[k].st.size

\* Again and again no Work is in the middle of a request, except those whose file
\* shrank under them: every request is answered unless that happens to it or the
\* process ends.
AllAnswered ==
    []<>(\A k \in Conns : At(k, "idle") \/ Shrunk(k) \/ crashed)
==============================================================================
