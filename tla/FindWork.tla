------------------------------ MODULE FindWork ------------------------------
(***************************************************************************)
(* The Work objects and how the server finds them: FindWork_prealloc's map *)
(* from descriptors to Work objects, the free store of Preallocated, and   *)
(* the construction and destruction of a Work (an HTTP_2616_Server_Work).  *)
(*                                                                         *)
(* Preallocated's store is a FIFO queue: a freed chunk is reused only      *)
(* after all chunks that were free before it.  The map's operations are    *)
(* atomic here; the code writes to it under a read lock, or under none in  *)
(* unregister.                                                             *)
(***************************************************************************)
EXTENDS Sockets

CONSTANTS
    Works,      \* addresses of Work objects
    NoWork,     \* the null pointer, which is also the poison pill of the job queue
    WorkOrder   \* the store as prealloc_init fills it: a sequence of some of Works

ASSUME WorkAssumption ==
    /\ NoWork \notin Works /\ WorkOrder \in Seq(Works)
    /\ \A i, j \in DOMAIN WorkOrder : WorkOrder[i] = WorkOrder[j] => i = j

\* Work *
Pointers == Works \cup {NoWork}

VARIABLES
    wmap,       \* descriptor -> Work registered for it, or NoWork
    work,       \* address -> the fields of the Work there (after delete: what is left)
    live,       \* addresses that hold a constructed Work
    store       \* free chunks, oldest first

findvars == <<wmap, work, live, store>>

\* conn is a history field: the connection that was open on fd when the Work was made.
Work == [fd: Fds, m: {"read", "write"}, deleteme: BOOLEAN,
         inbuf: Seq(Kinds), hdrs_done: BOOLEAN, conn: Conns \cup {NoConn}]

\* The constructor ignores the mode FindWork passes: a new Work always reads first.
NewWork(f, c) ==
    [fd |-> f, m |-> "read", deleteme |-> FALSE,
     inbuf |-> << >>, hdrs_done |-> FALSE, conn |-> c]

FindWorkTypeOK ==
    /\ wmap \in [Fds -> Pointers]
    /\ work \in [Works -> Work]
    /\ live \in SUBSET Works
    /\ store \in Seq(Works)

FindWorkInit ==
    /\ wmap = [f \in Fds |-> NoWork]
    /\ work \in [Works -> {NewWork(f, NoConn) : f \in {CHOOSE g \in Fds : TRUE}}]
    /\ live = {}
    /\ store = WorkOrder

----------------------------------------------------------------------------
Allocate_NoFallback(w) ==
    IF store # << >>
    THEN w = Head(store) /\ store' = Tail(store)
    ELSE w = NoWork /\ UNCHANGED store

\* Preallocated::operator new: the oldest chunk of the store, or one from the OS.
Allocate(w) ==
    IF store # << >>
    THEN w = Head(store) /\ store' = Tail(store)
    ELSE w \in Works \ live /\ UNCHANGED store

\* Work *operator()(fd, m): w is the Work registered for f, or a new one made for
\* f, on which connection c is open.
FindOrCreate(f, c, w) ==
    IF wmap[f] # NoWork
    THEN w = wmap[f] /\ UNCHANGED findvars
    ELSE /\ Allocate(w)
         /\ live' = live \cup {w}
         /\ work' = [work EXCEPT ![w] = NewWork(f, c)]
         /\ wmap' = [wmap EXCEPT ![f] = w]

Unregister_Forgotten(f) == UNCHANGED wmap

\* void unregister(fd), which ~HTTP_2616_Server_Work calls
Unregister(f) == wmap' = [wmap EXCEPT ![f] = NoWork]

Destroy_KeepsFd(w) ==
    /\ live' = live \ {w}
    /\ store' = Append(store, w)
    /\ UNCHANGED <<work, sockvars>>

\* ~Work and operator delete: close(fd), then the chunk goes back to the store.
Destroy(w) ==
    /\ CloseAll({work[w].fd})
    /\ live' = live \ {w}
    /\ store' = Append(store, w)
    /\ UNCHANGED <<work, sigs>>

\* The whole of delete w.
Delete(w) == Unregister(work[w].fd) /\ Destroy(w)

\* delete of a Work that operator() has just made for f: its chunk moves to the
\* back of the store.
MakeAndDelete(f) ==
    /\ CloseAll({f})
    /\ \E w \in Works \ live :
          store' = IF store = << >> THEN <<w>> ELSE Append(Tail(store), Head(store))
    /\ UNCHANGED <<wmap, work, live, sigs>>

\* ~FindWork_prealloc: clear() deletes every Work in the map, and the store is
\* emptied; the FindWork of the next iteration fills it again.
ClearAll ==
    /\ CloseAll({f \in Fds : wmap[f] # NoWork})
    /\ wmap' = [f \in Fds |-> NoWork]
    /\ live' = live \ {wmap[f] : f \in Fds}
    /\ store' = WorkOrder
=============================================================================
