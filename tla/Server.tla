------------------------------- MODULE Server -------------------------------
(***************************************************************************)
(* The server: Server::serve runs the scheduler thread and a pool of       *)
(* workers over one job queue, waits for all of them when a signal halts   *)
(* the scheduler, deletes everything, and starts again unless doserve has  *)
(* been cleared.  This module composes Sockets, FindWork, Scheduler and    *)
(* Worker.                                                                 *)
(***************************************************************************)
EXTENDS Worker

VARIABLE
    phase       \* "serving", or "stopped" when serve() has returned

vars == <<sockvars, findvars, schedvars, crashed, workervars, phase>>

TypeOK ==
    /\ SocketsTypeOK /\ FindWorkTypeOK /\ SchedulerTypeOK /\ WorkerTypeOK
    /\ phase \in {"serving", "stopped"}

Init ==
    /\ SocketsInit /\ FindWorkInit /\ SchedulerInit /\ WorkerInit
    /\ phase = "serving"

\* The destructors of ThreadPool and Thread wait for the workers and the scheduler.
AllRetired == schedpc = "retired" /\ \A k \in Workers : pc[k] = "retired"

\* delete findwork; delete sch; delete jobq; then the next iteration of the loop,
\* whose scheduler has a new epoll set, or the end.  Signals stay blocked meanwhile.
EndIteration ==
    /\ phase = "serving" /\ AllRetired
    /\ ClearAll
    /\ jobq' = << >>
    /\ batch' = {}
    /\ cur' = [k \in Workers |-> NoWork]
    /\ IF doserve
       THEN /\ schedpc' = "poll" /\ dowork' = TRUE
            /\ pc' = [k \in Workers |-> "deq"]
            /\ UNCHANGED phase
       ELSE /\ phase' = "stopped"
            /\ UNCHANGED <<schedpc, dowork, pc>>
    /\ UNCHANGED <<sigs, work, doserve, crashed>>

----------------------------------------------------------------------------
Serving == phase = "serving" /\ ~ crashed

SchedulerThread == Serving /\ SchedulerStep /\ UNCHANGED <<workervars, phase>>

WorkerThread(k) == Serving /\ WorkerStep(k) /\ UNCHANGED phase

MainThread == Serving /\ EndIteration

servervars == <<findvars, schedvars, crashed, workervars, phase>>

Outside == Environment /\ UNCHANGED servervars

Threads == SchedulerThread \/ (\E k \in Workers : WorkerThread(k)) \/ MainThread

Next == Threads \/ Outside

Spec == Init /\ [][Next]_vars

\* While some thread can go on, some thread does: less than what the operating
\* system's scheduling gives each of them.  Clients need not connect, send or hang
\* up, but those that have stopped reading read on.
Fairness ==
    /\ WF_vars(Threads)
    /\ WF_vars((\E c \in Stallers : Drain(c)) /\ UNCHANGED servervars)

FairSpec == Spec /\ Fairness

----------------------------------------------------------------------------
(* Properties *)

\* The worker k still has its Work to itself: operator() has not rescheduled it,
\* or it is about to delete it.
Holds(k, w) ==
    /\ cur[k] = w
    /\ \/ pc[k] \in {"run", "resched", "unregister", "close"}
       \/ pc[k] = "after" /\ work[w].deleteme

\* Where a Work can be: armed in epoll, in an event that the scheduler has not
\* handled, in the job queue, with a worker.
Places(w) ==
    LET f == work[w].fd
    IN  (IF interest[f] \in {"in", "out"} THEN 1 ELSE 0)
        + Cardinality({e \in batch \ {AcceptEvent, SignalEvent} : e.fd = f})
        + Cardinality({i \in DOMAIN jobq : jobq[i] = w})
        + Cardinality({k \in Workers : Holds(k, w)})

\* "Any connection that shows up in the epoll_wait is neither currently being
\* worked on by a worker, nor in the job queue waiting for a worker" (Scheduler::
\* poll), and no connection is lost either: while the scheduler polls, each Work
\* is in exactly one place, and in at most one once it has halted.
OnePlace ==
    ~ crashed =>
        \A w \in live : IF dowork THEN Places(w) = 1 ELSE Places(w) <= 1

\* "One fd, one owner" (FindWork_prealloc::unregister): the map leads from an open
\* descriptor to the Work made for the connection that is open there now, and no
\* Work outlives its connection or is missing from the map, except in the middle
\* of its own deletion.  Hence the epoll_ctl of schedule and reschedule never fails,
\* with an exception that would end the process: no descriptor is closed while a
\* worker runs its Work, and each is registered exactly once.
WorksMatchConnections ==
    /\ ~ crashed
    /\ \A f \in Fds : wmap[f] # NoWork => wmap[f] \in live /\ work[wmap[f]].fd = f
    /\ \A w \in live :
          /\ Open(work[w].fd) /\ fdconn[work[w].fd] = work[w].conn
          /\ wmap[work[w].fd] = w \/ \E k \in Workers : cur[k] = w /\ pc[k] = "close"

\* No thread touches a Work that has been deleted: Worker::work reads w->deleteme
\* after the call in which the Work was rescheduled.
NoUseAfterFree == \A k \in Workers : pc[k] # "deq" /\ cur[k] # NoWork => cur[k] \in live

\* Every request is answered in the end, unless its client hangs up or the server
\* is halted or flushed, which closes the connection.
RequestAnswered ==
    \A c \in Conns :
        (sent[c] > answered[c]) ~>
            (answered[c] = sent[c] \/ hup[c] \/ peer[c] = "closed" \/ phase = "stopped")

\* A connection whose client has hung up is closed in the end.
HangupReclaimed ==
    \A c \in Leavers :
        (peer[c] = "accepted" /\ hup[c]) ~> (peer[c] = "closed")

\* Once the scheduler has halted, every thread retires and the server stops or
\* starts over: the one poison pill reaches all workers.
HaltCompletes == ~ dowork ~> (dowork \/ phase = "stopped")

\* haltsigs "should cause the server to do an orderly shutdown" (Server.hpp): a halt
\* signal ends the server, also when it arrives while a flush makes the server start
\* over.  Excepted is a halt that is read together with a flush: _sigcb takes both
\* from the signalfd and obeys the first one only.
HaltObeyed ==
    (sigs["halt"] = "pending") ~>
        \/ phase = "stopped"
        \/ doserve /\ sigs["halt"] = "taken" /\ sigs["flush"] = "taken"
=============================================================================
