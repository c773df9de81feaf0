----------------------------- MODULE Scheduler -----------------------------
(***************************************************************************)
(* The scheduler thread, Scheduler::poll: it waits for events with         *)
(* epoll_wait and hands each ready connection to the workers through the   *)
(* job queue, accepts connections, deletes the ones that hung up, and runs *)
(* the signal handlers.  The job queue is a FIFO queue here.               *)
(***************************************************************************)
EXTENDS FindWork

CONSTANTS
    MaxEvents   \* maxevents: how many events one epoll_wait returns

ASSUME MaxEventsAssumption == MaxEvents \in Nat \ {0}

VARIABLES
    schedpc,    \* "poll" (in epoll_wait), "events" (in the loop over fds) or "retired"
    batch,      \* events of the last epoll_wait still to be handled
    dowork,     \* the flag of the poll loop
    doserve,    \* the flag of Server::serve's loop
    jobq,       \* the job queue: Work objects and poison pills (NoWork)
    crashed     \* an exception that no thread catches has ended the process

schedvars == <<schedpc, batch, dowork, doserve, jobq>>

\* Events carry the descriptor; the two callbacks have descriptors of their own.
ConnEvents == [fd: Fds, ev: {"in", "out", "hup"}]
AcceptEvent == [cb |-> "accept"]
SignalEvent == [cb |-> "signal"]
Events == ConnEvents \cup {AcceptEvent, SignalEvent}

SchedulerTypeOK ==
    /\ schedpc \in {"poll", "events", "retired"}
    /\ batch \in SUBSET Events
    /\ dowork \in BOOLEAN
    /\ doserve \in BOOLEAN
    /\ jobq \in Seq(Pointers)
    /\ crashed \in BOOLEAN

SchedulerInit ==
    /\ schedpc = "poll"
    /\ batch = {}
    /\ dowork = TRUE
    /\ doserve = TRUE
    /\ jobq = << >>
    /\ crashed = FALSE

----------------------------------------------------------------------------
(* schedule and reschedule *)

Watch_AlwaysIn(m) == "in"

Watch(m) == IF m = "read" THEN "in" ELSE "out"

\* void schedule(w, true): EPOLL_CTL_ADD fails if the descriptor is registered.
CanSchedule(f) == interest[f] = "none"

\* void reschedule(w, true): EPOLL_CTL_MOD fails if the descriptor is not.
CanReschedule(f) == interest[f] # "none"

Arm(f, m) == interest' = [interest EXCEPT ![f] = Watch(m)]

\* throw ResourceErr or SocketErr where nobody catches it
Crash ==
    /\ crashed' = TRUE
    /\ UNCHANGED <<netvars, fdconn, interest, findvars>>

----------------------------------------------------------------------------
(* epoll_wait *)

ReadyEvents ==
    {[fd |-> f, ev |-> EventOf(f)] : f \in {g \in Fds : Ready(g)}}
        \cup (IF Backlog # {} THEN {AcceptEvent} ELSE {})
        \cup (IF Pending # {} THEN {SignalEvent} ELSE {})

EventFds(E) == {e.fd : e \in E \ {AcceptEvent, SignalEvent}}

DisarmReported_Never(E) == interest

\* EPOLLONESHOT: a connection that is reported is disarmed.
DisarmReported(E) == [f \in Fds |-> IF f \in EventFds(E) THEN "off" ELSE interest[f]]

\* The order of the events is up to the kernel, so the batch is a set.
EpollWait ==
    /\ schedpc = "poll" /\ dowork
    /\ \E E \in SUBSET ReadyEvents :
          /\ E # {} /\ Cardinality(E) <= MaxEvents
          /\ batch' = E
          /\ interest' = DisarmReported(E)
    /\ schedpc' = "events"
    /\ UNCHANGED <<netvars, fdconn, sigs, findvars, dowork, doserve, jobq, crashed>>

----------------------------------------------------------------------------
(* The loop over the events.  After each one the loop breaks if a handler has
   cleared dowork, and poll() then returns. *)

LoopTail(e) ==
    /\ batch' = IF dowork' THEN batch \ {e} ELSE {}
    /\ schedpc' = IF ~ dowork' THEN "retired"
                  ELSE IF batch = {e} THEN "poll" ELSE "events"

Handling(e) == schedpc = "events" /\ e \in batch

IsConn(e) == e \notin {AcceptEvent, SignalEvent}

\* EPOLLERR, EPOLLHUP or EPOLLRDHUP: the Work is found, or made, and deleted.
OnHangup(e) ==
    /\ Handling(e) /\ IsConn(e) /\ e.ev = "hup"
    /\ IF wmap[e.fd] # NoWork
       THEN Delete(wmap[e.fd])
       ELSE MakeAndDelete(e.fd)
    /\ UNCHANGED <<dowork, doserve, jobq, crashed>>
    /\ LoopTail(e)

\* EPOLLIN or EPOLLOUT: the Work goes to the job queue.
OnReady(e) ==
    /\ Handling(e) /\ IsConn(e) /\ e.ev \in {"in", "out"}
    /\ \E w \in Pointers : /\ FindOrCreate(e.fd, fdconn[e.fd], w)
                           /\ jobq' = Append(jobq, w)
    /\ UNCHANGED <<sockvars, dowork, doserve, crashed>>
    /\ LoopTail(e)

\* _acceptcb::operator().  accept fails for lack of descriptors, or EPOLL_CTL_ADD
\* fails, with an exception nobody catches.
OnAccept(e, c, f) ==
    /\ Handling(e) /\ e = AcceptEvent
    /\ c \in Backlog
    /\ IF \A g \in Fds : Open(g)
       THEN Crash
       ELSE /\ LowestFree(f)
            /\ IF CanSchedule(f)
               THEN /\ peer' = [peer EXCEPT ![c] = "accepted"]
                    /\ fdconn' = [fdconn EXCEPT ![f] = c]
                    /\ \E w \in Pointers :
                          /\ FindOrCreate(f, c, w)
                          /\ Arm(f, IF wmap[f] = NoWork THEN "read" ELSE work[w].m)
                    /\ UNCHANGED <<hup, unread, sent, answered, sndbuf, crashed>>
               ELSE Crash
    /\ UNCHANGED <<sigs, dowork, doserve, jobq>>
    /\ LoopTail(e)

\* accept returns ECONNABORTED: the client left while it was in the backlog.
OnAborted(e, c) ==
    /\ Handling(e) /\ e = AcceptEvent
    /\ c \in Backlog /\ hup[c]
    /\ peer' = [peer EXCEPT ![c] = "closed"]
    /\ UNCHANGED <<hup, unread, sent, answered, sndbuf, fdconn, interest, sigs,
                   findvars, dowork, doserve, jobq, crashed>>
    /\ LoopTail(e)

\* Scheduler::halt
Halt == dowork' = FALSE /\ jobq' = Append(jobq, NoWork)

ServerHalt_StartsOver == UNCHANGED doserve /\ Halt

\* Server::halt
ServerHalt == doserve' = FALSE /\ Halt

\* CachingServer::flush: the server starts again.  The cache is in module Cache.
ServerFlush == UNCHANGED doserve /\ Halt

Handler(s) == IF s = "halt" THEN ServerHalt ELSE ServerFlush

\* _sigcb::operator(): one read takes every pending signal from the signalfd, and
\* the loop returns after the first handler, since both clear dowork.  Which
\* signal is first depends on the configured signal numbers.
OnSignal(e, s) ==
    /\ Handling(e) /\ e = SignalEvent
    /\ s \in Pending
    /\ sigs' = [t \in Signals |-> IF t \in Pending THEN "taken" ELSE sigs[t]]
    /\ Handler(s)
    /\ UNCHANGED <<netvars, fdconn, interest, findvars, crashed>>
    /\ LoopTail(e)

SchedulerStep ==
    \/ EpollWait
    \/ \E e \in batch :
          \/ OnHangup(e) \/ OnReady(e)
          \/ \E c \in Backlog : OnAborted(e, c) \/ \E f \in Fds : OnAccept(e, c, f)
          \/ \E s \in Pending : OnSignal(e, s)
============================================================================
