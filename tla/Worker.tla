------------------------------- MODULE Worker -------------------------------
(***************************************************************************)
(* The worker threads, Worker::work, and the piece of work they execute,   *)
(* HTTP_Server_Work::operator(): read a request, prepare the response,     *)
(* write its headers, then its body, then start again on a persistent      *)
(* connection.  Each call of operator() ends by rescheduling the Work, by  *)
(* leaving it to be deleted, or by an exception.  The worker looks at the  *)
(* Work once more after that, to see whether it should delete it.          *)
(***************************************************************************)
EXTENDS Scheduler

CONSTANTS
    Workers     \* worker threads

VARIABLES
    pc,         \* worker -> "deq", "run", "resched", "after", "unregister",
                \* "close" or "retired"
    cur         \* worker -> the Work it has dequeued, or NoWork

workervars == <<pc, cur>>

WorkerTypeOK ==
    /\ pc \in [Workers -> {"deq", "run", "resched", "after", "unregister", "close",
                           "retired"}]
    /\ cur \in [Workers -> Pointers]

WorkerInit ==
    /\ pc = [k \in Workers |-> "deq"]
    /\ cur = [k \in Workers |-> NoWork]

Goto(k, label) == pc' = [pc EXCEPT ![k] = label] /\ UNCHANGED cur

----------------------------------------------------------------------------
\* wait_deq returns a Work
Dequeue(k) ==
    /\ pc[k] = "deq" /\ jobq # << >> /\ Head(jobq) # NoWork
    /\ jobq' = Tail(jobq)
    /\ pc' = [pc EXCEPT ![k] = "run"]
    /\ cur' = [cur EXCEPT ![k] = Head(jobq)]
    /\ UNCHANGED <<sockvars, findvars, schedpc, batch, dowork, doserve, crashed>>

AfterPill_NotPutBack == Tail(jobq)

AfterPill == Append(Tail(jobq), NoWork)

\* wait_deq returns NULL: the worker puts it back and retires.
Retire(k) ==
    /\ pc[k] = "deq" /\ jobq # << >> /\ Head(jobq) = NoWork
    /\ jobq' = AfterPill
    /\ Goto(k, "retired")
    /\ UNCHANGED <<sockvars, findvars, schedpc, batch, dowork, doserve, crashed>>

----------------------------------------------------------------------------
(* The call of the Work's operator(). *)

Running(k, m) == pc[k] = "run" /\ work[cur[k]].m = m

Fd(k) == work[cur[k]].fd

\* The fields of the Work change, and operator() goes on at label.
Update(k, w, label) ==
    /\ work' = [work EXCEPT ![cur[k]] = w]
    /\ Goto(k, label)
    /\ UNCHANGED <<peer, hup, sent, sndbuf, fdconn, interest, sigs,
                   wmap, live, store, schedvars, crashed>>

TakeRequest(w, reqs) ==
    [w EXCEPT !.m = "write", !.hdrs_done = FALSE, !.inbuf = Tail(reqs),
              !.deleteme = @ \/ Head(reqs) = "close"]

\* case read: everything in the receive buffer is read.  A complete request is
\* taken and its response prepared (browse_req sets deleteme on Connection:
\* close); otherwise the Work waits for more.
DoRead(k) ==
    /\ Running(k, "read") /\ Open(Fd(k))
    /\ LET w    == work[cur[k]]
           c    == fdconn[w.fd]
           reqs == w.inbuf \o unread[c]
       IN  /\ unread' = [unread EXCEPT ![c] = << >>]
           /\ Update(k, IF reqs = << >> THEN w ELSE TakeRequest(w, reqs), "resched")
    /\ UNCHANGED answered

Writing(k) == Running(k, "write") /\ Open(Fd(k))

\* case write: the socket would block.
DoWriteBlocked(k) ==
    /\ Writing(k) /\ SendBufferFull(Fd(k))
    /\ Update(k, work[cur[k]], "resched")
    /\ UNCHANGED <<unread, answered>>

\* case write: the headers are written.
DoWriteHeaders(k) ==
    /\ Writing(k) /\ ~ SendBufferFull(Fd(k)) /\ ~ work[cur[k]].hdrs_done
    /\ Update(k, [work[cur[k]] EXCEPT !.hdrs_done = TRUE], "resched")
    /\ UNCHANGED <<unread, answered>>

\* inbuf.good() after ignore(): the next request has already been read.
HasPipelined(w) == w.inbuf # << >>

\* case write: the body is written.  A Work to be deleted is left to the worker;
\* a persistent one is reset and goes back to reading: at once if a pipelined
\* request is in its buffer (goto pipeline_continue), else once rescheduled.
DoWriteBody(k) ==
    /\ Writing(k) /\ ~ SendBufferFull(Fd(k)) /\ work[cur[k]].hdrs_done
    /\ LET w    == work[cur[k]]
           next == [w EXCEPT !.m = "read", !.hdrs_done = FALSE]
       IN  /\ answered' = [answered EXCEPT ![fdconn[w.fd]] = @ + 1]
           /\ CASE w.deleteme -> Update(k, w, "after")
                [] ~ w.deleteme /\ HasPipelined(w) -> Update(k, next, "run")
                [] OTHER -> Update(k, [next EXCEPT !.inbuf = << >>], "resched")
    /\ UNCHANGED unread

\* read or write fails (the client is gone, or the descriptor is not open) and
\* throws SocketErr; the worker catches it and sets deleteme.
DoSocketErr(k) ==
    /\ pc[k] = "run"
    /\ ~ Open(Fd(k)) \/ HungUp(Fd(k))
    /\ Update(k, [work[cur[k]] EXCEPT !.deleteme = TRUE], "after")
    /\ UNCHANGED <<unread, answered>>

\* The last thing operator() does: reschedule(this).  ResourceErr is not caught.
Reschedule(k) ==
    /\ pc[k] = "resched"
    /\ IF CanReschedule(Fd(k))
       THEN Arm(Fd(k), work[cur[k]].m) /\ UNCHANGED <<netvars, fdconn, findvars, crashed>>
       ELSE Crash
    /\ Goto(k, "after")
    /\ UNCHANGED <<sigs, schedvars>>

----------------------------------------------------------------------------
\* if (w->deleteme) delete w;  the worker reads w after operator() has returned.
TestDeleteme(k) ==
    /\ pc[k] = "after"
    /\ IF work[cur[k]].deleteme
       THEN Goto(k, "unregister")
       ELSE /\ pc' = [pc EXCEPT ![k] = "deq"]
            /\ cur' = [cur EXCEPT ![k] = NoWork]
    /\ UNCHANGED <<sockvars, findvars, schedvars, crashed>>

\* ~HTTP_2616_Server_Work
DeleteUnregister(k) ==
    /\ pc[k] = "unregister"
    /\ Unregister(Fd(k))
    /\ Goto(k, "close")
    /\ UNCHANGED <<sockvars, work, live, store, schedvars, crashed>>

\* ~Work
DeleteClose(k) ==
    /\ pc[k] = "close"
    /\ Destroy(cur[k])
    /\ pc' = [pc EXCEPT ![k] = "deq"]
    /\ cur' = [cur EXCEPT ![k] = NoWork]
    /\ UNCHANGED <<wmap, schedvars, crashed>>

WorkerStep(k) ==
    \/ Dequeue(k) \/ Retire(k)
    \/ DoRead(k) \/ DoWriteHeaders(k) \/ DoWriteBlocked(k) \/ DoWriteBody(k)
    \/ DoSocketErr(k) \/ Reschedule(k)
    \/ TestDeleteme(k) \/ DeleteUnregister(k) \/ DeleteClose(k)
=============================================================================
