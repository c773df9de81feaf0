---------------------------- MODULE DomainSocket ----------------------------
(***************************************************************************)
(* A request for a Unix domain socket.  The server Work connects to it,    *)
(* makes a client Work that passes the request on, and goes dormant: it is *)
(* rescheduled until its empty response has been "written" and then left   *)
(* alone (nosch).  The client Work writes the request, reads the response, *)
(* and wakes the server Work with it (async_setresponse).  This module     *)
(* follows one request, whose response arrives in one piece or in two.     *)
(*                                                                         *)
(* One execution of operator() is one action, except the one in which the  *)
(* client Work is scheduled, and the end of the one in which the client    *)
(* Work deletes itself: another worker can come in there.                  *)
(***************************************************************************)
EXTENDS Integers, SequencesExt

VARIABLES
    server,     \* the fields of the server Work
    spc,        \* where its first execution is: "schedule", "finish" or "over"
    sarmed,     \* what epoll waits for on its descriptor: "in", "out" or "none"
    squeued,    \* how often it is in the job queue
    client,     \* the fields of the client Work
    cwhere,     \* "none", "armed", "queued", "browsed" (it has woken the server
                \* Work and deleted itself) or "deleted"
    wmap,       \* the client Work's descriptor is in the map of FindWork
    reused,     \* a new connection has been accepted on that descriptor
    peer,       \* the program behind the socket: "listening", "answered", "closed"
    sent,       \* what the server Work has written to its client
    woken,      \* history: "no", "dormant" (woken then) or "early"
    crashed     \* the process has ended

vars == <<server, spc, sarmed, squeued, client, cwhere, wmap, reused, peer, sent,
          woken, crashed>>

servervars == <<server, spc, sarmed, squeued, sent>>
clientvars == <<client, cwhere, wmap, reused>>

\* Type correctness; the server Work is in the job queue at most twice.
TypeOK ==
    /\ server \in [m: {"read", "write"}, nosch: BOOLEAN, live: BOOLEAN,
                   outhdrs_done: BOOLEAN, outhdrs: Seq({"headers"}), outbody: Seq({"body"})]
    /\ spc \in {"schedule", "finish", "over"}
    /\ sarmed \in {"in", "out", "none"}
    /\ squeued \in 0 .. 2
    /\ client \in [m: {"read", "write"}, outhdrs_done: BOOLEAN, inhdrs_done: BOOLEAN]
    /\ cwhere \in {"none", "armed", "queued", "browsed", "deleted"}
    /\ wmap \in BOOLEAN /\ reused \in BOOLEAN /\ crashed \in BOOLEAN
    /\ peer \in {"listening", "answered", "closed"}
    /\ sent \in Seq({"headers", "body"})
    /\ woken \in {"no", "dormant", "early"}

NewClient == [m |-> "write", outhdrs_done |-> FALSE, inhdrs_done |-> FALSE]

Init ==
    /\ server = [m |-> "read", nosch |-> FALSE, live |-> TRUE, outhdrs_done |-> FALSE,
                 outhdrs |-> << >>, outbody |-> << >>]
    /\ spc = "schedule" /\ sarmed = "none" /\ squeued = 0 /\ sent = << >>
    /\ client = NewClient /\ cwhere = "none" /\ wmap = FALSE /\ reused = FALSE
    /\ peer = "listening" /\ woken = "no" /\ crashed = FALSE

\* Nothing will execute the server Work, unless it is woken.
Dormant == spc = "over" /\ sarmed = "none" /\ squeued = 0 /\ server.live

----------------------------------------------------------------------------
(* The server Work *)

\* prepare_response: new HTTP_Client_Work_Unix, register_alien (the descriptor is taken
\* not to be in the map yet), schedule
ScheduleClient ==
    /\ spc = "schedule"
    /\ server' = [server EXCEPT !.nosch = TRUE]
    /\ client' = NewClient
    /\ cwhere' = "armed" /\ wmap' = TRUE
    /\ spc' = "finish"
    /\ UNCHANGED <<sarmed, squeued, reused, peer, sent, woken, crashed>>

\* socket, fcntl, connect or new fails: an ordinary error response is sent.
NoClient ==
    /\ spc = "schedule"
    /\ server' = [server EXCEPT !.m = "write", !.outhdrs = <<"headers">>,
                                !.outbody = <<"body">>]
    /\ spc' = "over" /\ sarmed' = "out"
    /\ UNCHANGED <<squeued, clientvars, peer, sent, woken, crashed>>

\* operator(), after prepare_response: there is nothing (any more) in outbuf to
\* copy to cbuf, so the headers are empty.
FinishRead ==
    /\ spc = "finish"
    /\ server' = [server EXCEPT !.m = "write", !.outhdrs = << >>]
    /\ spc' = "over" /\ sarmed' = "out"
    /\ UNCHANGED <<squeued, clientvars, peer, sent, woken, crashed>>

Reported_StaysArmed == "out"

\* EPOLLONESHOT
Reported == "none"

\* The scheduler reports the descriptor and enqueues the Work.  (The next request
\* of the connection is outside this module.)
ServerReady ==
    /\ sarmed = "out"
    /\ sarmed' = Reported /\ squeued' = squeued + 1
    /\ UNCHANGED <<server, spc, clientvars, peer, sent, woken, crashed>>

\* operator() in mode write: the headers, then the body; then reset, or nothing if
\* nosch is set.
ServerWrites ==
    /\ squeued > 0 /\ server.live /\ server.m = "write"
    /\ squeued' = squeued - 1
    /\ CASE ~ server.outhdrs_done ->
              /\ sent' = sent \o server.outhdrs
              /\ server' = [server EXCEPT !.outhdrs_done = TRUE]
              /\ sarmed' = "out"
         [] server.outhdrs_done /\ server.nosch -> UNCHANGED <<sent, server, sarmed>>
         [] OTHER ->
              /\ sent' = sent \o server.outbody
              /\ server' = [server EXCEPT !.m = "read", !.outhdrs_done = FALSE,
                                          !.outhdrs = << >>, !.outbody = << >>]
              /\ sarmed' = "in"
    /\ UNCHANGED <<spc, clientvars, peer, woken, crashed>>

\* operator() in mode read, with nothing to read: the next request is awaited.
ServerReads ==
    /\ squeued > 0 /\ server.live /\ server.m = "read"
    /\ squeued' = squeued - 1 /\ sarmed' = "in"
    /\ UNCHANGED <<server, spc, clientvars, peer, sent, woken, crashed>>

\* The execution of a server Work that has been deleted can do anything.
ServerFreed ==
    /\ squeued > 0 /\ ~ server.live
    /\ squeued' = squeued - 1
    /\ crashed' \in BOOLEAN
    /\ UNCHANGED <<server, spc, sarmed, clientvars, peer, sent, woken>>

----------------------------------------------------------------------------
(* The client Work *)

ClientReady ==
    /\ cwhere = "armed"
    /\ client.m = "read" => peer = "answered"
    /\ cwhere' = "queued"
    /\ UNCHANGED <<servervars, client, wmap, reused, peer, woken, crashed>>

Written_StaysInWrite(c) == [c EXCEPT !.outhdrs_done = TRUE]

\* Request headers, then request body, then the response.
Written(c) ==
    IF c.outhdrs_done THEN [c EXCEPT !.m = "read"] ELSE [c EXCEPT !.outhdrs_done = TRUE]

ClientWrites ==
    /\ cwhere = "queued" /\ client.m = "write"
    /\ client' = Written(client)
    /\ cwhere' = "armed"
    /\ UNCHANGED <<servervars, wmap, reused, peer, woken, crashed>>

\* The response headers have arrived, and not all of the body.
ClientReadsHeaders ==
    /\ cwhere = "queued" /\ client.m = "read" /\ ~ client.inhdrs_done
    /\ client' = [client EXCEPT !.inhdrs_done = TRUE]
    /\ cwhere' = "armed"
    /\ UNCHANGED <<servervars, wmap, reused, peer, woken, crashed>>

Awake_HeadersDone(w) ==
    [w EXCEPT !.m = "write", !.nosch = FALSE,
              !.outhdrs = <<"headers">>, !.outbody = <<"body">>]

\* async_setresponse of both classes
Awake(w) ==
    [w EXCEPT !.m = "write", !.nosch = FALSE, !.outhdrs_done = FALSE,
              !.outhdrs = <<"headers">>, !.outbody = <<"body">>]

Rearmed_Forgotten == sarmed

\* reschedule(this) of the server Work
Rearmed == "out"

\* The response is complete: browse_resp, that is async_setresponse, which also
\* unregisters and deletes the client Work.  If the server Work was deleted, its
\* memory is written all the same, and epoll_ctl fails on its descriptor.
ClientBrowses ==
    /\ cwhere = "queued" /\ client.m = "read"
    /\ cwhere' = "browsed"
    /\ wmap' = FALSE
    /\ IF server.live
       THEN /\ server' = Awake(server)
            /\ sarmed' = Rearmed
            /\ crashed' = crashed
       ELSE crashed' = TRUE /\ UNCHANGED <<server, sarmed>>
    /\ woken' = IF Dormant THEN "dormant" ELSE "early"
    /\ UNCHANGED <<spc, squeued, sent, client, reused, peer>>

\* Back in operator() of the client Work, which has been deleted: reschedule(this).
\* Its descriptor is closed, so ResourceErr, which nobody catches, ends the process,
\* unless a new connection has been accepted on it meanwhile.
ClientReschedules ==
    /\ cwhere = "browsed"
    /\ cwhere' = "deleted"
    /\ crashed' = ~ reused
    /\ UNCHANGED <<servervars, client, wmap, reused, peer, woken>>

\* The client Work's descriptor is closed, and the next connection that is accepted
\* gets it, together with the Work that the map has for it.  What schedule makes of
\* a Work that was deleted is undefined.
Accept ==
    /\ cwhere \in {"browsed", "deleted"} /\ ~ reused
    /\ reused' = TRUE
    /\ crashed' \in (IF wmap THEN BOOLEAN ELSE {FALSE})
    /\ UNCHANGED <<servervars, client, cwhere, wmap, peer, woken>>

\* The program behind the socket has closed it: the scheduler deletes the client
\* Work on EPOLLRDHUP although there may be something to read, or a worker does
\* when reading or writing fails (SocketErr).  The destructor does not unregister
\* the descriptor.
ClientLost ==
    /\ peer = "closed" /\ cwhere \in {"armed", "queued"}
    /\ cwhere' = "deleted"
    /\ UNCHANGED <<servervars, client, wmap, reused, peer, woken, crashed>>

----------------------------------------------------------------------------
(* The two peers *)

Answer ==
    /\ peer = "listening" /\ client.m = "read"
    /\ peer' = "answered"
    /\ UNCHANGED <<servervars, clientvars, woken, crashed>>

Close ==
    /\ peer # "closed"
    /\ peer' = "closed"
    /\ UNCHANGED <<servervars, clientvars, woken, crashed>>

\* The client of the server hangs up while epoll watches its descriptor: the
\* scheduler deletes the server Work.
HangUp ==
    /\ sarmed # "none"
    /\ server' = [server EXCEPT !.live = FALSE]
    /\ sarmed' = "none"
    /\ UNCHANGED <<spc, squeued, clientvars, peer, sent, woken, crashed>>

Workers ==
    /\ ~ crashed
    /\ \/ ScheduleClient \/ NoClient \/ FinishRead
       \/ ServerReady \/ ServerWrites \/ ServerReads \/ ServerFreed
       \/ ClientReady \/ ClientWrites \/ ClientReadsHeaders \/ ClientBrowses
       \/ ClientReschedules \/ ClientLost

Next == Workers \/ (~ crashed /\ (Accept \/ Answer \/ Close \/ HangUp))

\* The scheduler and the workers go on; the program behind the socket answers.
Spec ==
    /\ Init /\ [][Next]_vars
    /\ WF_vars(Workers) /\ WF_vars(~ crashed /\ Answer)

----------------------------------------------------------------------------
(* Properties *)

\* "One socket, at most one worker" (HTTP_Server_Work::operator()): if the server
\* Work was dormant when it was woken, it is watched by epoll, or once in the job
\* queue, or in its first execution.
OneWorker ==
    woken # "early" =>
        (IF sarmed = "none" THEN 0 ELSE 1) + squeued + (IF spc = "over" THEN 0 ELSE 1) <= 1

\* If the server Work was dormant when it was woken, its client gets the headers of
\* the response and then its body: what the empty response left in outhdrs_done,
\* out and nosch does not mix with it.
WholeResponse == woken # "early" => IsPrefix(sent, <<"headers", "body">>)

\* A wake-up is not lost, whenever it comes, while the server Work is still in its
\* first execution or about to go dormant too: a server Work that has a response and
\* a connection is watched by epoll, queued or being executed.
NoLostWakeup == woken # "no" => ~ Dormant

\* What becomes of a client Work that has been scheduled, and of its server Work.  It
\* wakes the server Work in the end, unless it is deleted because the program behind
\* the socket has closed the connection (the server Work then stays dormant for good).
\* After the wake-up the deleted client Work is rescheduled, and that ends the process,
\* unless a new connection has got the descriptor in between.  If it has, a server
\* Work that was dormant "is then able to proceed with its response back to the
\* original client", as HTTP_Client_Work_Unix promises for every case: it sends all of
\* it, unless that client hangs up.
ProceedsOnlyIfReused ==
    /\ (cwhere = "armed") ~> (woken # "no" \/ cwhere = "deleted")
    /\ (woken # "no") ~> (crashed \/ reused)
    /\ (woken = "dormant" /\ reused) ~> (sent = <<"headers", "body">> \/ ~ server.live)
=============================================================================
