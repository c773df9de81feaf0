------------------------------ MODULE Sockets ------------------------------
(***************************************************************************)
(* The kernel as the server uses it: listening queue, file descriptors,    *)
(* epoll with EPOLLONESHOT, pending signals; and the clients behind the    *)
(* connections.  None of this is code of the repository: it is modelled    *)
(* from the calls that Scheduler.cpp, Work.cpp and Server.hpp make.        *)
(***************************************************************************)
EXTENDS Naturals, Sequences, FiniteSets

CONSTANTS
    Conns,      \* client connections, each made once
    NoConn,     \* no connection
    Fds,        \* file descriptors that accept can return
    Kinds,      \* kinds of request: "keep" (persistent) or "close" (Connection: close)
    MaxReqs,    \* bound: connection -> how many requests its client may send
    Leavers,    \* the connections whose clients may hang up
    Stallers,   \* the connections whose clients may stop reading, once each
    Signals     \* the signals that may arrive, each at most once: "halt", "flush"

ASSUME ConnAssumption == NoConn \notin Conns /\ Leavers \cup Stallers \subseteq Conns
ASSUME FdsAssumption == Fds \subseteq Nat /\ Fds # {}
ASSUME MaxReqsAssumption == MaxReqs \in [Conns -> Nat]
ASSUME KindsAssumption == Kinds \subseteq {"keep", "close"}
ASSUME SignalsAssumption == Signals \subseteq {"halt", "flush"}

VARIABLES
    peer,       \* connection -> "new", "backlog", "accepted" or "closed" (by the server)
    hup,        \* connection -> the client has hung up
    unread,     \* connection -> requests in the receive buffer
    sent,       \* connection -> number of requests the client has sent
    answered,   \* connection -> number of responses completely written
    sndbuf,     \* connection -> "ok", "full" (write gives EAGAIN) or "drained"
    fdconn,     \* descriptor -> the connection open on it, or NoConn
    interest,   \* descriptor -> epoll registration: "none", "off" (disarmed), "in", "out"
    sigs        \* signal -> "unsent", "pending" or "taken" (read from the signalfd)

netvars == <<peer, hup, unread, sent, answered, sndbuf>>

sockvars == <<netvars, fdconn, interest, sigs>>

SocketsTypeOK ==
    /\ peer \in [Conns -> {"new", "backlog", "accepted", "closed"}]
    /\ hup \in [Conns -> BOOLEAN]
    /\ unread \in [Conns -> Seq(Kinds)]
    /\ sent \in [Conns -> Nat]
    /\ answered \in [Conns -> Nat]
    /\ sndbuf \in [Conns -> {"ok", "full", "drained"}]
    /\ fdconn \in [Fds -> Conns \cup {NoConn}]
    /\ interest \in [Fds -> {"none", "off", "in", "out"}]
    /\ sigs \in [Signals -> {"unsent", "pending", "taken"}]

SocketsInit ==
    /\ peer = [c \in Conns |-> "new"]
    /\ hup = [c \in Conns |-> FALSE]
    /\ unread = [c \in Conns |-> << >>]
    /\ sent = [c \in Conns |-> 0]
    /\ answered = [c \in Conns |-> 0]
    /\ sndbuf = [c \in Conns |-> "ok"]
    /\ fdconn = [f \in Fds |-> NoConn]
    /\ interest = [f \in Fds |-> "none"]
    /\ sigs = [s \in Signals |-> "unsent"]

----------------------------------------------------------------------------
(* What a descriptor reports *)

Open(f) == fdconn[f] # NoConn

HungUp(f) == Open(f) /\ hup[fdconn[f]]

\* accept returns the lowest descriptor that is not open.
LowestFree(f) == ~ Open(f) /\ \A g \in Fds : g < f => Open(g)

SendBufferFull(f) == sndbuf[fdconn[f]] = "full"

\* EPOLLRDHUP is always asked for; EPOLLIN and EPOLLOUT never together.
Ready(f) ==
    /\ Open(f)
    /\ \/ interest[f] \in {"in", "out"} /\ hup[fdconn[f]]
       \/ interest[f] = "in" /\ unread[fdconn[f]] # << >>
       \/ interest[f] = "out" /\ ~ SendBufferFull(f)

EventOf(f) == IF HungUp(f) THEN "hup" ELSE interest[f]

Backlog == {c \in Conns : peer[c] = "backlog"}

Pending == {s \in Signals : sigs[s] = "pending"}

\* close(f): the descriptor leaves every epoll set with it.  Closing a descriptor
\* that is not open fails with EBADF and changes nothing.
CloseAll(F) ==
    /\ peer' = [c \in Conns |-> IF \E f \in F : fdconn[f] = c THEN "closed" ELSE peer[c]]
    /\ fdconn' = [f \in Fds |-> IF f \in F THEN NoConn ELSE fdconn[f]]
    /\ interest' = [f \in Fds |-> IF f \in F THEN "none" ELSE interest[f]]
    /\ UNCHANGED <<hup, unread, sent, answered, sndbuf>>

----------------------------------------------------------------------------
(* Clients and the outside world *)

Connect(c) ==
    /\ peer[c] = "new"
    /\ peer' = [peer EXCEPT ![c] = "backlog"]
    /\ UNCHANGED <<hup, unread, sent, answered, sndbuf, fdconn, interest, sigs>>

SendRequest(c, k) ==
    /\ peer[c] \in {"backlog", "accepted"}
    /\ ~ hup[c]
    /\ sent[c] < MaxReqs[c]
    /\ sent' = [sent EXCEPT ![c] = @ + 1]
    /\ unread' = [unread EXCEPT ![c] = Append(@, k)]
    /\ UNCHANGED <<peer, hup, answered, sndbuf, fdconn, interest, sigs>>

HangUp(c) ==
    /\ c \in Leavers /\ peer[c] \in {"backlog", "accepted"}
    /\ ~ hup[c]
    /\ hup' = [hup EXCEPT ![c] = TRUE]
    /\ UNCHANGED <<peer, unread, sent, answered, sndbuf, fdconn, interest, sigs>>

\* The client stops reading for a while, at most once per connection.
Stall(c) ==
    /\ c \in Stallers /\ peer[c] = "accepted"
    /\ sndbuf[c] = "ok"
    /\ sndbuf' = [sndbuf EXCEPT ![c] = "full"]
    /\ UNCHANGED <<peer, hup, unread, sent, answered, fdconn, interest, sigs>>

Drain(c) ==
    /\ sndbuf[c] = "full"
    /\ sndbuf' = [sndbuf EXCEPT ![c] = "drained"]
    /\ UNCHANGED <<peer, hup, unread, sent, answered, fdconn, interest, sigs>>

RaiseSignal(s) ==
    /\ sigs[s] = "unsent"
    /\ sigs' = [sigs EXCEPT ![s] = "pending"]
    /\ UNCHANGED <<peer, hup, unread, sent, answered, sndbuf, fdconn, interest>>

Environment ==
    \/ \E c \in Conns : Connect(c) \/ HangUp(c) \/ Stall(c) \/ Drain(c)
    \/ \E c \in Conns, k \in Kinds : SendRequest(c, k)
    \/ \E s \in Signals : RaiseSignal(s)
============================================================================
