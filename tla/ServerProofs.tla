---------------------------- MODULE ServerProofs ----------------------------
(***************************************************************************)
(* The server, for any number of connections, descriptors, workers and     *)
(* Work objects: where a Work can be, and which descriptor belongs to it.  *)
(***************************************************************************)
EXTENDS Server, FiniteSetTheorems, TLAPS

----------------------------------------------------------------------------
(* Types *)

\* A worker has the address of a Work exactly from deq to the end of its loop's body.
Busy ==
    /\ \A k \in Workers : pc[k] \notin {"deq", "retired"} => cur[k] \in Works
    /\ \A k \in Workers : pc[k] \in {"deq", "retired"} => cur[k] = NoWork

TypeInv == TypeOK /\ Busy

\* What the clients and the kernel do keeps the types of Sockets.
LEMMA OutsideTypes ==
  ASSUME TypeInv, Outside
  PROVE  TypeInv'
<1> USE DEF TypeInv, TypeOK, Busy, servervars, findvars, schedvars, workervars,
            FindWorkTypeOK, SchedulerTypeOK, WorkerTypeOK, Outside
<1>1. CASE \E c \in Conns : Connect(c) \/ HangUp(c) \/ Stall(c) \/ Drain(c)
  BY <1>1, ZenonT(60) DEF SocketsTypeOK, Connect, HangUp, Stall, Drain
<1>2. CASE \E c \in Conns, k \in Kinds : SendRequest(c, k)
  BY <1>2 DEF SocketsTypeOK, SendRequest
<1>3. CASE \E s \in Signals : RaiseSignal(s)
  BY <1>3 DEF SocketsTypeOK, RaiseSignal
<1> QED
  BY <1>1, <1>2, <1>3 DEF Environment

\* Closing descriptors keeps the types of Sockets.
LEMMA CloseTypes ==
  ASSUME SocketsTypeOK, NEW F, CloseAll(F), UNCHANGED sigs
  PROVE  SocketsTypeOK'
BY DEF SocketsTypeOK, CloseAll

\* No thread has started and no client has connected.
LEMMA InitTypes == Init => TypeInv
<1> SUFFICES ASSUME Init PROVE TypeInv
  OBVIOUS
<1> USE DEF Init
<1>1. SocketsTypeOK
  BY DEF SocketsInit, SocketsTypeOK
<1>2. FindWorkTypeOK
  <2>1. (CHOOSE g \in Fds : TRUE) \in Fds
    BY FdsAssumption
  <2>2. \A f \in Fds : NewWork(f, NoConn) \in Work
    BY DEF NewWork, Work
  <2> QED
    BY <2>1, <2>2, WorkAssumption DEF FindWorkInit, FindWorkTypeOK, Pointers
<1>3. SchedulerTypeOK
  <2>1. << >> \in Seq(Pointers) /\ {} \in SUBSET Events
    OBVIOUS
  <2> QED
    BY <2>1 DEF SchedulerInit, SchedulerTypeOK
<1>4. WorkerTypeOK /\ Busy
  BY DEF WorkerInit, WorkerTypeOK, Busy, Pointers
<1> QED
  BY <1>1, <1>2, <1>3, <1>4 DEF TypeInv, TypeOK

\* FindWork returns the address of a Work, and keeps the types of its variables.
LEMMA FindTypes ==
  ASSUME FindWorkTypeOK, NEW f \in Fds, NEW c \in Conns \cup {NoConn}, NEW w,
         FindOrCreate(f, c, w)
  PROVE  FindWorkTypeOK' /\ w \in Works
<1> USE WorkAssumption DEF FindWorkTypeOK, Pointers
<1>1. CASE wmap[f] # NoWork
  BY <1>1 DEF FindOrCreate, findvars
<1>2. CASE wmap[f] = NoWork
  <2>1. w \in Works /\ store' \in Seq(Works)
    <3>1. CASE store # << >>
      BY <1>2, <3>1, SMTT(30) DEF FindOrCreate, Allocate
    <3>2. CASE store = << >>
      BY <1>2, <3>2 DEF FindOrCreate, Allocate
    <3> QED
      BY <3>1, <3>2
  <2>2. NewWork(f, c) \in Work
    BY DEF NewWork, Work
  <2> QED
    BY <1>2, <2>1, <2>2 DEF FindOrCreate
<1> QED
  BY <1>1, <1>2

\* Deleting a Work keeps the types.
LEMMA DestroyTypes ==
  ASSUME SocketsTypeOK, FindWorkTypeOK, NEW w \in Works, Destroy(w),
         wmap' \in [Fds -> Pointers]
  PROVE  SocketsTypeOK' /\ FindWorkTypeOK'
<1>1. SocketsTypeOK'
  BY CloseTypes DEF Destroy
<1>2. FindWorkTypeOK'
  BY DEF Destroy, FindWorkTypeOK
<1> QED
  BY <1>1, <1>2

\* Each handler of the scheduler keeps the types.
LEMMA SchedulerTypes ==
  ASSUME TypeInv, SchedulerThread
  PROVE  TypeInv'
<1> USE DEF TypeInv, TypeOK, Busy, WorkerTypeOK, workervars, SchedulerThread
<1>0. /\ SocketsTypeOK /\ FindWorkTypeOK /\ SchedulerTypeOK
      /\ WorkerTypeOK' /\ Busy' /\ phase' \in {"serving", "stopped"}
  OBVIOUS
<1> SUFFICES SocketsTypeOK' /\ FindWorkTypeOK' /\ SchedulerTypeOK'
  BY <1>0
<1> HIDE DEF TypeInv, TypeOK, Busy, WorkerTypeOK
<1>1. CASE EpollWait
  <2>1. PICK E \in SUBSET ReadyEvents : batch' = E /\ interest' = DisarmReported(E)
    BY <1>1 DEF EpollWait
  <2>2. ReadyEvents \subseteq Events
    <3>1. \A f \in Fds : Ready(f) => EventOf(f) \in {"in", "out", "hup"}
      BY <1>0 DEF Ready, EventOf, SocketsTypeOK
    <3>2. \A f \in Fds : Ready(f) => [fd |-> f, ev |-> EventOf(f)] \in ConnEvents
      BY <3>1 DEF ConnEvents
    <3> QED
      BY <3>2 DEF ReadyEvents, Events
  <2>3. SocketsTypeOK'
    BY <1>0, <1>1, <2>1 DEF EpollWait, SocketsTypeOK, netvars, DisarmReported
  <2>4. FindWorkTypeOK'
    BY <1>0, <1>1 DEF EpollWait, FindWorkTypeOK, findvars
  <2>5. SchedulerTypeOK'
    BY <1>0, <1>1, <2>1, <2>2 DEF EpollWait, SchedulerTypeOK
  <2> QED
    BY <2>3, <2>4, <2>5
<1>2. ASSUME NEW e \in batch, LoopTail(e), UNCHANGED <<dowork, doserve, crashed>>,
             jobq' \in Seq(Pointers)
      PROVE  SchedulerTypeOK'
  BY <1>0, <1>2 DEF LoopTail, SchedulerTypeOK
<1>3. ASSUME NEW e \in batch, IsConn(e) PROVE e \in ConnEvents /\ e.fd \in Fds
  <2>1. e \in ConnEvents
    BY <1>0, <1>3 DEF SchedulerTypeOK, Events, IsConn
  <2> QED
    BY <2>1 DEF ConnEvents
<1>4. ASSUME NEW e \in batch, OnHangup(e)
      PROVE  SocketsTypeOK' /\ FindWorkTypeOK' /\ SchedulerTypeOK'
  <2>1. e.fd \in Fds
    BY <1>3, <1>4 DEF OnHangup
  <2>2. SchedulerTypeOK'
    BY <1>0, <1>2, <1>4 DEF OnHangup, SchedulerTypeOK
  <2>3. CASE wmap[e.fd] # NoWork
    <3>1. wmap[e.fd] \in Works
      BY <1>0, <2>1, <2>3 DEF FindWorkTypeOK, Pointers
    <3>2. Destroy(wmap[e.fd]) /\ wmap' \in [Fds -> Pointers]
      BY <1>0, <1>4, <2>3 DEF OnHangup, Delete, Unregister, FindWorkTypeOK, Pointers
    <3> QED
      BY <1>0, <2>2, <3>1, <3>2, DestroyTypes
  <2>4. CASE wmap[e.fd] = NoWork
    <3>1. MakeAndDelete(e.fd)
      BY <1>4, <2>4 DEF OnHangup
    <3>2. SocketsTypeOK'
      BY <1>0, <3>1, CloseTypes DEF MakeAndDelete
    <3>3. FindWorkTypeOK'
      <4>1. store' \in Seq(Works)
        BY <1>0, <3>1 DEF MakeAndDelete, FindWorkTypeOK
      <4> QED
        BY <1>0, <3>1, <4>1 DEF MakeAndDelete, FindWorkTypeOK
    <3> QED
      BY <2>2, <3>2, <3>3
  <2> QED
    BY <2>3, <2>4
<1>5. ASSUME NEW e \in batch, OnReady(e)
      PROVE  SocketsTypeOK' /\ FindWorkTypeOK' /\ SchedulerTypeOK'
  <2>1. e.fd \in Fds
    BY <1>3, <1>5 DEF OnReady
  <2>2. fdconn[e.fd] \in Conns \cup {NoConn}
    BY <1>0, <2>1 DEF SocketsTypeOK
  <2>3. PICK w \in Pointers : FindOrCreate(e.fd, fdconn[e.fd], w) /\ jobq' = Append(jobq, w)
    BY <1>5 DEF OnReady
  <2>4. FindWorkTypeOK'
    BY <1>0, <2>1, <2>2, <2>3, FindTypes
  <2>5. jobq' \in Seq(Pointers)
    BY <1>0, <2>3 DEF SchedulerTypeOK
  <2>6. SocketsTypeOK'
    BY <1>0, <1>5 DEF OnReady, sockvars, netvars, SocketsTypeOK
  <2> QED
    BY <1>2, <1>5, <2>4, <2>5, <2>6 DEF OnReady
<1>6. ASSUME NEW e \in batch, NEW c \in Conns, NEW f \in Fds, OnAccept(e, c, f)
      PROVE  SocketsTypeOK' /\ FindWorkTypeOK' /\ SchedulerTypeOK'
  <2>1. CASE Crash
    <3>1. SocketsTypeOK' /\ FindWorkTypeOK'
      BY <1>0, <1>6, <2>1
      DEF OnAccept, Crash, SocketsTypeOK, FindWorkTypeOK, netvars, findvars
    <3>2. SchedulerTypeOK'
      BY <1>0, <1>6, <2>1 DEF OnAccept, Crash, SchedulerTypeOK, LoopTail
    <3> QED
      BY <3>1, <3>2
  <2>2. CASE ~ Crash
    <3>1. /\ peer' = [peer EXCEPT ![c] = "accepted"]
          /\ fdconn' = [fdconn EXCEPT ![f] = c]
          /\ UNCHANGED <<hup, unread, sent, answered, sndbuf, crashed, sigs, dowork, doserve, jobq>>
          /\ LoopTail(e)
      BY <1>6, <2>2 DEF OnAccept
    <3>2. PICK w \in Pointers :
             /\ FindOrCreate(f, c, w)
             /\ Arm(f, IF wmap[f] = NoWork THEN "read" ELSE work[w].m)
      BY <1>6, <2>2 DEF OnAccept
    <3>3. FindWorkTypeOK'
      BY <1>0, <3>2, FindTypes
    <3>4. SocketsTypeOK'
      BY <1>0, <3>1, <3>2 DEF SocketsTypeOK, Arm, Watch
    <3>5. SchedulerTypeOK'
      BY <1>0, <1>2, <3>1 DEF SchedulerTypeOK
    <3> QED
      BY <3>3, <3>4, <3>5
  <2> QED
    BY <2>1, <2>2
<1>7. ASSUME NEW e \in batch, NEW c \in Conns, OnAborted(e, c)
      PROVE  SocketsTypeOK' /\ FindWorkTypeOK' /\ SchedulerTypeOK'
  <2>1. SocketsTypeOK' /\ FindWorkTypeOK'
    BY <1>0, <1>7 DEF OnAborted, SocketsTypeOK, FindWorkTypeOK, findvars
  <2>2. SchedulerTypeOK'
    BY <1>0, <1>2, <1>7 DEF OnAborted, SchedulerTypeOK
  <2> QED
    BY <2>1, <2>2
<1>8. ASSUME NEW e \in batch, NEW s \in Signals, OnSignal(e, s)
      PROVE  SocketsTypeOK' /\ FindWorkTypeOK' /\ SchedulerTypeOK'
  <2>1. SocketsTypeOK' /\ FindWorkTypeOK'
    BY <1>0, <1>8 DEF OnSignal, SocketsTypeOK, FindWorkTypeOK, findvars, netvars
  <2>2. doserve' \in BOOLEAN /\ dowork' = FALSE /\ jobq' = Append(jobq, NoWork)
    BY <1>0, <1>8
    DEF OnSignal, Handler, ServerHalt, ServerFlush, Halt, SchedulerTypeOK
  <2>3. SchedulerTypeOK'
    <3>1. jobq' \in Seq(Pointers)
      BY <1>0, <2>2 DEF SchedulerTypeOK, Pointers
    <3>2. batch' = {} /\ schedpc' = "retired" /\ crashed' = crashed
      BY <1>8, <2>2 DEF OnSignal, LoopTail
    <3> QED
      BY <1>0, <2>2, <3>1, <3>2 DEF SchedulerTypeOK
  <2> QED
    BY <2>1, <2>3
<1> QED
  BY <1>1, <1>4, <1>5, <1>6, <1>7, <1>8 DEF SchedulerStep, Backlog, Pending

\* Each step of a worker keeps the types.
LEMMA WorkerTypes ==
  ASSUME TypeInv, NEW k \in Workers, WorkerThread(k)
  PROVE  TypeInv'
<1>0. /\ SocketsTypeOK /\ FindWorkTypeOK /\ SchedulerTypeOK /\ WorkerTypeOK /\ Busy
      /\ phase' \in {"serving", "stopped"}
  BY DEF TypeInv, TypeOK, WorkerThread
<1> SUFFICES SocketsTypeOK' /\ FindWorkTypeOK' /\ SchedulerTypeOK' /\ WorkerTypeOK' /\ Busy'
  BY <1>0 DEF TypeInv, TypeOK
<1>1. ASSUME UNCHANGED sockvars PROVE SocketsTypeOK'
  BY <1>0, <1>1 DEF SocketsTypeOK, sockvars, netvars
<1>2. ASSUME UNCHANGED findvars PROVE FindWorkTypeOK'
  BY <1>0, <1>2 DEF FindWorkTypeOK, findvars
<1>3. ASSUME UNCHANGED <<schedpc, batch, dowork, doserve>>, crashed' \in BOOLEAN,
             jobq' \in Seq(Pointers)
      PROVE  SchedulerTypeOK'
  BY <1>0, <1>3 DEF SchedulerTypeOK
<1>4. jobq \in Seq(Pointers) /\ crashed \in BOOLEAN
  BY <1>0 DEF SchedulerTypeOK
<1>5. ASSUME NEW label \in {"deq", "run", "resched", "after", "unregister", "close", "retired"},
             Goto(k, label), label \in {"deq", "retired"} <=> pc[k] \in {"deq", "retired"}
      PROVE  WorkerTypeOK' /\ Busy'
  BY <1>0, <1>5 DEF Goto, WorkerTypeOK, Busy
<1>6. ASSUME pc' = [pc EXCEPT ![k] = "deq"], cur' = [cur EXCEPT ![k] = NoWork]
      PROVE  WorkerTypeOK' /\ Busy'
  BY <1>0, <1>6 DEF WorkerTypeOK, Busy, Pointers
<1>7. ASSUME NEW w \in Work, NEW label \in {"run", "resched", "after"}, Update(k, w, label),
             pc[k] = "run", UNCHANGED answered \/ answered' \in [Conns -> Nat],
             UNCHANGED unread \/ unread' \in [Conns -> Seq(Kinds)]
      PROVE  SocketsTypeOK' /\ FindWorkTypeOK' /\ SchedulerTypeOK' /\ WorkerTypeOK' /\ Busy'
  <2>1. Goto(k, label) /\ UNCHANGED schedvars /\ UNCHANGED crashed
    BY <1>7 DEF Update
  <2>2. WorkerTypeOK' /\ Busy'
    BY <1>5, <1>7, <2>1
  <2>3. SchedulerTypeOK'
    BY <1>3, <1>4, <2>1 DEF schedvars
  <2>4. FindWorkTypeOK'
    BY <1>0, <1>7 DEF Update, FindWorkTypeOK
  <2>5. SocketsTypeOK'
    BY <1>0, <1>7 DEF Update, SocketsTypeOK
  <2> QED
    BY <2>2, <2>3, <2>4, <2>5
<1>8. ASSUME pc[k] \notin {"deq", "retired"} PROVE cur[k] \in Works /\ work[cur[k]] \in Work
  BY <1>0, <1>8 DEF Busy, FindWorkTypeOK
<1>9. CASE Dequeue(k)
  <2>1. Head(jobq) \in Works /\ Tail(jobq) \in Seq(Pointers)
    BY <1>4, <1>9 DEF Dequeue, Pointers
  <2>2. WorkerTypeOK' /\ Busy'
    BY <1>0, <1>9, <2>1 DEF Dequeue, WorkerTypeOK, Busy, Pointers
  <2> QED
    BY <1>1, <1>2, <1>3, <1>4, <1>9, <2>1, <2>2 DEF Dequeue
<1>10. CASE Retire(k)
  <2>1. AfterPill \in Seq(Pointers)
    BY <1>4, <1>10 DEF Retire, AfterPill, Pointers
  <2> QED
    BY <1>1, <1>2, <1>3, <1>4, <1>5, <1>10, <2>1 DEF Retire
<1>11. CASE DoRead(k)
  <2>1. pc[k] = "run" /\ Fd(k) \in Fds /\ fdconn[Fd(k)] \in Conns
    BY <1>0, <1>8, <1>11 DEF DoRead, Running, Fd, Open, Work, SocketsTypeOK
  <2> DEFINE w    == work[cur[k]]
             reqs == w.inbuf \o unread[fdconn[w.fd]]
  <2>2. w \in Work /\ w.fd = Fd(k)
    BY <1>8, <2>1 DEF Fd
  <2>3. reqs \in Seq(Kinds)
    BY <1>0, <2>1, <2>2 DEF Work, SocketsTypeOK
  <2>4. reqs # << >> => TakeRequest(w, reqs) \in Work
    <3>1. reqs # << >> => Tail(reqs) \in Seq(Kinds)
      BY <2>3
    <3> HIDE DEF w, reqs
    <3> QED
      BY <2>2, <3>1 DEF TakeRequest, Work
  <2>5. unread' \in [Conns -> Seq(Kinds)]
    BY <1>0, <1>11, <2>1, <2>2 DEF DoRead, SocketsTypeOK
  <2> QED
    BY <1>7, <1>11, <2>1, <2>2, <2>4, <2>5 DEF DoRead
<1>12. CASE DoWriteBlocked(k)
  BY <1>7, <1>8, <1>12 DEF DoWriteBlocked, Writing, Running
<1>13. CASE DoWriteHeaders(k)
  <2>1. pc[k] = "run" /\ [work[cur[k]] EXCEPT !.hdrs_done = TRUE] \in Work
    BY <1>8, <1>13 DEF DoWriteHeaders, Writing, Running, Work
  <2> QED
    BY <1>7, <1>13, <2>1 DEF DoWriteHeaders
<1>14. CASE DoWriteBody(k)
  <2> DEFINE w    == work[cur[k]]
             next == [w EXCEPT !.m = "read", !.hdrs_done = FALSE]
  <2>0. pc[k] = "run" /\ w \in Work
    BY <1>8, <1>14 DEF DoWriteBody, Writing, Running
  <2>1. next \in Work /\ [next EXCEPT !.inbuf = << >>] \in Work
    <3>1. << >> \in Seq(Kinds)
      OBVIOUS
    <3> HIDE DEF w
    <3> QED
      BY <2>0, <3>1 DEF Work
  <2>2. UNCHANGED unread
    BY <1>14 DEF DoWriteBody
  <2>3. answered' \in [Conns -> Nat]
    <3>1. answered' = [answered EXCEPT ![fdconn[w.fd]] = @ + 1]
      BY <1>14 DEF DoWriteBody
    <3>2. answered \in [Conns -> Nat]
      BY <1>0 DEF SocketsTypeOK
    <3>3. PICK c \in Conns : answered' = [answered EXCEPT ![c] = answered[c] + 1]
      BY <1>0, <1>14, <2>0, <3>1, ZenonT(60) DEF DoWriteBody, Writing, Fd, Open, Work, SocketsTypeOK
    <3> QED
      BY <3>2, <3>3
  <2>4. Update(k, w, "after") \/ Update(k, next, "run")
          \/ Update(k, [next EXCEPT !.inbuf = << >>], "resched")
    <3> DEFINE A == Update(k, w, "after")
               B == Update(k, next, "run")
               C == Update(k, [next EXCEPT !.inbuf = << >>], "resched")
    <3>1. (CASE w.deleteme -> A [] ~ w.deleteme /\ HasPipelined(w) -> B [] OTHER -> C)
      BY <1>14 DEF DoWriteBody
    <3> QED
      BY <3>1
  <2> HIDE DEF w, next
  <2> QED
    BY <1>7, <2>0, <2>1, <2>2, <2>3, <2>4
<1>15. CASE DoSocketErr(k)
  <2>1. pc[k] = "run" /\ [work[cur[k]] EXCEPT !.deleteme = TRUE] \in Work
    BY <1>8, <1>15 DEF DoSocketErr, Work
  <2> QED
    BY <1>7, <1>15, <2>1 DEF DoSocketErr
<1>16. CASE Reschedule(k)
  <2>1. SchedulerTypeOK'
    BY <1>3, <1>4, <1>16 DEF Reschedule, Crash, schedvars
  <2>2. FindWorkTypeOK'
    BY <1>2, <1>16 DEF Reschedule, Crash
  <2>3. SocketsTypeOK'
    BY <1>0, <1>16 DEF Reschedule, Crash, Arm, Watch, SocketsTypeOK, netvars
  <2> QED
    BY <1>5, <1>16, <2>1, <2>2, <2>3 DEF Reschedule
<1>17. CASE TestDeleteme(k)
  <2>1. SocketsTypeOK' /\ FindWorkTypeOK' /\ SchedulerTypeOK'
    BY <1>1, <1>2, <1>3, <1>4, <1>17 DEF TestDeleteme, schedvars
  <2>2. WorkerTypeOK' /\ Busy'
    BY <1>5, <1>6, <1>17 DEF TestDeleteme
  <2> QED
    BY <2>1, <2>2
<1>18. CASE DeleteUnregister(k)
  <2>1. SocketsTypeOK' /\ SchedulerTypeOK' /\ WorkerTypeOK' /\ Busy'
    BY <1>1, <1>3, <1>4, <1>5, <1>18 DEF DeleteUnregister, schedvars
  <2>2. FindWorkTypeOK'
    BY <1>0, <1>18 DEF DeleteUnregister, Unregister, FindWorkTypeOK, Pointers
  <2> QED
    BY <2>1, <2>2
<1>19. CASE DeleteClose(k)
  <2>1. SchedulerTypeOK' /\ WorkerTypeOK' /\ Busy'
    BY <1>3, <1>4, <1>6, <1>19 DEF DeleteClose, schedvars
  <2>2. wmap' \in [Fds -> Pointers]
    BY <1>0, <1>19 DEF DeleteClose, FindWorkTypeOK
  <2>3. cur[k] \in Works /\ Destroy(cur[k])
    BY <1>8, <1>19 DEF DeleteClose
  <2> QED
    BY <1>0, <2>1, <2>2, <2>3, DestroyTypes
<1> QED
  BY <1>9, <1>10, <1>11, <1>12, <1>13, <1>14, <1>15, <1>16, <1>17, <1>18, <1>19
  DEF WorkerThread, WorkerStep

\* Starting over keeps the types.
LEMMA MainTypes ==
  ASSUME TypeInv, MainThread
  PROVE  TypeInv'
<1>0. /\ SocketsTypeOK /\ FindWorkTypeOK /\ SchedulerTypeOK /\ WorkerTypeOK /\ Busy
      /\ phase \in {"serving", "stopped"} /\ EndIteration
  BY DEF TypeInv, TypeOK, MainThread
<1>1. SocketsTypeOK'
  BY <1>0, CloseTypes DEF EndIteration, ClearAll
<1>2. FindWorkTypeOK'
  BY <1>0, WorkAssumption DEF EndIteration, ClearAll, FindWorkTypeOK, Pointers
<1>3. SchedulerTypeOK'
  <2>1. << >> \in Seq(Pointers) /\ {} \in SUBSET Events
    OBVIOUS
  <2> QED
    BY <1>0, <2>1 DEF EndIteration, SchedulerTypeOK
<1>4. WorkerTypeOK' /\ Busy'
  BY <1>0 DEF EndIteration, AllRetired, WorkerTypeOK, Busy, Pointers
<1> QED
  BY <1>0, <1>1, <1>2, <1>3, <1>4 DEF TypeInv, TypeOK, EndIteration

\* Every step keeps the types.
LEMMA StepTypes ==
  ASSUME TypeInv, [Next]_vars
  PROVE  TypeInv'
<1>1. CASE UNCHANGED vars
  BY <1>1 DEF TypeInv, TypeOK, Busy, vars, sockvars, netvars, findvars, schedvars, workervars,
              SocketsTypeOK, FindWorkTypeOK, SchedulerTypeOK, WorkerTypeOK
<1> QED
  BY <1>1, OutsideTypes, SchedulerTypes, WorkerTypes, MainTypes DEF Next, Threads

\* Type correctness of the whole server: what the scheduler, the workers and the main
\* thread leave in the shared variables always has its type.
THEOREM TypeCorrect == Spec => []TypeOK
<1>1. Init => TypeInv
  BY InitTypes
<1>2. TypeInv /\ [Next]_vars => TypeInv'
  BY StepTypes
<1>3. TypeInv => TypeOK
  BY DEF TypeInv
<1> QED
  BY <1>1, <1>2, <1>3, PTL DEF Spec

----------------------------------------------------------------------------
(* Where a Work is *)

\* Nobody asks for the connection to be closed, and a client that hangs up cannot
\* catch a second worker at the Work that the first one is about to test: the cases
\* in which a Work has one owner.  With two workers and a client that leaves it may
\* have two (the run MCServerFreed shows the same race).
Quiet ==
    /\ Kinds \subseteq {"keep"}
    /\ Leavers = {} \/ \A j, k \in Workers : j = k

\* Hang-ups come from clients that may leave.
HupInv ==
    /\ \A c \in Conns : hup[c] => c \in Leavers
    /\ \A e \in batch : IsConn(e) /\ e.ev = "hup" => Leavers # {}

\* The scheduler's loop ends exactly when it has been halted; until then there is no
\* poison pill and no retired worker.
Flags ==
    /\ schedpc = "retired" <=> ~ dowork
    /\ schedpc # "events" => batch = {}
    /\ \A i \in DOMAIN jobq : jobq[i] = NoWork => ~ dowork
    /\ \A k \in Workers : pc[k] = "retired" => ~ dowork

\* A descriptor is registered with epoll as long as it is open, and no longer; no two
\* descriptors are the same connection.
OpenFds ==
    /\ \A f \in Fds : Open(f) <=> interest[f] # "none"
    /\ \A f \in Fds : Open(f) => peer[fdconn[f]] = "accepted"
    /\ \A f, g \in Fds : Open(f) /\ fdconn[f] = fdconn[g] => f = g

\* The worker k is deleting w and has taken it out of the map.
Closing(k, w) == cur[k] = w /\ pc[k] = "close"

\* What the map finds is a live Work of that descriptor; a live Work is found, except
\* in the middle of its deletion; each open descriptor has one Work.
Mapped ==
    /\ \A f \in Fds : wmap[f] # NoWork => wmap[f] \in live /\ work[wmap[f]].fd = f
    /\ \A w \in live : /\ Open(work[w].fd) /\ fdconn[work[w].fd] = work[w].conn
                       /\ wmap[work[w].fd] = w \/ \E k \in Workers : Closing(k, w)
    /\ \A v, w \in live : work[v].fd = work[w].fd => v = w
    /\ \A f \in Fds : Open(f) => \E w \in live : work[w].fd = f
    /\ \A k \in Workers : pc[k] = "close" => wmap[Fd(k)] = NoWork

\* A chunk in the store is free and is there once.
Stored ==
    /\ \A i \in DOMAIN store : store[i] \notin live
    /\ \A i, j \in DOMAIN store : store[i] = store[j] => i = j

Reported(f) == \E e \in batch : IsConn(e) /\ e.fd = f

Queued(w) == \E i \in DOMAIN jobq : jobq[i] = w

Owns(k) ==
    \/ pc[k] \in {"run", "resched", "unregister", "close"}
    \/ pc[k] = "after" /\ work[cur[k]].deleteme

\* An event is about an open descriptor that has been disarmed, and there is one.
InBatch ==
    /\ \A e \in batch : IsConn(e) => interest[e.fd] = "off"
    /\ \A d, e \in batch : IsConn(d) /\ IsConn(e) /\ d.fd = e.fd => d = e

\* A Work in the job queue is live, disarmed and not reported, and is there once.
InQueue ==
    /\ \A w \in Works : Queued(w) => /\ w \in live /\ interest[work[w].fd] = "off"
                                     /\ ~ Reported(work[w].fd)
    /\ \A i, j \in DOMAIN jobq : jobq[i] = jobq[j] /\ jobq[i] # NoWork => i = j

\* So is a Work that a worker has to itself, and it is not in the queue.
InHand ==
    /\ \A k \in Workers : Owns(k) => /\ cur[k] \in live /\ interest[Fd(k)] = "off"
                                     /\ ~ Reported(Fd(k)) /\ ~ Queued(cur[k])
    /\ \A j, k \in Workers : Owns(j) /\ Owns(k) /\ cur[j] = cur[k] => j = k

\* A Work marked for deletion is being deleted; without hang-ups there is none, and
\* then the Work that a worker looks at is always there.
Marked ==
    /\ \A w \in live : work[w].deleteme =>
          \E k \in Workers : cur[k] = w /\ pc[k] \in {"after", "unregister", "close"}
    /\ Leavers = {} => /\ \A w \in Works : ~ work[w].deleteme
                       /\ \A k \in Workers : pc[k] \notin {"unregister", "close"}
                       /\ \A k \in Workers : pc[k] \notin {"deq", "retired"} => cur[k] \in live

\* While the scheduler polls, no Work is lost.
NoneLost ==
    dowork => \A w \in live : \/ interest[work[w].fd] \in {"in", "out"}
                              \/ Reported(work[w].fd)
                              \/ Queued(w)
                              \/ \E k \in Workers : Owns(k) /\ cur[k] = w

Good ==
    /\ Flags /\ OpenFds /\ Mapped /\ Stored
    /\ InBatch /\ InQueue /\ InHand /\ Marked /\ NoneLost

IInv == TypeInv /\ HupInv /\ Marked /\ (crashed \/ Good)

\* At first there is nothing to be wrong with.
LEMMA InitGood == Init => HupInv /\ Good
<1> SUFFICES ASSUME Init PROVE HupInv /\ Good
  OBVIOUS
<1> USE DEF Init, SocketsInit, FindWorkInit, SchedulerInit, WorkerInit
<1>1. HupInv /\ Flags /\ OpenFds
  BY DEF HupInv, Flags, OpenFds, Open
<1>2. Mapped /\ Stored
  BY WorkAssumption DEF Mapped, Stored, Open
<1>3. InBatch /\ InQueue /\ InHand /\ NoneLost
  BY DEF InBatch, InQueue, InHand, NoneLost, Queued, Owns
<1>4. Marked
  <2>1. \A w \in Works : ~ work[w].deleteme
    BY DEF NewWork
  <2> QED
    BY <2>1 DEF Marked
<1> QED
  BY <1>1, <1>2, <1>3, <1>4 DEF Good

\* Only a client that may leave hangs up, and only then is a hang-up reported.
LEMMA StepHup ==
  ASSUME TypeInv, HupInv, [Next]_vars
  PROVE  HupInv'
<1>0. SocketsTypeOK /\ SchedulerTypeOK
  BY DEF TypeInv, TypeOK
<1>1. ASSUME UNCHANGED hup, batch' \subseteq batch PROVE HupInv'
  BY <1>1 DEF HupInv
<1>2. CASE UNCHANGED vars
  BY <1>1, <1>2 DEF vars, sockvars, netvars, schedvars
<1>3. CASE Outside
  <2>1. UNCHANGED batch /\ \A c \in Conns : hup'[c] => hup[c] \/ c \in Leavers
    <3>1. CASE \E c \in Conns : Connect(c) \/ HangUp(c) \/ Stall(c) \/ Drain(c)
      BY <1>0, <1>3, <3>1 DEF SocketsTypeOK, Connect, HangUp, Stall, Drain,
                               Outside, servervars, schedvars
    <3>2. CASE \E c \in Conns, k \in Kinds : SendRequest(c, k)
      BY <1>3, <3>2 DEF SendRequest, Outside, servervars, schedvars
    <3>3. CASE \E s \in Signals : RaiseSignal(s)
      BY <1>3, <3>3 DEF RaiseSignal, Outside, servervars, schedvars
    <3> QED
      BY <1>3, <3>1, <3>2, <3>3 DEF Outside, Environment
  <2> QED
    BY <2>1 DEF HupInv
<1>4. CASE SchedulerThread
  <2>1. CASE EpollWait
    <3>1. PICK E \in SUBSET ReadyEvents : batch' = E /\ UNCHANGED hup
      BY <2>1 DEF EpollWait, netvars
    <3>2. ASSUME NEW e \in E, IsConn(e), e.ev = "hup" PROVE Leavers # {}
      <4>1. PICK f \in Fds : Ready(f) /\ e = [fd |-> f, ev |-> EventOf(f)]
        BY <3>2 DEF ReadyEvents, IsConn
      <4>2. HungUp(f) \/ interest[f] = "hup"
        BY <3>2, <4>1 DEF EventOf
      <4>3. fdconn[f] \in Conns /\ hup[fdconn[f]]
        BY <1>0, <4>1, <4>2 DEF HungUp, Ready, Open, SocketsTypeOK
      <4> QED
        BY <4>3 DEF HupInv
    <3> QED
      BY <3>1, <3>2 DEF HupInv
  <2>2. ASSUME NEW e \in batch, LoopTail(e) PROVE batch' \subseteq batch
    BY <2>2 DEF LoopTail
  <2>3. ASSUME NEW e \in batch, OnHangup(e) PROVE UNCHANGED hup
    BY <2>3 DEF OnHangup, Delete, Destroy, MakeAndDelete, CloseAll
  <2>4. ASSUME NEW e \in batch, OnReady(e) PROVE UNCHANGED hup
    BY <2>4 DEF OnReady, sockvars, netvars
  <2>5. ASSUME NEW e \in batch, NEW c, NEW f, OnAccept(e, c, f) PROVE UNCHANGED hup
    BY <2>5 DEF OnAccept, Crash, netvars
  <2>6. ASSUME NEW e \in batch, NEW s, OnSignal(e, s) PROVE UNCHANGED hup
    BY <2>6 DEF OnSignal, netvars
  <2>7. ASSUME NEW e \in batch, NEW c, OnAborted(e, c) PROVE UNCHANGED hup
    BY <2>7 DEF OnAborted
  <2>8. CASE ~ EpollWait
    <3>1. PICK e \in batch :
             OnHangup(e) \/ OnReady(e)
               \/ (\E c \in Backlog : OnAborted(e, c) \/ \E f \in Fds : OnAccept(e, c, f))
               \/ (\E s \in Pending : OnSignal(e, s))
      BY <1>4, <2>8 DEF SchedulerThread, SchedulerStep
    <3>2. LoopTail(e)
      BY <3>1 DEF OnHangup, OnReady, OnAborted, OnAccept, OnSignal
    <3> QED
      BY <1>1, <2>2, <2>3, <2>4, <2>5, <2>6, <2>7, <3>1, <3>2
  <2> QED
    BY <2>1, <2>8
<1>5. ASSUME NEW k \in Workers, WorkerThread(k) PROVE HupInv'
  <2>1. UNCHANGED hup
    BY <1>5, SMTT(30) DEF WorkerThread, WorkerStep, Dequeue, Retire, DoRead, DoWriteHeaders,
                DoWriteBlocked, DoWriteBody, DoSocketErr, Reschedule, TestDeleteme,
                DeleteUnregister, DeleteClose, Update, Crash, Destroy, CloseAll,
                sockvars, netvars
  <2>2. UNCHANGED batch
    BY <1>5 DEF WorkerThread, WorkerStep, Dequeue, Retire, DoRead, DoWriteHeaders,
                DoWriteBlocked, DoWriteBody, DoSocketErr, Reschedule, TestDeleteme,
                DeleteUnregister, DeleteClose, Update, schedvars
  <2> QED
    BY <1>1, <2>1, <2>2, SMTT(30)
<1>6. CASE MainThread
  BY <1>1, <1>6 DEF MainThread, EndIteration, ClearAll, CloseAll
<1> QED
  BY <1>2, <1>3, <1>4, <1>5, <1>6 DEF Next, Threads

\* Clients and signals leave every Work where it is.
LEMMA OutsideGood ==
  ASSUME TypeInv, Good, Outside
  PROVE  Good'
<1>0. SocketsTypeOK
  BY DEF TypeInv, TypeOK
<1>1. UNCHANGED <<fdconn, interest, findvars, schedvars, workervars>>
  BY DEF Outside, servervars, Environment, Connect, HangUp, Stall, Drain, SendRequest, RaiseSignal
<1>2. \A c \in Conns : peer[c] = "accepted" => peer'[c] = "accepted"
  <2>1. CASE \E c \in Conns : Connect(c)
    BY <1>0, <2>1 DEF Connect, SocketsTypeOK
  <2>2. CASE UNCHANGED peer
    BY <2>2
  <2> QED
    BY <2>1, <2>2 DEF Outside, Environment, HangUp, Stall, Drain, SendRequest, RaiseSignal
<1>3. Flags'
  BY <1>1 DEF Good, Flags, schedvars, workervars
<1>4. OpenFds'
  BY <1>0, <1>1, <1>2 DEF Good, OpenFds, Open, SocketsTypeOK
<1>5. Mapped' /\ Stored'
  BY <1>1 DEF Good, Mapped, Stored, Closing, Fd, Open, findvars, workervars
<1>6. InBatch' /\ InQueue' /\ NoneLost'
  BY <1>1 DEF Good, InBatch, InQueue, NoneLost, Reported, Queued, Owns,
              findvars, workervars, schedvars
<1>7. InHand' /\ Marked'
  BY <1>1 DEF Good, InHand, Marked, Reported, Queued, Owns, Fd, findvars, workervars, schedvars
<1> QED
  BY <1>3, <1>4, <1>5, <1>6, <1>7 DEF Good

\* epoll_wait moves a Work that is armed into the batch; the others are not reported.
LEMMA EpollWaitGood ==
  ASSUME TypeInv, Good, EpollWait, UNCHANGED workervars
  PROVE  Good'
<1>0. SocketsTypeOK /\ batch = {} /\ \A f \in Fds : ~ Reported(f)
  BY DEF TypeInv, TypeOK, EpollWait, Good, Flags, Reported
<1>1. PICK E \in SUBSET ReadyEvents : batch' = E /\ interest' = DisarmReported(E)
  BY DEF EpollWait
<1>2. /\ UNCHANGED <<peer, fdconn, wmap, work, live, store, dowork, jobq, pc, cur>>
      /\ schedpc' = "events" /\ dowork
  BY DEF EpollWait, netvars, findvars, workervars
<1>3. ASSUME NEW e \in E, IsConn(e)
      PROVE  /\ e.fd \in Fds /\ Open(e.fd) /\ interest[e.fd] \in {"in", "out"}
             /\ e = [fd |-> e.fd, ev |-> EventOf(e.fd)]
  <2>1. PICK f \in Fds : Ready(f) /\ e = [fd |-> f, ev |-> EventOf(f)]
    BY <1>3 DEF ReadyEvents, IsConn
  <2> QED
    BY <2>1 DEF Ready
<1>4. ASSUME NEW f \in Fds
      PROVE  /\ interest'[f] = IF Reported(f)' THEN "off" ELSE interest[f]
             /\ Reported(f)' => Open(f) /\ interest[f] \in {"in", "out"}
  BY <1>1, <1>3 DEF DisarmReported, EventFds, Reported, IsConn
<1>5. \A w \in live : work[w].fd \in Fds
  BY DEF TypeInv, TypeOK, FindWorkTypeOK, Work
<1>6. Flags'
  BY <1>2 DEF Good, Flags
<1>7. OpenFds'
  BY <1>2, <1>4 DEF Good, OpenFds, Open
<1>8. Mapped' /\ Stored' /\ Marked'
  BY <1>2 DEF Good, Mapped, Stored, Marked, Closing, Fd, Open
<1>9. InBatch'
  <2>1. \A d, e \in E : IsConn(d) /\ IsConn(e) /\ d.fd = e.fd => d = e
    BY <1>3
  <2> QED
    BY <1>1, <1>3, <1>4, <2>1 DEF InBatch, Reported
<1>10. InQueue'
  <2>1. ASSUME NEW w \in Works, Queued(w)'
        PROVE  w \in live /\ interest'[work[w].fd] = "off" /\ ~ Reported(work[w].fd)'
    <3>1. Queued(w)
      BY <1>2, <2>1 DEF Queued
    <3>2. w \in live /\ interest[work[w].fd] = "off"
      BY <3>1 DEF Good, InQueue
    <3> QED
      BY <1>2, <1>4, <1>5, <3>2
  <2>2. \A w \in Works : Queued(w)' =>
           (w \in live /\ interest[work[w].fd] = "off" /\ ~ Reported(work[w].fd))'
    BY <1>2, <2>1 DEF Reported
  <2> QED
    BY <1>2, <2>2 DEF Good, InQueue
<1>11. InHand'
  <2>1. ASSUME NEW k \in Workers, Owns(k)'
        PROVE  /\ cur[k] \in live /\ interest'[Fd(k)] = "off" /\ ~ Reported(Fd(k))'
               /\ ~ Queued(cur[k])'
    <3>1. Owns(k)
      BY <1>2, <2>1 DEF Owns
    <3>2. cur[k] \in live /\ interest[Fd(k)] = "off" /\ ~ Queued(cur[k])
      BY <3>1 DEF Good, InHand
    <3>3. ~ Queued(cur[k])'
      BY <1>2, <3>2 DEF Queued
    <3>4. Fd(k) \in Fds /\ Fd(k)' = Fd(k)
      BY <1>2, <1>5, <3>2 DEF Fd
    <3>5. ~ Reported(Fd(k))'
      BY <1>4, <3>2, <3>4
    <3> QED
      BY <1>4, <3>2, <3>3, <3>4, <3>5
  <2>2. \A j, k \in Workers : Owns(j)' /\ Owns(k)' /\ cur[j] = cur[k] => j = k
    BY <1>2 DEF Good, InHand, Owns
  <2> QED
    BY <1>2, <2>1, <2>2 DEF InHand, Fd
<1>12. NoneLost'
  <2>1. ASSUME NEW w \in live
        PROVE  \/ interest'[work[w].fd] \in {"in", "out"} \/ Reported(work[w].fd)'
               \/ Queued(w) \/ \E k \in Workers : Owns(k) /\ cur[k] = w
    BY <1>0, <1>2, <1>4, <1>5 DEF Good, NoneLost
  <2> QED
    BY <1>2, <2>1 DEF NoneLost, Queued, Owns, Reported
<1> QED
  BY <1>6, <1>7, <1>8, <1>9, <1>10, <1>11, <1>12 DEF Good

\* What the end of the loop's body does when the handler does not halt.
LEMMA LoopTailFacts ==
  ASSUME Good, NEW e \in batch, Handling(e), LoopTail(e), UNCHANGED dowork
  PROVE  /\ dowork /\ batch' = batch \ {e}
         /\ (schedpc = "retired" <=> ~ dowork)' /\ (schedpc # "events" => batch = {})'
         /\ IsConn(e) => \A f : (\E d \in batch' : IsConn(d) /\ d.fd = f)
                                  <=> Reported(f) /\ f # e.fd
         /\ ~ IsConn(e) => \A f : (\E d \in batch' : IsConn(d) /\ d.fd = f) <=> Reported(f)
         /\ \A c, d \in batch' : IsConn(c) /\ IsConn(d) /\ c.fd = d.fd => c = d
<1>1. dowork /\ batch' = batch \ {e}
  BY DEF Good, Flags, Handling, LoopTail
<1>2. (schedpc = "retired" <=> ~ dowork)' /\ (schedpc # "events" => batch = {})'
  BY <1>1 DEF LoopTail
<1>3. \A c, d \in batch : IsConn(c) /\ IsConn(d) /\ c.fd = d.fd => c = d
  BY DEF Good, InBatch
<1> QED
  BY <1>1, <1>2, <1>3 DEF Reported

\* The Work of a reported descriptor is in the map, and nobody else has it.
LEMMA ReportedWork ==
  ASSUME TypeInv, Good, NEW e \in batch, IsConn(e)
  PROVE  /\ e.fd \in Fds /\ Open(e.fd) /\ interest[e.fd] = "off"
         /\ wmap[e.fd] \in live /\ wmap[e.fd] \in Works /\ wmap[e.fd] # NoWork
         /\ work[wmap[e.fd]].fd = e.fd
         /\ ~ Queued(wmap[e.fd])
         /\ \A k \in Workers : Owns(k) => cur[k] # wmap[e.fd]
<1>1. e.fd \in Fds
  BY DEF TypeInv, TypeOK, SchedulerTypeOK, Events, ConnEvents, IsConn
<1>2. interest[e.fd] = "off" /\ Reported(e.fd)
  BY DEF Good, InBatch, Reported
<1>3. Open(e.fd)
  BY <1>1, <1>2 DEF Good, OpenFds
<1>4. PICK w \in live : work[w].fd = e.fd
  BY <1>1, <1>3 DEF Good, Mapped
<1>5. \A k \in Workers : Owns(k) => cur[k] # w
  BY <1>2, <1>4 DEF Good, InHand, Fd
<1>6. wmap[e.fd] = w
  BY <1>4, <1>5 DEF Good, Mapped, Closing, Owns
<1>7. w \in Works
  BY DEF TypeInv, TypeOK, FindWorkTypeOK
<1>8. ~ Queued(w)
  BY <1>2, <1>4, <1>7 DEF Good, InQueue
<1> QED
  BY <1>1, <1>2, <1>3, <1>4, <1>5, <1>6, <1>7, <1>8, WorkAssumption

\* The job queue after enq.
LEMMA Enqueued ==
  ASSUME jobq \in Seq(Pointers), NEW w \in Pointers, jobq' = Append(jobq, w)
  PROVE  /\ \A v : (\E i \in DOMAIN jobq' : jobq'[i] = v) <=> Queued(v) \/ v = w
         /\ ~ Queued(w) \/ w = NoWork =>
              ((\A i, j \in DOMAIN jobq : jobq[i] = jobq[j] /\ jobq[i] # NoWork => i = j)
               => \A i, j \in DOMAIN jobq' : jobq'[i] = jobq'[j] /\ jobq'[i] # NoWork => i = j)
<1>1. /\ DOMAIN jobq = 1 .. Len(jobq) /\ Len(jobq) \in Nat
      /\ DOMAIN jobq' = 1 .. Len(jobq) + 1
      /\ \A i \in 1 .. Len(jobq) : jobq'[i] = jobq[i]
      /\ jobq'[Len(jobq) + 1] = w
  OBVIOUS
<1>2. \A i \in 1 .. Len(jobq) + 1 : i \in 1 .. Len(jobq) \/ i = Len(jobq) + 1
  BY <1>1
<1>3. 1 .. Len(jobq) \subseteq 1 .. Len(jobq) + 1 /\ Len(jobq) + 1 \in 1 .. Len(jobq) + 1
  BY <1>1
<1> HIDE DEF Pointers
<1>4. \A v : (\E i \in DOMAIN jobq' : jobq'[i] = v) <=> Queued(v) \/ v = w
  BY <1>1, <1>2, <1>3, Zenon DEF Queued
<1>5. ASSUME ~ Queued(w) \/ w = NoWork,
             \A i, j \in DOMAIN jobq : jobq[i] = jobq[j] /\ jobq[i] # NoWork => i = j
      PROVE  \A i, j \in DOMAIN jobq' : jobq'[i] = jobq'[j] /\ jobq'[i] # NoWork => i = j
  <2> SUFFICES ASSUME NEW i \in DOMAIN jobq', NEW j \in DOMAIN jobq',
                      jobq'[i] = jobq'[j], jobq'[i] # NoWork
               PROVE  i = j
    BY Zenon
  <2>1. CASE i \in 1 .. Len(jobq) /\ j \in 1 .. Len(jobq)
    BY <1>1, <1>5, <2>1
  <2>2. CASE i = Len(jobq) + 1 /\ j \in 1 .. Len(jobq)
    BY <1>1, <1>5, <2>2 DEF Queued
  <2>3. CASE j = Len(jobq) + 1 /\ i \in 1 .. Len(jobq)
    BY <1>1, <1>5, <2>3 DEF Queued
  <2> QED
    BY <1>1, <1>2, <2>1, <2>2, <2>3
<1> QED
  BY <1>4, <1>5

\* accept fails for a client that has left: only the backlog changes.
LEMMA AbortedGood ==
  ASSUME TypeInv, Good, UNCHANGED workervars, NEW e \in batch, NEW c \in Conns, OnAborted(e, c)
  PROVE  Good'
<1>1. /\ UNCHANGED <<fdconn, interest, wmap, work, live, store, dowork, jobq, pc, cur>>
      /\ Handling(e) /\ LoopTail(e) /\ ~ IsConn(e)
      /\ peer[c] = "backlog" /\ peer' = [peer EXCEPT ![c] = "closed"]
  BY DEF OnAborted, IsConn, Backlog, findvars, workervars
<1>2. /\ batch' \subseteq batch
      /\ (schedpc = "retired" <=> ~ dowork)' /\ (schedpc # "events" => batch = {})'
      /\ \A f : (\E d \in batch' : IsConn(d) /\ d.fd = f) <=> Reported(f)
  BY <1>1, LoopTailFacts
<1>3. Flags'
  BY <1>1, <1>2 DEF Good, Flags
<1>4. OpenFds'
  BY <1>1 DEF Good, OpenFds, Open, TypeInv, TypeOK, SocketsTypeOK
<1>5. Mapped' /\ Stored' /\ Marked'
  BY <1>1 DEF Good, Mapped, Stored, Marked, Closing, Fd, Open
<1>6. InBatch'
  BY <1>1, <1>2 DEF Good, InBatch
<1>7. InQueue' /\ NoneLost'
  BY <1>1, <1>2 DEF Good, InQueue, NoneLost, Queued, Owns, Reported
<1>8. InHand'
  BY <1>1, <1>2 DEF Good, InHand, Queued, Owns, Reported, Fd
<1> QED
  BY <1>3, <1>4, <1>5, <1>6, <1>7, <1>8 DEF Good

\* A signal halts the scheduler, which drops the rest of the batch.
LEMMA SignalGood ==
  ASSUME TypeInv, Good, UNCHANGED workervars, NEW e \in batch, NEW s \in Signals, OnSignal(e, s)
  PROVE  Good'
<1>0. jobq \in Seq(Pointers) /\ NoWork \in Pointers /\ NoWork \notin Works
  BY WorkAssumption DEF TypeInv, TypeOK, SchedulerTypeOK, Pointers
<1>1. /\ UNCHANGED <<peer, fdconn, interest, wmap, work, live, store, pc, cur>>
      /\ dowork' = FALSE /\ jobq' = Append(jobq, NoWork)
  BY DEF OnSignal, Handler, ServerHalt, ServerFlush, Halt, findvars, netvars, workervars
<1>2. batch' = {} /\ schedpc' = "retired"
  BY <1>1 DEF OnSignal, LoopTail
<1>3. /\ \A v : (\E i \in DOMAIN jobq' : jobq'[i] = v) <=> Queued(v) \/ v = NoWork
      /\ \A i, j \in DOMAIN jobq' : jobq'[i] = jobq'[j] /\ jobq'[i] # NoWork => i = j
  BY <1>0, <1>1, Enqueued DEF Good, InQueue
<1>4. Flags'
  BY <1>1, <1>2 DEF Good, Flags
<1>5. OpenFds' /\ InBatch' /\ NoneLost'
  BY <1>1, <1>2 DEF Good, OpenFds, InBatch, NoneLost, Open
<1>6. Mapped' /\ Stored' /\ Marked'
  BY <1>1 DEF Good, Mapped, Stored, Marked, Closing, Fd, Open
<1>7. \A w \in Works : Queued(w)' <=> Queued(w)
  BY <1>0, <1>3 DEF Queued
<1>8. InQueue'
  BY <1>1, <1>2, <1>3, <1>7 DEF Good, InQueue, Reported
<1>9. InHand'
  <2>1. ASSUME NEW k \in Workers, Owns(k)' PROVE Owns(k) /\ cur[k] \in Works
    BY <1>1, <2>1 DEF Owns, TypeInv, TypeOK, FindWorkTypeOK, Busy
  <2> QED
    BY <1>1, <1>2, <1>7, <2>1 DEF Good, InHand, Reported, Fd
<1> QED
  BY <1>4, <1>5, <1>6, <1>8, <1>9 DEF Good

\* A ready connection's Work moves from the batch to the job queue.
LEMMA ReadyGood ==
  ASSUME TypeInv, Good, UNCHANGED workervars, NEW e \in batch, OnReady(e)
  PROVE  Good'
<1>0. jobq \in Seq(Pointers) /\ NoWork \notin Works
  BY WorkAssumption DEF TypeInv, TypeOK, SchedulerTypeOK
<1>1. IsConn(e) /\ Handling(e) /\ LoopTail(e)
      /\ UNCHANGED <<peer, fdconn, interest, dowork, pc, cur>>
  BY DEF OnReady, sockvars, netvars, workervars
<1> DEFINE w == wmap[e.fd]
<1>2. /\ e.fd \in Fds /\ interest[e.fd] = "off"
      /\ w \in live /\ w \in Works /\ w # NoWork /\ work[w].fd = e.fd /\ ~ Queued(w)
      /\ \A k \in Workers : Owns(k) => cur[k] # w
  BY <1>1, ReportedWork
<1>3. UNCHANGED <<wmap, work, live, store>> /\ jobq' = Append(jobq, w)
  BY <1>2 DEF OnReady, FindOrCreate, findvars
<1> HIDE DEF w
<1>4. /\ \A v : (\E i \in DOMAIN jobq' : jobq'[i] = v) <=> Queued(v) \/ v = w
      /\ \A i, j \in DOMAIN jobq' : jobq'[i] = jobq'[j] /\ jobq'[i] # NoWork => i = j
  <2>1. w \in Pointers
    BY <1>2 DEF Pointers
  <2> QED
    BY <1>0, <1>2, <1>3, <2>1, Enqueued DEF Good, InQueue
<1>5. /\ dowork /\ batch' \subseteq batch
      /\ (schedpc = "retired" <=> ~ dowork)' /\ (schedpc # "events" => batch = {})'
      /\ \A f : (\E d \in batch' : IsConn(d) /\ d.fd = f) <=> Reported(f) /\ f # e.fd
  BY <1>1, LoopTailFacts
<1>6. Flags'
  <2>1. ASSUME NEW i \in DOMAIN jobq', jobq'[i] = NoWork PROVE FALSE
    <3>1. Queued(NoWork)
      BY <1>2, <1>4, <2>1
    <3> QED
      BY <1>5, <3>1 DEF Good, Flags, Queued
  <2> QED
    BY <1>1, <1>5, <2>1 DEF Good, Flags
<1>7. OpenFds' /\ InBatch'
  BY <1>1, <1>5 DEF Good, OpenFds, InBatch, Open
<1>8. Mapped' /\ Stored' /\ Marked'
  BY <1>1, <1>3 DEF Good, Mapped, Stored, Marked, Closing, Fd, Open
<1>9. \A v : Queued(v)' <=> Queued(v) \/ v = w
  BY <1>4 DEF Queued
<1>10. \A f : (\E d \in batch' : IsConn(d) /\ d.fd = f) => Reported(f) /\ f # e.fd
  BY <1>5
<1>11. InQueue'
  <2>1. ASSUME NEW v \in Works, Queued(v)'
        PROVE  (v \in live /\ interest[work[v].fd] = "off" /\ ~ Reported(work[v].fd))'
    <3>1. CASE v = w
      BY <1>1, <1>2, <1>3, <1>5, <3>1 DEF Reported
    <3>2. CASE Queued(v)
      BY <1>1, <1>3, <1>5, <3>2 DEF Good, InQueue, Reported
    <3> QED
      BY <1>9, <2>1, <3>1, <3>2
  <2> QED
    BY <1>4, <2>1 DEF InQueue
<1>12. InHand'
  <2>1. ASSUME NEW k \in Workers, Owns(k)' PROVE Owns(k) /\ Fd(k)' = Fd(k)
    BY <1>1, <1>3, <2>1 DEF Owns, Fd
  <2>2. ASSUME NEW k \in Workers, Owns(k)'
        PROVE  (cur[k] \in live /\ interest[Fd(k)] = "off" /\ ~ Reported(Fd(k)) /\ ~ Queued(cur[k]))'
    <3>1. /\ cur[k] \in live /\ interest[Fd(k)] = "off" /\ ~ Reported(Fd(k))
          /\ ~ Queued(cur[k]) /\ cur[k] # w
      BY <1>2, <2>1, <2>2 DEF Good, InHand
    <3>2. ~ Queued(cur[k])'
      BY <1>1, <1>4, <3>1 DEF Queued
    <3>3. ~ Reported(Fd(k))'
      BY <1>5, <2>1, <2>2, <3>1 DEF Reported
    <3> QED
      BY <1>1, <1>3, <2>1, <2>2, <3>1, <3>2, <3>3
  <2> QED
    BY <1>1, <2>1, <2>2 DEF Good, InHand
<1>13. NoneLost'
  <2>1. ASSUME NEW v \in live
        PROVE  \/ interest[work[v].fd] \in {"in", "out"} \/ Reported(work[v].fd)'
               \/ Queued(v)' \/ \E k \in Workers : Owns(k) /\ cur[k] = v
    <3>1. CASE v = w
      BY <1>9, <3>1
    <3>2. CASE v # w
      <4>1. work[v].fd # e.fd
        BY <1>2, <3>2 DEF Good, Mapped
      <4> QED
        BY <1>3, <1>5, <1>9, <4>1 DEF Good, NoneLost, Reported
    <3> QED
      BY <3>1, <3>2
  <2> QED
    BY <1>1, <1>3, <2>1 DEF NoneLost, Owns
<1> QED
  BY <1>6, <1>7, <1>8, <1>11, <1>12, <1>13 DEF Good

\* A connection that hung up is closed: its Work is in the batch, and nowhere else.
LEMMA HangupGood ==
  ASSUME TypeInv, HupInv, Good, UNCHANGED workervars, NEW e \in batch, OnHangup(e)
  PROVE  Good'
<1>0. /\ SocketsTypeOK /\ FindWorkTypeOK /\ store \in Seq(Works) /\ NoWork \notin Works
      /\ \A v \in live : v \in Works /\ work[v].fd \in Fds
  BY WorkAssumption DEF TypeInv, TypeOK, FindWorkTypeOK, Work
<1>1. /\ IsConn(e) /\ Handling(e) /\ LoopTail(e) /\ Leavers # {}
      /\ UNCHANGED <<dowork, jobq, pc, cur>>
  BY DEF OnHangup, HupInv, workervars
<1> DEFINE f == e.fd
           w == wmap[f]
<1>2. /\ f \in Fds /\ Open(f)
      /\ w \in live /\ w \in Works /\ w # NoWork /\ work[w].fd = f /\ ~ Queued(w)
      /\ \A k \in Workers : Owns(k) => cur[k] # w
  BY <1>1, ReportedWork
<1>3. Delete(w)
  BY <1>2 DEF OnHangup
<1>4. /\ peer' = [c \in Conns |-> IF fdconn[f] = c THEN "closed" ELSE peer[c]]
      /\ fdconn' = [g \in Fds |-> IF g = f THEN NoConn ELSE fdconn[g]]
      /\ interest' = [g \in Fds |-> IF g = f THEN "none" ELSE interest[g]]
      /\ wmap' = [wmap EXCEPT ![f] = NoWork]
      /\ live' = live \ {w} /\ store' = Append(store, w) /\ UNCHANGED work
  BY <1>2, <1>3 DEF Delete, Unregister, Destroy, CloseAll
<1>5. /\ dowork /\ batch' \subseteq batch
      /\ (schedpc = "retired" <=> ~ dowork)' /\ (schedpc # "events" => batch = {})'
      /\ \A g : (\E d \in batch' : IsConn(d) /\ d.fd = g) <=> Reported(g) /\ g # f
  BY <1>1, LoopTailFacts
<1> HIDE DEF f, w
<1>6. \A v \in live' : v \in live /\ v # w /\ work[v].fd # f
  BY <1>2, <1>4 DEF Good, Mapped
<1>7. Flags'
  BY <1>1, <1>5 DEF Good, Flags
<1>8. OpenFds'
  <2>1. \A g \in Fds : Open(g)' <=> Open(g) /\ g # f
    BY <1>0, <1>4 DEF Open, SocketsTypeOK
  <2>2. \A g \in Fds : Open(g)' => fdconn'[g] = fdconn[g] /\ interest'[g] = interest[g] /\ peer'[fdconn[g]] = peer[fdconn[g]]
    <3> SUFFICES ASSUME NEW g \in Fds, Open(g)'
                 PROVE  fdconn'[g] = fdconn[g] /\ interest'[g] = interest[g] /\ peer'[fdconn[g]] = peer[fdconn[g]]
      OBVIOUS
    <3>1. Open(g) /\ g # f
      BY <2>1
    <3>2. fdconn[g] \in Conns /\ fdconn[g] # fdconn[f]
      BY <1>0, <1>2, <3>1 DEF Good, OpenFds, Open, SocketsTypeOK
    <3> QED
      BY <1>4, <3>1, <3>2
  <2>3. \A g \in Fds : ~ Open(g)' => interest'[g] = "none"
    BY <1>4, <2>1 DEF Good, OpenFds
  <2>4. ASSUME NEW g \in Fds, NEW h \in Fds, Open(g)', fdconn'[g] = fdconn'[h] PROVE g = h
    <3>1. Open(h)'
      BY <2>4 DEF Open
    <3> QED
      BY <2>1, <2>2, <2>4, <3>1 DEF Good, OpenFds
  <2> QED
    BY <2>1, <2>2, <2>3, <2>4 DEF Good, OpenFds
<1>9. Mapped'
  <2>1. \A g \in Fds : wmap'[g] = IF g = f THEN NoWork ELSE wmap[g]
    BY <1>0, <1>4 DEF FindWorkTypeOK
  <2>2. \A g \in Fds : wmap'[g] # NoWork => wmap'[g] \in live' /\ work'[wmap'[g]].fd = g
    BY <1>2, <1>4, <2>1 DEF Good, Mapped
  <2>3. ASSUME NEW v \in live'
        PROVE  /\ Open(work[v].fd)' /\ fdconn'[work[v].fd] = work[v].conn
               /\ wmap'[work[v].fd] = v \/ \E k \in Workers : Closing(k, v)
    BY <1>0, <1>4, <1>6, <2>1 DEF Good, Mapped, Open
  <2>4. ASSUME NEW g \in Fds, Open(g)' PROVE \E v \in live' : work[v].fd = g
    <3>1. Open(g) /\ g # f
      BY <1>4, <2>4 DEF Open
    <3>2. PICK v \in live : work[v].fd = g
      BY <3>1 DEF Good, Mapped
    <3> QED
      BY <1>2, <1>4, <3>1, <3>2
  <2>5. \A k \in Workers : pc'[k] = "close" => wmap'[Fd(k)'] = NoWork
    <3> SUFFICES ASSUME NEW k \in Workers, pc[k] = "close" PROVE wmap'[Fd(k)] = NoWork
      BY <1>1, <1>4 DEF Fd
    <3>1. wmap[Fd(k)] = NoWork /\ cur[k] \in live
      BY DEF Good, Mapped, InHand, Owns
    <3> QED
      BY <1>0, <2>1, <3>1 DEF Fd
  <2> QED
    BY <1>1, <1>4, <1>6, <2>2, <2>3, <2>4, <2>5 DEF Good, Mapped, Closing
<1>10. Stored'
  <2>1. /\ DOMAIN store = 1 .. Len(store) /\ Len(store) \in Nat
        /\ DOMAIN store' = 1 .. Len(store) + 1
        /\ \A i \in 1 .. Len(store) : store'[i] = store[i]
        /\ store'[Len(store) + 1] = w
    BY <1>0, <1>2, <1>4
  <2>2. \A i \in 1 .. Len(store) : store[i] # w /\ store[i] \notin live
    BY <1>2, <2>1 DEF Good, Stored
  <2>3. \A i \in DOMAIN store' : store'[i] \notin live'
    BY <1>4, <2>1, <2>2
  <2>4. \A i, j \in DOMAIN store' : store'[i] = store'[j] => i = j
    BY <2>1, <2>2 DEF Good, Stored
  <2> QED
    BY <2>3, <2>4 DEF Stored
<1>11. InBatch'
  <2>1. ASSUME NEW d \in batch', IsConn(d) PROVE interest'[d.fd] = "off"
    <3>1. d \in batch /\ d.fd # f
      BY <1>5, <2>1
    <3>2. d.fd \in Fds /\ interest[d.fd] = "off"
      BY <2>1, <3>1, ReportedWork
    <3> QED
      BY <1>4, <3>1, <3>2
  <2> QED
    BY <1>5, <2>1 DEF Good, InBatch
<1>12. InQueue'
  <2>1. ASSUME NEW v \in Works, Queued(v)'
        PROVE  (v \in live /\ interest[work[v].fd] = "off" /\ ~ Reported(work[v].fd))'
    <3>1. Queued(v) /\ v # w
      BY <1>1, <1>2, <2>1 DEF Queued
    <3>2. v \in live' /\ interest[work[v].fd] = "off" /\ ~ Reported(work[v].fd)
      BY <1>4, <3>1 DEF Good, InQueue
    <3>3. interest'[work[v].fd] = "off"
      BY <1>0, <1>4, <1>6, <3>2
    <3> QED
      BY <1>4, <1>5, <3>2, <3>3 DEF Reported
  <2> QED
    BY <1>1, <2>1 DEF Good, InQueue
<1>13. InHand'
  <2>1. ASSUME NEW k \in Workers, Owns(k)' PROVE Owns(k) /\ Fd(k)' = Fd(k)
    BY <1>1, <1>4, <2>1 DEF Owns, Fd
  <2>2. ASSUME NEW k \in Workers, Owns(k)'
        PROVE  (cur[k] \in live /\ interest[Fd(k)] = "off" /\ ~ Reported(Fd(k)) /\ ~ Queued(cur[k]))'
    <3>1. /\ cur[k] \in live' /\ interest[Fd(k)] = "off" /\ ~ Reported(Fd(k))
          /\ ~ Queued(cur[k])
      BY <1>2, <1>4, <2>1, <2>2 DEF Good, InHand
    <3>2. ~ Queued(cur[k])'
      BY <1>1, <3>1 DEF Queued
    <3>3. interest'[Fd(k)] = "off"
      BY <1>0, <1>4, <1>6, <3>1 DEF Fd
    <3>4. ~ Reported(Fd(k))'
      BY <1>5, <2>1, <2>2, <3>1 DEF Reported
    <3> QED
      BY <1>1, <2>1, <2>2, <3>1, <3>2, <3>3, <3>4
  <2> QED
    BY <1>1, <2>1, <2>2 DEF Good, InHand
<1>14. Marked'
  BY <1>1, <1>4 DEF Good, Marked
<1>15. NoneLost'
  <2>1. ASSUME NEW v \in live'
        PROVE  \/ interest'[work[v].fd] \in {"in", "out"} \/ Reported(work[v].fd)'
               \/ Queued(v)' \/ \E k \in Workers : Owns(k) /\ cur[k] = v
    <3>1. v \in live /\ work[v].fd # f /\ work[v].fd \in Fds
      BY <1>0, <1>6
    <3>2. interest'[work[v].fd] = interest[work[v].fd]
      BY <1>4, <3>1
    <3> QED
      BY <1>1, <1>4, <1>5, <3>1, <3>2 DEF Good, NoneLost, Reported, Queued
  <2> QED
    BY <1>1, <1>4, <2>1 DEF NoneLost, Owns
<1> QED
  BY <1>7, <1>8, <1>9, <1>10, <1>11, <1>12, <1>13, <1>14, <1>15 DEF Good

\* A new connection gets a descriptor that no Work has, and a Work that nobody has.
\* accept fails only when all descriptors are open; epoll_ctl does not fail.
LEMMA AcceptGood ==
  ASSUME TypeInv, Good, UNCHANGED workervars,
         NEW e \in batch, NEW c \in Conns, NEW f \in Fds, OnAccept(e, c, f)
  PROVE  \/ crashed' /\ \A g \in Fds : Open(g)
         \/ UNCHANGED crashed /\ Good'
<1>0. /\ SocketsTypeOK /\ FindWorkTypeOK /\ store \in Seq(Works) /\ NoWork \notin Works
      /\ \A v \in live : v \in Works /\ work[v].fd \in Fds
  BY WorkAssumption DEF TypeInv, TypeOK, FindWorkTypeOK, Work
<1>1. CASE \A g \in Fds : Open(g)
  <2>1. crashed' = TRUE
    BY <1>1 DEF OnAccept, Crash
  <2> QED
    BY <1>1, <2>1, Zenon
<1>2. CASE ~ \A g \in Fds : Open(g)
  <2>1. ~ Open(f) /\ interest[f] = "none" /\ CanSchedule(f)
    BY <1>2 DEF OnAccept, LowestFree, Good, OpenFds, CanSchedule
  <2>2. /\ peer[c] = "backlog" /\ ~ IsConn(e) /\ Handling(e) /\ LoopTail(e)
        /\ peer' = [peer EXCEPT ![c] = "accepted"]
        /\ fdconn' = [fdconn EXCEPT ![f] = c]
        /\ UNCHANGED <<crashed, dowork, jobq, pc, cur>>
    BY <1>2, <2>1 DEF OnAccept, Backlog, IsConn, workervars
  <2>3. PICK w \in Pointers :
           /\ FindOrCreate(f, c, w)
           /\ Arm(f, IF wmap[f] = NoWork THEN "read" ELSE work[w].m)
    BY <1>2, <2>1 DEF OnAccept
  <2>4. wmap[f] = NoWork
    BY <2>1 DEF Good, Mapped
  <2>5. /\ Allocate(w) /\ live' = live \cup {w} /\ work' = [work EXCEPT ![w] = NewWork(f, c)]
        /\ wmap' = [wmap EXCEPT ![f] = w] /\ interest' = [interest EXCEPT ![f] = "in"]
    BY <2>3, <2>4 DEF FindOrCreate, Arm, Watch
  <2>6. w \in Works /\ w \notin live /\ Stored'
    <3>1. CASE store # << >>
      <4>1. w = Head(store) /\ store' = Tail(store)
        BY <2>5, <3>1 DEF Allocate
      <4>2. /\ DOMAIN store = 1 .. Len(store) /\ Len(store) \in Nat \ {0} /\ w = store[1]
            /\ DOMAIN store' = 1 .. Len(store) - 1
            /\ \A i \in 1 .. Len(store) - 1 : store'[i] = store[i + 1]
        BY <1>0, <3>1, <4>1
      <4>3. w \in Works /\ w \notin live
        BY <1>0, <4>2 DEF Good, Stored
      <4>4. \A i \in 1 .. Len(store) - 1 :
               i + 1 \in 1 .. Len(store) /\ store[i + 1] \notin live /\ store[i + 1] # w
        BY <4>2 DEF Good, Stored
      <4>5. \A i \in DOMAIN store' : store'[i] \notin live'
        BY <2>5, <4>2, <4>4
      <4>6. \A i, j \in DOMAIN store' : store'[i] = store'[j] => i = j
        BY <4>2, <4>4 DEF Good, Stored
      <4> QED
        BY <4>3, <4>5, <4>6 DEF Stored
    <3>2. CASE store = << >>
      BY <2>5, <3>2 DEF Allocate, Stored
    <3> QED
      BY <3>1, <3>2
  <2>7. /\ (schedpc = "retired" <=> ~ dowork)' /\ (schedpc # "events" => batch = {})'
        /\ batch' \subseteq batch /\ dowork
        /\ \A g : (\E d \in batch' : IsConn(d) /\ d.fd = g) <=> Reported(g)
    BY <2>2, LoopTailFacts
  <2>8. /\ \A g \in Fds : fdconn'[g] = IF g = f THEN c ELSE fdconn[g]
        /\ \A g \in Fds : interest'[g] = IF g = f THEN "in" ELSE interest[g]
        /\ \A g \in Fds : wmap'[g] = IF g = f THEN w ELSE wmap[g]
        /\ \A v \in Works : work'[v] = IF v = w THEN NewWork(f, c) ELSE work[v]
    BY <1>0, <2>2, <2>5 DEF SocketsTypeOK, FindWorkTypeOK
  <2>9. \A v \in live : v \in Works /\ v # w /\ work'[v] = work[v]
                          /\ work[v].fd \in Fds /\ work[v].fd # f
    BY <1>0, <2>1, <2>6, <2>8 DEF Good, Mapped
  <2>10. /\ work'[w].fd = f /\ work'[w].conn = c /\ ~ work'[w].deleteme
         /\ w \in live' /\ \A v \in live' : v = w \/ v \in live
    BY <2>5, <2>6, <2>8 DEF NewWork
  <2>11. \A g \in Fds : Open(g)' <=> Open(g) \/ g = f
    BY <2>8, ConnAssumption DEF Open
  <2>12. Flags'
    BY <2>2, <2>7 DEF Good, Flags
  <2>13. OpenFds'
    <3>1. \A g \in Fds : Open(g) => fdconn[g] \in Conns /\ fdconn[g] # c
      BY <1>0, <2>2 DEF Good, OpenFds, Open, SocketsTypeOK
    <3>2. \A d \in Conns : peer'[d] = IF d = c THEN "accepted" ELSE peer[d]
      BY <1>0, <2>2 DEF SocketsTypeOK
    <3>3. \A g \in Fds : Open(g)' <=> interest'[g] # "none"
      BY <2>8, <2>11 DEF Good, OpenFds
    <3>4. \A g \in Fds : Open(g)' => peer'[fdconn'[g]] = "accepted"
      BY <2>8, <2>11, <3>1, <3>2 DEF Good, OpenFds
    <3>5. ASSUME NEW g \in Fds, NEW h \in Fds, Open(g)', fdconn'[g] = fdconn'[h] PROVE g = h
      <4>1. Open(h)'
        BY <3>5 DEF Open
      <4> QED
        BY <2>8, <2>11, <3>1, <3>5, <4>1 DEF Good, OpenFds
    <3> QED
      BY <3>3, <3>4, <3>5 DEF OpenFds
  <2>14. ASSUME NEW k \in Workers
         PROVE  /\ Owns(k)' <=> Owns(k)
                /\ Owns(k) => cur[k] \in live /\ Fd(k)' = Fd(k) /\ Fd(k) \in Fds /\ Fd(k) # f
    <3>1. Owns(k) => cur[k] \in live
      BY DEF Good, InHand
    <3>2. pc[k] = "after" => cur[k] \in Works
      BY DEF TypeInv, Busy
    <3>3. Owns(k)' <=> Owns(k)
      BY <2>2, <2>8, <2>10, <3>1, <3>2, <2>6 DEF Owns
    <3> QED
      BY <2>2, <2>9, <3>1, <3>3 DEF Fd
  <2>15. Mapped'
    <3>1. \A g \in Fds : wmap'[g] # NoWork => wmap'[g] \in live' /\ work'[wmap'[g]].fd = g
      BY <2>5, <2>8, <2>9, <2>10 DEF Good, Mapped
    <3>2. ASSUME NEW v \in live'
          PROVE  /\ Open(work[v].fd)' /\ fdconn'[work'[v].fd] = work'[v].conn
                 /\ wmap'[work'[v].fd] = v \/ \E k \in Workers : Closing(k, v)
      <4>1. CASE v = w
        BY <2>8, <2>10, <2>11, <4>1, ConnAssumption DEF Open
      <4>2. CASE v \in live
        <5>1. work'[v] = work[v] /\ work[v].fd \in Fds /\ work[v].fd # f
          BY <2>9, <4>2
        <5>2. fdconn'[work[v].fd] = fdconn[work[v].fd] /\ wmap'[work[v].fd] = wmap[work[v].fd]
          BY <2>8, <5>1
        <5> QED
          BY <4>2, <5>1, <5>2 DEF Good, Mapped, Open
      <4> QED
        BY <2>10, <4>1, <4>2
    <3>3. \A u, v \in live' : work'[u].fd = work'[v].fd => u = v
      BY <2>9, <2>10 DEF Good, Mapped
    <3>4. \A g \in Fds : Open(g)' => \E v \in live' : work'[v].fd = g
      BY <2>5, <2>9, <2>10, <2>11 DEF Good, Mapped
    <3>5. \A k \in Workers : pc'[k] = "close" => wmap'[Fd(k)'] = NoWork
      BY <2>2, <2>8, <2>14 DEF Good, Mapped, Owns
    <3> QED
      BY <2>2, <3>1, <3>2, <3>3, <3>4, <3>5 DEF Mapped, Closing
  <2>16. InBatch'
    <3>1. ASSUME NEW d \in batch', IsConn(d) PROVE interest'[d.fd] = "off"
      <4>1. d.fd \in Fds /\ interest[d.fd] = "off"
        BY <2>7, <3>1, ReportedWork
      <4> QED
        BY <2>1, <2>8, <4>1
    <3> QED
      BY <2>7, <3>1 DEF Good, InBatch
  <2>17. ~ Queued(w) /\ \A v \in Works : Queued(v)' <=> Queued(v)
    BY <2>2, <2>6 DEF Good, InQueue, Queued
  <2>18. InQueue'
    <3>1. ASSUME NEW v \in Works, Queued(v)'
          PROVE  (v \in live /\ interest[work[v].fd] = "off" /\ ~ Reported(work[v].fd))'
      <4>1. v \in live /\ interest[work[v].fd] = "off" /\ ~ Reported(work[v].fd)
        BY <2>17, <3>1 DEF Good, InQueue
      <4>2. work'[v] = work[v] /\ interest'[work[v].fd] = "off"
        BY <2>8, <2>9, <4>1
      <4> QED
        BY <2>5, <2>7, <4>1, <4>2 DEF Reported
    <3> QED
      BY <2>2, <3>1 DEF Good, InQueue
  <2>19. InHand'
    <3>1. ASSUME NEW k \in Workers, Owns(k)'
          PROVE  (cur[k] \in live /\ interest[Fd(k)] = "off" /\ ~ Reported(Fd(k)) /\ ~ Queued(cur[k]))'
      <4>1. /\ cur[k] \in live /\ interest[Fd(k)] = "off" /\ ~ Reported(Fd(k)) /\ ~ Queued(cur[k])
            /\ Fd(k)' = Fd(k) /\ Fd(k) \in Fds /\ Fd(k) # f
        BY <2>14, <3>1 DEF Good, InHand
      <4>2. ~ Queued(cur[k])'
        BY <2>2, <4>1 DEF Queued
      <4>3. interest'[Fd(k)] = "off"
        BY <2>8, <4>1
      <4>4. ~ Reported(Fd(k))'
        BY <2>7, <4>1 DEF Reported
      <4> QED
        BY <2>2, <2>5, <4>1, <4>2, <4>3, <4>4
    <3> QED
      BY <2>2, <2>14, <3>1 DEF Good, InHand
  <2>20. Marked'
    <3>1. \A v \in live' : work'[v].deleteme => v \in live /\ work[v].deleteme
      BY <2>9, <2>10
    <3>2. Leavers = {} => \A v \in Works : ~ work'[v].deleteme
      BY <2>8, <2>10 DEF Good, Marked
    <3> QED
      BY <2>2, <2>5, <3>1, <3>2 DEF Good, Marked
  <2>21. NoneLost'
    <3>1. ASSUME NEW v \in live'
          PROVE  \/ interest'[work'[v].fd] \in {"in", "out"}
                 \/ \E d \in batch' : IsConn(d) /\ d.fd = work'[v].fd
                 \/ Queued(v)' \/ \E k \in Workers : Owns(k)' /\ cur[k] = v
      <4>1. CASE v = w
        BY <2>8, <2>10, <4>1
      <4>2. CASE v \in live
        <5>1. work'[v] = work[v] /\ interest'[work[v].fd] = interest[work[v].fd] /\ v \in Works
          BY <2>8, <2>9, <4>2
        <5>2. \/ interest[work[v].fd] \in {"in", "out"} \/ Reported(work[v].fd)
              \/ Queued(v) \/ \E k \in Workers : Owns(k) /\ cur[k] = v
          BY <2>7, <4>2 DEF Good, NoneLost
        <5> QED
          BY <2>7, <2>14, <2>17, <5>1, <5>2
      <4> QED
        BY <2>10, <4>1, <4>2
    <3> QED
      BY <2>2, <3>1 DEF NoneLost, Reported
  <2> QED
    BY <2>2, <2>6, <2>12, <2>13, <2>15, <2>16, <2>18, <2>19, <2>20, <2>21 DEF Good
<1> QED
  BY <1>1, <1>2

\* The job queue after deq.
LEMMA Dequeued ==
  ASSUME jobq \in Seq(Pointers), jobq # << >>, jobq' = Tail(jobq),
         \A i, j \in DOMAIN jobq : jobq[i] = jobq[j] /\ jobq[i] # NoWork => i = j
  PROVE  /\ Queued(Head(jobq))
         /\ \A v : Queued(v) => v = Head(jobq) \/ \E i \in DOMAIN jobq' : jobq'[i] = v
         /\ \A i \in DOMAIN jobq' : Queued(jobq'[i])
         /\ Head(jobq) # NoWork => \A i \in DOMAIN jobq' : jobq'[i] # Head(jobq)
         /\ \A i, j \in DOMAIN jobq' : jobq'[i] = jobq'[j] /\ jobq'[i] # NoWork => i = j
<1>1. /\ DOMAIN jobq = 1 .. Len(jobq) /\ Len(jobq) \in Nat \ {0} /\ Head(jobq) = jobq[1]
      /\ DOMAIN jobq' = 1 .. Len(jobq) - 1
      /\ \A i \in 1 .. Len(jobq) - 1 : jobq'[i] = jobq[i + 1]
  OBVIOUS
<1>2. 1 \in DOMAIN jobq /\ \A i \in DOMAIN jobq' : i \in Nat /\ i + 1 \in DOMAIN jobq /\ i + 1 # 1
  BY <1>1
<1>3. \A i \in DOMAIN jobq : i = 1 \/ \E j \in DOMAIN jobq' : jobq'[j] = jobq[i]
  <2>1. ASSUME NEW i \in DOMAIN jobq, i # 1 PROVE i - 1 \in DOMAIN jobq' /\ jobq'[i - 1] = jobq[i]
    BY <1>1, <2>1
  <2> QED
    BY <2>1
<1>4. Queued(Head(jobq)) /\ \A i \in DOMAIN jobq' : Queued(jobq'[i])
  BY <1>1, <1>2 DEF Queued
<1>5. \A v : Queued(v) => v = Head(jobq) \/ \E i \in DOMAIN jobq' : jobq'[i] = v
  BY <1>1, <1>3 DEF Queued
<1>6. Head(jobq) # NoWork => \A i \in DOMAIN jobq' : jobq'[i] # Head(jobq)
  BY <1>1, <1>2
<1>7. \A i, j \in DOMAIN jobq' : jobq'[i] = jobq'[j] /\ jobq'[i] # NoWork => i = j
  BY <1>1, <1>2
<1> QED
  BY <1>4, <1>5, <1>6, <1>7

\* A Work moves from the job queue to a worker.
LEMMA DequeueGood ==
  ASSUME TypeInv, Good, NEW k \in Workers, Dequeue(k)
  PROVE  Good'
<1>0. /\ jobq \in Seq(Pointers) /\ NoWork \notin Works /\ WorkerTypeOK
      /\ \A v \in live : v \in Works
  BY WorkAssumption DEF TypeInv, TypeOK, SchedulerTypeOK, FindWorkTypeOK
<1> DEFINE w == Head(jobq)
<1>1. /\ UNCHANGED <<peer, fdconn, interest, wmap, work, live, store, schedpc, batch, dowork>>
      /\ pc[k] = "deq" /\ jobq # << >> /\ w # NoWork /\ jobq' = Tail(jobq)
      /\ pc' = [pc EXCEPT ![k] = "run"] /\ cur' = [cur EXCEPT ![k] = w]
  BY DEF Dequeue, sockvars, netvars, findvars
<1>2. w \in Works
  BY <1>0, <1>1 DEF Pointers
<1>3. /\ Queued(w)
      /\ \A v : Queued(v) => v = w \/ \E i \in DOMAIN jobq' : jobq'[i] = v
      /\ \A i \in DOMAIN jobq' : Queued(jobq'[i])
      /\ \A i \in DOMAIN jobq' : jobq'[i] # w
      /\ \A i, j \in DOMAIN jobq' : jobq'[i] = jobq'[j] /\ jobq'[i] # NoWork => i = j
  BY <1>0, <1>1, Dequeued DEF Good, InQueue
<1> HIDE DEF w
<1>4. /\ \A j \in Workers : pc'[j] = IF j = k THEN "run" ELSE pc[j]
      /\ \A j \in Workers : cur'[j] = IF j = k THEN w ELSE cur[j]
  BY <1>0, <1>1 DEF WorkerTypeOK
<1>5. w \in live /\ interest[work[w].fd] = "off" /\ ~ Reported(work[w].fd)
  BY <1>2, <1>3 DEF Good, InQueue
<1>6. \A v : (\E i \in DOMAIN jobq' : jobq'[i] = v) <=> Queued(v) /\ v # w
  BY <1>3
<1>7. \A j \in Workers : Owns(j)' <=> j = k \/ Owns(j)
  BY <1>1, <1>4 DEF Owns
<1>8. ~ Owns(k)
  BY <1>1 DEF Owns
<1>9. Flags'
  <2>1. ASSUME NEW i \in DOMAIN jobq', jobq'[i] = NoWork PROVE ~ dowork
    BY <1>3, <2>1 DEF Good, Flags, Queued
  <2> QED
    BY <1>1, <1>4, <2>1 DEF Good, Flags
<1>10. OpenFds' /\ Stored' /\ InBatch'
  BY <1>1 DEF Good, OpenFds, Stored, InBatch, Open
<1>11. Mapped'
  <2>1. \A j \in Workers : pc'[j] = "close" => pc[j] = "close" /\ Fd(j)' = Fd(j)
    BY <1>1, <1>4 DEF Fd
  <2>2. \A j \in Workers, v \in live : Closing(j, v) => Closing(j, v)'
    BY <1>1, <1>4 DEF Closing
  <2> QED
    BY <1>1, <2>1, <2>2 DEF Good, Mapped, Open
<1>12. InQueue'
  BY <1>1, <1>3, <1>6 DEF Good, InQueue, Queued, Reported
<1>13. InHand'
  <2>1. ASSUME NEW j \in Workers, Owns(j)'
        PROVE  (cur[j] \in live /\ interest[Fd(j)] = "off" /\ ~ Reported(Fd(j)) /\ ~ Queued(cur[j]))'
    <3>1. CASE j = k
      BY <1>1, <1>4, <1>5, <1>6, <3>1 DEF Fd, Reported, Queued
    <3>2. CASE j # k
      <4>1. /\ cur[j] \in live /\ interest[Fd(j)] = "off" /\ ~ Reported(Fd(j)) /\ ~ Queued(cur[j])
            /\ cur'[j] = cur[j]
        BY <1>4, <1>7, <2>1, <3>2 DEF Good, InHand
      <4> QED
        BY <1>1, <1>6, <4>1, SMTT(30) DEF Fd, Reported, Queued
    <3> QED
      BY <3>1, <3>2
  <2>2. \A j \in Workers : Owns(j) => cur[j] # w
    BY <1>3 DEF Good, InHand
  <2>3. \A i, j \in Workers : Owns(i)' /\ Owns(j)' /\ cur'[i] = cur'[j] => i = j
    BY <1>4, <1>7, <2>2 DEF Good, InHand
  <2> QED
    BY <2>1, <2>3 DEF InHand
<1>14. Marked'
  BY <1>1, <1>4, <1>5 DEF Good, Marked
<1>15. NoneLost'
  <2>1. ASSUME NEW v \in live, dowork
        PROVE  \/ interest[work[v].fd] \in {"in", "out"} \/ Reported(work[v].fd)
               \/ (\E i \in DOMAIN jobq' : jobq'[i] = v)
               \/ \E j \in Workers : Owns(j)' /\ cur'[j] = v
    <3>1. CASE v = w
      BY <1>4, <1>7, <3>1
    <3>2. CASE v # w
      BY <1>4, <1>6, <1>7, <1>8, <2>1, <3>2 DEF Good, NoneLost
    <3> QED
      BY <3>1, <3>2
  <2> QED
    BY <1>1, <2>1 DEF NoneLost, Queued, Reported
<1> QED
  BY <1>9, <1>10, <1>11, <1>12, <1>13, <1>14, <1>15 DEF Good

\* A worker that finds the poison pill puts it back: every Work keeps its place.
LEMMA RetireGood ==
  ASSUME TypeInv, Good, NEW k \in Workers, Retire(k)
  PROVE  Good'
<1>0. jobq \in Seq(Pointers) /\ NoWork \notin Works /\ NoWork \in Pointers /\ WorkerTypeOK
  BY WorkAssumption DEF TypeInv, TypeOK, SchedulerTypeOK, Pointers
<1>1. /\ UNCHANGED <<peer, fdconn, interest, wmap, work, live, store, schedpc, batch, dowork, cur>>
      /\ pc[k] = "deq" /\ jobq # << >> /\ Head(jobq) = NoWork
      /\ jobq' = Append(Tail(jobq), NoWork) /\ pc' = [pc EXCEPT ![k] = "retired"]
  BY DEF Retire, AfterPill, Goto, sockvars, netvars, findvars
<1>2. \A j \in Workers : pc'[j] = IF j = k THEN "retired" ELSE pc[j]
  BY <1>0, <1>1 DEF WorkerTypeOK
<1>3. /\ DOMAIN jobq = 1 .. Len(jobq) /\ Len(jobq) \in Nat \ {0} /\ jobq[1] = NoWork
      /\ DOMAIN jobq' = 1 .. Len(jobq)
      /\ \A i \in 1 .. Len(jobq) - 1 : jobq'[i] = jobq[i + 1]
      /\ jobq'[Len(jobq)] = NoWork
  <2>1. /\ DOMAIN jobq = 1 .. Len(jobq) /\ Len(jobq) \in Nat \ {0} /\ jobq[1] = NoWork
        /\ Tail(jobq) \in Seq(Pointers) /\ Len(Tail(jobq)) = Len(jobq) - 1
        /\ \A i \in 1 .. Len(jobq) - 1 : Tail(jobq)[i] = jobq[i + 1]
    BY <1>0, <1>1
  <2> DEFINE t == Tail(jobq)
  <2>2. t \in Seq(Pointers) /\ Len(t) = Len(jobq) - 1 /\ jobq' = Append(t, NoWork)
    BY <1>1, <2>1
  <2>3. /\ DOMAIN jobq' = 1 .. Len(t) + 1 /\ jobq'[Len(t) + 1] = NoWork
        /\ \A i \in 1 .. Len(t) : jobq'[i] = t[i]
    <3> HIDE DEF t
    <3> QED
      BY <1>0, <2>2
  <2> QED
    BY <2>1, <2>2, <2>3
<1>4. ~ dowork
  BY <1>3 DEF Good, Flags
<1>5. \A v \in Works : (\E i \in DOMAIN jobq' : jobq'[i] = v) => Queued(v)
  <2>1. \A i \in DOMAIN jobq' : jobq'[i] # NoWork => i \in 1 .. Len(jobq) - 1 /\ i + 1 \in 1 .. Len(jobq)
    BY <1>3
  <2> QED
    BY <1>0, <1>3, <2>1 DEF Queued
<1>6. \A i, j \in DOMAIN jobq' : jobq'[i] = jobq'[j] /\ jobq'[i] # NoWork => i = j
  <2>1. ASSUME NEW i \in DOMAIN jobq', NEW j \in DOMAIN jobq', jobq'[i] = jobq'[j], jobq'[i] # NoWork
        PROVE  i = j
    <3>1. i \in 1 .. Len(jobq) - 1 /\ j \in 1 .. Len(jobq) - 1
      BY <1>3, <2>1
    <3>2. i + 1 \in DOMAIN jobq /\ j + 1 \in DOMAIN jobq
      BY <1>3, <3>1
    <3>3. i + 1 = j + 1
      BY <1>3, <2>1, <3>1, <3>2 DEF Good, InQueue
    <3> QED
      BY <3>1, <3>3
  <2> QED
    BY <2>1
<1>7. Flags' /\ NoneLost'
  BY <1>1, <1>2, <1>4 DEF Good, Flags, NoneLost
<1>8. OpenFds' /\ Stored' /\ InBatch'
  BY <1>1 DEF Good, OpenFds, Stored, InBatch, Open
<1>9. Mapped'
  BY <1>1, <1>2 DEF Good, Mapped, Closing, Fd, Open
<1>10. InQueue'
  BY <1>1, <1>5, <1>6 DEF Good, InQueue, Queued, Reported
<1>11. InHand'
  <2>1. ASSUME NEW j \in Workers, Owns(j)' PROVE Owns(j) /\ cur[j] \in Works
    BY <1>1, <1>2, <2>1 DEF Owns, TypeInv, Busy
  <2> QED
    BY <1>1, <1>5, <2>1 DEF Good, InHand, Reported, Fd, Queued
<1>12. Marked'
  BY <1>1, <1>2 DEF Good, Marked
<1> QED
  BY <1>7, <1>8, <1>9, <1>10, <1>11, <1>12 DEF Good

\* A Work that a worker executes has not been marked for deletion.
LEMMA NotMarked ==
  ASSUME Good, NEW k \in Workers, pc[k] \in {"run", "resched"}
  PROVE  cur[k] \in live /\ ~ work[cur[k]].deleteme
<1>1. cur[k] \in live /\ Owns(k)
  BY DEF Good, InHand, Owns
<1>2. ASSUME work[cur[k]].deleteme PROVE FALSE
  <2>1. PICK j \in Workers : cur[j] = cur[k] /\ pc[j] \in {"after", "unregister", "close"}
    BY <1>1, <1>2 DEF Good, Marked
  <2>2. Owns(j)
    BY <1>2, <2>1 DEF Owns
  <2>3. j = k
    BY <1>1, <2>1, <2>2 DEF Good, InHand
  <2> QED
    BY <2>1, <2>3
<1> QED
  BY <1>1, <1>2

\* operator() changes the fields of the Work it belongs to.  It stays with its worker,
\* provided that it is marked for deletion exactly when operator() ends with that.
LEMMA UpdateGood ==
  ASSUME TypeInv, Good, Quiet, NEW k \in Workers, pc[k] = "run",
         NEW w \in Work, NEW label \in {"run", "resched", "after"}, Update(k, w, label),
         w.fd = work[cur[k]].fd, w.conn = work[cur[k]].conn,
         w.deleteme <=> label = "after",
         w.deleteme => Leavers # {}
  PROVE  Good'
<1> DEFINE x == cur[k]
<1>0. WorkerTypeOK /\ FindWorkTypeOK /\ x \in live /\ x \in Works /\ ~ work[x].deleteme /\ Owns(k)
  BY NotMarked DEF TypeInv, TypeOK, Busy, Owns
<1>1. /\ UNCHANGED <<peer, fdconn, interest, wmap, live, store, schedpc, batch, dowork, jobq, cur>>
      /\ work' = [work EXCEPT ![x] = w] /\ pc' = [pc EXCEPT ![k] = label]
  BY DEF Update, Goto, schedvars
<1>2. \A v \in Works : work'[v] = IF v = x THEN w ELSE work[v]
  BY <1>0, <1>1 DEF FindWorkTypeOK
<1>3. \A j \in Workers : pc'[j] = IF j = k THEN label ELSE pc[j]
  BY <1>0, <1>1 DEF WorkerTypeOK
<1>4. \A v \in Works : work'[v].fd = work[v].fd /\ work'[v].conn = work[v].conn
  BY <1>2
<1>5. \A v \in live : v \in Works
  BY <1>0 DEF FindWorkTypeOK
<1>6. \A j \in Workers : Owns(j)' <=> Owns(j)
  <2> SUFFICES ASSUME NEW j \in Workers PROVE Owns(j)' <=> Owns(j)
    OBVIOUS
  <2>1. CASE j = k
    BY <1>0, <1>1, <1>2, <1>3, <2>1 DEF Owns
  <2>2. CASE j # k
    <3>1. Leavers = {} /\ ~ w.deleteme /\ \A v \in Works : ~ work[v].deleteme
      BY <2>2 DEF Quiet, Good, Marked
    <3>2. pc[j] = "after" => cur[j] \in Works
      BY DEF TypeInv, Busy
    <3>3. pc[j] = "after" => ~ work'[cur[j]].deleteme
      BY <1>2, <3>1, <3>2
    <3> QED
      BY <1>1, <1>3, <2>2, <3>1, <3>2, <3>3 DEF Owns
  <2> QED
    BY <2>1, <2>2
<1>7. \A j \in Workers : cur[j] \in Works => Fd(j)' = Fd(j)
  BY <1>1, <1>4 DEF Fd
<1>8. Flags'
  BY <1>1, <1>3 DEF Good, Flags
<1>9. OpenFds' /\ Stored' /\ InBatch'
  BY <1>1 DEF Good, OpenFds, Stored, InBatch, Open
<1>10. Mapped'
  <2>1. \A v : \A j \in Workers : Closing(j, v) => Closing(j, v)'
    BY <1>1, <1>3 DEF Closing
  <2>2. \A j \in Workers : pc'[j] = "close" => pc[j] = "close" /\ Fd(j)' = Fd(j)
    BY <1>3, <1>7 DEF TypeInv, Busy
  <2> QED
    BY <1>1, <1>4, <1>5, <2>1, <2>2 DEF Good, Mapped, Open
<1>11. InQueue'
  BY <1>1, <1>4 DEF Good, InQueue, Queued, Reported
<1>12. InHand'
  <2>1. ASSUME NEW j \in Workers, Owns(j)'
        PROVE  (cur[j] \in live /\ interest[Fd(j)] = "off" /\ ~ Reported(Fd(j)) /\ ~ Queued(cur[j]))'
    <3>1. /\ cur[j] \in live /\ interest[Fd(j)] = "off" /\ ~ Reported(Fd(j)) /\ ~ Queued(cur[j])
          /\ Fd(j)' = Fd(j)
      BY <1>5, <1>6, <1>7, <2>1 DEF Good, InHand
    <3> QED
      BY <1>1, <3>1 DEF Reported, Queued
  <2> QED
    BY <1>1, <1>6, <2>1 DEF Good, InHand
<1>13. Marked'
  <2>1. ASSUME NEW v \in live, work'[v].deleteme
        PROVE  \E j \in Workers : cur[j] = v /\ pc'[j] \in {"after", "unregister", "close"}
    <3>1. CASE v = x
      BY <1>0, <1>2, <1>3, <2>1, <3>1
    <3>2. CASE v # x
      BY <1>2, <1>3, <1>5, <2>1, <3>2 DEF Good, Marked
    <3> QED
      BY <3>1, <3>2
  <2>2. ASSUME Leavers = {}
        PROVE  /\ \A v \in Works : ~ work'[v].deleteme
               /\ \A j \in Workers : pc'[j] \notin {"unregister", "close"}
               /\ \A j \in Workers : pc'[j] \notin {"deq", "retired"} => cur[j] \in live
    BY <1>0, <1>2, <1>3, <2>2 DEF Good, Marked
  <2> QED
    BY <1>1, <2>1, <2>2 DEF Marked
<1>14. NoneLost'
  BY <1>1, <1>4, <1>5, <1>6 DEF Good, NoneLost, Queued, Reported
<1> QED
  BY <1>8, <1>9, <1>10, <1>11, <1>12, <1>13, <1>14 DEF Good

\* Every way through operator() keeps the Work with its worker.
LEMMA OperatorGood ==
  ASSUME TypeInv, HupInv, Good, Quiet, NEW k \in Workers,
         \/ DoRead(k) \/ DoWriteHeaders(k) \/ DoWriteBlocked(k) \/ DoWriteBody(k)
         \/ DoSocketErr(k)
  PROVE  Good'
<1> DEFINE w == work[cur[k]]
<1>0. /\ pc[k] = "run" /\ cur[k] \in live /\ ~ w.deleteme
      /\ w \in Work /\ SocketsTypeOK
  BY NotMarked DEF DoRead, DoWriteHeaders, DoWriteBlocked, DoWriteBody, DoSocketErr,
                   Writing, Running, TypeInv, TypeOK, FindWorkTypeOK
<1>1. w.fd \in Fds /\ Open(w.fd) /\ w.fd = Fd(k)
  BY <1>0 DEF Good, Mapped, Fd, Work
<1>2. CASE DoRead(k)
  <2> DEFINE reqs == w.inbuf \o unread[fdconn[w.fd]]
             v    == IF reqs = << >> THEN w ELSE TakeRequest(w, reqs)
  <2>1. reqs \in Seq(Kinds)
    BY <1>0, <1>1 DEF Work, Open, SocketsTypeOK
  <2>2. reqs # << >> => Tail(reqs) \in Seq(Kinds) /\ Head(reqs) # "close"
    <3>1. reqs # << >> => Tail(reqs) \in Seq(Kinds) /\ Head(reqs) \in Kinds
      <4> HIDE DEF reqs
      <4> QED
        BY <2>1
    <3>2. Kinds \subseteq {"keep"}
      BY SMTT(30) DEF Quiet
    <3> HIDE DEF reqs
    <3> QED
      BY <3>1, <3>2
  <2>3. Update(k, v, "resched")
    BY <1>2 DEF DoRead
  <2>4. v \in Work /\ v.fd = w.fd /\ v.conn = w.conn /\ ~ v.deleteme
    <3> HIDE DEF w, reqs
    <3> QED
      BY <1>0, <2>2 DEF TakeRequest, Work
  <2> HIDE DEF v
  <2> QED
    BY <1>0, <2>3, <2>4, UpdateGood
<1>3. CASE DoWriteBlocked(k)
  BY <1>0, <1>3, UpdateGood DEF DoWriteBlocked
<1>4. CASE DoWriteHeaders(k)
  <2> DEFINE v == [w EXCEPT !.hdrs_done = TRUE]
  <2>1. v \in Work /\ v.fd = w.fd /\ v.conn = w.conn /\ ~ v.deleteme
    BY <1>0 DEF Work
  <2>2. Update(k, v, "resched")
    BY <1>4 DEF DoWriteHeaders
  <2> HIDE DEF v
  <2> QED
    BY <1>0, <2>1, <2>2, UpdateGood
<1>5. CASE DoWriteBody(k)
  <2> DEFINE next == [w EXCEPT !.m = "read", !.hdrs_done = FALSE]
             last == [next EXCEPT !.inbuf = << >>]
  <2>1. /\ next \in Work /\ next.fd = w.fd /\ next.conn = w.conn /\ ~ next.deleteme
        /\ last \in Work /\ last.fd = w.fd /\ last.conn = w.conn /\ ~ last.deleteme
    <3>1. << >> \in Seq(Kinds)
      OBVIOUS
    <3> HIDE DEF w
    <3> QED
      BY <1>0, <3>1 DEF Work
  <2>2. Update(k, next, "run") \/ Update(k, last, "resched")
    <3> DEFINE A == Update(k, w, "after")
               B == Update(k, next, "run")
               C == Update(k, last, "resched")
    <3>1. (CASE w.deleteme -> A [] ~ w.deleteme /\ HasPipelined(w) -> B [] OTHER -> C)
      BY <1>5 DEF DoWriteBody
    <3> HIDE DEF A, B, C
    <3>2. B \/ C
      BY <1>0, <3>1
    <3> QED
      BY <3>2 DEF B, C
  <2> HIDE DEF next, last
  <2> QED
    BY <1>0, <2>1, <2>2, UpdateGood
<1>6. CASE DoSocketErr(k)
  <2> DEFINE v == [w EXCEPT !.deleteme = TRUE]
  <2>1. v \in Work /\ v.fd = w.fd /\ v.conn = w.conn /\ v.deleteme
    BY <1>0 DEF Work
  <2>2. Update(k, v, "after")
    BY <1>6 DEF DoSocketErr
  <2>3. Leavers # {}
    BY <1>0, <1>1, <1>6 DEF DoSocketErr, HungUp, Open, HupInv, SocketsTypeOK
  <2> HIDE DEF v
  <2> QED
    BY <1>0, <2>1, <2>2, <2>3, UpdateGood
<1> QED
  BY <1>2, <1>3, <1>4, <1>5, <1>6, SMTT(30)

\* reschedule() arms the descriptor again: the Work passes from the worker to epoll.
\* epoll_ctl does not fail, since the descriptor is open.
LEMMA RescheduleGood ==
  ASSUME TypeInv, Good, NEW k \in Workers, Reschedule(k)
  PROVE  UNCHANGED crashed /\ Good'
<1> DEFINE x == cur[k]
           f == work[x].fd
<1>0. /\ pc[k] = "resched" /\ x \in live /\ ~ work[x].deleteme /\ Owns(k)
      /\ WorkerTypeOK /\ SocketsTypeOK /\ \A v \in live : v \in Works /\ work[v].fd \in Fds
  BY NotMarked DEF Reschedule, TypeInv, TypeOK, Owns, FindWorkTypeOK, Work
<1>1. f \in Fds /\ interest[f] = "off" /\ Open(f) /\ ~ Reported(f) /\ ~ Queued(x)
  BY <1>0 DEF Good, InHand, Mapped, Fd
<1>2. CanReschedule(f)
  BY <1>1 DEF CanReschedule
<1>3. /\ UNCHANGED <<peer, fdconn, wmap, work, live, store, schedpc, batch, dowork, jobq, cur, crashed>>
      /\ interest' = [interest EXCEPT ![f] = Watch(work[x].m)]
      /\ pc' = [pc EXCEPT ![k] = "after"]
  BY <1>2 DEF Reschedule, Arm, Goto, Fd, netvars, findvars, schedvars
<1>4. Watch(work[x].m) \in {"in", "out"}
  BY DEF Watch
<1>5. \A g \in Fds : interest'[g] = IF g = f THEN Watch(work[x].m) ELSE interest[g]
  BY <1>0, <1>3 DEF SocketsTypeOK
<1>6. \A j \in Workers : pc'[j] = IF j = k THEN "after" ELSE pc[j]
  BY <1>0, <1>3 DEF WorkerTypeOK
<1>7. \A j \in Workers : Owns(j)' <=> Owns(j) /\ j # k
  BY <1>0, <1>3, <1>6 DEF Owns
<1>8. \A v \in live : v # x => work[v].fd # f /\ interest'[work[v].fd] = interest[work[v].fd]
  BY <1>0, <1>5 DEF Good, Mapped
<1>9. Flags'
  BY <1>3, <1>6 DEF Good, Flags
<1>10. OpenFds'
  BY <1>1, <1>3, <1>4, <1>5 DEF Good, OpenFds, Open
<1>11. Stored' /\ Mapped'
  <2>1. \A v : \A j \in Workers : Closing(j, v)' <=> Closing(j, v)
    BY <1>0, <1>3, <1>6 DEF Closing
  <2>2. \A j \in Workers : pc'[j] = "close" => pc[j] = "close" /\ Fd(j)' = Fd(j)
    BY <1>3, <1>6 DEF Fd
  <2> QED
    BY <1>3, <2>1, <2>2 DEF Good, Stored, Mapped, Open
<1>12. InBatch'
  <2>1. ASSUME NEW d \in batch, IsConn(d) PROVE interest'[d.fd] = "off"
    <3>1. d.fd \in Fds /\ interest[d.fd] = "off"
      BY <2>1, ReportedWork
    <3>2. d.fd # f
      BY <1>1, <2>1 DEF Reported
    <3> QED
      BY <1>5, <3>1, <3>2
  <2> QED
    BY <1>3, <2>1 DEF Good, InBatch
<1>13. InQueue'
  <2>1. ASSUME NEW v \in Works, Queued(v)
        PROVE  v \in live /\ interest'[work[v].fd] = "off" /\ ~ Reported(work[v].fd)
    BY <1>1, <1>8, <2>1 DEF Good, InQueue
  <2> QED
    BY <1>3, <2>1 DEF Good, InQueue, Queued, Reported
<1>14. InHand'
  <2>1. ASSUME NEW j \in Workers, Owns(j)'
        PROVE  /\ cur[j] \in live /\ interest'[Fd(j)] = "off" /\ ~ Reported(Fd(j))
               /\ ~ Queued(cur[j])
    <3>1. cur[j] \in live /\ interest[Fd(j)] = "off" /\ ~ Reported(Fd(j)) /\ ~ Queued(cur[j])
      BY <1>7, <2>1 DEF Good, InHand
    <3>2. cur[j] # x
      BY <1>0, <1>7, <2>1 DEF Good, InHand
    <3> QED
      BY <1>8, <3>1, <3>2 DEF Fd
  <2> QED
    BY <1>3, <1>7, <2>1 DEF Good, InHand, Fd, Queued, Reported
<1>15. Marked'
  BY <1>0, <1>3, <1>6 DEF Good, Marked
<1>16. NoneLost'
  <2>1. ASSUME NEW v \in live, dowork
        PROVE  \/ interest'[work[v].fd] \in {"in", "out"} \/ Reported(work[v].fd) \/ Queued(v)
               \/ \E j \in Workers : Owns(j)' /\ cur[j] = v
    <3>1. CASE v = x
      BY <1>1, <1>4, <1>5, <3>1
    <3>2. CASE v # x
      BY <1>7, <1>8, <2>1, <3>2 DEF Good, NoneLost
    <3> QED
      BY <3>1, <3>2
  <2> QED
    BY <1>3, <2>1 DEF NoneLost, Queued, Reported
<1> QED
  BY <1>3, <1>9, <1>10, <1>11, <1>12, <1>13, <1>14, <1>15, <1>16 DEF Good

\* The worker deletes the Work it has marked itself, or forgets the one it has
\* rescheduled: the test of deleteme gives the right answer.
LEMMA TestGood ==
  ASSUME TypeInv, Good, NEW k \in Workers, TestDeleteme(k)
  PROVE  Good'
<1>0. /\ pc[k] = "after" /\ WorkerTypeOK /\ cur[k] \in Works
      /\ UNCHANGED <<peer, fdconn, interest, wmap, work, live, store, schedpc, batch, dowork, jobq>>
  BY DEF TestDeleteme, TypeInv, TypeOK, Busy, sockvars, netvars, findvars, schedvars
<1>1. CASE work[cur[k]].deleteme
  <2>1. UNCHANGED cur /\ \A j \in Workers : pc'[j] = IF j = k THEN "unregister" ELSE pc[j]
    BY <1>0, <1>1 DEF TestDeleteme, Goto, WorkerTypeOK
  <2>2. \A j \in Workers : Owns(j)' <=> Owns(j)
    BY <1>0, <1>1, <2>1 DEF Owns
  <2>3. Flags'
    BY <1>0, <2>1 DEF Good, Flags
  <2>4. OpenFds' /\ Stored' /\ InBatch' /\ InQueue'
    BY <1>0 DEF Good, OpenFds, Stored, InBatch, InQueue, Open, Queued, Reported
  <2>5. Mapped'
    BY <1>0, <2>1 DEF Good, Mapped, Closing, Fd, Open
  <2>6. InHand' /\ NoneLost'
    BY <1>0, <2>1, <2>2 DEF Good, InHand, NoneLost, Fd, Queued, Reported
  <2>7. Marked'
    BY <1>0, <1>1, <2>1 DEF Good, Marked
  <2> QED
    BY <2>3, <2>4, <2>5, <2>6, <2>7 DEF Good
<1>2. CASE ~ work[cur[k]].deleteme
  <2>1. /\ \A j \in Workers : pc'[j] = IF j = k THEN "deq" ELSE pc[j]
        /\ \A j \in Workers : cur'[j] = IF j = k THEN NoWork ELSE cur[j]
    BY <1>0, <1>2 DEF TestDeleteme, WorkerTypeOK
  <2>2. \A j \in Workers : (Owns(j)' <=> Owns(j)) /\ (Owns(j) => j # k)
    BY <1>0, <1>2, <2>1 DEF Owns
  <2>3. Flags'
    BY <1>0, <2>1 DEF Good, Flags
  <2>4. OpenFds' /\ Stored' /\ InBatch' /\ InQueue'
    BY <1>0 DEF Good, OpenFds, Stored, InBatch, InQueue, Open, Queued, Reported
  <2>5. Mapped'
    <3>1. \A v : \A j \in Workers : Closing(j, v) => Closing(j, v)'
      BY <1>0, <2>1 DEF Closing
    <3>2. \A j \in Workers : pc'[j] = "close" => pc[j] = "close" /\ Fd(j)' = Fd(j)
      BY <1>0, <2>1 DEF Fd
    <3> QED
      BY <1>0, <3>1, <3>2 DEF Good, Mapped, Open
  <2>6. InHand'
    BY <1>0, <2>1, <2>2 DEF Good, InHand, Fd, Queued, Reported
  <2>7. NoneLost'
    BY <1>0, <2>1, <2>2 DEF Good, NoneLost, Queued, Reported
  <2>8. Marked'
    BY <1>0, <1>2, <2>1 DEF Good, Marked
  <2> QED
    BY <2>3, <2>4, <2>5, <2>6, <2>7, <2>8 DEF Good
<1> QED
  BY <1>1, <1>2

\* The first half of delete: the Work leaves the map.
LEMMA UnregisterGood ==
  ASSUME TypeInv, Good, NEW k \in Workers, DeleteUnregister(k)
  PROVE  Good'
<1> DEFINE x == cur[k]
           f == work[x].fd
<1>0. /\ pc[k] = "unregister" /\ WorkerTypeOK /\ FindWorkTypeOK /\ Owns(k)
      /\ \A v \in live : v \in Works /\ work[v].fd \in Fds
      /\ UNCHANGED <<peer, fdconn, interest, work, live, store, schedpc, batch, dowork, jobq, cur>>
      /\ wmap' = [wmap EXCEPT ![f] = NoWork] /\ pc' = [pc EXCEPT ![k] = "close"]
  BY DEF DeleteUnregister, Unregister, Goto, Fd, TypeInv, TypeOK, sockvars, netvars, schedvars,
         Owns, FindWorkTypeOK, Work
<1>1. x \in live /\ f \in Fds
  BY <1>0 DEF Good, InHand
<1>2. \A j \in Workers : pc'[j] = IF j = k THEN "close" ELSE pc[j]
  BY <1>0 DEF WorkerTypeOK
<1>3. \A g \in Fds : wmap'[g] = IF g = f THEN NoWork ELSE wmap[g]
  BY <1>0 DEF FindWorkTypeOK
<1>4. \A j \in Workers : Owns(j)' <=> Owns(j)
  BY <1>0, <1>2 DEF Owns
<1>5. Flags'
  BY <1>0, <1>2 DEF Good, Flags
<1>6. OpenFds' /\ Stored' /\ InBatch' /\ InQueue'
  BY <1>0 DEF Good, OpenFds, Stored, InBatch, InQueue, Open, Queued, Reported
<1>7. Mapped'
  <2>1. \A g \in Fds : wmap'[g] # NoWork => wmap'[g] \in live /\ work[wmap'[g]].fd = g
    BY <1>3 DEF Good, Mapped
  <2>2. ASSUME NEW v \in live
        PROVE  wmap'[work[v].fd] = v \/ \E j \in Workers : Closing(j, v)'
    <3>1. CASE v = x
      BY <1>0, <1>2, <3>1 DEF Closing
    <3>2. CASE v # x
      <4>1. work[v].fd # f /\ work[v].fd \in Fds
        BY <1>0, <1>1, <3>2 DEF Good, Mapped
      <4>2. wmap[work[v].fd] = v \/ \E j \in Workers : Closing(j, v)
        BY DEF Good, Mapped
      <4> QED
        BY <1>0, <1>2, <1>3, <4>1, <4>2 DEF Closing
    <3> QED
      BY <3>1, <3>2
  <2>3. ASSUME NEW j \in Workers, pc'[j] = "close" PROVE wmap'[Fd(j)] = NoWork
    <3>1. CASE j = k
      BY <1>1, <1>3, <3>1 DEF Fd
    <3>2. CASE j # k
      <4>1. pc[j] = "close" /\ wmap[Fd(j)] = NoWork /\ cur[j] \in live
        BY <1>2, <2>3, <3>2 DEF Good, Mapped, InHand, Owns
      <4> QED
        BY <1>0, <1>3, <4>1 DEF Fd
    <3> QED
      BY <3>1, <3>2
  <2> QED
    BY <1>0, <2>1, <2>2, <2>3 DEF Good, Mapped, Open, Fd
<1>8. InHand' /\ NoneLost'
  BY <1>0, <1>2, <1>4 DEF Good, InHand, NoneLost, Fd, Queued, Reported
<1>9. Marked'
  BY <1>0, <1>2 DEF Good, Marked
<1> QED
  BY <1>5, <1>6, <1>7, <1>8, <1>9 DEF Good

\* The second half of delete: the connection is closed.  Here there is one worker.
LEMMA CloseGood ==
  ASSUME TypeInv, Good, Quiet, NEW k \in Workers, DeleteClose(k)
  PROVE  Good'
<1> DEFINE w == cur[k]
           f == work[w].fd
<1>0. /\ SocketsTypeOK /\ FindWorkTypeOK /\ store \in Seq(Works) /\ WorkerTypeOK
      /\ \A v \in live : v \in Works /\ work[v].fd \in Fds
  BY DEF TypeInv, TypeOK, FindWorkTypeOK, Work
<1>1. pc[k] = "close" /\ Owns(k)
  BY DEF DeleteClose, Owns
<1>2. /\ w \in live /\ w \in Works /\ f \in Fds /\ Open(f)
      /\ ~ Reported(f) /\ ~ Queued(w) /\ wmap[f] = NoWork
  BY <1>0, <1>1 DEF Good, InHand, Mapped, Fd
<1>3. \A j \in Workers : j = k
  BY <1>1 DEF Good, Marked, Quiet
<1>4. /\ peer' = [c \in Conns |-> IF fdconn[f] = c THEN "closed" ELSE peer[c]]
      /\ fdconn' = [g \in Fds |-> IF g = f THEN NoConn ELSE fdconn[g]]
      /\ interest' = [g \in Fds |-> IF g = f THEN "none" ELSE interest[g]]
      /\ live' = live \ {w} /\ store' = Append(store, w)
      /\ UNCHANGED <<wmap, work, schedpc, batch, dowork, jobq>>
      /\ \A j \in Workers : pc'[j] = "deq" /\ cur'[j] = NoWork
  BY <1>0, <1>3 DEF DeleteClose, Destroy, CloseAll, schedvars, WorkerTypeOK
<1> HIDE DEF w, f
<1>5. f = work[w].fd /\ w = cur[k]
  BY DEF f, w
<1>6. \A v \in live' : v \in live /\ v # w /\ work[v].fd # f /\ wmap[work[v].fd] = v
  <2>1. \A v \in live' : v \in live /\ v # w /\ work[v].fd # f
    BY <1>2, <1>4, <1>5 DEF Good, Mapped
  <2> QED
    BY <1>3, <1>5, <2>1 DEF Good, Mapped, Closing
<1>7. Flags'
  BY <1>1, <1>4 DEF Good, Flags
<1>8. OpenFds'
  <2>1. \A g \in Fds : Open(g)' <=> Open(g) /\ g # f
    BY <1>0, <1>4 DEF Open, SocketsTypeOK
  <2>2. ASSUME NEW g \in Fds, Open(g)'
        PROVE  /\ fdconn'[g] = fdconn[g] /\ interest'[g] = interest[g]
               /\ peer'[fdconn[g]] = peer[fdconn[g]]
    <3>1. Open(g) /\ g # f
      BY <2>1, <2>2
    <3>2. fdconn[g] \in Conns /\ fdconn[g] # fdconn[f]
      BY <1>0, <1>2, <3>1 DEF Good, OpenFds, Open, SocketsTypeOK
    <3> QED
      BY <1>4, <3>1, <3>2
  <2>3. \A g \in Fds : ~ Open(g)' => interest'[g] = "none"
    BY <1>4, <2>1 DEF Good, OpenFds
  <2>4. ASSUME NEW g \in Fds, NEW h \in Fds, Open(g)', fdconn'[g] = fdconn'[h] PROVE g = h
    <3>1. Open(h)'
      BY <2>4 DEF Open
    <3> QED
      BY <2>1, <2>2, <2>4, <3>1 DEF Good, OpenFds
  <2> QED
    BY <2>1, <2>2, <2>3, <2>4 DEF Good, OpenFds
<1>9. Mapped'
  <2>1. ASSUME NEW g \in Fds, wmap[g] # NoWork PROVE wmap[g] \in live' /\ work[wmap[g]].fd = g
    BY <1>2, <1>4, <1>5, <2>1 DEF Good, Mapped
  <2>2. ASSUME NEW v \in live' PROVE Open(work[v].fd)' /\ fdconn'[work[v].fd] = work[v].conn
    BY <1>0, <1>4, <1>6 DEF Good, Mapped, Open
  <2>3. ASSUME NEW g \in Fds, Open(g)' PROVE \E v \in live' : work[v].fd = g
    <3>1. Open(g) /\ g # f
      BY <1>4, <2>3 DEF Open
    <3>2. PICK v \in live : work[v].fd = g
      BY <3>1 DEF Good, Mapped
    <3> QED
      BY <1>4, <1>5, <3>1, <3>2
  <2> QED
    BY <1>4, <1>6, <2>1, <2>2, <2>3 DEF Good, Mapped
<1>10. Stored'
  <2>1. /\ DOMAIN store = 1 .. Len(store) /\ Len(store) \in Nat
        /\ DOMAIN store' = 1 .. Len(store) + 1
        /\ \A i \in 1 .. Len(store) : store'[i] = store[i]
        /\ store'[Len(store) + 1] = w
    BY <1>0, <1>2, <1>4
  <2>2. \A i \in 1 .. Len(store) : store[i] # w /\ store[i] \notin live
    BY <1>2, <2>1 DEF Good, Stored
  <2>3. \A i \in DOMAIN store' : store'[i] \notin live'
    BY <1>4, <2>1, <2>2
  <2>4. \A i, j \in DOMAIN store' : store'[i] = store'[j] => i = j
    BY <2>1, <2>2 DEF Good, Stored
  <2> QED
    BY <2>3, <2>4 DEF Stored
<1>11. InBatch'
  <2>1. ASSUME NEW d \in batch, IsConn(d) PROVE interest'[d.fd] = "off"
    <3>1. d.fd \in Fds /\ interest[d.fd] = "off"
      BY <2>1, ReportedWork
    <3>2. d.fd # f
      BY <1>2, <2>1 DEF Reported
    <3> QED
      BY <1>4, <3>1, <3>2
  <2> QED
    BY <1>4, <2>1 DEF Good, InBatch
<1>12. InQueue'
  <2>1. ASSUME NEW v \in Works, Queued(v)
        PROVE  v \in live' /\ interest'[work[v].fd] = "off" /\ ~ Reported(work[v].fd)
    <3>1. v \in live' /\ interest[work[v].fd] = "off" /\ ~ Reported(work[v].fd)
      BY <1>2, <1>4, <2>1 DEF Good, InQueue
    <3> QED
      BY <1>0, <1>4, <1>6, <3>1
  <2> QED
    BY <1>4, <2>1 DEF Good, InQueue, Queued, Reported
<1>13. \A j \in Workers : ~ Owns(j)'
  BY <1>4 DEF Owns
<1>14. InHand'
  BY <1>13 DEF InHand
<1>15. Marked'
  <2>1. ASSUME NEW v \in live', work[v].deleteme PROVE FALSE
    <3>1. PICK j \in Workers : cur[j] = v
      BY <1>6, <2>1 DEF Good, Marked
    <3> QED
      BY <1>3, <1>5, <1>6, <3>1
  <2> QED
    BY <1>1, <1>4, <2>1 DEF Good, Marked
<1>16. NoneLost'
  <2>1. ASSUME NEW v \in live', dowork
        PROVE  interest'[work[v].fd] \in {"in", "out"} \/ Reported(work[v].fd) \/ Queued(v)
    <3>1. v \in live /\ work[v].fd \in Fds /\ work[v].fd # f /\ v # w
      BY <1>0, <1>6
    <3>2. interest'[work[v].fd] = interest[work[v].fd]
      BY <1>4, <3>1
    <3> QED
      BY <1>3, <1>5, <2>1, <3>1, <3>2 DEF Good, NoneLost
  <2> QED
    BY <1>4, <2>1 DEF NoneLost, Queued, Reported
<1> QED
  BY <1>7, <1>8, <1>9, <1>10, <1>11, <1>12, <1>14, <1>15, <1>16 DEF Good

\* When all threads have retired every Work is in the map, so clear() deletes them all
\* and closes every connection; the next iteration starts from nothing.
LEMMA EndGood ==
  ASSUME TypeInv, Good, EndIteration
  PROVE  Good'
<1>0. SocketsTypeOK /\ FindWorkTypeOK /\ WorkerTypeOK /\ ~ dowork
      /\ \A k \in Workers : pc[k] = "retired"
  BY DEF TypeInv, TypeOK, EndIteration, AllRetired, Good, Flags
<1>1. \A w \in live : work[w].fd \in Fds /\ wmap[work[w].fd] = w
  BY <1>0 DEF Good, Mapped, Closing, FindWorkTypeOK, Work
<1>2. live' = {} /\ store' = WorkOrder /\ wmap' = [f \in Fds |-> NoWork]
  BY <1>1 DEF EndIteration, ClearAll
<1>3. \A f \in Fds : Open(f) => wmap[f] # NoWork
  <2> SUFFICES ASSUME NEW f \in Fds, Open(f) PROVE wmap[f] # NoWork
    OBVIOUS
  <2>1. PICK w \in live : work[w].fd = f
    BY DEF Good, Mapped
  <2> QED
    BY <1>0, <1>1, <2>1, WorkAssumption DEF FindWorkTypeOK
<1>4. \A f \in Fds : fdconn'[f] = NoConn /\ interest'[f] = "none"
  <2>1. CloseAll({f \in Fds : wmap[f] # NoWork})
    BY DEF EndIteration, ClearAll
  <2> QED
    BY <1>3, <2>1 DEF CloseAll, Open, Good, OpenFds
<1>5. /\ jobq' = << >> /\ batch' = {} /\ UNCHANGED work
      /\ \A k \in Workers : cur'[k] = NoWork
      /\ \/ schedpc' = "poll" /\ dowork' = TRUE /\ \A k \in Workers : pc'[k] = "deq"
         \/ schedpc' = "retired" /\ dowork' = FALSE /\ \A k \in Workers : pc'[k] = "retired"
  BY <1>0 DEF EndIteration, AllRetired, TypeInv, TypeOK, SchedulerTypeOK
<1>6. Flags'
  BY <1>5 DEF Flags
<1>7. OpenFds'
  BY <1>4 DEF OpenFds, Open
<1>8. Mapped' /\ Stored'
  BY <1>2, <1>4, <1>5, WorkAssumption DEF Mapped, Stored, Open
<1>9. InBatch' /\ InQueue' /\ InHand' /\ NoneLost'
  BY <1>2, <1>5 DEF InBatch, InQueue, InHand, NoneLost, Queued, Owns
<1>10. Marked'
  BY <1>2, <1>5 DEF Good, Marked
<1> QED
  BY <1>6, <1>7, <1>8, <1>9, <1>10 DEF Good

----------------------------------------------------------------------------
(* The theorems *)

\* Every thread's step keeps the invariant; the only exception that can end the process
\* is accept's, for lack of a descriptor.
LEMMA ThreadsGood ==
  ASSUME Quiet, TypeInv, HupInv, Good, Threads
  PROVE  \/ UNCHANGED crashed /\ Good'
         \/ /\ crashed' /\ UNCHANGED <<findvars, workervars>>
            /\ (\A g \in Fds : Open(g)) /\ Backlog # {}
<1>1. CASE SchedulerThread
  <2>0. UNCHANGED workervars
    BY <1>1 DEF SchedulerThread
  <2>1. CASE EpollWait
    BY <2>0, <2>1, EpollWaitGood DEF EpollWait
  <2>2. ASSUME NEW e \in batch, OnHangup(e) PROVE UNCHANGED crashed /\ Good'
    BY <2>0, <2>2, HangupGood DEF OnHangup
  <2>3. ASSUME NEW e \in batch, OnReady(e) PROVE UNCHANGED crashed /\ Good'
    BY <2>0, <2>3, ReadyGood DEF OnReady
  <2>4. ASSUME NEW e \in batch, NEW c \in Conns, OnAborted(e, c) PROVE UNCHANGED crashed /\ Good'
    BY <2>0, <2>4, AbortedGood DEF OnAborted
  <2>5. ASSUME NEW e \in batch, NEW s \in Signals, OnSignal(e, s) PROVE UNCHANGED crashed /\ Good'
    BY <2>0, <2>5, SignalGood DEF OnSignal
  <2>6. ASSUME NEW e \in batch, NEW c \in Backlog, NEW f \in Fds, OnAccept(e, c, f)
        PROVE  \/ UNCHANGED crashed /\ Good'
               \/ /\ crashed' /\ UNCHANGED <<findvars, workervars>>
                  /\ (\A g \in Fds : Open(g)) /\ Backlog # {}
    <3>1. c \in Conns
      BY DEF Backlog
    <3>2. CASE UNCHANGED crashed /\ Good'
      BY <3>2
    <3>3. CASE crashed' /\ \A g \in Fds : Open(g)
      BY <2>0, <2>6, <3>3 DEF OnAccept, Crash
    <3> QED
      BY <2>0, <2>6, <3>1, <3>2, <3>3, AcceptGood
  <2> QED
    BY <1>1, <2>1, <2>2, <2>3, <2>4, <2>5, <2>6
    DEF SchedulerThread, SchedulerStep, Backlog, Pending
<1>2. ASSUME NEW k \in Workers, WorkerThread(k) PROVE UNCHANGED crashed /\ Good'
  <2>1. CASE Dequeue(k)
    BY <2>1, DequeueGood DEF Dequeue
  <2>2. CASE Retire(k)
    BY <2>2, RetireGood DEF Retire
  <2>3. CASE DoRead(k) \/ DoWriteHeaders(k) \/ DoWriteBlocked(k) \/ DoWriteBody(k) \/ DoSocketErr(k)
    <3>1. UNCHANGED crashed
      BY <2>3 DEF DoRead, DoWriteHeaders, DoWriteBlocked, DoWriteBody, DoSocketErr, Update
    <3> QED
      BY <2>3, <3>1, OperatorGood
  <2>4. CASE Reschedule(k)
    BY <2>4, RescheduleGood
  <2>5. CASE TestDeleteme(k)
    BY <2>5, TestGood DEF TestDeleteme
  <2>6. CASE DeleteUnregister(k)
    BY <2>6, UnregisterGood DEF DeleteUnregister
  <2>7. CASE DeleteClose(k)
    BY <2>7, CloseGood DEF DeleteClose
  <2> QED
    BY <1>2, <2>1, <2>2, <2>3, <2>4, <2>5, <2>6, <2>7 DEF WorkerThread, WorkerStep
<1>3. CASE MainThread
  BY <1>3, EndGood DEF MainThread, EndIteration
<1> QED
  BY <1>1, <1>2, <1>3 DEF Threads

\* Every step of every thread keeps the invariant.
LEMMA StepInv ==
  ASSUME Quiet, IInv, [Next]_vars
  PROVE  IInv'
<1>0. TypeInv' /\ HupInv' /\ TypeInv /\ HupInv
  BY StepTypes, StepHup DEF IInv
<1>1. CASE UNCHANGED vars
  <2>1. Marked => Marked'
    BY <1>1 DEF Marked, vars, findvars, workervars
  <2>2. Good => Good'
    BY <1>1 DEF Good, Flags, OpenFds, Mapped, Stored, InBatch, InQueue, InHand, Marked, NoneLost,
                Open, Closing, Fd, Reported, Queued, Owns,
                vars, sockvars, netvars, findvars, schedvars, workervars
  <2> QED
    BY <1>0, <1>1, <2>1, <2>2 DEF IInv, vars
<1>2. CASE Outside
  <2>1. Marked' /\ UNCHANGED crashed
    BY <1>2 DEF IInv, Marked, Outside, servervars, findvars, workervars
  <2> QED
    BY <1>0, <1>2, <2>1, OutsideGood DEF IInv
<1>3. CASE Threads
  <2>1. ~ crashed
    BY <1>3 DEF Threads, SchedulerThread, WorkerThread, MainThread, Serving
  <2>2. Good
    BY <2>1 DEF IInv
  <2>3. CASE UNCHANGED crashed /\ Good'
    BY <1>0, <2>3 DEF IInv, Good
  <2>4. CASE crashed' /\ UNCHANGED <<findvars, workervars>>
    BY <1>0, <2>2, <2>4 DEF IInv, Good, Marked, findvars, workervars
  <2> QED
    BY <1>0, <1>3, <2>2, <2>3, <2>4, ThreadsGood
<1> QED
  BY <1>1, <1>2, <1>3 DEF Next

\* The inductive invariant: for any number of connections, descriptors, workers and
\* Works, every Work is where the scheduler and the workers believe it to be.
THEOREM Invariance == Quiet => (Spec => []IInv)
<1> SUFFICES ASSUME Quiet PROVE Spec => []IInv
  OBVIOUS
<1>1. Init => IInv
  BY InitTypes, InitGood DEF IInv, Good
<1>2. IInv /\ [Next]_vars => IInv'
  BY StepInv
<1> QED
  BY <1>1, <1>2, PTL DEF Spec

\* The size of a set with at most one element.
LEMMA AtMostOne ==
  ASSUME NEW S, \A x, y \in S : x = y
  PROVE  Cardinality(S) = IF S = {} THEN 0 ELSE 1
<1>1. CASE S = {}
  BY <1>1, FS_EmptySet
<1>2. CASE S # {}
  <2>1. PICK x : S = {x}
    BY <1>2
  <2> QED
    BY <1>2, <2>1, FS_Singleton
<1> QED
  BY <1>1, <1>2

\* The four places a Work can be in exclude each other.
LEMMA PlacesOfWork ==
  ASSUME TypeInv, Good, NEW w \in live
  PROVE  /\ Places(w) <= 1
         /\ dowork => Places(w) = 1
<1> DEFINE f        == work[w].fd
           Armed    == interest[f] \in {"in", "out"}
           Events_w == {e \in batch \ {AcceptEvent, SignalEvent} : e.fd = f}
           Jobs_w   == {i \in DOMAIN jobq : jobq[i] = w}
           Hands_w  == {k \in Workers : Holds(k, w)}
           Owned    == \E k \in Workers : Owns(k) /\ cur[k] = w
<1>1. w \in Works /\ w # NoWork
  BY WorkAssumption DEF TypeInv, TypeOK, FindWorkTypeOK
<1>2. Cardinality(Events_w) = IF Reported(f) THEN 1 ELSE 0
  <2>1. \A d, e \in Events_w : d = e
    BY DEF Good, InBatch, IsConn
  <2>2. Events_w = {} <=> ~ Reported(f)
    BY DEF Reported, IsConn
  <2> HIDE DEF Events_w, f
  <2> QED
    BY <2>1, <2>2, AtMostOne
<1>3. Cardinality(Jobs_w) = IF Queued(w) THEN 1 ELSE 0
  <2>1. \A i, j \in Jobs_w : i = j
    BY <1>1 DEF Good, InQueue
  <2>2. Jobs_w = {} <=> ~ Queued(w)
    BY DEF Queued
  <2> HIDE DEF Jobs_w
  <2> QED
    BY <2>1, <2>2, AtMostOne
<1>4. Cardinality(Hands_w) = IF Owned THEN 1 ELSE 0
  <2>0. \A k \in Workers : Holds(k, w) <=> Owns(k) /\ cur[k] = w
    BY DEF Holds, Owns
  <2>1. \A j, k \in Hands_w : j = k
    BY <2>0 DEF Good, InHand
  <2>2. Hands_w = {} <=> ~ Owned
    BY <2>0
  <2> HIDE DEF Hands_w, Owned
  <2> QED
    BY <2>1, <2>2, AtMostOne
<1>5. Reported(f) => interest[f] = "off"
  BY DEF Good, InBatch, Reported
<1>6. Queued(w) => interest[f] = "off" /\ ~ Reported(f)
  BY <1>1 DEF Good, InQueue
<1>7. Owned => interest[f] = "off" /\ ~ Reported(f) /\ ~ Queued(w)
  BY DEF Good, InHand, Fd
<1>8. dowork => Armed \/ Reported(f) \/ Queued(w) \/ Owned
  BY DEF Good, NoneLost
<1>9. Places(w) = (IF Armed THEN 1 ELSE 0) + Cardinality(Events_w) + Cardinality(Jobs_w)
                    + Cardinality(Hands_w)
  BY DEF Places
<1>10. /\ Armed => ~ Reported(f) /\ ~ Queued(w) /\ ~ Owned
       /\ Reported(f) => ~ Queued(w) /\ ~ Owned
       /\ Queued(w) => ~ Owned
  BY <1>5, <1>6, <1>7
<1> HIDE DEF Events_w, Jobs_w, Hands_w, Owned, Armed, f
<1> QED
  BY <1>2, <1>3, <1>4, <1>8, <1>9, <1>10

\* "Any connection that shows up in the epoll_wait is neither currently being worked on
\* by a worker, nor in the job queue waiting for a worker" (Scheduler::poll), and none
\* is lost: for any number of workers when no client hangs up, and for one worker when
\* clients do.
THEOREM OnlyOnePlace == Quiet => (Spec => []OnePlace)
<1>1. IInv => OnePlace
  BY PlacesOfWork DEF IInv, OnePlace
<1> QED
  BY <1>1, Invariance, PTL

\* There are enough descriptors for all the connections that clients make.
FdsSuffice ==
    /\ IsFiniteSet(Fds) /\ IsFiniteSet(Conns)
    /\ Cardinality(Conns) <= Cardinality(Fds)

\* While a connection waits in the backlog, some descriptor is free.
LEMMA FreeFd ==
  ASSUME FdsSuffice, TypeInv, Good, Backlog # {}
  PROVE  ~ \A g \in Fds : Open(g)
<1> SUFFICES ASSUME \A g \in Fds : Open(g) PROVE FALSE
  OBVIOUS
<1>1. PICK c \in Conns : peer[c] = "backlog"
  BY DEF Backlog
<1>2. fdconn \in [Fds -> Conns \ {c}]
  <2>1. fdconn \in [Fds -> Conns \cup {NoConn}]
    BY DEF TypeInv, TypeOK, SocketsTypeOK
  <2>2. \A g \in Fds : fdconn[g] # NoConn /\ fdconn[g] # c
    BY <1>1 DEF Good, OpenFds, Open
  <2> QED
    BY <2>1, <2>2
<1>3. IsFiniteSet(Conns \ {c}) /\ Cardinality(Conns \ {c}) = Cardinality(Conns) - 1
  BY FS_RemoveElement DEF FdsSuffice
<1>4. Cardinality(Conns) \in Nat /\ Cardinality(Fds) \in Nat
  BY FS_CardinalityType DEF FdsSuffice
<1>5. Cardinality(Conns \ {c}) < Cardinality(Fds)
  BY <1>3, <1>4 DEF FdsSuffice
<1>6. \E g, h \in Fds : g # h /\ fdconn[g] = fdconn[h]
  BY <1>2, <1>3, <1>5, FS_PigeonHole DEF FdsSuffice
<1> QED
  BY <1>6 DEF Good, OpenFds

\* "One fd, one owner" (FindWork_prealloc::unregister): with enough descriptors no
\* exception ends the process, and map, Works and open connections always agree.
THEOREM OneFdOneOwner == Quiet /\ FdsSuffice => (Spec => []WorksMatchConnections)
<1> SUFFICES ASSUME Quiet, FdsSuffice PROVE Spec => []WorksMatchConnections
  OBVIOUS
<1>0. Spec => []IInv
  BY Invariance
<1>1. Init => ~ crashed
  BY DEF Init, SchedulerInit
<1>2. IInv /\ ~ crashed /\ [Next]_vars => ~ crashed'
  <2> SUFFICES ASSUME IInv, ~ crashed, [Next]_vars PROVE ~ crashed'
    OBVIOUS
  <2>1. TypeInv /\ HupInv /\ Good
    BY DEF IInv
  <2>2. CASE Threads
    BY <2>1, <2>2, ThreadsGood, FreeFd
  <2>3. CASE Outside
    BY <2>3 DEF Outside, servervars
  <2>4. CASE UNCHANGED vars
    BY <2>4 DEF vars
  <2> QED
    BY <2>2, <2>3, <2>4 DEF Next
<1>3. IInv /\ ~ crashed => WorksMatchConnections
  BY DEF IInv, Good, Mapped, Closing, WorksMatchConnections
<1> QED
  BY <1>0, <1>1, <1>2, <1>3, PTL DEF Spec

\* Worker::work reads w->deleteme after it has rescheduled w.  As long as no client hangs
\* up and none asks for the connection to be closed, the Work is still there, however
\* many workers there are.
THEOREM NoStaleWork == Quiet /\ Leavers = {} => (Spec => []NoUseAfterFree)
<1> SUFFICES ASSUME Quiet, Leavers = {} PROVE Spec => []NoUseAfterFree
  OBVIOUS
<1>0. Spec => []IInv
  BY Invariance
<1>1. IInv => NoUseAfterFree
  BY DEF IInv, TypeInv, Busy, Marked, NoUseAfterFree
<1> QED
  BY <1>0, <1>1, PTL
=============================================================================
