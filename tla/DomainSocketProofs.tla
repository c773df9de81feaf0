------------------------- MODULE DomainSocketProofs -------------------------
(***************************************************************************)
(* Proofs about DomainSocket.                                              *)
(***************************************************************************)
EXTENDS DomainSocket, SequenceTheorems, TLAPS

\* Who may execute the server Work now or soon: epoll, the queue, the first execution.
Tokens ==
    (IF sarmed = "none" THEN 0 ELSE 1) + squeued + (IF spc = "over" THEN 0 ELSE 1)

\* Only the wake-up adds to them, and the client Work gives it once.
TokensOK ==
    /\ Tokens <= IF woken = "early" THEN 2 ELSE 1
    /\ woken # "no" => cwhere \in {"browsed", "deleted"}
    /\ spc = "schedule" => cwhere = "none"

\* What the server Work holds before the response is known.
NoResponse ==
    /\ server.outhdrs = << >> /\ server.outbody = << >>
    /\ server.m = IF spc = "over" THEN "write" ELSE "read"
    /\ spc # "over" => ~ server.outhdrs_done
    /\ sent = << >>

\* How far the server Work is with a response.
Responding ==
    /\ spc = "over"
    /\ \/ /\ server.m = "write" /\ ~ server.outhdrs_done /\ sent = << >>
          /\ server.outhdrs = <<"headers">> /\ server.outbody = <<"body">>
       \/ /\ server.m = "write" /\ server.outhdrs_done /\ sent = <<"headers">>
          /\ server.outbody = <<"body">>
       \/ /\ server.m = "read" /\ sent = <<"headers", "body">>

\* As long as the server Work has not been woken too early, it has no response exactly
\* while it waits for the client Work, and the client Work wakes it only then.
ResponseOK ==
    woken # "early" =>
        /\ IF spc = "schedule" \/ server.nosch THEN NoResponse ELSE Responding
        /\ spc = "finish" => server.nosch
        /\ spc = "schedule" => ~ server.nosch
        /\ woken = "dormant" => spc = "over" /\ ~ server.nosch
        /\ woken = "no" /\ ~ server.nosch => cwhere = "none"

\* A server Work that was woken has somebody to execute it, and nosch, which would let
\* it go dormant again, is not set any more.
WakeOK ==
    woken # "no" /\ server.live => Tokens >= 1 /\ ~ server.nosch

\* The type of the server Work's fields.
ServerRec ==
    [m: {"read", "write"}, nosch: BOOLEAN, live: BOOLEAN,
     outhdrs_done: BOOLEAN, outhdrs: Seq({"headers"}), outbody: Seq({"body"})]

\* What a response is made of.
Pieces ==
    /\ server.outhdrs \in {<< >>, <<"headers">>}
    /\ server.outbody \in {<< >>, <<"body">>}
    /\ sent \in Seq({"headers", "body"})

\* The inductive invariant.  OneWorker is not inductive: that a wake-up of a dormant
\* server Work is the only one takes the client Work's state (TokensOK), and that the
\* response starts from a clean Work takes what the empty one left (ResponseOK).  That
\* no wake-up is lost rests on nosch (WakeOK).
Inv ==
    /\ TypeOK
    /\ Pieces
    /\ TokensOK
    /\ ResponseOK
    /\ WakeOK

\* The responses are sequences of the right kind.
LEMMA PieceTypes ==
    /\ {<< >>, <<"headers">>} \subseteq Seq({"headers"})
    /\ {<< >>, <<"body">>} \subseteq Seq({"body"})
    /\ << >> \in Seq({"headers", "body"})
    /\ \A s \in Seq({"headers", "body"}) :
          \A p \in {<< >>, <<"headers">>, <<"body">>} : s \o p \in Seq({"headers", "body"})
<1>1. /\ << >> \in Seq({"headers", "body"})
      /\ <<"headers">> \in Seq({"headers", "body"})
      /\ <<"body">> \in Seq({"headers", "body"})
  OBVIOUS
<1>2. /\ << >> \in Seq({"headers"}) /\ <<"headers">> \in Seq({"headers"})
      /\ << >> \in Seq({"body"}) /\ <<"body">> \in Seq({"body"})
  OBVIOUS
<1>3. ASSUME NEW s \in Seq({"headers", "body"}), NEW p \in Seq({"headers", "body"})
      PROVE  s \o p \in Seq({"headers", "body"})
  OBVIOUS
<1> QED
  BY <1>1, <1>2, <1>3

LEMMA InitInv == Init => Inv
<1> SUFFICES ASSUME Init PROVE Inv
  OBVIOUS
<1>0. server \in ServerRec
  BY PieceTypes DEF Init, ServerRec
<1>1. TypeOK /\ Pieces
  <2>1. client \in [m: {"read", "write"}, outhdrs_done: BOOLEAN, inhdrs_done: BOOLEAN]
    BY DEF Init, NewClient
  <2>2. wmap \in BOOLEAN /\ reused \in BOOLEAN /\ crashed \in BOOLEAN
    BY DEF Init
  <2>3. /\ spc = "schedule" /\ sarmed = "none" /\ squeued = 0 /\ sent = << >>
        /\ cwhere = "none" /\ peer = "listening" /\ woken = "no"
        /\ server.outhdrs = << >> /\ server.outbody = << >>
    BY DEF Init
  <2> QED
    BY <1>0, <2>1, <2>2, <2>3, PieceTypes DEF TypeOK, Pieces, ServerRec
<1>2. TokensOK /\ WakeOK
  BY DEF Init, TokensOK, Tokens, WakeOK
<1>3. ResponseOK
  BY DEF Init, ResponseOK, NoResponse
<1> QED
  BY <1>1, <1>2, <1>3 DEF Inv

\* A step that leaves the server Work alone, apart from the process's end.
LEMMA ServerQuiet ==
    ASSUME Inv, TypeOK', UNCHANGED <<servervars, woken>>,
           cwhere = "none" => cwhere' = "none",
           cwhere \in {"browsed", "deleted"} => cwhere' \in {"browsed", "deleted"}
    PROVE  Inv'
BY DEF Inv, servervars, Pieces, TokensOK, Tokens, ResponseOK, NoResponse, Responding, WakeOK

\* The steps of the client Work but the wake-up, and of the two peers but the hang-up.
LEMMA QuietSteps ==
    ASSUME Inv,
           \/ ClientReady \/ ClientWrites \/ ClientReadsHeaders \/ ClientReschedules
           \/ ClientLost \/ Accept \/ Answer \/ Close
    PROVE  Inv'
<1>1. CASE ClientReady
  BY <1>1, ServerQuiet DEF ClientReady, Inv, TypeOK, servervars
<1>2. CASE ClientWrites \/ ClientReadsHeaders
  <2>1. client' \in [m: {"read", "write"}, outhdrs_done: BOOLEAN, inhdrs_done: BOOLEAN]
    BY <1>2 DEF ClientWrites, Written, ClientReadsHeaders, Inv, TypeOK
  <2>2. cwhere = "queued" /\ cwhere' = "armed"
        /\ UNCHANGED <<servervars, wmap, reused, peer, woken, crashed>>
    BY <1>2 DEF ClientWrites, ClientReadsHeaders
  <2>3. TypeOK'
    BY <2>1, <2>2 DEF Inv, TypeOK, servervars
  <2> QED
    BY <2>2, <2>3, ServerQuiet
<1>4. CASE ClientReschedules
  BY <1>4, ServerQuiet DEF ClientReschedules, Inv, TypeOK, servervars
<1>5. CASE ClientLost
  BY <1>5, ServerQuiet DEF ClientLost, Inv, TypeOK, servervars
<1>6. CASE Accept
  <2>1. crashed' \in BOOLEAN /\ reused' \in BOOLEAN
    BY <1>6, Zenon DEF Accept
  <2>2. UNCHANGED <<server, spc, sarmed, squeued, sent, client, cwhere, wmap, peer, woken>>
    BY <1>6 DEF Accept, servervars
  <2>3. TypeOK'
    BY <2>1, <2>2 DEF Inv, TypeOK
  <2> QED
    BY <2>2, <2>3, ServerQuiet DEF servervars
<1>7. CASE Answer
  BY <1>7, ServerQuiet DEF Answer, Inv, TypeOK, servervars, clientvars
<1>8. CASE Close
  BY <1>8, ServerQuiet DEF Close, Inv, TypeOK, servervars, clientvars
<1> QED
  BY <1>1, <1>2, <1>4, <1>5, <1>6, <1>7, <1>8

\* The first execution of the server Work.
LEMMA FirstExecution ==
    ASSUME Inv, ScheduleClient \/ NoClient \/ FinishRead
    PROVE  Inv'
<1>0. server \in ServerRec
  BY DEF Inv, TypeOK, ServerRec
<1>1. CASE ScheduleClient
  <2>1. /\ server' \in ServerRec /\ server'.nosch = TRUE
        /\ server'.m = server.m /\ server'.outhdrs_done = server.outhdrs_done
        /\ server'.outhdrs = server.outhdrs /\ server'.outbody = server.outbody
    BY <1>0, <1>1 DEF ScheduleClient, ServerRec
  <2>2. TypeOK'
    BY <1>1, <2>1 DEF ScheduleClient, NewClient, Inv, TypeOK, ServerRec
  <2>3. Pieces' /\ TokensOK' /\ WakeOK'
    BY <1>1, <2>1 DEF ScheduleClient, Inv, TypeOK, Pieces, TokensOK, Tokens, WakeOK
  <2>4. ResponseOK'
    BY <1>1, <2>1 DEF ScheduleClient, Inv, TokensOK, ResponseOK, NoResponse
  <2> QED
    BY <2>2, <2>3, <2>4 DEF Inv
<1>2. CASE NoClient
  <2>1. /\ server' \in ServerRec
        /\ server'.nosch = server.nosch
        /\ server'.m = "write" /\ server'.outhdrs_done = server.outhdrs_done
        /\ server'.outhdrs = <<"headers">> /\ server'.outbody = <<"body">>
    BY <1>0, <1>2, PieceTypes DEF NoClient, ServerRec
  <2>2. TypeOK'
    BY <1>2, <2>1 DEF NoClient, clientvars, Inv, TypeOK, ServerRec
  <2>3. Pieces' /\ TokensOK' /\ WakeOK'
    BY <1>2, <2>1 DEF NoClient, clientvars, Inv, TypeOK, Pieces, TokensOK, Tokens, WakeOK
  <2>4. ResponseOK'
    BY <1>2, <2>1 DEF NoClient, clientvars, Inv, TokensOK, ResponseOK, NoResponse, Responding
  <2> QED
    BY <2>2, <2>3, <2>4 DEF Inv
<1>3. CASE FinishRead
  <2>1. /\ server' \in ServerRec
        /\ server'.nosch = server.nosch
        /\ server'.m = "write" /\ server'.outhdrs_done = server.outhdrs_done
        /\ server'.outhdrs = << >> /\ server'.outbody = server.outbody
    BY <1>0, <1>3, PieceTypes DEF FinishRead, ServerRec
  <2>2. TypeOK'
    BY <1>3, <2>1 DEF FinishRead, clientvars, Inv, TypeOK, ServerRec
  <2>3. Pieces' /\ TokensOK' /\ WakeOK'
    BY <1>3, <2>1 DEF FinishRead, clientvars, Inv, TypeOK, Pieces, TokensOK, Tokens, WakeOK
  <2>4. ResponseOK'
    BY <1>3, <2>1 DEF FinishRead, clientvars, Inv, TokensOK, ResponseOK, NoResponse, Responding
  <2> QED
    BY <2>2, <2>3, <2>4 DEF Inv
<1> QED
  BY <1>1, <1>2, <1>3

\* The later executions of the server Work, and the scheduler's part in them.
LEMMA LaterExecutions ==
    ASSUME Inv, ServerReady \/ ServerReads \/ ServerFreed \/ HangUp
    PROVE  Inv'
<1> USE DEF Inv, TypeOK, Pieces
<1>1. CASE ServerReady
  BY <1>1 DEF ServerReady, Reported, clientvars, TokensOK, Tokens, ResponseOK,
              NoResponse, Responding, WakeOK
<1>2. CASE ServerReads
  BY <1>2 DEF ServerReads, clientvars, TokensOK, Tokens, ResponseOK,
              NoResponse, Responding, WakeOK
<1>3. CASE ServerFreed
  <2>1. server.live = FALSE /\ UNCHANGED <<server, woken>>
    BY <1>3 DEF ServerFreed
  <2>2. WakeOK'
    BY <2>1 DEF WakeOK
  <2>3. TypeOK' /\ Pieces' /\ TokensOK' /\ ResponseOK'
    BY <1>3 DEF ServerFreed, clientvars, TokensOK, Tokens, ResponseOK, NoResponse, Responding
  <2> QED
    BY <2>2, <2>3
<1>4. CASE HangUp
  <2>1. /\ server' \in ServerRec
        /\ server'.nosch = server.nosch
        /\ server'.m = server.m /\ server'.outhdrs_done = server.outhdrs_done
        /\ server'.outhdrs = server.outhdrs /\ server'.outbody = server.outbody
    BY <1>4 DEF HangUp, ServerRec
  <2>2. TypeOK' /\ Pieces' /\ TokensOK' /\ WakeOK'
    BY <1>4, <2>1 DEF HangUp, clientvars, ServerRec, TokensOK, Tokens, WakeOK
  <2>3. ResponseOK'
    BY <1>4, <2>1 DEF HangUp, clientvars, ResponseOK, NoResponse, Responding
  <2> QED
    BY <2>2, <2>3
<1> QED
  BY <1>1, <1>2, <1>3, <1>4

\* operator() in mode write.
LEMMA WritesInv ==
    ASSUME Inv, ServerWrites
    PROVE  Inv'
<1>1. /\ server \in ServerRec /\ squeued \in 1 .. 2 /\ squeued' = squeued - 1
      /\ server.m = "write" /\ server.live = TRUE
      /\ UNCHANGED <<spc, client, cwhere, wmap, reused, peer, woken, crashed>>
  BY DEF Inv, TypeOK, ServerRec, ServerWrites, clientvars
<1>2. CASE ~ server.outhdrs_done
  <2>1. /\ server' = [server EXCEPT !.outhdrs_done = TRUE]
        /\ sent' = sent \o server.outhdrs /\ sarmed' = "out"
    BY <1>2 DEF ServerWrites
  <2>2. /\ server' \in ServerRec /\ server'.outhdrs_done = TRUE
        /\ server'.nosch = server.nosch /\ server'.m = server.m
        /\ server'.outhdrs = server.outhdrs /\ server'.outbody = server.outbody
    BY <1>1, <2>1 DEF ServerRec
  <2>3. sent' \in Seq({"headers", "body"})
    BY <2>1, PieceTypes DEF Inv, Pieces
  <2>4. TypeOK' /\ Pieces'
    BY <1>1, <2>1, <2>2, <2>3 DEF Inv, TypeOK, Pieces, ServerRec
  <2>5. TokensOK' /\ WakeOK'
    BY <1>1, <2>1 DEF Inv, TypeOK, TokensOK, Tokens, WakeOK
  <2>6. ASSUME woken # "early" PROVE spc = "over"
    BY <1>1, <2>6 DEF Inv, TypeOK, TokensOK, Tokens
  <2>7. << >> \o << >> = << >> /\ << >> \o <<"headers">> = <<"headers">>
    OBVIOUS
  <2>8. ResponseOK'
    BY <1>1, <1>2, <2>1, <2>2, <2>6, <2>7 DEF Inv, ResponseOK, NoResponse, Responding
  <2> QED
    BY <2>4, <2>5, <2>8 DEF Inv
<1>3. CASE server.outhdrs_done /\ server.nosch
  <2>1. UNCHANGED <<sent, server, sarmed>>
    BY <1>3 DEF ServerWrites
  <2>2. TypeOK' /\ Pieces' /\ TokensOK' /\ WakeOK'
    BY <1>1, <1>3, <2>1 DEF Inv, TypeOK, Pieces, TokensOK, Tokens, WakeOK
  <2>3. ResponseOK'
    BY <1>1, <2>1 DEF Inv, ResponseOK, NoResponse, Responding
  <2> QED
    BY <2>2, <2>3 DEF Inv
<1>4. CASE server.outhdrs_done /\ ~ server.nosch
  <2>1. /\ server' = [server EXCEPT !.m = "read", !.outhdrs_done = FALSE,
                                    !.outhdrs = << >>, !.outbody = << >>]
        /\ sent' = sent \o server.outbody /\ sarmed' = "in"
    BY <1>4 DEF ServerWrites
  <2>2. /\ server' \in ServerRec /\ server'.outhdrs_done = FALSE
        /\ server'.nosch = server.nosch /\ server'.m = "read"
        /\ server'.outhdrs = << >> /\ server'.outbody = << >>
    BY <1>1, <2>1, PieceTypes DEF ServerRec
  <2>3. sent' \in Seq({"headers", "body"})
    BY <2>1, PieceTypes DEF Inv, Pieces
  <2>4. TypeOK' /\ Pieces'
    BY <1>1, <2>1, <2>2, <2>3 DEF Inv, TypeOK, Pieces, ServerRec
  <2>5. TokensOK' /\ WakeOK'
    BY <1>1, <2>1 DEF Inv, TypeOK, TokensOK, Tokens, WakeOK
  <2>6. ASSUME woken # "early" PROVE spc = "over"
    BY <1>1, <2>6 DEF Inv, TypeOK, TokensOK, Tokens
  <2>7. <<"headers">> \o <<"body">> = <<"headers", "body">>
    <3> DEFINE S == {"headers", "body"}
    <3>1. <<"headers">> \in Seq(S) /\ <<"body">> \in Seq(S) /\ <<"headers", "body">> \in Seq(S)
      OBVIOUS
    <3>2. /\ <<"headers">> \o <<"body">> \in Seq(S)
          /\ Len(<<"headers">> \o <<"body">>) = 2
          /\ (<<"headers">> \o <<"body">>)[1] = "headers"
          /\ (<<"headers">> \o <<"body">>)[2] = "body"
      BY <3>1, ConcatProperties
    <3>3. Len(<<"headers", "body">>) = 2 /\ 1 .. 2 = {1, 2}
      OBVIOUS
    <3>4. \A i \in 1 .. Len(<<"headers">> \o <<"body">>) :
             (<<"headers">> \o <<"body">>)[i] = <<"headers", "body">>[i]
      BY <3>2, <3>3
    <3> HIDE DEF S
    <3>5. Len(<<"headers">> \o <<"body">>) = Len(<<"headers", "body">>)
      BY <3>2, <3>3
    <3> QED
      BY <3>1, <3>2, <3>4, <3>5, SeqEqual, Zenon
  <2>8. ResponseOK'
    BY <1>1, <1>4, <2>1, <2>2, <2>6, <2>7 DEF Inv, ResponseOK, NoResponse, Responding
  <2> QED
    BY <2>4, <2>5, <2>8 DEF Inv
<1> QED
  BY <1>1, <1>2, <1>3, <1>4 DEF ServerRec

\* async_setresponse: a dormant server Work gets its one token back, and a response
\* of which nothing has been sent.
LEMMA BrowsesInv ==
    ASSUME Inv, ClientBrowses
    PROVE  Inv'
<1>1. /\ server \in ServerRec /\ cwhere = "queued" /\ cwhere' = "browsed" /\ wmap' = FALSE
      /\ UNCHANGED <<spc, squeued, sent, client, reused, peer>>
      /\ woken = "no" /\ woken' = IF Dormant THEN "dormant" ELSE "early"
      /\ spc # "schedule"
  BY DEF Inv, TypeOK, ServerRec, ClientBrowses, TokensOK
<1>2. CASE server.live
  <2>1. server' = Awake(server) /\ sarmed' = "out" /\ crashed' = crashed
    BY <1>2 DEF ClientBrowses, Rearmed
  <2>2. /\ server' \in ServerRec /\ server'.outhdrs_done = FALSE
        /\ server'.nosch = FALSE /\ server'.m = "write"
        /\ server'.outhdrs = <<"headers">> /\ server'.outbody = <<"body">>
    BY <1>1, <2>1, PieceTypes DEF ServerRec, Awake
  <2>3. TypeOK' /\ Pieces'
    BY <1>1, <2>1, <2>2 DEF Inv, TypeOK, Pieces, ServerRec
  <2>6. WakeOK'
    BY <1>1, <2>1, <2>2 DEF Inv, TypeOK, Tokens, WakeOK
  <2>4. TokensOK'
    BY <1>1, <2>1 DEF Inv, TypeOK, TokensOK, Tokens, Dormant
  <2>5. ResponseOK'
    BY <1>1, <2>1, <2>2 DEF Inv, ResponseOK, NoResponse, Responding, Dormant
  <2> QED
    BY <2>3, <2>4, <2>5, <2>6 DEF Inv
<1>3. CASE ~ server.live
  <2>1. crashed' = TRUE /\ UNCHANGED <<server, sarmed>> /\ woken' = "early"
    BY <1>1, <1>3 DEF ClientBrowses, Dormant
  <2>2. TypeOK'
    <3>1. wmap' \in BOOLEAN /\ crashed' \in BOOLEAN
      BY <1>1, <2>1
    <3> QED
      BY <1>1, <2>1, <3>1 DEF Inv, TypeOK
  <2>4. Pieces' /\ WakeOK'
    BY <1>1, <1>3, <2>1 DEF Inv, Pieces, WakeOK
  <2>3. TokensOK' /\ ResponseOK'
    BY <1>1, <2>1 DEF Inv, TypeOK, TokensOK, Tokens, ResponseOK
  <2> QED
    BY <2>2, <2>3, <2>4 DEF Inv
<1> QED
  BY <1>1, <1>2, <1>3 DEF ServerRec

LEMMA NextInv == Inv /\ [Next]_vars => Inv'
<1> SUFFICES ASSUME Inv, [Next]_vars PROVE Inv'
  OBVIOUS
<1>1. CASE UNCHANGED vars
  BY <1>1 DEF vars, Inv, TypeOK, Pieces, TokensOK, Tokens, ResponseOK, NoResponse,
              Responding, WakeOK
<1>2. CASE Next
  BY <1>2, QuietSteps, FirstExecution, LaterExecutions, WritesInv, BrowsesInv
  DEF Next, Workers
<1> QED
  BY <1>1, <1>2

\* The inductive invariant holds in every reachable state.
THEOREM Invariance == Spec => []Inv
BY InitInv, NextInv, PTL DEF Spec

\* TypeOK: however the two Works interleave, the server Work is in the job queue at
\* most twice, the second time only because it was woken before it was dormant.
THEOREM TypeCorrect == Spec => []TypeOK
<1>1. Inv => TypeOK
  BY DEF Inv
<1> QED
  BY <1>1, Invariance, PTL

\* OneWorker: a server Work woken when it is dormant is executed by one worker at a time.
THEOREM AtMostOneWorker == Spec => []OneWorker
<1>1. Inv => OneWorker
  BY DEF Inv, TypeOK, TokensOK, Tokens, OneWorker
<1> QED
  BY <1>1, Invariance, PTL

\* WholeResponse: its client gets the headers and then the body, each once.
THEOREM ResponseIsWhole == Spec => []WholeResponse
<1>1. Inv => WholeResponse
  <2> SUFFICES ASSUME Inv, woken # "early" PROVE IsPrefix(sent, <<"headers", "body">>)
    BY DEF WholeResponse
  <2>1. sent \in {<< >>, <<"headers">>, <<"headers", "body">>}
    BY DEF Inv, ResponseOK, NoResponse, Responding
  <2>2. IsPrefix(<< >>, <<"headers", "body">>)
    BY DEF IsPrefix
  <2>3. IsPrefix(<<"headers">>, <<"headers", "body">>)
    BY DEF IsPrefix
  <2>4. IsPrefix(<<"headers", "body">>, <<"headers", "body">>)
    BY DEF IsPrefix
  <2> QED
    BY <2>1, <2>2, <2>3, <2>4
<1> QED
  BY <1>1, Invariance, PTL

\* NoLostWakeup: a server Work that was woken, too early even, is not left dormant.
THEOREM WakeupNotLost == Spec => []NoLostWakeup
<1>1. Inv => NoLostWakeup
  BY DEF Inv, TypeOK, WakeOK, Tokens, Dormant, NoLostWakeup
<1> QED
  BY <1>1, Invariance, PTL
=============================================================================
