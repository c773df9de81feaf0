------------------------------ MODULE Parsing ------------------------------
(***************************************************************************)
(* How HTTP_Server_Work::operator() turns the bytes of a connection into   *)
(* requests: Work::rduntil reads whatever has arrived, operator>> of       *)
(* HTTP_parsing takes header lines out of inbuf and leaves an unfinished   *)
(* line there for the next call, and a body is read by its Content-Length. *)
(* The bytes arrive in pieces of any size; what the server understands     *)
(* should not depend on where they are cut.                                *)
(*                                                                         *)
(* A line is a sequence of symbols.  Its first symbol stands for all that  *)
(* identifies it: "L" for the header name Content-Length, "H" for the name *)
(* of another header, anything else for the method and the URI of a        *)
(* request line, which ends with the symbol "v", the HTTP version.         *)
(***************************************************************************)
EXTENDS Integers, SequencesExt

CONSTANTS
    Symbols,    \* what lines and bodies are made of
    Scripts,    \* set of sequences of requests, one of which the client sends
    MaxLine,    \* max_line_len
    MaxBody,    \* max_req_body
    CbufSize,   \* cbufsz
    SizeMod     \* inbody_sz wraps at SizeMod (size_t in the code)

\* The limits are size_t too.
ASSUME SizesAssumption ==
    /\ SizeMod \in Nat \ {0} /\ {MaxLine, MaxBody, CbufSize} \subseteq 0 .. SizeMod - 1
    /\ CbufSize > 0

VARIABLES
    sent,       \* the requests the client sends, in order
    wire,       \* bytes sent by the client and not yet read from the socket
    inbuf,      \* what is left to extract from the stream inbuf
    inhdrs,     \* the header lines kept: the request line and Content-Length
    inbody,     \* the request body so far
    inbody_sz,  \* bytes of the body still to be read
    pc,         \* "read": waiting for the socket to be readable;
                \* "pipeline": reading at once; "line": inside operator>>;
                \* "headers": it has returned true; "body"; "prepare"; "write"
    got,        \* requests handed to prepare_response
    crashed,    \* the process has ended
    torn        \* history: some read ended inside a CRLF or ran past the end
                \* of the body it was waiting for

vars == <<sent, wire, inbuf, inhdrs, inbody, inbody_sz, pc, got, crashed, torn>>

CR == "\r"
LF == "\n"
CRLF == <<CR, LF>>

Digit == <<"1", "2", "3", "4">>

ASSUME SymbolsAssumption ==
    /\ {CR, LF, "L", "v"} \subseteq Symbols
    /\ \A i \in DOMAIN Digit : Digit[i] \in Symbols

\* A request as the client writes it (RFC 2616, section 5).
Encode(r) ==
    LET content == IF r.body = << >> THEN << >> ELSE <<"L", Digit[Len(r.body)]>> \o CRLF
    IN  r.line \o CRLF \o r.other \o content \o CRLF \o r.body

Request == [line: Seq(Symbols), other: Seq(Symbols), body: Seq(Symbols)]

\* Q are the places in s where a line starts, and the end of s: s consists of lines
\* that are neither empty, nor request lines, nor Content-Length.
LineStarts(s, Q) ==
    /\ 0 \in Q /\ Q \subseteq 0 .. Len(s)
    /\ \A q \in Q \ {Len(s)} :
          \E e \in q + 1 .. Len(s) :
             /\ e + 2 \in Q /\ s[e + 1] = CR /\ s[e + 2] = LF
             /\ s[q + 1] \notin {"L", LF}
             /\ \A j \in q + 1 .. e : s[j] \notin {CR, "v"}

\* The request line has a version, and is one line; the length of the body has one digit.
WellFormed(r) ==
    /\ r \in Request
    /\ Contains(r.line, "v") /\ ~ Contains(r.line, CR)
    /\ \E Q \in SUBSET (0 .. Len(r.other)) : LineStarts(r.other, Q)
    /\ Len(r.body) <= Len(Digit)

ASSUME ScriptsAssumption ==
    \A s \in Scripts : s \in Seq(Request) /\ \A i \in DOMAIN s : WellFormed(s[i])

\* What the client writes when it sends the first i requests.
Bytes[i \in 0 .. Len(sent)] == IF i = 0 THEN << >> ELSE Bytes[i - 1] \o Encode(sent[i])

NoHeaders == [reqln |-> << >>, content |-> << >>]

TypeOK ==
    /\ sent \in Scripts
    /\ wire \in Seq(Symbols) /\ inbuf \in Seq(Symbols) /\ inbody \in Seq(Symbols)
    /\ inhdrs \in [reqln : Seq(Symbols), content : Seq(Symbols)]
    /\ got \in Seq([reqln : Seq(Symbols), body : Seq(Symbols)])
    /\ inbody_sz \in 0 .. SizeMod - 1
    /\ pc \in {"read", "pipeline", "line", "headers", "body", "prepare", "write"}
    /\ crashed \in BOOLEAN /\ torn \in BOOLEAN

Init ==
    /\ sent \in Scripts
    /\ wire = Bytes[Len(sent)]
    /\ inbuf = << >>
    /\ inhdrs = NoHeaders
    /\ inbody = << >>
    /\ inbody_sz = 0
    /\ pc = "read"
    /\ got = << >>
    /\ crashed = FALSE
    /\ torn = FALSE

----------------------------------------------------------------------------
(* Work::rduntil *)

\* The first n bytes on the wire, and the rest.
Piece(n) == SubSeq(wire, 1, n)
Rest(n) == SubSeq(wire, n + 1, Len(wire))

InsideCRLF(n) == n > 0 /\ wire[n] = CR /\ n < Len(wire)

\* Headers: rduntil reads until the socket would block, that is, all n bytes
\* that have arrived.  After pipeline_continue there may be none.
ReadHeaders(n) ==
    /\ \/ pc = "read" /\ n > 0
       \/ pc = "pipeline"
    /\ inbuf' = inbuf \o Piece(n)
    /\ wire' = Rest(n)
    /\ torn' = (torn \/ InsideCRLF(n))
    /\ pc' = "line"
    /\ UNCHANGED <<sent, inhdrs, inbody, inbody_sz, got, crashed>>

Missing_Signed(n) == inbody_sz - n

\* tord -= nread, on an unsigned number
Missing(n) == (inbody_sz - n) % SizeMod

\* Body: one ::read returns n bytes, as many as have arrived, whatever is
\* missing; the loop goes on until nothing is missing or nothing has arrived,
\* and then the Work waits for more.
ReadBody(n) ==
    /\ pc = "body" /\ n > 0
    /\ inbody' = inbody \o Piece(n)
    /\ inbody_sz' = Missing(n)
    /\ wire' = Rest(n)
    /\ torn' = (torn \/ InsideCRLF(n) \/ n > inbody_sz)
    /\ pc' = IF inbody_sz' = 0 THEN "prepare" ELSE "body"
    /\ UNCHANGED <<sent, inbuf, inhdrs, got, crashed>>

----------------------------------------------------------------------------
(* operator>> of HTTP_parsing: one action for each way one turn of its loop  *)
(* over getline(input, line, '\r') can end.                                  *)

\* The length of the line getline returns: up to the first CR, or to the end.
LineLength ==
    IF Contains(inbuf, CR) THEN SelectInSeq(inbuf, LAMBDA ch : ch = CR) - 1 ELSE Len(inbuf)

Extracted(n) == SubSeq(inbuf, n + 1, Len(inbuf))

\* The line is followed by CR and LF.
Terminated == LineLength + 2 <= Len(inbuf) /\ inbuf[LineLength + 2] = LF

TooLong == LineLength > MaxLine

\* operator>> of headers: the name, without white space before it.
HeaderName(line) ==
    LET start == SelectInSeq(line, LAMBDA ch : ch # LF)
    IN  IF start = 0 THEN << >> ELSE SubSeq(line, start, Len(line))

\* A line that contains the HTTP version is the request line; of the other
\* lines the header name is looked up, and lines with no known name are dropped.
Keep(line) ==
    CASE Contains(line, "v") -> [inhdrs EXCEPT !.reqln = line]
      [] ~Contains(line, "v") /\ IsPrefix(<<"L">>, HeaderName(line)) ->
             [inhdrs EXCEPT !.content = HeaderName(line)]
      [] OTHER -> inhdrs

HeaderLine ==
    /\ pc = "line" /\ LineLength > 0 /\ ~TooLong /\ Terminated
    /\ inhdrs' = Keep(SubSeq(inbuf, 1, LineLength))
    /\ inbuf' = Extracted(LineLength + 2)
    /\ UNCHANGED <<sent, wire, inbody, inbody_sz, pc, got, crashed, torn>>

\* The empty line ends the headers.
EmptyLine ==
    /\ pc = "line" /\ LineLength = 0 /\ Terminated
    /\ inbuf' = Extracted(2)
    /\ pc' = "headers"
    /\ UNCHANGED <<sent, wire, inhdrs, inbody, inbody_sz, got, crashed, torn>>

SeekBack_NotSaved(n) == << >>

\* seekg(-line.length(), ios::cur) after getline has extracted the line, and
\* also the CR if there was one, which it does not store in the line.
SeekBack(n) ==
    IF n < Len(inbuf) THEN Extracted(1) ELSE inbuf

\* The line is not terminated: return false, and the Work waits for more.
Unfinished ==
    /\ pc = "line" /\ ~TooLong /\ ~Terminated
    /\ inbuf' = SeekBack(LineLength)
    /\ pc' = "read"
    /\ UNCHANGED <<sent, wire, inhdrs, inbody, inbody_sz, got, crashed, torn>>

\* HTTP_oops, outside the try block of operator() and not a SocketErr: no
\* thread catches it, and the process ends.
LineTooLong ==
    /\ pc = "line" /\ TooLong
    /\ crashed' = TRUE
    /\ UNCHANGED <<sent, wire, inbuf, inhdrs, inbody, inbody_sz, pc, got, torn>>

----------------------------------------------------------------------------
(* The rest of HTTP_Server_Work::operator() *)

ContentLength ==
    IF Len(inhdrs.content) < 2 THEN 0 ELSE SelectInSeq(Digit, LAMBDA d : d = inhdrs.content[2])

BodyTooLarge ==
    /\ pc = "headers" /\ ContentLength > MaxBody
    /\ crashed' = TRUE
    /\ UNCHANGED <<sent, wire, inbuf, inhdrs, inbody, inbody_sz, pc, got, torn>>

\* The part of the body that came along with the headers is taken from inbuf ...
nread == IF ContentLength < Len(inbuf) THEN ContentLength ELSE Len(inbuf)

HeadersDone ==
    /\ pc = "headers" /\ ContentLength <= MaxBody
    /\ inbody' = inbody \o SubSeq(inbuf, 1, nread)
    /\ inbuf' = Extracted(nread)
    /\ inbody_sz' = ContentLength - nread
    /\ pc' = IF inbody_sz' = 0 THEN "prepare" ELSE "body"
    /\ UNCHANGED <<sent, wire, inhdrs, got, crashed, torn>>

\* ... by way of cbuf.  With its terminating 0 it may not fit: inbuf, the member after
\* cbuf, is overwritten, which ends the process, unless only padding is.
CbufOverrun ==
    /\ pc = "headers" /\ ContentLength <= MaxBody /\ nread >= CbufSize
    /\ crashed' = TRUE
    /\ UNCHANGED <<sent, wire, inbuf, inhdrs, inbody, inbody_sz, pc, got, torn>>

\* The request goes to prepare_response, and its response is scheduled.
Prepare ==
    /\ pc = "prepare"
    /\ got' = Append(got, [reqln |-> inhdrs.reqln, body |-> inbody])
    /\ pc' = "write"
    /\ UNCHANGED <<sent, wire, inbuf, inhdrs, inbody, inbody_sz, crashed, torn>>

Kept_Dropped == << >>

\* "Don't clear inbuf!"
Kept == inbuf

\* The response has been written: reset, and if something of the next request
\* is in inbuf already, go on with it; otherwise wait.
Reset ==
    /\ pc = "write"
    /\ inhdrs' = NoHeaders
    /\ inbody' = << >>
    /\ inbody_sz' = 0
    /\ inbuf' = Kept
    /\ pc' = IF inbuf' = << >> THEN "read" ELSE "pipeline"
    /\ UNCHANGED <<sent, wire, got, crashed, torn>>

Next ==
    /\ ~crashed
    /\ \/ \E n \in 0 .. Len(wire) : ReadHeaders(n) \/ ReadBody(n)
       \/ HeaderLine \/ EmptyLine \/ Unfinished \/ LineTooLong
       \/ BodyTooLarge \/ HeadersDone \/ CbufOverrun \/ Prepare \/ Reset

\* What has been sent arrives, and the worker goes on.
Spec == Init /\ [][Next]_vars /\ WF_vars(Next)

----------------------------------------------------------------------------
Requests == [i \in DOMAIN sent |-> [reqln |-> sent[i].line, body |-> sent[i].body]]

\* The requests handed to prepare_response are the requests the client sent, in
\* order, with their bodies, however the bytes were cut into pieces.
RequestsIntact == IsPrefix(got, Requests)

\* The same, as long as no read has ended between the CR and the LF of a line or
\* has run past the end of the body it was waiting for: these two cuts are the
\* only ones that operator>> and rduntil do not handle.
IntactUnlessTorn == torn \/ RequestsIntact

\* A request that breaks one of the configured limits, or whose body is too large for
\* cbuf.
OverLimit ==
    \E i \in DOMAIN sent : \/ Len(sent[i].line) > MaxLine
                           \/ Len(sent[i].body) > MaxBody \/ Len(sent[i].body) >= CbufSize

\* Every request is answered in the end, pipelined ones and ones whose last piece
\* came with an earlier request included, unless a piece was cut in one of those
\* two places or a limit was exceeded, which ends the process.
AllAnswered == <>(torn \/ got = Requests \/ (OverLimit /\ crashed))
=============================================================================
