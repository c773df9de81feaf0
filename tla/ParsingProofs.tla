---------------------------- MODULE ParsingProofs ----------------------------
(***************************************************************************)
(* What the server understands of any well-formed requests, pipelined in   *)
(* any number and cut into pieces of any size.                             *)
(***************************************************************************)
EXTENDS Parsing, SequenceTheorems, FiniteSetTheorems, TLAPS

----------------------------------------------------------------------------
(* Where the server is in what the client has sent *)

Sent == Bytes[Len(sent)]

\* How much of Sent has been extracted from inbuf or read into the body.
Pos == Len(Sent) - Len(inbuf) - Len(wire)

\* What has not been extracted is the rest of Sent.
Synced ==
    /\ Pos \in Nat
    /\ \A i \in 1 .. Len(inbuf) : inbuf[i] = Sent[Pos + i]
    /\ \A i \in 1 .. Len(wire) : wire[i] = Sent[Pos + Len(inbuf) + i]

\* A CR in inbuf is followed by what follows it in the request.
Uncut == inbuf # << >> /\ inbuf[Len(inbuf)] = CR => wire = << >>

\* The request being read, the length of its headers, and how much of it has been read.
Current == sent[Len(got) + 1]
ContentLine(r) == IF r.body = << >> THEN << >> ELSE <<"L", Digit[Len(r.body)]>>
BlockSize(r) == Len(r.line) + 2 + Len(r.other) + (IF r.body = << >> THEN 0 ELSE 4)
HeadSize(r) == BlockSize(r) + 2
Offset == Pos - Len(Bytes[Len(got)])

\* The places where the lines of s begin.
Starts(s) == CHOOSE Q \in SUBSET (0 .. Len(s)) : LineStarts(s, Q)

\* Before the request line; between other headers; after Content-Length.
AtStart == Offset = 0 /\ inhdrs = NoHeaders
AtHeader ==
    /\ \E q \in Starts(Current.other) : Offset = Len(Current.line) + 2 + q
    /\ inhdrs = [reqln |-> Current.line, content |-> << >>]
AtEnd ==
    /\ Current.body # << >> /\ Offset = BlockSize(Current)
    /\ inhdrs = [reqln |-> Current.line, content |-> ContentLine(Current)]

\* All requests have been answered.
AllRead == Len(got) = Len(sent) /\ Pos = Len(Sent) /\ pc = "read"

\* At the beginning of a line of the current request.
AtLine == Len(got) < Len(sent) /\ inbody = << >> /\ (AtStart \/ AtHeader \/ AtEnd)

InHeaders == AllRead \/ AtLine

HeadersRead ==
    /\ Len(got) < Len(sent) /\ inbody = << >> /\ Offset = HeadSize(Current)
    /\ inhdrs = [reqln |-> Current.line, content |-> ContentLine(Current)]

\* The rest of the body is on the wire.
InBody ==
    /\ Len(got) < Len(sent) /\ inbuf = << >>
    /\ Offset = HeadSize(Current) + Len(inbody)
    /\ Len(inbody) + inbody_sz = Len(Current.body)
    /\ \A j \in 1 .. Len(inbody) : inbody[j] = Current.body[j]
    /\ inhdrs.reqln = Current.line

BodyRead ==
    /\ Len(got) < Len(sent) /\ inbody = Current.body
    /\ Offset = HeadSize(Current) + Len(Current.body)
    /\ inhdrs.reqln = Current.line

Answering == Offset = 0

\* The requests handed to prepare_response are the first ones the client sent.
Understood == Len(got) <= Len(sent) /\ \A i \in 1 .. Len(got) : got[i] = Requests[i]

\* What has been understood, and what the program counter says of the rest.
Progress ==
    /\ Understood
    /\ pc \in {"read", "pipeline", "line"} => InHeaders
    /\ pc = "headers" => HeadersRead
    /\ pc = "body" => InBody
    /\ pc = "prepare" => BodyRead
    /\ pc = "write" => Answering

InStep == Synced /\ Uncut /\ Progress

\* The inductive invariant.
IInv == TypeOK /\ (torn \/ InStep)

----------------------------------------------------------------------------
(* What the client sends *)

\* Every set of numbers has a least element.
LEMMA Least ==
  ASSUME NEW T \in SUBSET Nat, T # {}
  PROVE  \E x \in T : \A y \in T : x <= y
<1> DEFINE F == {1 .. k : k \in T}
           R == StrictSubsetOrdering(Nat)
<1>1. F \subseteq FiniteSubsetsOf(Nat) /\ F # {}
  <2>1. \A k \in T : IsFiniteSet(1 .. k) /\ 1 .. k \subseteq Nat
    BY FS_Interval
  <2> QED
    BY <2>1 DEF FiniteSubsetsOf
<1>2. \E m \in F : \A l \in F : ~ (<<l, m>> \in R)
  <2> HIDE DEF F, R
  <2>1. IsWellFoundedOn(R, FiniteSubsetsOf(Nat))
    BY FS_StrictSubsetOrderingWellFounded DEF R
  <2> QED
    BY <1>1, <2>1, WFMin
<1>3. PICK x \in T : \A y \in T : ~ (<<1 .. y, 1 .. x>> \in R)
  BY <1>2
<1>4. \A y \in T : y < x => 1 .. y \subseteq 1 .. x /\ x \in 1 .. x /\ x \notin 1 .. y
  OBVIOUS
<1>5. \A y \in T : y < x => <<1 .. y, 1 .. x>> \in R
  <2> SUFFICES ASSUME NEW y \in T, y < x PROVE <<1 .. y, 1 .. x>> \in R
    OBVIOUS
  <2>1. 1 .. y \in SUBSET Nat /\ 1 .. x \in SUBSET Nat
    OBVIOUS
  <2>2. 1 .. y \subseteq 1 .. x /\ 1 .. y # 1 .. x
    BY <1>4
  <2> QED
    BY <2>1, <2>2 DEF StrictSubsetOrdering
<1> HIDE DEF R
<1>6. \A y \in T : ~ (y < x)
  BY <1>3, <1>5
<1> QED
  BY <1>6

\* What the client sends is what the requests are, one after the other.
LEMMA BytesRecursion ==
  ASSUME sent \in Scripts
  PROVE  /\ Len(sent) \in Nat
         /\ Bytes[0] = << >>
         /\ \A i \in 1 .. Len(sent) : Bytes[i] = Bytes[i - 1] \o Encode(sent[i])
<1> DEFINE N == Len(sent)
           Step(g, i) == IF i = 0 THEN << >> ELSE g[i - 1] \o Encode(sent[i])
           Defined(n) == \E g : g = [i \in 0 .. n |-> Step(g, i)]
           T == {n \in 0 .. N : ~ Defined(n)}
<1>0. N \in Nat
  BY ScriptsAssumption
<1>1. T = {}
  <2> SUFFICES ASSUME T # {} PROVE FALSE
    OBVIOUS
  <2>1. PICK n \in T : \A m \in T : n <= m
    <3>1. T \in SUBSET Nat
      <4> HIDE DEF Defined
      <4> QED
        BY <1>0
    <3> HIDE DEF T
    <3> QED
      BY <3>1, Least
  <2>2. CASE n = 0
    <3> DEFINE g == [i \in 0 .. 0 |-> << >>]
    <3>1. g = [i \in 0 .. 0 |-> Step(g, i)]
      OBVIOUS
    <3> QED
      BY <2>1, <2>2, <3>1
  <2>3. CASE n # 0
    <3>1. n - 1 \in 0 .. N /\ n - 1 \notin T /\ n \in Nat /\ n \in 0 .. N
      <4> HIDE DEF Defined
      <4> QED
        BY <1>0, <2>1, <2>3
    <3>2. PICK g : g = [i \in 0 .. n - 1 |-> Step(g, i)]
      <4>1. Defined(n - 1)
        <5> HIDE DEF Defined
        <5> QED
          BY <3>1
      <4> QED
        BY <4>1
    <3> DEFINE h == [i \in 0 .. n |-> IF i = n THEN g[n - 1] \o Encode(sent[n]) ELSE g[i]]
    <3>3. ASSUME NEW i \in 0 .. n PROVE h[i] = Step(h, i)
      <4>1. CASE i = n
        <5>1. h[n - 1] = g[n - 1]
          BY <3>1
        <5> QED
          BY <2>3, <4>1, <5>1
      <4>2. CASE i # n
        <5>1. i \in 0 .. n - 1
          BY <3>1, <4>2
        <5>2. g[i] = Step(g, i)
          BY <3>2, <5>1
        <5>3. i # 0 => i - 1 \in 0 .. n /\ i - 1 # n
          BY <3>1, <5>1
        <5>4. i # 0 => h[i - 1] = g[i - 1]
          BY <5>3
        <5> QED
          BY <4>2, <5>2, <5>4
      <4> QED
        BY <4>1, <4>2
    <3>4. h = [i \in 0 .. n |-> Step(h, i)]
      BY <3>3
    <3> HIDE DEF h
    <3> QED
      BY <2>1, <3>1, <3>4
  <2> QED
    BY <2>2, <2>3
<1>2. \E g : g = [i \in 0 .. N |-> Step(g, i)]
  <2>1. Defined(N)
    <3> HIDE DEF Defined
    <3> QED
      BY <1>0, <1>1
  <2> QED
    BY <2>1
<1>3. Bytes = [i \in 0 .. N |-> Step(Bytes, i)]
  BY <1>2 DEF Bytes
<1> HIDE DEF N
<1>4. /\ Bytes[0] = << >>
      /\ \A i \in 1 .. N : Bytes[i] = Bytes[i - 1] \o Encode(sent[i])
  <2>1. \A i \in 0 .. N : Bytes[i] = Step(Bytes, i)
    BY <1>3
  <2>2. 0 \in 0 .. N /\ \A i \in 1 .. N : i \in 0 .. N /\ i # 0
    BY <1>0
  <2> QED
    BY <2>1, <2>2
<1> QED
  BY <1>0, <1>4 DEF N

\* u is s followed by t, symbol by symbol.
Joined(u, s, t) ==
    /\ u \in Seq(Symbols) /\ Len(s) \in Nat /\ Len(t) \in Nat /\ Len(u) = Len(s) + Len(t)
    /\ \A j \in 1 .. Len(s) : u[j] = s[j]
    /\ \A j \in 1 .. Len(t) : u[Len(s) + j] = t[j]

\* The symbols of a concatenation.
LEMMA Concat ==
  ASSUME NEW s \in Seq(Symbols), NEW t \in Seq(Symbols)
  PROVE  Joined(s \o t, s, t)
BY DEF Joined

\* E consists of the parts of a request, symbol by symbol.
SixParts(E, l, o, c, b) ==
    /\ E \in Seq(Symbols) /\ Len(E) = Len(l) + 2 + Len(o) + Len(c) + 2 + Len(b)
    /\ \A j \in 1 .. Len(l) : E[j] = l[j]
    /\ E[Len(l) + 1] = CR /\ E[Len(l) + 2] = LF
    /\ \A j \in 1 .. Len(o) : E[Len(l) + 2 + j] = o[j]
    /\ \A j \in 1 .. Len(c) : E[Len(l) + 2 + Len(o) + j] = c[j]
    /\ E[Len(l) + 2 + Len(o) + Len(c) + 1] = CR
    /\ E[Len(l) + 2 + Len(o) + Len(c) + 2] = LF
    /\ \A j \in 1 .. Len(b) : E[Len(l) + 2 + Len(o) + Len(c) + 2 + j] = b[j]

\* A request, put together from its parts.
SixPartText(l, o, c, b) == l \o CRLF \o o \o c \o CRLF \o b

\* The symbols of a text in six parts.
LEMMA SixPartsLayout ==
  ASSUME NEW l \in Seq(Symbols), NEW o \in Seq(Symbols), NEW c \in Seq(Symbols),
         NEW b \in Seq(Symbols)
  PROVE  SixParts(SixPartText(l, o, c, b), l, o, c, b)
<1> DEFINE s1 == l \o CRLF
           s2 == s1 \o o
           s3 == s2 \o c
           s4 == s3 \o CRLF
           s5 == s4 \o b
<1>0. Len(l) \in Nat /\ Len(o) \in Nat /\ Len(c) \in Nat /\ Len(b) \in Nat
  OBVIOUS
<1>1. CRLF \in Seq(Symbols) /\ Len(CRLF) = 2 /\ CRLF[1] = CR /\ CRLF[2] = LF
  BY SymbolsAssumption DEF CRLF
<1>2. /\ s1 \in Seq(Symbols) /\ Len(s1) = Len(l) + 2
      /\ \A j \in 1 .. Len(l) : s1[j] = l[j]
      /\ \A j \in 1 .. 2 : s1[Len(l) + j] = CRLF[j]
  <2>1. Joined(s1, l, CRLF)
    BY <1>1, Concat
  <2> HIDE DEF s1
  <2> QED
    BY <1>1, <2>1 DEF Joined
<1> HIDE DEF s1
<1>3. /\ s2 \in Seq(Symbols) /\ Len(s2) = Len(l) + 2 + Len(o)
      /\ \A j \in 1 .. Len(l) + 2 : s2[j] = s1[j]
      /\ \A j \in 1 .. Len(o) : s2[Len(l) + 2 + j] = o[j]
  <2>1. Joined(s2, s1, o)
    BY <1>2, Concat
  <2> HIDE DEF s2
  <2> QED
    BY <1>2, <2>1 DEF Joined
<1> HIDE DEF s2
<1>4. /\ s3 \in Seq(Symbols) /\ Len(s3) = Len(l) + 2 + Len(o) + Len(c)
      /\ \A j \in 1 .. Len(l) + 2 + Len(o) : s3[j] = s2[j]
      /\ \A j \in 1 .. Len(c) : s3[Len(l) + 2 + Len(o) + j] = c[j]
  <2>1. Joined(s3, s2, c)
    BY <1>3, Concat
  <2> HIDE DEF s3
  <2> QED
    BY <1>3, <2>1 DEF Joined
<1> HIDE DEF s3
<1>5. /\ s4 \in Seq(Symbols) /\ Len(s4) = Len(l) + 2 + Len(o) + Len(c) + 2
      /\ \A j \in 1 .. Len(l) + 2 + Len(o) + Len(c) : s4[j] = s3[j]
      /\ \A j \in 1 .. 2 : s4[Len(l) + 2 + Len(o) + Len(c) + j] = CRLF[j]
  <2>1. Joined(s4, s3, CRLF)
    BY <1>1, <1>4, Concat
  <2> HIDE DEF s4
  <2> QED
    BY <1>1, <1>4, <2>1 DEF Joined
<1> HIDE DEF s4
<1>6. /\ s5 \in Seq(Symbols) /\ Len(s5) = Len(l) + 2 + Len(o) + Len(c) + 2 + Len(b)
      /\ \A j \in 1 .. Len(l) + 2 + Len(o) + Len(c) + 2 : s5[j] = s4[j]
      /\ \A j \in 1 .. Len(b) : s5[Len(l) + 2 + Len(o) + Len(c) + 2 + j] = b[j]
  <2>1. Joined(s5, s4, b)
    BY <1>5, Concat
  <2> HIDE DEF s5
  <2> QED
    BY <1>5, <2>1 DEF Joined
<1> HIDE DEF s5
<1>7. SixPartText(l, o, c, b) = s5
  BY DEF SixPartText, s5, s4, s3, s2, s1
<1>8. \A j \in 1 .. Len(l) + 2 : s5[j] = s1[j]
  BY <1>0, <1>3, <1>4, <1>5, <1>6, SMTT(30)
<1>9. \A j \in 1 .. Len(o) : s5[Len(l) + 2 + j] = o[j]
  <2>1. \A j \in 1 .. Len(o) : /\ Len(l) + 2 + j \in 1 .. Len(l) + 2 + Len(o)
                               /\ Len(l) + 2 + j \in 1 .. Len(l) + 2 + Len(o) + Len(c)
                               /\ Len(l) + 2 + j \in 1 .. Len(l) + 2 + Len(o) + Len(c) + 2
    BY <1>0
  <2> QED
    BY <1>3, <1>4, <1>5, <1>6, <2>1, SMTT(30)
<1>10. \A j \in 1 .. Len(c) : s5[Len(l) + 2 + Len(o) + j] = c[j]
  <2>1. \A j \in 1 .. Len(c) :
           /\ Len(l) + 2 + Len(o) + j \in 1 .. Len(l) + 2 + Len(o) + Len(c)
           /\ Len(l) + 2 + Len(o) + j \in 1 .. Len(l) + 2 + Len(o) + Len(c) + 2
    BY <1>0
  <2> QED
    BY <1>4, <1>5, <1>6, <2>1
<1>11. \A j \in 1 .. 2 : s5[Len(l) + 2 + Len(o) + Len(c) + j] = CRLF[j]
  <2>1. \A j \in 1 .. 2 : Len(l) + 2 + Len(o) + Len(c) + j \in 1 .. Len(l) + 2 + Len(o) + Len(c) + 2
    BY <1>0
  <2> QED
    BY <1>5, <1>6, <2>1
<1>12. /\ \A j \in 1 .. Len(l) : s5[j] = l[j]
       /\ s5[Len(l) + 1] = CR /\ s5[Len(l) + 2] = LF
  BY <1>0, <1>1, <1>2, <1>8
<1>13. /\ s5[Len(l) + 2 + Len(o) + Len(c) + 1] = CR
       /\ s5[Len(l) + 2 + Len(o) + Len(c) + 2] = LF
  BY <1>1, <1>11
<1> QED
  BY <1>6, <1>7, <1>9, <1>10, <1>12, <1>13 DEF SixParts

\* The symbols of a request, one by one.
LEMMA EncodeLayout ==
  ASSUME NEW r, WellFormed(r)
  PROVE  /\ Encode(r) \in Seq(Symbols) /\ Len(Encode(r)) = HeadSize(r) + Len(r.body)
         /\ \A j \in 1 .. Len(r.line) : Encode(r)[j] = r.line[j]
         /\ Encode(r)[Len(r.line) + 1] = CR /\ Encode(r)[Len(r.line) + 2] = LF
         /\ \A j \in 1 .. Len(r.other) : Encode(r)[Len(r.line) + 2 + j] = r.other[j]
         /\ r.body # << >> => /\ Encode(r)[Len(r.line) + 2 + Len(r.other) + 1] = "L"
                              /\ Encode(r)[Len(r.line) + 2 + Len(r.other) + 2] = Digit[Len(r.body)]
                              /\ Encode(r)[Len(r.line) + 2 + Len(r.other) + 3] = CR
                              /\ Encode(r)[Len(r.line) + 2 + Len(r.other) + 4] = LF
         /\ Encode(r)[BlockSize(r) + 1] = CR /\ Encode(r)[BlockSize(r) + 2] = LF
         /\ \A j \in 1 .. Len(r.body) : Encode(r)[HeadSize(r) + j] = r.body[j]
<1> DEFINE l == r.line
           o == r.other
           b == r.body
           c == IF b = << >> THEN << >> ELSE <<"L", Digit[Len(b)]>> \o CRLF
<1>1. l \in Seq(Symbols) /\ o \in Seq(Symbols) /\ b \in Seq(Symbols) /\ Len(b) <= 4
  BY DEF WellFormed, Request, Digit
<1> HIDE DEF l, o, b
<1>2. Len(l) \in Nat /\ Len(o) \in Nat /\ Len(b) \in Nat /\ (b # << >> => Len(b) \in 1 .. 4)
  <2>1. Len(b) \in Nat /\ (b # << >> => Len(b) # 0)
    BY <1>1, EmptySeq
  <2>2. \A k \in Nat : k <= 4 /\ k # 0 => k \in 1 .. 4
    OBVIOUS
  <2>3. Len(l) \in Nat /\ Len(o) \in Nat
    BY <1>1
  <2> QED
    BY <1>1, <2>1, <2>2, <2>3
<1>3. b # << >> => Digit[Len(b)] \in Symbols
  <2>1. DOMAIN Digit = 1 .. 4
    BY DEF Digit
  <2> QED
    BY <1>2, <2>1, SymbolsAssumption
<1>4. /\ b = << >> => c = << >> /\ Len(c) = 0
      /\ b # << >> => /\ Len(c) = 4 /\ c[1] = "L" /\ c[2] = Digit[Len(b)]
                      /\ c[3] = CR /\ c[4] = LF
      /\ c \in Seq(Symbols)
  <2>1. CASE b = << >>
    BY <2>1
  <2>2. CASE b # << >>
    <3> DEFINE d == Digit[Len(b)]
    <3>1. d \in Symbols /\ c = <<"L", d>> \o <<CR, LF>>
      BY <1>3, <2>2 DEF CRLF
    <3>2. CR \in Symbols /\ LF \in Symbols /\ "L" \in Symbols
      BY SymbolsAssumption
    <3> HIDE DEF d, c
    <3>3. c \in Seq(Symbols) /\ Len(c) = 4 /\ c[1] = "L" /\ c[2] = d /\ c[3] = CR /\ c[4] = LF
      BY <3>1, <3>2
    <3> QED
      BY <2>2, <3>3 DEF d
  <2> QED
    BY <2>1, <2>2
<1> HIDE DEF c
<1> DEFINE E == SixPartText(l, o, c, b)
<1>5. Encode(r) = E
  BY DEF Encode, SixPartText, l, o, b, c
<1>6. /\ BlockSize(r) = Len(l) + 2 + Len(o) + Len(c)
      /\ HeadSize(r) = Len(l) + 2 + Len(o) + Len(c) + 2
  BY <1>2, <1>4 DEF BlockSize, HeadSize, l, o, b
<1> HIDE DEF E
<1>7. /\ E \in Seq(Symbols) /\ Len(E) = Len(l) + 2 + Len(o) + Len(c) + 2 + Len(b)
      /\ \A j \in 1 .. Len(l) : E[j] = l[j]
      /\ E[Len(l) + 1] = CR /\ E[Len(l) + 2] = LF
      /\ \A j \in 1 .. Len(o) : E[Len(l) + 2 + j] = o[j]
      /\ \A j \in 1 .. Len(c) : E[Len(l) + 2 + Len(o) + j] = c[j]
      /\ E[Len(l) + 2 + Len(o) + Len(c) + 1] = CR
      /\ E[Len(l) + 2 + Len(o) + Len(c) + 2] = LF
      /\ \A j \in 1 .. Len(b) : E[Len(l) + 2 + Len(o) + Len(c) + 2 + j] = b[j]
  <2>1. SixParts(E, l, o, c, b)
    BY <1>1, <1>4, SixPartsLayout DEF E
  <2> QED
    BY <2>1 DEF SixParts
<1>8. b # << >> => /\ E[Len(l) + 2 + Len(o) + 1] = "L"
                   /\ E[Len(l) + 2 + Len(o) + 2] = Digit[Len(b)]
                   /\ E[Len(l) + 2 + Len(o) + 3] = CR
                   /\ E[Len(l) + 2 + Len(o) + 4] = LF
  <2> SUFFICES ASSUME b # << >>
               PROVE  /\ E[Len(l) + 2 + Len(o) + 1] = c[1] /\ E[Len(l) + 2 + Len(o) + 2] = c[2]
                      /\ E[Len(l) + 2 + Len(o) + 3] = c[3] /\ E[Len(l) + 2 + Len(o) + 4] = c[4]
    BY <1>4
  <2>1. Len(c) = 4
    BY <1>4
  <2> QED
    BY <1>7, <2>1
<1> QED
  BY <1>5, <1>6, <1>7, <1>8 DEF l, o, b

\* The bytes of each request are in Sent, after those of the requests before it.
LEMMA SentLayout ==
  ASSUME sent \in Scripts
  PROVE  /\ Len(sent) \in Nat /\ Sent \in Seq(Symbols) /\ Bytes[0] = << >>
         /\ \A i \in 0 .. Len(sent) : Len(Bytes[i]) \in Nat /\ Len(Bytes[i]) <= Len(Sent)
         /\ \A i \in 1 .. Len(sent) :
               /\ WellFormed(sent[i]) /\ Encode(sent[i]) \in Seq(Symbols)
               /\ Len(Bytes[i]) = Len(Bytes[i - 1]) + Len(Encode(sent[i]))
               /\ \A j \in 1 .. Len(Encode(sent[i])) :
                     Sent[Len(Bytes[i - 1]) + j] = Encode(sent[i])[j]
<1> DEFINE N == Len(sent)
           C(i) == Encode(sent[i])
           Text(i) == Bytes[i] \in Seq(Symbols)
           Prefix(i) == /\ Len(Bytes[i]) <= Len(Sent)
                        /\ \A j \in 1 .. Len(Bytes[i]) : Sent[j] = Bytes[i][j]
<1>1. N \in Nat /\ Bytes[0] = << >> /\ \A i \in 1 .. N : Bytes[i] = Bytes[i - 1] \o C(i)
  BY BytesRecursion
<1>2. ASSUME NEW i \in 1 .. N PROVE WellFormed(sent[i]) /\ C(i) \in Seq(Symbols)
  <2>1. sent \in Seq(Request) /\ \A k \in DOMAIN sent : WellFormed(sent[k])
    BY ScriptsAssumption
  <2>2. DOMAIN sent = 1 .. N
    BY <2>1
  <2>3. WellFormed(sent[i])
    BY <2>1, <2>2
  <2> QED
    BY <2>3, EncodeLayout
<1> HIDE DEF N, C
<1>3. \A i \in 0 .. N : Text(i)
  <2> DEFINE T == {k \in 0 .. N : ~ Text(k)}
  <2> SUFFICES ASSUME T # {} PROVE FALSE
    OBVIOUS
  <2>1. PICK k \in T : \A m \in T : k <= m
    <3>1. T \in SUBSET Nat
      <4> HIDE DEF Text
      <4> QED
        BY <1>1
    <3> HIDE DEF T
    <3> QED
      BY <3>1, Least
  <2> HIDE DEF Text
  <2>2. k # 0
    <3>1. Text(0)
      BY <1>1, EmptySeq DEF Text
    <3> QED
      BY <2>1, <3>1
  <2>3. k - 1 \in 0 .. N /\ k - 1 \notin T /\ k \in 1 .. N
    BY <1>1, <2>1, <2>2
  <2>4. Text(k - 1)
    BY <2>3
  <2>5. Text(k)
    <3>1. Bytes[k - 1] \in Seq(Symbols) /\ C(k) \in Seq(Symbols)
      BY <1>2, <2>3, <2>4 DEF Text
    <3>2. Joined(Bytes[k - 1] \o C(k), Bytes[k - 1], C(k))
      BY <3>1, Concat
    <3> QED
      BY <1>1, <2>3, <3>2 DEF Text, Joined
  <2> QED
    BY <2>1, <2>5
<1>4. ASSUME NEW i \in 1 .. N PROVE Joined(Bytes[i], Bytes[i - 1], C(i))
  <2>1. i - 1 \in 0 .. N
    BY <1>1
  <2>2. Bytes[i - 1] \in Seq(Symbols) /\ C(i) \in Seq(Symbols)
    BY <1>2, <1>3, <2>1
  <2>3. Joined(Bytes[i - 1] \o C(i), Bytes[i - 1], C(i))
    BY <2>2, Concat
  <2> QED
    BY <1>1, <2>3
<1>5. \A i \in 0 .. N : Len(Bytes[i]) \in Nat
  BY <1>3
<1>6. \A i \in 0 .. N : Prefix(i)
  <2> DEFINE T == {k \in 0 .. N : ~ Prefix(N - k)}
  <2>0. ASSUME T # {} PROVE FALSE
    <3>1. PICK k \in T : \A m \in T : k <= m
      <4>1. T \in SUBSET Nat
        <5> HIDE DEF Prefix
        <5> QED
          BY <1>1
      <4> HIDE DEF T
      <4> QED
        BY <2>0, <4>1, Least
    <3>2. k # 0
      <4>1. Prefix(N)
        BY <1>1, <1>5 DEF Sent, N
      <4>2. N - 0 = N
        BY <1>1
      <4> HIDE DEF Prefix
      <4> QED
        BY <3>1, <4>1, <4>2
    <3> HIDE DEF Prefix
    <3>3. k - 1 \in 0 .. N /\ k - 1 \notin T /\ k \in 1 .. N
      <4>1. k \in 0 .. N
        BY <3>1
      <4>2. k - 1 \in 0 .. N /\ k \in 1 .. N /\ ~ (k <= k - 1)
        BY <1>1, <3>2, <4>1
      <4> HIDE DEF T
      <4> QED
        BY <3>1, <4>2
    <3> DEFINE i == N - k
    <3>4. i \in 0 .. N /\ i + 1 \in 1 .. N /\ N - (k - 1) = i + 1 /\ (i + 1) - 1 = i
      BY <1>1, <3>3
    <3>5. Prefix(i + 1)
      BY <3>3, <3>4
    <3> HIDE DEF i
    <3>6. Joined(Bytes[i + 1], Bytes[i], C(i + 1))
      BY <1>4, <3>4
    <3>7. Len(Bytes[i]) \in Nat /\ Len(Bytes[i + 1]) \in Nat /\ Len(Sent) \in Nat
      <4>1. N \in 0 .. N /\ i + 1 \in 0 .. N
        BY <1>1, <3>4
      <4> QED
        BY <1>5, <3>4, <4>1 DEF Sent, N
    <3>8. Prefix(i)
      <4>1. Len(Bytes[i]) <= Len(Bytes[i + 1])
        <5>1. Len(C(i + 1)) \in Nat /\ Len(Bytes[i + 1]) = Len(Bytes[i]) + Len(C(i + 1))
          BY <3>6 DEF Joined
        <5>2. \A x, y, z \in Nat : z = x + y => x <= z
          OBVIOUS
        <5> QED
          BY <3>7, <5>1, <5>2
      <4>2. \A j \in 1 .. Len(Bytes[i]) : j \in 1 .. Len(Bytes[i + 1]) /\ Bytes[i + 1][j] = Bytes[i][j]
        <5>1. \A j \in 1 .. Len(Bytes[i]) : Bytes[i + 1][j] = Bytes[i][j]
          BY <3>6 DEF Joined
        <5>2. \A j \in 1 .. Len(Bytes[i]) : j \in 1 .. Len(Bytes[i + 1])
          BY <3>7, <4>1
        <5> QED
          BY <5>1, <5>2
      <4> QED
        BY <3>5, <3>7, <4>1, <4>2 DEF Prefix
    <3> QED
      BY <3>1, <3>8 DEF i
  <2> HIDE DEF Prefix
  <2>1. ASSUME NEW i \in 0 .. N PROVE Prefix(i)
    <3>1. N - i \in 0 .. N /\ N - (N - i) = i
      BY <1>1
    <3> QED
      BY <2>0, <3>1
  <2> QED
    BY <2>1
<1>7. Sent \in Seq(Symbols)
  BY <1>1, <1>3 DEF Sent, N
<1>8. ASSUME NEW i \in 1 .. N, NEW j \in 1 .. Len(C(i))
      PROVE  Sent[Len(Bytes[i - 1]) + j] = C(i)[j]
  <2>1. Len(C(i)) \in Nat /\ Len(Bytes[i - 1]) \in Nat /\ i \in 0 .. N
    BY <1>1, <1>4 DEF Joined
  <2>2. /\ Len(Bytes[i - 1]) + j \in 1 .. Len(Bytes[i])
        /\ Bytes[i][Len(Bytes[i - 1]) + j] = C(i)[j]
    BY <1>4, <2>1 DEF Joined
  <2> QED
    BY <1>6, <2>1, <2>2
<1>9. /\ \A i \in 0 .. N : Len(Bytes[i]) \in Nat /\ Len(Bytes[i]) <= Len(Sent)
      /\ \A i \in 1 .. N : Len(Bytes[i]) = Len(Bytes[i - 1]) + Len(C(i))
  BY <1>4, <1>5, <1>6 DEF Joined
<1> QED
  BY <1>1, <1>2, <1>7, <1>8, <1>9 DEF N, C

----------------------------------------------------------------------------
(* What operator>> finds in inbuf *)

\* The first place where something is found.
LEMMA MinLeast ==
  ASSUME NEW I \in SUBSET Nat, I # {}
  PROVE  Min(I) \in I /\ \A i \in I : Min(I) <= i
BY Least DEF Min

\* getline returns what is before the first CR, or everything.
LEMMA LineLengthFacts ==
  ASSUME inbuf \in Seq(Symbols)
  PROVE  /\ LineLength \in 0 .. Len(inbuf)
         /\ \A j \in 1 .. LineLength : inbuf[j] # CR
         /\ LineLength < Len(inbuf) => inbuf[LineLength + 1] = CR
<1> DEFINE I == {i \in 1 .. Len(inbuf) : inbuf[i] = CR}
<1>0. Len(inbuf) \in Nat
  OBVIOUS
<1>1. LineLength = IF I # {} THEN Min(I) - 1 ELSE Len(inbuf)
  BY DEF LineLength, Contains, SelectInSeq
<1>2. CASE I = {}
  BY <1>0, <1>1, <1>2
<1>3. CASE I # {}
  <2>1. I \in SUBSET Nat
    OBVIOUS
  <2>2. Min(I) \in I /\ \A i \in I : Min(I) <= i
    <3> HIDE DEF I
    <3> QED
      BY <1>3, <2>1, MinLeast
  <2> DEFINE m == Min(I)
  <2>3. LineLength = m - 1 /\ m \in 1 .. Len(inbuf) /\ inbuf[m] = CR
    BY <1>1, <1>3, <2>2
  <2>4. \A j \in 1 .. m - 1 : j \in 1 .. Len(inbuf) /\ j \notin I
    BY <1>0, <2>2, <2>3
  <2> HIDE DEF m
  <2>5. \A j \in 1 .. m - 1 : inbuf[j] # CR
    BY <2>4
  <2>6. m - 1 \in 0 .. Len(inbuf) /\ (m - 1) + 1 = m
    BY <1>0, <2>3
  <2> QED
    BY <2>3, <2>5, <2>6
<1> QED
  BY <1>2, <1>3

\* A header name is a part of its line, and all of it if the line starts with it.
LEMMA HeaderNameFacts ==
  ASSUME NEW line \in Seq(Symbols)
  PROVE  /\ HeaderName(line) \in Seq(Symbols)
         /\ Len(line) > 0 /\ line[1] # LF => HeaderName(line) = line
<1> DEFINE I == {i \in 1 .. Len(line) : line[i] # LF}
           start == IF I # {} THEN Min(I) ELSE 0
<1>0. Len(line) \in Nat
  OBVIOUS
<1>1. HeaderName(line) = IF start = 0 THEN << >> ELSE SubSeq(line, start, Len(line))
  BY DEF HeaderName, SelectInSeq
<1>2. I # {} => /\ start \in 1 .. Len(line) /\ start \in Nat
                /\ \A i \in I : start <= i
  <2>1. I \in SUBSET Nat
    OBVIOUS
  <2>2. I # {} => Min(I) \in I /\ \A i \in I : Min(I) <= i
    <3> HIDE DEF I
    <3> QED
      BY <2>1, MinLeast
  <2> QED
    BY <2>2
<1>3. I = {} => start = 0
  OBVIOUS
<1>4. Len(line) > 0 /\ line[1] # LF => 1 \in I
  BY <1>0
<1> HIDE DEF start
<1>5. HeaderName(line) \in Seq(Symbols)
  <2>1. CASE I = {}
    BY <1>1, <1>3, <2>1, EmptySeq
  <2>2. CASE I # {}
    <3>1. start # 0 /\ start \in 1 .. Len(line)
      BY <1>2, <2>2
    <3> QED
      BY <1>1, <3>1
  <2> QED
    BY <2>1, <2>2
<1>6. ASSUME Len(line) > 0, line[1] # LF PROVE HeaderName(line) = line
  <2>1. start = 1
    BY <1>2, <1>4, <1>6
  <2>2. SubSeq(line, 1, Len(line)) = line
    OBVIOUS
  <2> QED
    BY <1>1, <2>1, <2>2
<1> QED
  BY <1>5, <1>6

\* The number a digit stands for.
LEMMA ContentLengthFacts ==
  /\ ContentLength \in 0 .. 4
  /\ \A k \in 1 .. 4 :
        Len(inhdrs.content) = 2 /\ inhdrs.content[2] = Digit[k] => ContentLength = k
<1> DEFINE d == inhdrs.content[2]
           I == {i \in 1 .. Len(Digit) : Digit[i] = d}
<1>0. Len(Digit) = 4
  BY DEF Digit
<1>1. ContentLength = IF Len(inhdrs.content) < 2 THEN 0 ELSE IF I # {} THEN Min(I) ELSE 0
  BY DEF ContentLength, SelectInSeq
<1>2. I # {} => Min(I) \in I
  <2>1. I \in SUBSET Nat
    BY <1>0
  <2> HIDE DEF I
  <2> QED
    BY <2>1, MinLeast
<1>3. \A j, k \in 1 .. 4 : Digit[j] = Digit[k] => j = k
  BY DEF Digit
<1>4. I # {} => Min(I) \in 1 .. 4 /\ Digit[Min(I)] = d
  BY <1>0, <1>2
<1>5. \A k \in 1 .. 4 : d = Digit[k] => k \in I
  BY <1>0
<1> HIDE DEF I, d
<1>6. ContentLength \in 0 .. 4
  BY <1>1, <1>4
<1>7. ASSUME NEW k \in 1 .. 4, Len(inhdrs.content) = 2, d = Digit[k] PROVE ContentLength = k
  <2>1. I # {} /\ Min(I) = k
    BY <1>3, <1>4, <1>5, <1>7
  <2> QED
    BY <1>1, <1>7, <2>1
<1> QED
  BY <1>6, <1>7 DEF d

\* The first n symbols of a text, and the rest.
LEMMA Split ==
  ASSUME NEW s \in Seq(Symbols), NEW n \in 0 .. Len(s)
  PROVE  /\ SubSeq(s, 1, n) \in Seq(Symbols) /\ Len(SubSeq(s, 1, n)) = n
         /\ \A j \in 1 .. n : SubSeq(s, 1, n)[j] = s[j]
         /\ SubSeq(s, n + 1, Len(s)) \in Seq(Symbols)
         /\ Len(SubSeq(s, n + 1, Len(s))) = Len(s) - n
         /\ \A j \in 1 .. Len(s) - n : SubSeq(s, n + 1, Len(s))[j] = s[n + j]
<1>1. Len(s) \in Nat /\ \A i \in 1 .. Len(s) : s[i] \in Symbols
  OBVIOUS
<1>2. /\ SubSeq(s, 1, n) \in Seq(Symbols) /\ Len(SubSeq(s, 1, n)) = n
      /\ \A j \in 1 .. n : SubSeq(s, 1, n)[j] = s[j]
  OBVIOUS
<1>3. /\ SubSeq(s, n + 1, Len(s)) \in Seq(Symbols)
      /\ Len(SubSeq(s, n + 1, Len(s))) = Len(s) - n
  BY <1>1
<1>4. \A j \in 1 .. Len(s) - n : SubSeq(s, n + 1, Len(s))[j] = s[n + j]
  BY <1>1
<1> QED
  BY <1>2, <1>3, <1>4

\* What is kept of a line.
LEMMA KeepType ==
  ASSUME TypeOK, NEW line \in Seq(Symbols)
  PROVE  Keep(line) \in [reqln : Seq(Symbols), content : Seq(Symbols)]
<1>1. HeaderName(line) \in Seq(Symbols)
  BY HeaderNameFacts
<1> QED
  BY <1>1 DEF Keep, TypeOK

\* The server starts with no headers and nothing read.
LEMMA InitTypes == Init => TypeOK
<1> SUFFICES ASSUME Init PROVE TypeOK
  OBVIOUS
<1>1. << >> \in Seq(Symbols) /\ << >> \in Seq([reqln : Seq(Symbols), body : Seq(Symbols)])
  BY EmptySeq
<1>2. wire \in Seq(Symbols)
  BY SentLayout DEF Init, Sent
<1>3. inhdrs \in [reqln : Seq(Symbols), content : Seq(Symbols)]
  BY <1>1 DEF Init, NoHeaders
<1>4. /\ sent \in Scripts /\ inbuf \in Seq(Symbols) /\ inbody \in Seq(Symbols)
      /\ got \in Seq([reqln : Seq(Symbols), body : Seq(Symbols)])
  BY <1>1 DEF Init
<1>5. inbody_sz \in 0 .. SizeMod - 1
  BY SizesAssumption DEF Init
<1>6. /\ pc \in {"read", "pipeline", "line", "headers", "body", "prepare", "write"}
      /\ crashed \in BOOLEAN /\ torn \in BOOLEAN
  BY DEF Init
<1> QED
  BY <1>2, <1>3, <1>4, <1>5, <1>6 DEF TypeOK

\* A step keeps every variable in its type.
LEMMA StepTypes == TypeOK /\ [Next]_vars => TypeOK'
<1> SUFFICES ASSUME TypeOK, [Next]_vars PROVE TypeOK'
  OBVIOUS
<1>0. << >> \in Seq(Symbols) /\ inbuf \in Seq(Symbols) /\ wire \in Seq(Symbols)
  BY EmptySeq DEF TypeOK
<1>1. ASSUME NEW n \in 0 .. Len(wire), ReadHeaders(n) PROVE TypeOK'
  <2>1. Piece(n) \in Seq(Symbols) /\ Rest(n) \in Seq(Symbols)
    BY <1>0, Split DEF Piece, Rest
  <2>2. inbuf \o Piece(n) \in Seq(Symbols)
    BY <1>0, <2>1, Concat DEF Joined
  <2>3. torn' \in BOOLEAN
    BY <1>1 DEF ReadHeaders
  <2> QED
    BY <1>1, <2>1, <2>2, <2>3 DEF ReadHeaders, TypeOK
<1>2. ASSUME NEW n \in 0 .. Len(wire), ReadBody(n) PROVE TypeOK'
  <2>1. Piece(n) \in Seq(Symbols) /\ Rest(n) \in Seq(Symbols)
    BY <1>0, Split DEF Piece, Rest
  <2>2. inbody \o Piece(n) \in Seq(Symbols)
    BY <2>1, Concat DEF Joined, TypeOK
  <2>3. torn' \in BOOLEAN
    BY <1>2 DEF ReadBody
  <2>4. Missing(n) \in 0 .. SizeMod - 1
    <3>1. inbody_sz - n \in Int
      BY <1>0 DEF TypeOK
    <3> QED
      BY <3>1, SizesAssumption DEF Missing
  <2> QED
    BY <1>2, <2>1, <2>2, <2>3, <2>4 DEF ReadBody, TypeOK
<1>3. CASE HeaderLine
  <2>1. LineLength \in 0 .. Len(inbuf) /\ LineLength + 2 \in 0 .. Len(inbuf)
    BY <1>0, <1>3, LineLengthFacts DEF HeaderLine, Terminated
  <2>2. SubSeq(inbuf, 1, LineLength) \in Seq(Symbols) /\ Extracted(LineLength + 2) \in Seq(Symbols)
    BY <1>0, <2>1, Split DEF Extracted
  <2>3. Keep(SubSeq(inbuf, 1, LineLength)) \in [reqln : Seq(Symbols), content : Seq(Symbols)]
    BY <2>2, KeepType
  <2> QED
    BY <1>3, <2>2, <2>3 DEF HeaderLine, TypeOK
<1>4. CASE EmptyLine
  <2>1. 2 \in 0 .. Len(inbuf)
    BY <1>0, <1>4, LineLengthFacts DEF EmptyLine, Terminated
  <2>2. Extracted(2) \in Seq(Symbols)
    BY <1>0, <2>1, Split DEF Extracted
  <2> QED
    BY <1>4, <2>2 DEF EmptyLine, TypeOK
<1>5. CASE Unfinished
  <2>1. SeekBack(LineLength) \in Seq(Symbols)
    <3>1. LineLength < Len(inbuf) => 1 \in 0 .. Len(inbuf)
      BY <1>0, LineLengthFacts
    <3>2. LineLength < Len(inbuf) => Extracted(1) \in Seq(Symbols)
      BY <1>0, <3>1, Split DEF Extracted
    <3> QED
      BY <1>0, <3>2 DEF SeekBack
  <2> QED
    BY <1>5, <2>1 DEF Unfinished, TypeOK
<1>6. CASE LineTooLong \/ BodyTooLarge \/ CbufOverrun
  BY <1>6 DEF LineTooLong, BodyTooLarge, CbufOverrun, TypeOK
<1>7. CASE HeadersDone
  <2>1. /\ ContentLength \in 0 .. MaxBody /\ Len(inbuf) \in Nat
        /\ nread \in 0 .. Len(inbuf) /\ ContentLength - nread \in 0 .. SizeMod - 1
    BY <1>0, <1>7, ContentLengthFacts, SizesAssumption DEF HeadersDone, nread
  <2>2. SubSeq(inbuf, 1, nread) \in Seq(Symbols) /\ Extracted(nread) \in Seq(Symbols)
    BY <1>0, <2>1, Split DEF Extracted
  <2>3. inbody \o SubSeq(inbuf, 1, nread) \in Seq(Symbols)
    BY <2>2, Concat DEF Joined, TypeOK
  <2>4. /\ inbody' = inbody \o SubSeq(inbuf, 1, nread) /\ inbuf' = Extracted(nread)
        /\ inbody_sz' = ContentLength - nread /\ pc' \in {"prepare", "body"}
        /\ UNCHANGED <<sent, wire, inhdrs, got, crashed, torn>>
    BY <1>7 DEF HeadersDone
  <2> QED
    BY <2>1, <2>2, <2>3, <2>4 DEF TypeOK
<1>8. CASE Prepare
  <2>1. [reqln |-> inhdrs.reqln, body |-> inbody] \in [reqln : Seq(Symbols), body : Seq(Symbols)]
    BY DEF TypeOK
  <2>2. got' \in Seq([reqln : Seq(Symbols), body : Seq(Symbols)])
    BY <1>8, <2>1 DEF Prepare, TypeOK
  <2> QED
    BY <1>8, <2>2 DEF Prepare, TypeOK
<1>9. CASE Reset
  <2>1. NoHeaders \in [reqln : Seq(Symbols), content : Seq(Symbols)]
    BY <1>0 DEF NoHeaders
  <2>2. pc' \in {"read", "pipeline"} /\ 0 \in 0 .. SizeMod - 1
    BY <1>9, SizesAssumption DEF Reset
  <2> QED
    BY <1>0, <1>9, <2>1, <2>2 DEF Reset, Kept, TypeOK
<1>10. CASE UNCHANGED vars
  BY <1>10 DEF vars, TypeOK
<1> QED
  BY <1>1, <1>2, <1>3, <1>4, <1>5, <1>6, <1>7, <1>8, <1>9, <1>10 DEF Next

\* Whatever the client sends and wherever it is cut, the buffers hold symbols and
\* the number of bytes missing of a body stays in the range of its type.
THEOREM TypeCorrect == Spec => []TypeOK
BY InitTypes, StepTypes, PTL DEF Spec

----------------------------------------------------------------------------
(* Where the lines of the current request are *)

\* Where the request being read begins in Sent.
Start == Len(Bytes[Len(got)])

\* A line of n symbols begins after the first p symbols of Sent.
LineAt(p, n) ==
    /\ n \in Nat /\ p + n + 2 <= Len(Sent)
    /\ \A j \in 1 .. n : Sent[p + j] # CR
    /\ Sent[p + n + 1] = CR /\ Sent[p + n + 2] = LF

\* The part of Sent that is the current request.
LEMMA CurrentRequest ==
  ASSUME sent \in Scripts, Len(got) \in Nat, Len(got) < Len(sent)
  PROVE  /\ WellFormed(Current) /\ Start \in Nat /\ Len(Sent) \in Nat
         /\ Encode(Current) \in Seq(Symbols)
         /\ Len(Bytes[Len(got) + 1]) = Start + Len(Encode(Current))
         /\ Start + Len(Encode(Current)) <= Len(Sent)
         /\ \A j \in 1 .. Len(Encode(Current)) : Sent[Start + j] = Encode(Current)[j]
<1> DEFINE g == Len(got)
<1>0. Len(sent) \in Nat
  BY SentLayout
<1>1. g + 1 \in 1 .. Len(sent) /\ g \in 0 .. Len(sent) /\ g + 1 \in 0 .. Len(sent) /\ (g + 1) - 1 = g
  BY <1>0
<1> HIDE DEF g
<1>2. /\ WellFormed(sent[g + 1]) /\ Len(Bytes[g]) \in Nat /\ Len(Sent) \in Nat
      /\ Encode(sent[g + 1]) \in Seq(Symbols)
      /\ Len(Bytes[g + 1]) = Len(Bytes[g]) + Len(Encode(sent[g + 1]))
      /\ Len(Bytes[g + 1]) <= Len(Sent)
      /\ \A j \in 1 .. Len(Encode(sent[g + 1])) : Sent[Len(Bytes[g]) + j] = Encode(sent[g + 1])[j]
  <2>1. Len(Sent) \in Nat
    BY SentLayout
  <2> QED
    BY <1>1, <2>1, SentLayout
<1> QED
  BY <1>2 DEF g, Start, Current

\* The parts of a well-formed request, and where its header block ends.
LEMMA Sizes ==
  ASSUME NEW r, WellFormed(r)
  PROVE  /\ r.line \in Seq(Symbols) /\ r.other \in Seq(Symbols) /\ r.body \in Seq(Symbols)
         /\ Len(r.line) \in Nat \ {0} /\ Len(r.other) \in Nat /\ Len(r.body) \in 0 .. 4
         /\ BlockSize(r) \in Nat /\ HeadSize(r) \in Nat /\ HeadSize(r) = BlockSize(r) + 2
         /\ Len(r.line) + 2 + Len(r.other) <= BlockSize(r)
         /\ r.body = << >> => Len(r.body) = 0 /\ BlockSize(r) = Len(r.line) + 2 + Len(r.other)
         /\ r.body # << >> => Len(r.body) # 0 /\ BlockSize(r) = Len(r.line) + 2 + Len(r.other) + 4
         /\ \A j \in 1 .. Len(r.line) : r.line[j] # CR
         /\ LineStarts(r.other, Starts(r.other))
<1>1. r.line \in Seq(Symbols) /\ r.other \in Seq(Symbols) /\ r.body \in Seq(Symbols)
  BY DEF WellFormed, Request
<1>2. Len(r.line) \in Nat /\ Len(r.other) \in Nat /\ Len(r.body) \in Nat
  BY <1>1
<1>3. Len(r.line) # 0 /\ \A j \in 1 .. Len(r.line) : r.line[j] # CR
  BY <1>2 DEF WellFormed, Contains
<1>4. Len(r.body) <= 4
  BY DEF WellFormed, Digit
<1>5. LineStarts(r.other, Starts(r.other))
  BY DEF WellFormed, Starts
<1>6. (r.body = << >> => Len(r.body) = 0) /\ (r.body # << >> => Len(r.body) # 0)
  BY <1>1, EmptySeq
<1>7. /\ BlockSize(r) = Len(r.line) + 2 + Len(r.other) + (IF r.body = << >> THEN 0 ELSE 4)
      /\ HeadSize(r) = BlockSize(r) + 2
  BY DEF BlockSize, HeadSize
<1> DEFINE ll == Len(r.line)
           lo == Len(r.other)
           lb == Len(r.body)
           block == BlockSize(r)
<1>9. /\ r.body = << >> => block = ll + 2 + lo
      /\ r.body # << >> => block = ll + 2 + lo + 4
      /\ block \in Nat /\ ll + 2 + lo <= block /\ block + 2 \in Nat
  <2>1. /\ r.body = << >> => block = ll + 2 + lo + 0
        /\ r.body # << >> => block = ll + 2 + lo + 4
        /\ ll \in Nat /\ lo \in Nat
    BY <1>2, <1>7
  <2> HIDE DEF ll, lo, block
  <2>2. CASE r.body = << >>
    BY <2>1, <2>2
  <2>3. CASE r.body # << >>
    BY <2>1, <2>3
  <2> QED
    BY <2>2, <2>3
<1>10. \A x \in Nat : x <= 4 => x \in 0 .. 4
  OBVIOUS
<1> QED
  BY <1>1, <1>2, <1>3, <1>4, <1>5, <1>6, <1>7, <1>9, <1>10

\* The request line.
LEMMA RequestLine ==
  ASSUME sent \in Scripts, Len(got) \in Nat, Len(got) < Len(sent)
  PROVE  /\ LineAt(Start, Len(Current.line))
         /\ \A j \in 1 .. Len(Current.line) : Sent[Start + j] = Current.line[j]
<1> DEFINE r == Current
           E == Encode(r)
           ll == Len(r.line)
<1>1. /\ WellFormed(r) /\ Start \in Nat /\ Len(Sent) \in Nat /\ Start + Len(E) <= Len(Sent)
      /\ \A j \in 1 .. Len(E) : Sent[Start + j] = E[j]
  BY CurrentRequest
<1> HIDE DEF r
<1>2. /\ ll \in Nat /\ HeadSize(r) \in Nat /\ ll + 2 <= HeadSize(r) /\ Len(r.body) \in Nat
      /\ \A j \in 1 .. ll : r.line[j] # CR
  <2> DEFINE lo == Len(r.other)
             size == HeadSize(r)
  <2>1. /\ ll \in Nat \ {0} /\ lo \in Nat /\ size \in Nat
        /\ BlockSize(r) \in Nat /\ size = BlockSize(r) + 2 /\ Len(r.body) \in 0 .. 4
        /\ ll + 2 + lo <= BlockSize(r) /\ \A j \in 1 .. ll : r.line[j] # CR
    BY <1>1, Sizes
  <2> HIDE DEF ll, lo, size
  <2>2. ll + 2 <= size
    BY <2>1
  <2> QED
    BY <2>1, <2>2 DEF size
<1>3. /\ Len(E) = HeadSize(r) + Len(r.body)
      /\ \A j \in 1 .. ll : E[j] = r.line[j]
      /\ E[ll + 1] = CR /\ E[ll + 2] = LF
  BY <1>1, EncodeLayout
<1> HIDE DEF E
<1>4. Len(E) \in Nat /\ ll + 2 <= Len(E)
  BY <1>2, <1>3
<1> HIDE DEF ll
<1>5. \A j \in 1 .. ll + 2 : Sent[Start + j] = E[j]
  BY <1>1, <1>2, <1>4
<1>6. /\ \A j \in 1 .. ll : Sent[Start + j] = r.line[j]
      /\ Sent[Start + (ll + 1)] = CR /\ Sent[Start + (ll + 2)] = LF
  BY <1>2, <1>3, <1>5, SMTT(30)
<1>7. Start + (ll + 1) = Start + ll + 1 /\ Start + (ll + 2) = Start + ll + 2 /\ Start + ll + 2 <= Len(Sent)
  BY <1>1, <1>2, <1>4
<1>8. LineAt(Start, ll)
  BY <1>2, <1>6, <1>7 DEF LineAt
<1> QED
  BY <1>6, <1>8 DEF r, ll

NoBody(r) == r.body = << >>

\* Where the lines after the request line and the body of r are, if r begins at S, its
\* request line takes hl symbols, its other lines lo, its body lb and its lines bs.
Laid(r, S, hl, lo, lb, bs) ==
    /\ S \in Nat /\ hl \in Nat \ {0, 1, 2} /\ lo \in Nat /\ lb \in 0 .. 4 /\ bs \in Nat
    /\ HeadSize(r) = bs + 2 /\ Len(Sent) \in Nat
    /\ NoBody(r) => lb = 0 /\ bs = hl + lo
    /\ ~ NoBody(r) => lb # 0 /\ bs = hl + lo + 4
    /\ Len(Bytes[Len(got) + 1]) = S + bs + 2 + lb /\ S + bs + 2 + lb <= Len(Sent)
    /\ \A j \in 1 .. lo : Sent[S + hl + j] = r.other[j]
    /\ ~ NoBody(r) => /\ Sent[S + hl + lo + 1] = "L" /\ Sent[S + hl + lo + 2] = Digit[lb]
                      /\ Sent[S + hl + lo + 3] = CR /\ Sent[S + hl + lo + 4] = LF
    /\ Sent[S + bs + 1] = CR /\ Sent[S + bs + 2] = LF
    /\ \A j \in 1 .. lb : Sent[S + bs + 2 + j] = r.body[j]

\* The lines after the request line, and the body, of the current request.
LEMMA AfterRequestLine ==
  ASSUME sent \in Scripts, Len(got) \in Nat, Len(got) < Len(sent)
  PROVE  Laid(Current, Start, Len(Current.line) + 2, Len(Current.other), Len(Current.body),
              BlockSize(Current))
<1> DEFINE r == Current
           E == Encode(r)
           ll == Len(r.line)
           le == Len(E)
           empty == r.body = << >>
           end == Len(Bytes[Len(got) + 1])
           last == Len(Sent)
           S == Start
           hl == ll + 2
           lo == Len(r.other)
           lb == Len(r.body)
           bs == BlockSize(r)
           hs == HeadSize(r)
<1>1. /\ WellFormed(r) /\ S \in Nat /\ last \in Nat /\ S + le <= last /\ end = S + le
      /\ \A j \in 1 .. le : Sent[S + j] = E[j]
  BY CurrentRequest
<1> HIDE DEF r
<1>2. /\ ll \in Nat \ {0} /\ lo \in Nat /\ lb \in 0 .. 4 /\ bs \in Nat
      /\ hs = bs + 2 /\ hl = ll + 2
      /\ empty => lb = 0 /\ bs = hl + lo
      /\ ~ empty => lb # 0 /\ bs = hl + lo + 4
  BY <1>1, Sizes
<1>3. /\ le = hs + lb
      /\ \A j \in 1 .. lo : E[hl + j] = r.other[j]
      /\ ~ empty => /\ E[hl + lo + 1] = "L" /\ E[hl + lo + 2] = Digit[lb]
                    /\ E[hl + lo + 3] = CR /\ E[hl + lo + 4] = LF
      /\ E[bs + 1] = CR /\ E[bs + 2] = LF
      /\ \A j \in 1 .. lb : E[hs + j] = r.body[j]
  BY <1>1, EncodeLayout
<1> HIDE DEF E, ll, le, empty, end, last, S, hl, lo, lb, bs, hs
<1>4. hl \in Nat \ {0, 1, 2} /\ le = bs + 2 + lb /\ le \in Nat
  BY <1>2, <1>3
<1>5. \A j \in 1 .. lo : hl + j \in 1 .. le /\ S + (hl + j) = S + hl + j
  BY <1>1, <1>2, <1>4
<1>6. \A j \in 1 .. lb : bs + 2 + j \in 1 .. le /\ S + (bs + 2 + j) = S + bs + 2 + j
  BY <1>1, <1>2, <1>4
<1>7. \A j \in 1 .. 2 : bs + j \in 1 .. le /\ S + (bs + j) = S + bs + j
  BY <1>1, <1>2, <1>4
<1>8. ~ empty => \A j \in 1 .. 4 : hl + lo + j \in 1 .. le /\ S + (hl + lo + j) = S + hl + lo + j
  BY <1>1, <1>2, <1>4
<1>9. \A j \in 1 .. lo : Sent[S + hl + j] = r.other[j]
  BY <1>1, <1>3, <1>4, <1>5
<1>10. \A j \in 1 .. lb : Sent[S + bs + 2 + j] = r.body[j]
  <2>1. \A j \in 1 .. lb : E[bs + 2 + j] = r.body[j]
    BY <1>2, <1>3
  <2>2. \A j \in 1 .. lb : Sent[S + (bs + 2 + j)] = E[bs + 2 + j]
    BY <1>1, <1>6
  <2> QED
    BY <1>6, <2>1, <2>2
<1>11. Sent[S + bs + 1] = CR /\ Sent[S + bs + 2] = LF
  BY <1>1, <1>3, <1>7
<1>12. ~ empty => /\ Sent[S + hl + lo + 1] = "L" /\ Sent[S + hl + lo + 2] = Digit[lb]
                  /\ Sent[S + hl + lo + 3] = CR /\ Sent[S + hl + lo + 4] = LF
  <2> SUFFICES ASSUME ~ empty
               PROVE  \A j \in 1 .. 4 : Sent[S + hl + lo + j] = E[hl + lo + j]
    BY <1>3
  <2>1. \A j \in 1 .. 4 : Sent[S + (hl + lo + j)] = E[hl + lo + j]
    BY <1>1, <1>8
  <2> QED
    BY <1>8, <2>1
<1>13. end = S + bs + 2 + lb /\ S + bs + 2 + lb <= last
  BY <1>1, <1>2, <1>4
<1> QED
  BY <1>1, <1>2, <1>4, <1>9, <1>10, <1>11, <1>12, <1>13 DEF Laid, NoBody, r, empty, end, last, S, hl, ll, lo, lb, bs, hs

\* A line between the request line and Content-Length: it is neither of the two.
LEMMA OtherLine ==
  ASSUME NEW r, NEW S, NEW hl, NEW lb, NEW bs, WellFormed(r),
         Laid(r, S, hl, Len(r.other), lb, bs), NEW q \in Starts(r.other), q # Len(r.other)
  PROVE  \E n \in Nat \ {0} :
            /\ q + n + 2 \in Starts(r.other) /\ LineAt(S + hl + q, n)
            /\ Sent[S + hl + q + 1] \notin {"L", LF}
            /\ \A j \in 1 .. n : Sent[S + hl + q + j] # "v"
<1> DEFINE lo == Len(r.other)
           Q == Starts(r.other)
           o == r.other
           last == Len(Sent)
<1>1. Q \subseteq 0 .. lo /\ \E e \in q + 1 .. lo :
             /\ e + 2 \in Q /\ o[e + 1] = CR /\ o[e + 2] = LF
             /\ o[q + 1] \notin {"L", LF}
             /\ \A j \in q + 1 .. e : o[j] \notin {CR, "v"}
  <2>1. LineStarts(o, Q)
    BY Sizes
  <2> QED
    BY <2>1 DEF LineStarts
<1>2. PICK e \in q + 1 .. lo :
             /\ e + 2 \in Q /\ o[e + 1] = CR /\ o[e + 2] = LF
             /\ o[q + 1] \notin {"L", LF}
             /\ \A j \in q + 1 .. e : o[j] \notin {CR, "v"}
  BY <1>1
<1>3. /\ S \in Nat /\ hl \in Nat /\ lo \in Nat /\ lb \in Nat /\ bs \in Nat /\ last \in Nat
      /\ bs = hl + lo \/ bs = hl + lo + 4
      /\ S + bs + 2 + lb <= last
      /\ \A j \in 1 .. lo : Sent[S + hl + j] = o[j]
  <2>1. /\ S \in Nat /\ hl \in Nat \ {0, 1, 2} /\ lo \in Nat /\ lb \in 0 .. 4 /\ bs \in Nat
        /\ last \in Nat /\ S + bs + 2 + lb <= last
        /\ \A j \in 1 .. lo : Sent[S + hl + j] = o[j]
    BY DEF Laid
  <2>2. (NoBody(r) => bs = hl + lo) /\ (~ NoBody(r) => bs = hl + lo + 4)
    BY DEF Laid
  <2> HIDE DEF lo, last, o
  <2>3. bs = hl + lo \/ bs = hl + lo + 4
    BY <2>2
  <2>4. hl \in Nat /\ lb \in Nat
    BY <2>1
  <2> QED
    BY <2>1, <2>3, <2>4, Zenon
<1> DEFINE n == e - q
<1> HIDE DEF lo, Q, o, last
<1>4. q \in 0 .. lo /\ e \in q + 1 .. lo /\ e + 2 \in 0 .. lo
  BY <1>1, <1>2 DEF Q
<1>5. n \in Nat \ {0} /\ q + n + 2 = e + 2 /\ S + hl + q + n + 2 <= last
  BY <1>3, <1>4
<1>6. \A j \in 1 .. n : /\ q + j \in 1 .. lo /\ q + j \in q + 1 .. e
                        /\ S + hl + (q + j) = S + hl + q + j
  BY <1>3, <1>4
<1>7. /\ e + 1 \in 1 .. lo /\ e + 2 \in 1 .. lo /\ q + 1 \in 1 .. lo
      /\ S + hl + (e + 1) = S + hl + q + n + 1 /\ S + hl + (e + 2) = S + hl + q + n + 2
      /\ S + hl + (q + 1) = S + hl + q + 1
  BY <1>3, <1>4
<1> HIDE DEF n
<1>8. \A j \in 1 .. n : Sent[S + hl + q + j] = o[q + j]
  BY <1>3, <1>6
<1>9. \A j \in 1 .. n : Sent[S + hl + q + j] \notin {CR, "v"}
  BY <1>2, <1>6, <1>8
<1>10. Sent[S + hl + q + n + 1] = CR /\ Sent[S + hl + q + n + 2] = LF
  BY <1>2, <1>3, <1>7
<1>11. Sent[S + hl + q + 1] \notin {"L", LF}
  BY <1>2, <1>3, <1>7
<1>12. LineAt(S + hl + q, n)
  BY <1>5, <1>9, <1>10 DEF LineAt, last
<1>13. q + n + 2 \in Starts(r.other)
  BY <1>2, <1>5 DEF Q
<1> QED
  BY <1>5, <1>9, <1>11, <1>12, <1>13

\* Content-Length.
LEMMA LengthLine ==
  ASSUME NEW r, NEW S, NEW hl, NEW lo, NEW lb, NEW bs, Laid(r, S, hl, lo, lb, bs), ~ NoBody(r)
  PROVE  /\ LineAt(S + hl + lo, 2)
         /\ Sent[S + hl + lo + 1] = "L" /\ Sent[S + hl + lo + 2] = Digit[lb]
<1> DEFINE last == Len(Sent)
<1>0. /\ S \in Nat /\ hl \in Nat /\ lo \in Nat /\ lb \in 0 .. 4 /\ lb # 0
      /\ bs \in Nat /\ last \in Nat /\ bs = hl + lo + 4 /\ S + bs + 2 + lb <= last
  BY DEF Laid
<1>1. /\ Sent[S + hl + lo + 1] = "L" /\ Sent[S + hl + lo + 2] = Digit[lb]
      /\ Sent[S + hl + lo + 3] = CR /\ Sent[S + hl + lo + 4] = LF
  BY DEF Laid
<1> HIDE DEF last
<1>2. /\ S + hl + lo + 2 + 1 = S + hl + lo + 3 /\ S + hl + lo + 2 + 2 = S + hl + lo + 4
      /\ S + hl + lo + 2 + 2 <= last
  BY <1>0
<1>3. Digit[lb] # CR
  <2>1. \A k \in 1 .. 4 : Digit[k] # CR
    BY DEF Digit, CR
  <2>2. lb \in 1 .. 4
    BY <1>0
  <2> QED
    BY <2>1, <2>2
<1>4. \A j \in 1 .. 2 : Sent[S + hl + lo + j] # CR
  BY <1>1, <1>3 DEF CR
<1> QED
  BY <1>1, <1>2, <1>4 DEF LineAt, last

\* The empty line at the end of the headers.
LEMMA LastLine ==
  ASSUME NEW r, NEW S, NEW hl, NEW lo, NEW lb, NEW bs, Laid(r, S, hl, lo, lb, bs)
  PROVE  LineAt(S + bs, 0)
<1> DEFINE last == Len(Sent)
<1>1. /\ S \in Nat /\ lb \in 0 .. 4 /\ bs \in Nat /\ last \in Nat /\ S + bs + 2 + lb <= last
      /\ Sent[S + bs + 1] = CR /\ Sent[S + bs + 2] = LF
  BY DEF Laid
<1> HIDE DEF last
<1>2. S + bs + 0 + 2 <= last /\ S + bs + 0 + 1 = S + bs + 1 /\ S + bs + 0 + 2 = S + bs + 2
  BY <1>1
<1> QED
  BY <1>1, <1>2 DEF LineAt, last

----------------------------------------------------------------------------
(* What is in the buffer *)

\* What the client sends does not depend on what the server does.
LEMMA SentSame ==
  ASSUME UNCHANGED sent
  PROVE  Bytes' = Bytes /\ Sent' = Sent
BY DEF Bytes, Sent

\* A line is recognised if it is in inbuf with the CR and the LF that end it, and
\* all of inbuf is taken for an unfinished line if not.
LEMMA Buffered ==
  ASSUME TypeOK, Synced, Uncut, NEW n, LineAt(Pos, n)
  PROVE  /\ Terminated => LineLength = n /\ n + 2 <= Len(inbuf)
         /\ ~ Terminated => LineLength = Len(inbuf)
<1> DEFINE m == LineLength
           b == Len(inbuf)
           w == Len(wire)
           p == Pos
           last == Len(Sent)
<1>0. inbuf \in Seq(Symbols) /\ wire \in Seq(Symbols) /\ b \in Nat /\ w \in Nat /\ sent \in Scripts
  BY DEF TypeOK
<1>1. /\ m \in 0 .. b /\ \A j \in 1 .. m : inbuf[j] # CR
      /\ m < b => inbuf[m + 1] = CR
  BY <1>0, LineLengthFacts
<1>2. last \in Nat
  BY <1>0, SentLayout
<1>3. p = last - b - w /\ p \in Nat /\ \A i \in 1 .. b : inbuf[i] = Sent[p + i]
  BY DEF Synced, Pos
<1>4. /\ n \in Nat /\ p + n + 2 <= last /\ \A j \in 1 .. n : Sent[p + j] # CR
      /\ Sent[p + n + 1] = CR /\ Sent[p + n + 2] = LF
  BY DEF LineAt
<1>5. Terminated <=> m + 2 <= b /\ inbuf[m + 2] = LF
  BY DEF Terminated
<1>6. b > 0 /\ inbuf[b] = CR => w = 0
  <2>1. b > 0 => inbuf # << >>
    BY <1>0
  <2> QED
    BY <2>1, EmptySeq DEF Uncut
<1>7. p + n + 1 = p + (n + 1) /\ p + n + 2 = p + (n + 2)
  <2> HIDE DEF p
  <2> QED
    BY <1>3, <1>4
<1> HIDE DEF m, b, w, p, last
<1>8. CASE b <= n
  <2>1. \A j \in 1 .. b : inbuf[j] # CR
    <3>1. \A j \in 1 .. b : j \in 1 .. n
      BY <1>0, <1>4, <1>8
    <3> QED
      BY <1>3, <1>4, <3>1
  <2>2. m = b
    <3>1. m < b => m + 1 \in 1 .. b
      BY <1>0, <1>1
    <3> QED
      BY <1>0, <1>1, <2>1, <3>1
  <2>3. ~ Terminated
    BY <1>0, <1>5, <2>2
  <2> QED
    BY <2>2, <2>3 DEF m, b
<1>9. CASE b = n + 1
  <2>1. inbuf[b] = CR /\ b > 0
    BY <1>0, <1>3, <1>4, <1>7, <1>9, SMTT(30)
  <2>2. w = 0
    BY <1>6, <2>1
  <2> QED
    BY <1>0, <1>2, <1>3, <1>4, <1>9, <2>2
<1>10. CASE b >= n + 2
  <2>1. n + 1 \in 1 .. b /\ n + 2 \in 1 .. b
    BY <1>0, <1>4, <1>10
  <2>2. inbuf[n + 1] = CR /\ inbuf[n + 2] = LF
    BY <1>3, <1>4, <1>7, <2>1
  <2>3. ~ (m < n)
    <3>1. m < n => m + 1 \in 1 .. n /\ m + 1 \in 1 .. b /\ m < b
      BY <1>0, <1>1, <1>4, <1>10
    <3> QED
      BY <1>1, <1>3, <1>4, <3>1
  <2>4. ~ (m > n)
    <3>1. m > n => n + 1 \in 1 .. m
      BY <1>0, <1>1, <1>4
    <3> QED
      BY <1>1, <2>2, <3>1
  <2>5. m = n
    BY <1>0, <1>1, <1>4, <2>3, <2>4
  <2>6. Terminated /\ n + 2 <= b
    BY <1>5, <1>10, <2>2, <2>5, <1>0, <1>4
  <2> QED
    BY <2>5, <2>6 DEF m, b
<1> QED
  BY <1>0, <1>4, <1>8, <1>9, <1>10

\* Taking k symbols out of inbuf.
LEMMA Extraction ==
  ASSUME TypeOK, Synced, Uncut, NEW k \in 0 .. Len(inbuf), inbuf' = Extracted(k),
         UNCHANGED <<sent, wire>>
  PROVE  /\ Synced' /\ Uncut' /\ Pos' = Pos + k /\ Pos' \in Nat
         /\ Len(inbuf') = Len(inbuf) - k
<1> DEFINE b == Len(inbuf)
           w == Len(wire)
           p == Pos
           last == Len(Sent)
           b2 == Len(inbuf')
           p2 == Pos'
<1>0. inbuf \in Seq(Symbols) /\ wire \in Seq(Symbols) /\ b \in Nat /\ w \in Nat /\ sent \in Scripts
  BY DEF TypeOK
<1>1. /\ inbuf' \in Seq(Symbols) /\ b2 = b - k /\ \A j \in 1 .. b - k : inbuf'[j] = inbuf[k + j]
  BY <1>0, Split DEF Extracted
<1>2. Sent' = Sent /\ wire' = wire /\ last \in Nat
  BY <1>0, SentSame, SentLayout
<1>3. /\ p = last - b - w /\ p \in Nat /\ \A i \in 1 .. b : inbuf[i] = Sent[p + i]
      /\ \A i \in 1 .. w : wire[i] = Sent[p + b + i]
  BY DEF Synced, Pos
<1>4. p2 = last - b2 - w
  BY <1>2 DEF Pos
<1> HIDE DEF b, w, p, last, b2, p2
<1>5. p2 = p + k /\ p2 \in Nat /\ p2 + b2 = p + b
  BY <1>0, <1>1, <1>2, <1>3, <1>4 DEF b
<1>6. \A i \in 1 .. b2 : inbuf'[i] = Sent[p2 + i]
  <2>1. \A i \in 1 .. b2 : i \in 1 .. b - k /\ k + i \in 1 .. b /\ p + (k + i) = p2 + i
    BY <1>0, <1>1, <1>3, <1>5 DEF b
  <2> QED
    BY <1>1, <1>3, <2>1
<1>7. \A i \in 1 .. w : wire[i] = Sent[p2 + b2 + i]
  BY <1>3, <1>5
<1>8. Synced'
  BY <1>2, <1>5, <1>6, <1>7 DEF Synced, b2, p2, w
<1>9. Uncut'
  <2> SUFFICES ASSUME inbuf' # << >>, inbuf'[b2] = CR PROVE wire = << >>
    BY <1>2 DEF Uncut, b2
  <2>1. b2 \in 1 .. b2 /\ b > 0
    <3>1. b2 \in Nat \ {0}
      BY <1>1, EmptySeq DEF b2
    <3> QED
      BY <1>0, <1>1, <3>1 DEF b
  <2>2. b2 \in 1 .. b - k /\ k + b2 = b
    BY <1>0, <1>1, <2>1 DEF b
  <2>3. inbuf'[b2] = inbuf[b]
    BY <1>1, <2>2
  <2>4. inbuf # << >>
    BY <1>0, <2>1 DEF b
  <2> QED
    BY <2>3, <2>4 DEF Uncut, b
<1> QED
  BY <1>1, <1>5, <1>8, <1>9 DEF b, b2, p, p2

\* Moving n symbols from the wire to inbuf.
LEMMA Arrival ==
  ASSUME TypeOK, Synced, Uncut, NEW n \in 0 .. Len(wire), inbuf' = inbuf \o Piece(n),
         wire' = Rest(n), UNCHANGED sent, ~ InsideCRLF(n)
  PROVE  Synced' /\ Uncut' /\ Pos' = Pos
<1> DEFINE b == Len(inbuf)
           w == Len(wire)
           p == Pos
           last == Len(Sent)
           b2 == Len(inbuf')
           w2 == Len(wire')
           p2 == Pos'
<1>0. inbuf \in Seq(Symbols) /\ wire \in Seq(Symbols) /\ b \in Nat /\ w \in Nat /\ sent \in Scripts
  BY DEF TypeOK
<1>1. /\ Piece(n) \in Seq(Symbols) /\ Len(Piece(n)) = n
      /\ \A j \in 1 .. n : Piece(n)[j] = wire[j]
      /\ wire' \in Seq(Symbols) /\ w2 = w - n /\ \A j \in 1 .. w - n : wire'[j] = wire[n + j]
  BY <1>0, Split DEF Piece, Rest
<1>2. Sent' = Sent /\ last \in Nat
  BY <1>0, SentSame, SentLayout
<1>3. /\ p = last - b - w /\ p \in Nat /\ \A i \in 1 .. b : inbuf[i] = Sent[p + i]
      /\ \A i \in 1 .. w : wire[i] = Sent[p + b + i]
  BY DEF Synced, Pos
<1>4. p2 = last - b2 - w2
  BY <1>2 DEF Pos
<1>5. Joined(inbuf', inbuf, Piece(n))
  BY <1>0, <1>1, Concat
<1>6. /\ inbuf' \in Seq(Symbols) /\ b2 = b + n
      /\ \A j \in 1 .. b : inbuf'[j] = inbuf[j]
      /\ \A j \in 1 .. n : inbuf'[b + j] = wire[j]
  BY <1>1, <1>5 DEF Joined
<1>7. n \in 0 .. w /\ n \in Nat
  BY <1>0
<1> HIDE DEF b, w, p, last, b2, p2, w2
<1>8. p2 = p
  BY <1>0, <1>1, <1>2, <1>3, <1>4, <1>6, <1>7
<1>9. \A i \in 1 .. b2 : inbuf'[i] = Sent[p + i]
  <2> SUFFICES ASSUME NEW i \in 1 .. b2 PROVE inbuf'[i] = Sent[p + i]
    OBVIOUS
  <2>1. CASE i <= b
    <3>1. i \in 1 .. b
      BY <1>0, <1>6, <1>7, <2>1
    <3> QED
      BY <1>3, <1>6, <3>1
  <2>2. CASE i > b
    <3> DEFINE j == i - b
    <3>1. j \in 1 .. n /\ j \in 1 .. w /\ b + j = i /\ p + b + j = p + i
      BY <1>0, <1>3, <1>6, <1>7, <2>2
    <3> HIDE DEF j
    <3>2. inbuf'[b + j] = wire[j] /\ wire[j] = Sent[p + b + j]
      BY <1>3, <1>6, <3>1
    <3> QED
      BY <3>1, <3>2
  <2>3. i <= b \/ i > b
    BY <1>0, <1>6, <1>7
  <2> QED
    BY <2>1, <2>2, <2>3
<1>10. \A i \in 1 .. w2 : wire'[i] = Sent[p + b2 + i]
  <2> SUFFICES ASSUME NEW i \in 1 .. w2 PROVE wire'[i] = Sent[p + b2 + i]
    OBVIOUS
  <2>1. i \in 1 .. w - n /\ n + i \in 1 .. w /\ p + b + (n + i) = p + b2 + i
    BY <1>0, <1>1, <1>3, <1>6, <1>7
  <2> QED
    BY <1>1, <1>3, <2>1
<1>11. Synced'
  BY <1>2, <1>3, <1>8, <1>9, <1>10 DEF Synced, b2, w2, p2
<1>12. Uncut'
  <2> SUFFICES ASSUME inbuf' # << >>, inbuf'[b2] = CR PROVE wire' = << >>
    BY DEF Uncut, b2
  <2>1. CASE n = 0
    <3>1. b2 = b /\ b \in Nat \ {0} /\ w2 = w
      <4>1. b2 \in Nat \ {0}
        BY <1>6, EmptySeq DEF b2
      <4> QED
        BY <1>0, <1>1, <1>6, <2>1, <4>1
    <3>2. inbuf # << >> /\ inbuf[b] = CR
      <4>1. inbuf # << >>
        BY <1>0, <3>1 DEF b
      <4> QED
        <5>1. b \in 1 .. b
          BY <3>1
        <5> QED
          BY <1>6, <3>1, <4>1, <5>1
    <3>3. wire = << >>
      BY <3>2 DEF Uncut, b
    <3>4. w2 = 0
      BY <3>1, <3>3, EmptySeq DEF w
    <3> QED
      BY <1>1, <3>4, EmptySeq DEF w2
  <2>2. CASE n # 0
    <3>1. n \in 1 .. n /\ n > 0
      BY <1>7, <2>2
    <3>2. wire[n] = CR
      BY <1>6, <3>1
    <3>3. ~ (n < w)
      BY <3>1, <3>2 DEF InsideCRLF, w
    <3>4. w2 = 0
      BY <1>0, <1>1, <1>7, <3>3
    <3> QED
      BY <1>1, <3>4, EmptySeq DEF w2
  <2> QED
    BY <2>1, <2>2
<1> QED
  BY <1>8, <1>11, <1>12 DEF p, p2

----------------------------------------------------------------------------
(* What is made of a line *)

\* Two texts with the same symbols are the same.
LEMMA SameText ==
  ASSUME NEW s \in Seq(Symbols), NEW t \in Seq(Symbols), Len(s) = Len(t),
         \A j \in 1 .. Len(s) : s[j] = t[j]
  PROVE  s = t
OBVIOUS

\* A line taken from inbuf.
LEMMA LineRead ==
  ASSUME TypeOK, Synced, NEW n \in 0 .. Len(inbuf)
  PROVE  /\ SubSeq(inbuf, 1, n) \in Seq(Symbols) /\ Len(SubSeq(inbuf, 1, n)) = n
         /\ \A j \in 1 .. n : SubSeq(inbuf, 1, n)[j] = Sent[Pos + j]
<1>1. inbuf \in Seq(Symbols) /\ Len(inbuf) \in Nat
  BY DEF TypeOK
<1>2. /\ SubSeq(inbuf, 1, n) \in Seq(Symbols) /\ Len(SubSeq(inbuf, 1, n)) = n
      /\ \A j \in 1 .. n : SubSeq(inbuf, 1, n)[j] = inbuf[j]
  BY <1>1, Split
<1>3. \A j \in 1 .. n : j \in 1 .. Len(inbuf)
  BY <1>1
<1>4. \A j \in 1 .. Len(inbuf) : inbuf[j] = Sent[Pos + j]
  BY DEF Synced
<1> QED
  BY <1>2, <1>3, <1>4

\* The request line, Content-Length and other lines are told apart.
LEMMA KeepCases ==
  ASSUME TypeOK, NEW line \in Seq(Symbols), Len(line) > 0
  PROVE  /\ Contains(line, "v") => Keep(line) = [inhdrs EXCEPT !.reqln = line]
         /\ ~ Contains(line, "v") /\ line[1] \notin {"L", LF} => Keep(line) = inhdrs
         /\ ~ Contains(line, "v") /\ line[1] = "L" => Keep(line) = [inhdrs EXCEPT !.content = line]
<1>0. Len(line) \in Nat
  OBVIOUS
<1>1. line[1] # LF => HeaderName(line) = line
  BY HeaderNameFacts
<1>2. IsPrefix(<<"L">>, line) <=> line[1] = "L"
  <2> DEFINE name == <<"L">>
             s == SubSeq(name, 1, 1)
             u == SubSeq(line, 1, 1)
  <2>1. name \in Seq(Symbols) /\ Len(name) = 1 /\ name[1] = "L"
    BY SymbolsAssumption
  <2>2. 1 <= Len(line) /\ 1 \in 0 .. Len(line)
    BY <1>0
  <2>3. IsPrefix(name, line) <=> s = u
    <3> HIDE DEF name
    <3> QED
      BY <2>1, <2>2 DEF IsPrefix
  <2> HIDE DEF name
  <2>4. s \in Seq(Symbols) /\ Len(s) = 1 /\ \A j \in 1 .. 1 : s[j] = name[j]
    <3>1. 1 \in 0 .. Len(name)
      BY <2>1
    <3> QED
      BY <2>1, <3>1, Split
  <2>5. u \in Seq(Symbols) /\ Len(u) = 1 /\ \A j \in 1 .. 1 : u[j] = line[j]
    BY <2>2, Split
  <2> HIDE DEF s, u
  <2>6. s[1] = "L" /\ u[1] = line[1]
    BY <2>1, <2>4, <2>5
  <2>7. s[1] = u[1] => s = u
    <3>1. s[1] = u[1] => \A j \in 1 .. Len(s) : s[j] = u[j]
      BY <2>4
    <3> QED
      BY <2>4, <2>5, <3>1, SameText
  <2> QED
    BY <2>3, <2>6, <2>7 DEF name
<1>3. Contains(line, "v") => Keep(line) = [inhdrs EXCEPT !.reqln = line]
  BY DEF Keep
<1>4. ASSUME ~ Contains(line, "v"), line[1] \notin {"L", LF} PROVE Keep(line) = inhdrs
  <2>1. ~ IsPrefix(<<"L">>, HeaderName(line))
    BY <1>1, <1>2, <1>4
  <2> QED
    BY <1>4, <2>1 DEF Keep
<1>5. ASSUME ~ Contains(line, "v"), line[1] = "L" PROVE Keep(line) = [inhdrs EXCEPT !.content = line]
  <2>1. HeaderName(line) = line
    BY <1>1, <1>5 DEF LF
  <2>2. IsPrefix(<<"L">>, HeaderName(line))
    BY <1>2, <1>5, <2>1
  <2> QED
    BY <1>5, <2>1, <2>2 DEF Keep
<1> QED
  BY <1>3, <1>4, <1>5

----------------------------------------------------------------------------
(* Every step keeps the server at the same place as the client *)

\* A step that hands no request on leaves the current request the same.
LEMMA SameRequest ==
  ASSUME UNCHANGED <<sent, got>>
  PROVE  /\ Start' = Start /\ Current' = Current /\ Requests' = Requests /\ Bytes' = Bytes
         /\ Sent' = Sent
         /\ Understood => Understood'
<1>1. Bytes' = Bytes /\ Sent' = Sent
  BY SentSame
<1>2. Start' = Start
  BY <1>1 DEF Start
<1>3. Current' = Current /\ Requests' = Requests
  BY DEF Current, Requests
<1>4. Understood => Understood'
  BY <1>3 DEF Understood
<1> QED
  BY <1>1, <1>2, <1>3, <1>4

\* A step that extracts nothing stays at the same line.
LEMMA SameLine ==
  ASSUME UNCHANGED <<sent, got, inhdrs, inbody>>, Pos' = Pos, AtLine
  PROVE  AtLine'
<1>1. Start' = Start /\ Current' = Current /\ Bytes' = Bytes
  BY SameRequest
<1>2. Offset' = Offset
  BY <1>1 DEF Offset
<1> QED
  BY <1>1, <1>2 DEF AtLine, AtStart, AtHeader, AtEnd

\* What the program counter says, where the lengths are numbers.
LEMMA Lengths ==
  ASSUME TypeOK
  PROVE  /\ sent \in Scripts /\ Len(sent) \in Nat /\ Len(got) \in Nat /\ Len(inbuf) \in Nat
         /\ Len(wire) \in Nat /\ Len(Sent) \in Nat /\ inbuf \in Seq(Symbols)
         /\ wire \in Seq(Symbols) /\ inbody \in Seq(Symbols) /\ Len(inbody) \in Nat
         /\ Len(got) <= Len(sent) => Start \in Nat /\ Start <= Len(Sent)
<1>1. /\ sent \in Scripts /\ inbuf \in Seq(Symbols) /\ wire \in Seq(Symbols)
      /\ inbody \in Seq(Symbols) /\ got \in Seq([reqln : Seq(Symbols), body : Seq(Symbols)])
  BY DEF TypeOK
<1>2. Len(sent) \in Nat /\ Sent \in Seq(Symbols)
  BY <1>1, SentLayout
<1>3. Len(got) \in Nat /\ Len(inbuf) \in Nat /\ Len(wire) \in Nat /\ Len(inbody) \in Nat
  BY <1>1
<1>4. Len(Sent) \in Nat
  BY <1>2
<1>5. ASSUME Len(got) <= Len(sent) PROVE Start \in Nat /\ Start <= Len(Sent)
  <2>1. Len(got) \in 0 .. Len(sent)
    BY <1>2, <1>3, <1>5
  <2> QED
    BY <1>1, <2>1, SentLayout DEF Start
<1> QED
  BY <1>1, <1>2, <1>3, <1>4, <1>5

\* The line at which the server is.
LEMMA TheLine ==
  ASSUME TypeOK, AtLine, Pos \in Nat
  PROVE  \/ /\ AtStart /\ LineAt(Pos, Len(Current.line)) /\ Len(Current.line) > 0
            /\ \A j \in 1 .. Len(Current.line) : Sent[Pos + j] = Current.line[j]
         \/ /\ inhdrs = [reqln |-> Current.line, content |-> << >>]
            /\ \E n \in Nat \ {0} :
                  /\ \E q \in Starts(Current.other) : Offset + n + 2 = Len(Current.line) + 2 + q
                  /\ LineAt(Pos, n) /\ Sent[Pos + 1] \notin {"L", LF}
                  /\ \A j \in 1 .. n : Sent[Pos + j] # "v"
         \/ /\ inhdrs = [reqln |-> Current.line, content |-> << >>]
            /\ ~ NoBody(Current) /\ Offset + 4 = BlockSize(Current)
            /\ LineAt(Pos, 2) /\ Sent[Pos + 1] = "L" /\ Sent[Pos + 2] = Digit[Len(Current.body)]
         \/ /\ inhdrs = [reqln |-> Current.line, content |-> ContentLine(Current)]
            /\ Offset = BlockSize(Current) /\ LineAt(Pos, 0)
<1> DEFINE r == Current
           S == Start
           hl == Len(r.line) + 2
           lo == Len(r.other)
           lb == Len(r.body)
           bs == BlockSize(r)
           p == Pos
<1>1. sent \in Scripts /\ Len(got) \in Nat /\ Len(got) < Len(sent)
  BY Lengths DEF AtLine
<1>2. WellFormed(r) /\ Laid(r, S, hl, lo, lb, bs) /\ S \in Nat
  BY <1>1, CurrentRequest, AfterRequestLine
<1>3. /\ Len(r.line) \in Nat \ {0} /\ lo \in Nat /\ LineStarts(r.other, Starts(r.other))
      /\ hl \in Nat
  <2> DEFINE ll == Len(r.line)
  <2>1. ll \in Nat \ {0} /\ lo \in Nat /\ LineStarts(r.other, Starts(r.other))
    BY <1>2, Sizes
  <2>2. ll + 2 \in Nat
    <3> HIDE DEF ll
    <3> QED
      BY <2>1
  <2> QED
    BY <2>1, <2>2
<1>4. Offset = p - S /\ p \in Nat
  BY DEF Offset, Start
<1>5. CASE AtStart
  <2>1. p = S
    BY <1>2, <1>4, <1>5 DEF AtStart
  <2>2. LineAt(S, Len(r.line)) /\ \A j \in 1 .. Len(r.line) : Sent[S + j] = r.line[j]
    BY <1>1, RequestLine
  <2>3. Len(r.line) > 0
    BY <1>3
  <2> QED
    BY <1>5, <2>1, <2>2, <2>3
<1>6. ASSUME AtHeader, NEW q \in Starts(r.other), Offset = hl + q
      PROVE  \/ /\ q # lo
                /\ \E n \in Nat \ {0} :
                      /\ \E k \in Starts(r.other) : Offset + n + 2 = hl + k
                      /\ LineAt(p, n) /\ Sent[p + 1] \notin {"L", LF}
                      /\ \A j \in 1 .. n : Sent[p + j] # "v"
             \/ /\ ~ NoBody(r) /\ Offset + 4 = bs
                /\ LineAt(p, 2) /\ Sent[p + 1] = "L" /\ Sent[p + 2] = Digit[lb]
             \/ /\ NoBody(r) /\ Offset = bs /\ LineAt(p, 0)
  <2>1. q \in 0 .. lo /\ q \in Nat
    BY <1>3 DEF LineStarts
  <2>2. p = S + hl + q
    <3> HIDE DEF hl, S, p
    <3> QED
      BY <1>2, <1>3, <1>4, <1>6, <2>1
  <2>3. CASE q # lo
    <3>1. PICK n \in Nat \ {0} :
            /\ q + n + 2 \in Starts(r.other) /\ LineAt(S + hl + q, n)
            /\ Sent[S + hl + q + 1] \notin {"L", LF}
            /\ \A j \in 1 .. n : Sent[S + hl + q + j] # "v"
      <4> HIDE DEF S, hl, lb, bs
      <4> QED
        BY <1>2, <2>3, OtherLine
    <3>2. Offset + n + 2 = hl + (q + n + 2)
      <4> HIDE DEF hl
      <4> QED
        BY <1>3, <1>6, <2>1
    <3> HIDE DEF S, hl, p
    <3>3. /\ LineAt(p, n) /\ Sent[p + 1] \notin {"L", LF}
          /\ \A j \in 1 .. n : Sent[p + j] # "v"
      BY <2>2, <3>1
    <3> QED
      BY <2>3, <3>1, <3>2, <3>3
  <2>4. CASE q = lo /\ ~ NoBody(r)
    <3> HIDE DEF S, hl, lb, bs, p, lo
    <3>1. LineAt(S + hl + lo, 2) /\ Sent[S + hl + lo + 1] = "L" /\ Sent[S + hl + lo + 2] = Digit[lb]
      BY <1>2, <2>4, LengthLine
    <3>2. bs = hl + lo + 4
      BY <1>2, <2>4 DEF Laid
    <3>3. Offset + 4 = bs
      BY <1>6, <2>4, <3>2
    <3> QED
      BY <2>2, <2>4, <3>1, <3>3
  <2>5. CASE q = lo /\ NoBody(r)
    <3> HIDE DEF S, hl, lb, bs, p, lo
    <3>1. LineAt(S + bs, 0) /\ bs = hl + lo
      <4>1. LineAt(S + bs, 0)
        BY <1>2, LastLine
      <4> QED
        BY <1>2, <2>5, <4>1 DEF Laid
    <3>2. S + bs = p /\ Offset = bs
      BY <1>2, <1>3, <1>6, <2>1, <2>2, <2>5, <3>1
    <3> QED
      BY <2>5, <3>1, <3>2
  <2> QED
    BY <2>3, <2>4, <2>5
<1>7. CASE AtHeader
  <2>1. PICK q \in Starts(r.other) : Offset = hl + q
    BY <1>7 DEF AtHeader
  <2>2. inhdrs = [reqln |-> r.line, content |-> << >>]
    BY <1>7 DEF AtHeader
  <2>3. NoBody(r) => ContentLine(r) = << >>
    BY DEF NoBody, ContentLine
  <2> QED
    BY <1>6, <1>7, <2>1, <2>2, <2>3
<1>8. CASE AtEnd
  <2>1. Offset = bs /\ inhdrs = [reqln |-> r.line, content |-> ContentLine(r)]
    BY <1>8 DEF AtEnd
  <2>2. bs \in Nat
    BY <1>2, Sizes
  <2>3. LineAt(S + bs, 0)
    BY <1>2, LastLine
  <2>4. S + bs = p
    <3> HIDE DEF S, bs, p
    <3> QED
      BY <1>2, <1>4, <2>1, <2>2
  <2> QED
    BY <2>1, <2>3, <2>4
<1> QED
  BY <1>5, <1>7, <1>8 DEF AtLine

\* Work::rduntil for headers.
LEMMA ReadHeadersInStep ==
  ASSUME TypeOK, InStep, NEW n \in 0 .. Len(wire), ReadHeaders(n), ~ torn'
  PROVE  InStep'
<1>1. ~ InsideCRLF(n) /\ inbuf' = inbuf \o Piece(n) /\ wire' = Rest(n) /\ pc' = "line"
  BY DEF ReadHeaders
<1>2. UNCHANGED <<sent, inhdrs, inbody, inbody_sz, got, crashed>>
  BY DEF ReadHeaders
<1>3. Synced' /\ Uncut' /\ Pos' = Pos
  BY <1>1, <1>2, Arrival DEF InStep
<1>4. InHeaders
  BY DEF ReadHeaders, InStep, Progress
<1>5. AtLine
  <2>1. ASSUME AllRead PROVE FALSE
    <3>1. Pos = Len(Sent) /\ pc = "read"
      BY <2>1 DEF AllRead
    <3>2. n > 0
      BY <3>1 DEF ReadHeaders
    <3>3. Len(wire) \in Nat /\ Len(inbuf) \in Nat /\ Len(Sent) \in Nat
      BY Lengths
    <3>4. Len(Sent) = Len(Sent) - Len(inbuf) - Len(wire)
      BY <3>1 DEF Pos
    <3> QED
      BY <3>2, <3>3, <3>4
  <2> QED
    BY <1>4, <2>1 DEF InHeaders
<1>6. AtLine'
  BY <1>2, <1>3, <1>5, SameLine
<1>7. Understood'
  BY <1>2, SameRequest DEF InStep, Progress
<1>8. Progress'
  BY <1>1, <1>6, <1>7 DEF Progress, InHeaders
<1> QED
  BY <1>3, <1>8 DEF InStep

\* A line that is there with its CRLF, in operator>> of HTTP_parsing.
LEMMA HeaderLineInStep ==
  ASSUME TypeOK, InStep, HeaderLine
  PROVE  InStep'
<1> DEFINE r == Current
           m == LineLength
           line == SubSeq(inbuf, 1, m)
           p == Pos
<1>1. /\ Terminated /\ m > 0 /\ inhdrs' = Keep(line) /\ inbuf' = Extracted(m + 2) /\ pc = "line"
      /\ UNCHANGED <<sent, wire, inbody, inbody_sz, pc, got, crashed, torn>>
  BY DEF HeaderLine
<1>2. Synced /\ Uncut /\ Understood /\ InHeaders /\ p \in Nat
  BY <1>1 DEF InStep, Progress, Synced
<1>3. AtLine
  BY <1>1, <1>2 DEF InHeaders, AllRead
<1>4. m \in Nat /\ m \in 0 .. Len(inbuf) /\ m + 2 \in 0 .. Len(inbuf) /\ Len(inbuf) \in Nat
  BY <1>1, Lengths, LineLengthFacts DEF Terminated
<1>5. Synced' /\ Uncut' /\ Pos' = p + (m + 2)
  <2> HIDE DEF m
  <2> QED
    BY <1>1, <1>2, <1>4, Extraction
<1>6. line \in Seq(Symbols) /\ Len(line) = m /\ \A j \in 1 .. m : line[j] = Sent[p + j]
  <2> HIDE DEF m
  <2> QED
    BY <1>2, <1>4, LineRead
<1>7. /\ Start' = Start /\ Current' = r /\ Bytes' = Bytes /\ Understood'
  BY <1>1, <1>2, SameRequest
<1>8. /\ sent \in Scripts /\ Len(got) \in Nat /\ Len(got) < Len(sent) /\ WellFormed(r)
      /\ Start \in Nat /\ inbody = << >>
  BY <1>3, Lengths, CurrentRequest DEF AtLine
<1>9. Offset = p - Start /\ Offset' = (p + (m + 2)) - Start
  <2>1. Offset = p - Start /\ Offset' = Pos' - Start'
    BY DEF Offset, Start
  <2> QED
    BY <1>5, <1>7, <2>1
<1>10. Offset' = Offset + m + 2 /\ Offset \in Int
  <2> HIDE DEF p, m
  <2> QED
    BY <1>2, <1>4, <1>8, <1>9
<1>11. ASSUME AtStart' \/ AtHeader' \/ AtEnd' PROVE InStep'
  <2>1. AtLine'
    BY <1>1, <1>8, <1>11 DEF AtLine
  <2> QED
    BY <1>1, <1>5, <1>7, <2>1 DEF InStep, Progress, InHeaders
<1>12. /\ Contains(line, "v") => Keep(line) = [inhdrs EXCEPT !.reqln = line]
       /\ ~ Contains(line, "v") /\ line[1] \notin {"L", LF} => Keep(line) = inhdrs
       /\ ~ Contains(line, "v") /\ line[1] = "L" => Keep(line) = [inhdrs EXCEPT !.content = line]
  <2>1. Len(line) > 0
    BY <1>1, <1>6
  <2> HIDE DEF line
  <2> QED
    BY <1>6, <2>1, KeepCases
<1>13. ASSUME NEW n, LineAt(p, n) PROVE m = n
  BY <1>1, <1>2, <1>13, Buffered
<1> HIDE DEF m, line, p
<1>14. CASE /\ AtStart /\ LineAt(p, Len(r.line)) /\ Len(r.line) > 0
            /\ \A j \in 1 .. Len(r.line) : Sent[p + j] = r.line[j]
  <2>1. m = Len(r.line)
    BY <1>13, <1>14
  <2>2. line = r.line
    <3>1. r.line \in Seq(Symbols)
      BY <1>8, Sizes
    <3>2. \A j \in 1 .. Len(line) : line[j] = r.line[j]
      BY <1>6, <1>14, <2>1
    <3> QED
      BY <1>6, <2>1, <3>1, <3>2, SameText
  <2>3. Contains(line, "v")
    BY <1>8, <2>2 DEF WellFormed
  <2>4. inhdrs = NoHeaders /\ Offset = 0
    BY <1>14 DEF AtStart
  <2>5. inhdrs' = [reqln |-> r.line, content |-> << >>]
    BY <1>1, <1>12, <2>2, <2>3, <2>4 DEF NoHeaders
  <2>6. 0 \in Starts(r.other)
    BY <1>8, Sizes DEF LineStarts
  <2>7. Offset' = Len(r.line) + 2 + 0
    BY <1>4, <1>10, <2>1, <2>4
  <2>8. AtHeader'
    BY <1>7, <2>5, <2>6, <2>7 DEF AtHeader
  <2> QED
    BY <1>11, <2>8
<1>15. ASSUME inhdrs = [reqln |-> r.line, content |-> << >>], NEW n \in Nat \ {0},
              NEW q \in Starts(r.other), Offset + n + 2 = Len(r.line) + 2 + q,
              LineAt(p, n), Sent[p + 1] \notin {"L", LF}, \A j \in 1 .. n : Sent[p + j] # "v"
       PROVE  InStep'
  <2>1. m = n
    BY <1>13, <1>15
  <2>2. ~ Contains(line, "v")
    BY <1>6, <1>15, <2>1 DEF Contains
  <2>3. 1 \in 1 .. m
    BY <2>1
  <2>4. line[1] \notin {"L", LF}
    BY <1>6, <1>15, <2>3
  <2>5. inhdrs' = [reqln |-> r.line, content |-> << >>]
    BY <1>1, <1>12, <1>15, <2>2, <2>4
  <2>6. Offset' = Len(r.line) + 2 + q
    BY <1>10, <1>15, <2>1
  <2>7. AtHeader'
    BY <1>7, <2>5, <2>6 DEF AtHeader
  <2> QED
    BY <1>11, <2>7
<1>16. CASE /\ inhdrs = [reqln |-> r.line, content |-> << >>]
            /\ ~ NoBody(r) /\ Offset + 4 = BlockSize(r)
            /\ LineAt(p, 2) /\ Sent[p + 1] = "L" /\ Sent[p + 2] = Digit[Len(r.body)]
  <2>1. m = 2
    BY <1>13, <1>16
  <2>2. line[1] = "L" /\ line[2] = Digit[Len(r.body)]
    BY <1>6, <1>16, <2>1
  <2>3. Len(r.body) \in 1 .. 4
    <3>1. Len(r.body) \in 0 .. 4 /\ Len(r.body) # 0
      BY <1>8, <1>16, Sizes DEF NoBody
    <3> DEFINE lb == Len(r.body)
    <3> HIDE DEF lb
    <3>2. lb \in 0 .. 4 /\ lb # 0
      BY <3>1 DEF lb
    <3>3. lb \in 1 .. 4
      BY <3>2
    <3> QED
      BY <3>3 DEF lb
  <2>4. Digit[Len(r.body)] # "v"
    <3>1. \A k \in 1 .. 4 : Digit[k] # "v"
      BY DEF Digit
    <3> QED
      BY <2>3, <3>1
  <2>5. ~ Contains(line, "v")
    BY <1>6, <2>1, <2>2, <2>4 DEF Contains
  <2>6. line = <<"L", Digit[Len(r.body)]>>
    <3> DEFINE d == Digit[Len(r.body)]
    <3>1. line[1] = "L" /\ line[2] = d /\ Len(line) = 2 /\ line \in Seq(Symbols)
      BY <1>6, <2>1, <2>2
    <3> HIDE DEF d
    <3>2. line = <<"L", d>>
      BY <3>1
    <3> QED
      BY <3>2 DEF d
  <2>7. line = ContentLine(r)
    BY <1>16, <2>6 DEF ContentLine, NoBody
  <2>8. inhdrs' = [reqln |-> r.line, content |-> ContentLine(r)]
    BY <1>1, <1>12, <1>16, <2>2, <2>5, <2>7
  <2>9. Offset' = BlockSize(r) /\ r.body # << >>
    <3>1. Offset' = Offset + 4
      BY <1>10, <2>1
    <3> QED
      BY <1>16, <3>1 DEF NoBody
  <2>10. AtEnd'
    BY <1>7, <2>8, <2>9 DEF AtEnd
  <2> QED
    BY <1>11, <2>10
<1>17. CASE LineAt(p, 0)
  BY <1>1, <1>13, <1>17
<1> QED
  <2>1. \/ /\ AtStart /\ LineAt(p, Len(r.line)) /\ Len(r.line) > 0
           /\ \A j \in 1 .. Len(r.line) : Sent[p + j] = r.line[j]
        \/ /\ inhdrs = [reqln |-> r.line, content |-> << >>]
           /\ \E n \in Nat \ {0} :
                 /\ \E q \in Starts(r.other) : Offset + n + 2 = Len(r.line) + 2 + q
                 /\ LineAt(p, n) /\ Sent[p + 1] \notin {"L", LF}
                 /\ \A j \in 1 .. n : Sent[p + j] # "v"
        \/ /\ inhdrs = [reqln |-> r.line, content |-> << >>]
           /\ ~ NoBody(r) /\ Offset + 4 = BlockSize(r)
           /\ LineAt(p, 2) /\ Sent[p + 1] = "L" /\ Sent[p + 2] = Digit[Len(r.body)]
        \/ LineAt(p, 0)
    BY <1>2, <1>3, TheLine DEF p
  <2> QED
    BY <1>14, <1>15, <1>16, <1>17, <2>1

\* The empty line that ends the headers.
LEMMA EmptyLineInStep ==
  ASSUME TypeOK, InStep, EmptyLine
  PROVE  InStep'
<1> DEFINE r == Current
           p == Pos
<1>1. /\ Terminated /\ LineLength = 0 /\ inbuf' = Extracted(2) /\ pc = "line" /\ pc' = "headers"
      /\ UNCHANGED <<sent, wire, inhdrs, inbody, inbody_sz, got, crashed, torn>>
  BY DEF EmptyLine
<1>2. Synced /\ Uncut /\ Understood /\ InHeaders /\ p \in Nat
  BY <1>1 DEF InStep, Progress, Synced
<1>3. AtLine
  BY <1>1, <1>2 DEF InHeaders, AllRead
<1>4. 2 \in 0 .. Len(inbuf)
  BY <1>1, Lengths DEF Terminated
<1>5. Synced' /\ Uncut' /\ Pos' = p + 2
  BY <1>1, <1>2, <1>4, Extraction
<1>6. /\ Start' = Start /\ Current' = r /\ Understood'
  BY <1>1, <1>2, SameRequest
<1>7. /\ Len(got) < Len(sent) /\ WellFormed(r) /\ Start \in Nat /\ inbody = << >>
  BY <1>3, Lengths, CurrentRequest DEF AtLine
<1>8. Offset = p - Start /\ Offset' = (p + 2) - Start
  <2>1. Offset = p - Start /\ Offset' = Pos' - Start'
    BY DEF Offset, Start
  <2> QED
    BY <1>5, <1>6, <2>1
<1>9. Offset' = Offset + 2
  <2> HIDE DEF p
  <2> QED
    BY <1>2, <1>7, <1>8
<1>10. ASSUME NEW n, LineAt(p, n) PROVE n = 0
  BY <1>1, <1>2, <1>10, Buffered
<1>11. /\ inhdrs = [reqln |-> r.line, content |-> ContentLine(r)] /\ Offset = BlockSize(r)
  <2> HIDE DEF p
  <2>1. \/ LineAt(p, Len(r.line)) /\ Len(r.line) > 0
        \/ \E n \in Nat \ {0} : LineAt(p, n)
        \/ LineAt(p, 2)
        \/ /\ inhdrs = [reqln |-> r.line, content |-> ContentLine(r)] /\ Offset = BlockSize(r)
    BY <1>2, <1>3, TheLine DEF p
  <2>2. ~ (LineAt(p, Len(r.line)) /\ Len(r.line) > 0)
    BY <1>10
  <2>3. ~ \E n \in Nat \ {0} : LineAt(p, n)
    BY <1>10
  <2>4. ~ LineAt(p, 2)
    BY <1>10
  <2> QED
    BY <2>1, <2>2, <2>3, <2>4
<1>12. Offset' = HeadSize(r)
  <2>1. HeadSize(r) = BlockSize(r) + 2
    BY <1>7, Sizes
  <2> QED
    BY <1>9, <1>11, <2>1
<1>13. HeadersRead'
  BY <1>1, <1>6, <1>7, <1>11, <1>12 DEF HeadersRead
<1> QED
  BY <1>1, <1>5, <1>6, <1>13 DEF InStep, Progress

\* A line that is not complete is put back.
LEMMA UnfinishedInStep ==
  ASSUME TypeOK, InStep, Unfinished
  PROVE  InStep'
<1>1. /\ ~ Terminated /\ inbuf' = SeekBack(LineLength) /\ pc = "line" /\ pc' = "read"
      /\ UNCHANGED <<sent, wire, inhdrs, inbody, inbody_sz, got, crashed, torn>>
  BY DEF Unfinished
<1>2. Synced /\ Uncut /\ Understood /\ InHeaders /\ Pos \in Nat
  BY <1>1 DEF InStep, Progress, Synced
<1>3. AtLine
  BY <1>1, <1>2 DEF InHeaders, AllRead
<1>4. \E n : LineAt(Pos, n)
  BY <1>2, <1>3, TheLine
<1>5. LineLength = Len(inbuf)
  BY <1>1, <1>2, <1>4, Buffered
<1>6. UNCHANGED inbuf
  <2>1. ~ (Len(inbuf) < Len(inbuf))
    BY Lengths
  <2> QED
    BY <1>1, <1>5, <2>1 DEF SeekBack
<1>7. Sent' = Sent /\ Understood'
  BY <1>1, <1>2, SameRequest
<1>8. Pos' = Pos
  BY <1>1, <1>6, <1>7 DEF Pos
<1>9. Synced' /\ Uncut'
  BY <1>1, <1>2, <1>6, <1>7, <1>8 DEF Synced, Uncut
<1>10. AtLine'
  BY <1>1, <1>3, <1>8, SameLine
<1> QED
  BY <1>1, <1>7, <1>9, <1>10 DEF InStep, Progress, InHeaders

\* An exception changes nothing that is compared.
LEMMA ThrowInStep ==
  ASSUME InStep, UNCHANGED <<sent, wire, inbuf, inhdrs, inbody, inbody_sz, pc, got>>
  PROVE  InStep'
<1>1. Sent' = Sent /\ Bytes' = Bytes /\ Current' = Current /\ (Understood => Understood')
  BY SameRequest
<1>2. Pos' = Pos
  BY <1>1 DEF Pos
<1>3. Synced' /\ Uncut'
  BY <1>1, <1>2 DEF InStep, Synced, Uncut
<1>4. Offset' = Offset
  BY <1>1, <1>2 DEF Offset
<1>5. AtLine => AtLine'
  BY <1>2, SameLine
<1>6. InHeaders => InHeaders'
  BY <1>1, <1>2, <1>5 DEF InHeaders, AllRead
<1>7. HeadersRead => HeadersRead'
  BY <1>1, <1>4 DEF HeadersRead
<1>8. InBody => InBody'
  BY <1>1, <1>4 DEF InBody
<1>9. (BodyRead => BodyRead') /\ (Answering => Answering')
  BY <1>1, <1>4 DEF BodyRead, Answering
<1>10. Progress'
  BY <1>1, <1>6, <1>7, <1>8, <1>9 DEF InStep, Progress
<1> QED
  BY <1>3, <1>10 DEF InStep

\* The part of the body that came with the headers.
LEMMA HeadersDoneInStep ==
  ASSUME TypeOK, InStep, HeadersDone
  PROVE  InStep'
<1> DEFINE r == Current
           p == Pos
           S == Start
           b == Len(inbuf)
           lb == Len(r.body)
           bs == BlockSize(r)
           k == IF ContentLength < b THEN ContentLength ELSE b
           text == SubSeq(inbuf, 1, k)
<1>1. /\ pc = "headers" /\ inbody' = inbody \o text /\ inbuf' = Extracted(k)
      /\ inbody_sz' = ContentLength - k
      /\ pc' = IF inbody_sz' = 0 THEN "prepare" ELSE "body"
      /\ UNCHANGED <<sent, wire, inhdrs, got, crashed, torn>>
  BY DEF HeadersDone, nread
<1>2. Synced /\ Uncut /\ Understood /\ HeadersRead /\ p \in Nat
  BY <1>1 DEF InStep, Progress, Synced
<1>3. /\ Len(got) < Len(sent) /\ inbody = << >> /\ Offset = HeadSize(r)
      /\ inhdrs = [reqln |-> r.line, content |-> ContentLine(r)]
  BY <1>2 DEF HeadersRead
<1>4. /\ sent \in Scripts /\ Len(got) \in Nat /\ WellFormed(r) /\ S \in Nat /\ b \in Nat
  BY <1>3, Lengths, CurrentRequest
<1>5. Laid(r, S, Len(r.line) + 2, Len(r.other), lb, bs)
  BY <1>3, <1>4, AfterRequestLine
<1>6. /\ lb \in 0 .. 4 /\ lb \in Nat /\ bs \in Nat /\ HeadSize(r) = bs + 2
      /\ \A j \in 1 .. lb : Sent[S + bs + 2 + j] = r.body[j]
      /\ NoBody(r) => lb = 0
      /\ ~ NoBody(r) => lb # 0
  <2>1. /\ lb \in 0 .. 4 /\ bs \in Nat /\ HeadSize(r) = bs + 2
        /\ NoBody(r) => lb = 0
        /\ ~ NoBody(r) => lb # 0
    BY <1>4, Sizes DEF NoBody
  <2>2. \A j \in 1 .. lb : Sent[S + bs + 2 + j] = r.body[j]
    BY <1>5 DEF Laid
  <2>3. \A x \in 0 .. 4 : x \in Nat
    OBVIOUS
  <2> QED
    BY <2>1, <2>2, <2>3
<1>7. ContentLength = lb
  <2>1. CASE NoBody(r)
    <3>1. inhdrs.content = << >>
      BY <1>3, <2>1 DEF ContentLine, NoBody
    <3>2. Len(inhdrs.content) < 2
      BY <3>1
    <3> QED
      BY <1>6, <2>1, <3>2 DEF ContentLength
  <2>2. CASE ~ NoBody(r)
    <3>1. inhdrs.content = <<"L", Digit[lb]>>
      BY <1>3, <2>2 DEF ContentLine, NoBody
    <3>2. Len(inhdrs.content) = 2 /\ inhdrs.content[2] = Digit[lb]
      BY <3>1
    <3>3. lb \in 1 .. 4
      <4> HIDE DEF lb
      <4> QED
        BY <1>6, <2>2
    <3> QED
      BY <3>2, <3>3, ContentLengthFacts
  <2> QED
    BY <2>1, <2>2
<1> HIDE DEF S, b, lb, bs, p
<1>8. /\ k \in 0 .. b /\ k \in Nat /\ k <= lb /\ inbody_sz' = lb - k
      /\ k < lb => k = b
  BY <1>1, <1>4, <1>6, <1>7
<1> HIDE DEF k
<1>9. Synced' /\ Uncut' /\ Pos' = p + k /\ Len(inbuf') = b - k
  BY <1>1, <1>2, <1>8, Extraction DEF b, p
<1>10. text \in Seq(Symbols) /\ Len(text) = k /\ \A j \in 1 .. k : text[j] = Sent[p + j]
  BY <1>2, <1>8, LineRead DEF b, p
<1> HIDE DEF text
<1>11. inbody' = text
  <2>1. << >> \o text = text
    BY <1>10, ConcatEmptySeq
  <2> QED
    BY <1>1, <1>3, <2>1
<1>12. Start' = S /\ Current' = r /\ Understood'
  BY <1>1, <1>2, SameRequest DEF S
<1>13. Offset = p - S /\ Offset' = (p + k) - S
  <2>1. Offset = p - S /\ Offset' = Pos' - Start'
    BY DEF Offset, Start, S, p
  <2> QED
    BY <1>9, <1>12, <2>1
<1>14. p = S + bs + 2 /\ Offset' = HeadSize(r) + k
  BY <1>2, <1>3, <1>4, <1>6, <1>8, <1>13
<1>15. \A j \in 1 .. k : text[j] = r.body[j]
  <2>1. \A j \in 1 .. k : j \in 1 .. lb
    BY <1>6, <1>8
  <2> QED
    BY <1>6, <1>10, <1>14, <2>1
<1>16. CASE k = lb
  <2>1. inbody' = r.body
    <3>1. r.body \in Seq(Symbols)
      BY <1>4, Sizes
    <3> QED
      BY <1>10, <1>11, <1>15, <1>16, <3>1, SameText DEF lb
  <2>2. pc' = "prepare"
    BY <1>1, <1>6, <1>8, <1>16
  <2>3. inhdrs'.reqln = r.line
    BY <1>1, <1>3
  <2>4. BodyRead'
    BY <1>1, <1>3, <1>12, <1>14, <1>16, <2>1, <2>3 DEF BodyRead, lb
  <2> QED
    BY <1>9, <1>12, <2>2, <2>4 DEF InStep, Progress
<1>17. CASE k # lb
  <2>1. pc' = "body" /\ k = b
    BY <1>1, <1>6, <1>8, <1>17
  <2>2. inbuf' = << >>
    <3>1. inbuf' \in Seq(Symbols)
      <4>1. inbuf \in Seq(Symbols)
        BY Lengths
      <4> QED
        BY <1>1, <1>8, <4>1, Split DEF Extracted, b
    <3>2. Len(inbuf') = 0
      BY <1>4, <1>9, <2>1
    <3> QED
      BY <3>1, <3>2, EmptySeq
  <2>3. inhdrs'.reqln = r.line
    BY <1>1, <1>3
  <2>4. Len(inbody') = k
    BY <1>10, <1>11
  <2>5. Len(inbody') + inbody_sz' = lb
    BY <1>6, <1>8, <2>4
  <2>6. \A j \in 1 .. Len(inbody') : inbody'[j] = r.body[j]
    BY <1>11, <1>15, <2>4
  <2>7. InBody'
    BY <1>1, <1>3, <1>12, <1>14, <2>2, <2>3, <2>4, <2>5, <2>6 DEF InBody, lb
  <2> QED
    BY <1>9, <1>12, <2>1, <2>7 DEF InStep, Progress
<1> QED
  BY <1>16, <1>17

\* The rest of the body comes from the socket.
LEMMA ReadBodyInStep ==
  ASSUME TypeOK, InStep, NEW n \in 0 .. Len(wire), ReadBody(n), ~ torn'
  PROVE  InStep'
<1> DEFINE r == Current
           p == Pos
           S == Start
           b == Len(inbuf)
           w == Len(wire)
           d == Len(inbody)
           lb == Len(r.body)
           bs == BlockSize(r)
           last == Len(Sent)
<1>1. /\ pc = "body" /\ inbody' = inbody \o Piece(n) /\ wire' = Rest(n)
      /\ inbody_sz' = (inbody_sz - n) % SizeMod
      /\ pc' = IF inbody_sz' = 0 THEN "prepare" ELSE "body"
      /\ UNCHANGED <<sent, inbuf, inhdrs, got, crashed>> /\ ~ (n > inbody_sz)
  BY DEF ReadBody, Missing
<1>2. Synced /\ Uncut /\ Understood /\ InBody /\ p \in Nat
  BY <1>1 DEF InStep, Progress, Synced
<1>3. /\ Len(got) < Len(sent) /\ inbuf = << >> /\ Offset = HeadSize(r) + d
      /\ d + inbody_sz = lb /\ inhdrs.reqln = r.line
      /\ \A j \in 1 .. d : inbody[j] = r.body[j]
  BY <1>2 DEF InBody
<1>4. /\ sent \in Scripts /\ Len(got) \in Nat /\ WellFormed(r) /\ S \in Nat /\ w \in Nat /\ d \in Nat
      /\ last \in Nat /\ wire \in Seq(Symbols) /\ inbody \in Seq(Symbols) /\ b = 0
  <2>1. b = 0
    BY <1>3
  <2> QED
    BY <1>3, <2>1, Lengths, CurrentRequest
<1>5. Laid(r, S, Len(r.line) + 2, Len(r.other), lb, bs)
  BY <1>3, <1>4, AfterRequestLine
<1>6. /\ lb \in 0 .. 4 /\ bs \in Nat /\ HeadSize(r) = bs + 2
      /\ \A j \in 1 .. lb : Sent[S + bs + 2 + j] = r.body[j]
  <2>1. /\ lb \in 0 .. 4 /\ bs \in Nat /\ HeadSize(r) = bs + 2
    BY <1>4, Sizes
  <2>2. \A j \in 1 .. lb : Sent[S + bs + 2 + j] = r.body[j]
    BY <1>5 DEF Laid
  <2> QED
    BY <2>1, <2>2
<1>7. /\ Piece(n) \in Seq(Symbols) /\ Len(Piece(n)) = n
      /\ \A j \in 1 .. n : Piece(n)[j] = wire[j]
      /\ wire' \in Seq(Symbols) /\ Len(wire') = w - n
      /\ \A j \in 1 .. w - n : wire'[j] = wire[n + j]
  BY <1>1, <1>4, Split DEF Piece, Rest
<1>8. /\ p = last - b - w /\ \A i \in 1 .. w : wire[i] = Sent[p + b + i]
  BY <1>2 DEF Synced, Pos
<1>9. Joined(inbody', inbody, Piece(n))
  BY <1>1, <1>4, <1>7, Concat
<1>10. /\ inbody' \in Seq(Symbols) /\ Len(inbody') = d + n
       /\ \A j \in 1 .. d : inbody'[j] = inbody[j]
       /\ \A j \in 1 .. n : inbody'[d + j] = wire[j]
  BY <1>7, <1>9 DEF Joined
<1>11. Start' = S /\ Current' = r /\ Understood' /\ Sent' = Sent
  BY <1>1, <1>2, SameRequest
<1>12. Pos' = last - b - Len(wire') /\ Offset = p - S /\ Offset' = Pos' - S
  <2>1. Offset = p - S /\ Offset' = Pos' - Start'
    BY DEF Offset, Start
  <2>2. Pos' = last - b - Len(wire')
    BY <1>1, <1>11 DEF Pos
  <2> QED
    BY <1>11, <2>1, <2>2
<1>13. n \in Nat /\ n \in 0 .. w /\ inbody_sz \in 0 .. SizeMod - 1 /\ SizeMod \in Nat \ {0}
  BY <1>4, SizesAssumption DEF TypeOK
<1> HIDE DEF p, S, b, w, d, lb, bs, last
<1>14. inbody_sz' = inbody_sz - n
  <2>1. inbody_sz - n \in 0 .. SizeMod - 1
    BY <1>1, <1>13
  <2>2. \A x \in 0 .. SizeMod - 1 : x % SizeMod = x
    BY <1>13
  <2> QED
    BY <1>1, <2>1, <2>2
<1>15. Pos' = p + n /\ Pos' \in Nat /\ b = 0
  BY <1>2, <1>4, <1>7, <1>8, <1>12, <1>13
<1>16. p = S + bs + 2 + d /\ Offset' = HeadSize(r) + (d + n) /\ d + n <= lb /\ d <= lb
  <2> DEFINE hs == HeadSize(r)
  <2>1. Offset = hs + d /\ hs = bs + 2 /\ d + inbody_sz = lb
    BY <1>3, <1>6
  <2> HIDE DEF hs
  <2>2. p = S + bs + 2 + d
    BY <1>2, <1>4, <1>6, <1>12, <2>1
  <2>3. d + n <= lb /\ d <= lb
    BY <1>1, <1>4, <1>6, <1>13, <2>1
  <2>4. Offset' = hs + (d + n)
    BY <1>2, <1>4, <1>6, <1>12, <1>13, <1>15, <2>1, <2>2, SMTT(30)
  <2> QED
    BY <2>2, <2>3, <2>4 DEF hs
<1>17. Synced'
  <2>1. \A i \in 1 .. w - n : wire'[i] = Sent[(p + n) + 0 + i]
    <3> SUFFICES ASSUME NEW i \in 1 .. w - n PROVE wire'[i] = Sent[(p + n) + 0 + i]
      OBVIOUS
    <3>1. n + i \in 1 .. w /\ p + b + (n + i) = (p + n) + 0 + i
      BY <1>2, <1>4, <1>13, <1>15
    <3>2. wire'[i] = wire[n + i] /\ wire[n + i] = Sent[p + b + (n + i)]
      BY <1>7, <1>8, <3>1
    <3> QED
      BY <3>1, <3>2
  <2>2. \A i \in 1 .. Len(inbuf') : inbuf'[i] = Sent'[Pos' + i]
    <3>1. Len(inbuf') = 0
      BY <1>1, <1>15 DEF b
    <3> QED
      BY <3>1
  <2>3. \A i \in 1 .. Len(wire') : wire'[i] = Sent'[Pos' + Len(inbuf') + i]
    <3>1. Len(inbuf') = 0 /\ Len(wire') = w - n /\ Pos' = p + n /\ Sent' = Sent
      BY <1>1, <1>7, <1>11, <1>15 DEF b
    <3> QED
      BY <2>1, <3>1
  <2> QED
    BY <1>15, <2>2, <2>3 DEF Synced
<1>18. Uncut'
  BY <1>1, <1>3 DEF Uncut
<1>19. \A j \in 1 .. d + n : inbody'[j] = r.body[j]
  <2> SUFFICES ASSUME NEW j \in 1 .. d + n PROVE inbody'[j] = r.body[j]
    OBVIOUS
  <2>1. CASE j <= d
    <3>1. j \in 1 .. d
      BY <1>4, <1>13, <2>1
    <3> QED
      BY <1>3, <1>10, <3>1
  <2>2. CASE j > d
    <3> DEFINE i == j - d
    <3> HIDE DEF i
    <3>4. d \in Nat /\ n \in Nat /\ w \in Nat /\ n <= w /\ lb \in Nat /\ d + n <= lb
      <4>1. d \in Nat /\ w \in Nat
        BY <1>4
      <4>2. n \in Nat /\ n <= w
        BY <1>13, <4>1
      <4>3. lb \in Nat
        BY <1>6
      <4>4. d + n <= lb
        BY <1>16
      <4> QED
        BY <4>1, <4>2, <4>3, <4>4
    <3>5. S \in Nat /\ bs \in Nat /\ p = S + bs + 2 + d /\ b = 0
      <4>1. S \in Nat /\ bs \in Nat
        BY <1>4, <1>6
      <4> QED
        BY <1>15, <1>16, <4>1
    <3> USE DEF i
    <3>6. i \in 1 .. n /\ i \in 1 .. w /\ d + i = j /\ j \in 1 .. lb
      BY <2>2, <3>4
    <3>7. p + b + i = S + bs + 2 + j
      BY <3>4, <3>5
    <3>1. /\ i \in 1 .. n /\ i \in 1 .. w /\ d + i = j /\ j \in 1 .. lb
          /\ p + b + i = S + bs + 2 + j
      BY <3>6, <3>7
    <3> HIDE DEF i
    <3>2. inbody'[d + i] = wire[i] /\ wire[i] = Sent[p + b + i]
      BY <1>8, <1>10, <3>1
    <3>3. Sent[S + bs + 2 + j] = r.body[j]
      BY <1>6, <3>1
    <3> QED
      BY <3>1, <3>2, <3>3
  <2>3. j <= d \/ j > d
    BY <1>4, <1>13
  <2> QED
    BY <2>1, <2>2, <2>3
<1>20. CASE inbody_sz' = 0
  <2>1. d + n = lb
    <3>1. d \in Nat /\ n \in Nat /\ inbody_sz \in Nat /\ d + inbody_sz = lb
      BY <1>3, <1>4, <1>13
    <3>2. inbody_sz - n = 0
      BY <1>14, <1>20
    <3> QED
      BY <3>1, <3>2
  <2>2. inbody' = r.body
    <3>1. r.body \in Seq(Symbols)
      BY <1>4, Sizes
    <3> QED
      BY <1>10, <1>19, <2>1, <3>1, SameText DEF lb
  <2>3. Offset' = HeadSize(r) + lb
    BY <1>16, <2>1
  <2>4. BodyRead'
    BY <1>1, <1>3, <1>11, <2>2, <2>3 DEF BodyRead, lb
  <2> QED
    BY <1>1, <1>11, <1>17, <1>18, <1>20, <2>4 DEF InStep, Progress
<1>21. CASE inbody_sz' # 0
  <2>1. Len(inbody') + inbody_sz' = lb
    <3>1. d \in Nat /\ n \in Nat /\ inbody_sz \in Nat /\ d + inbody_sz = lb
      BY <1>3, <1>4, <1>13
    <3>2. Len(inbody') = d + n /\ inbody_sz' = inbody_sz - n
      BY <1>10, <1>14
    <3> QED
      BY <3>1, <3>2
  <2>2. Offset' = HeadSize(r) + Len(inbody') /\ \A j \in 1 .. Len(inbody') : inbody'[j] = r.body[j]
    BY <1>10, <1>16, <1>19
  <2>3. InBody'
    BY <1>1, <1>3, <1>11, <2>1, <2>2 DEF InBody, lb
  <2> QED
    BY <1>1, <1>11, <1>17, <1>18, <1>21, <2>3 DEF InStep, Progress
<1> QED
  BY <1>20, <1>21

\* A request is handed to prepare_response.
LEMMA PrepareInStep ==
  ASSUME TypeOK, InStep, Prepare
  PROVE  InStep'
<1> DEFINE r == Current
           g == Len(got)
           p == Pos
           S == Start
           lb == Len(r.body)
           bs == BlockSize(r)
           next == Len(Bytes[g + 1])
           rec == [reqln |-> inhdrs.reqln, body |-> inbody]
<1>1. /\ pc = "prepare" /\ got' = Append(got, rec) /\ pc' = "write"
      /\ UNCHANGED <<sent, wire, inbuf, inhdrs, inbody, inbody_sz, crashed, torn>>
  BY DEF Prepare
<1>2. Synced /\ Uncut /\ Understood /\ BodyRead /\ p \in Nat
  BY <1>1 DEF InStep, Progress, Synced
<1>3. /\ g < Len(sent) /\ inbody = r.body /\ inhdrs.reqln = r.line
      /\ Offset = HeadSize(r) + lb
  BY <1>2 DEF BodyRead
<1>4. /\ sent \in Scripts /\ g \in Nat /\ Len(sent) \in Nat /\ WellFormed(r) /\ S \in Nat
  BY <1>3, Lengths, CurrentRequest
<1>5. next = S + bs + 2 + lb /\ HeadSize(r) = bs + 2 /\ lb \in 0 .. 4 /\ bs \in Nat
  <2>1. Laid(r, S, Len(r.line) + 2, Len(r.other), lb, bs)
    BY <1>3, <1>4, AfterRequestLine
  <2> QED
    BY <2>1 DEF Laid
<1>6. Len(got') = g + 1 /\ got'[g + 1] = rec /\ \A i \in 1 .. g : got'[i] = got[i]
  <2>1. got \in Seq([reqln : Seq(Symbols), body : Seq(Symbols)])
    BY DEF TypeOK
  <2> HIDE DEF rec
  <2> QED
    BY <1>1, <2>1
<1>7. Sent' = Sent /\ Bytes' = Bytes /\ Requests' = Requests
  BY <1>1, SentSame DEF Requests
<1>8. Pos' = Pos
  BY <1>1, <1>7 DEF Pos
<1>9. Synced' /\ Uncut'
  BY <1>1, <1>2, <1>7, <1>8 DEF Synced, Uncut
<1>10. Offset' = p - next /\ Offset = p - S
  <2>1. Len(Bytes'[Len(got')]) = next
    BY <1>6, <1>7
  <2> QED
    BY <1>8, <2>1 DEF Offset, Start
<1>11. Answering'
  <2> HIDE DEF p, S, lb, bs, next
  <2>1. Offset' = 0
    BY <1>2, <1>3, <1>4, <1>5, <1>10
  <2> QED
    BY <2>1 DEF Answering
<1>12. Understood'
  <2>1. g + 1 <= Len(sent) /\ g + 1 \in 1 .. Len(sent)
    <3> HIDE DEF g
    <3> QED
      BY <1>3, <1>4
  <2>2. Requests[g + 1] = rec
    <3>1. g + 1 \in DOMAIN sent
      <4>1. sent \in Seq(Request)
        BY <1>4, ScriptsAssumption
      <4>2. DOMAIN sent = 1 .. Len(sent)
        BY <4>1
      <4> QED
        BY <2>1, <4>2
    <3>2. Requests[g + 1] = [reqln |-> sent[g + 1].line, body |-> sent[g + 1].body]
      BY <3>1 DEF Requests
    <3> QED
      BY <1>3, <3>2 DEF Current
  <2>3. \A i \in 1 .. g : got[i] = Requests[i]
    BY <1>2 DEF Understood
  <2> HIDE DEF g, rec
  <2>4. \A i \in 1 .. g + 1 : got'[i] = Requests[i]
    <3> SUFFICES ASSUME NEW i \in 1 .. g + 1 PROVE got'[i] = Requests[i]
      OBVIOUS
    <3>1. i = g + 1 \/ i \in 1 .. g
      BY <1>4
    <3> QED
      BY <1>6, <2>2, <2>3, <3>1
  <2> QED
    BY <1>1, <1>6, <1>7, <2>1, <2>4 DEF Understood
<1> QED
  BY <1>1, <1>9, <1>11, <1>12 DEF InStep, Progress

\* After the response, the next request.
LEMMA ResetInStep ==
  ASSUME TypeOK, InStep, Reset
  PROVE  InStep'
<1>1. /\ pc = "write" /\ inhdrs' = NoHeaders /\ inbody' = << >> /\ inbuf' = inbuf
      /\ pc' = IF inbuf' = << >> THEN "read" ELSE "pipeline"
      /\ UNCHANGED <<sent, wire, got, crashed, torn>>
  BY DEF Reset, Kept
<1>2. Synced /\ Uncut /\ Understood /\ Offset = 0 /\ Pos \in Nat
  BY <1>1 DEF InStep, Progress, Synced, Answering
<1>3. Sent' = Sent /\ Bytes' = Bytes /\ Understood' /\ Current' = Current
  BY <1>1, <1>2, SameRequest
<1>4. Pos' = Pos
  BY <1>1, <1>3 DEF Pos
<1>5. Synced' /\ Uncut'
  BY <1>1, <1>2, <1>3, <1>4 DEF Synced, Uncut
<1>6. Offset' = 0
  BY <1>1, <1>2, <1>3, <1>4 DEF Offset
<1>7. CASE Len(got) < Len(sent)
  <2>1. AtLine'
    BY <1>1, <1>6, <1>7 DEF AtLine, AtStart
  <2>2. pc' \in {"read", "pipeline"}
    BY <1>1
  <2> QED
    BY <1>3, <1>5, <2>1, <2>2 DEF InStep, Progress, InHeaders
<1>8. CASE ~ (Len(got) < Len(sent))
  <2>1. Len(got) = Len(sent)
    <3>1. Len(got) <= Len(sent)
      BY <1>2 DEF Understood
    <3> QED
      BY <1>8, <3>1, Lengths
  <2>2. Pos = Len(Sent)
    <3> DEFINE last == Len(Sent)
               p == Pos
    <3>1. Offset = p - last /\ last \in Nat /\ p \in Nat
      BY <1>2, <2>1, Lengths DEF Offset, Sent
    <3> HIDE DEF last, p
    <3>2. p = last
      BY <1>2, <3>1
    <3> QED
      BY <3>2 DEF p, last
  <2>3. inbuf = << >>
    <3> DEFINE last == Len(Sent)
               b == Len(inbuf)
               w == Len(wire)
    <3>1. last = last - b - w /\ last \in Nat /\ b \in Nat /\ w \in Nat /\ inbuf \in Seq(Symbols)
      BY <2>2, Lengths DEF Pos
    <3>2. b = 0
      <4> HIDE DEF last, b, w
      <4> QED
        BY <3>1
    <3> QED
      BY <3>1, <3>2, EmptySeq
  <2>4. pc' = "read" /\ AllRead'
    BY <1>1, <1>3, <1>4, <2>1, <2>2, <2>3 DEF AllRead
  <2> QED
    BY <1>3, <1>5, <2>4 DEF InStep, Progress, InHeaders
<1> QED
  BY <1>7, <1>8

\* At first nothing has been read.
LEMMA InitInStep == Init => InStep
<1> SUFFICES ASSUME Init PROVE InStep
  OBVIOUS
<1> DEFINE last == Len(Sent)
<1>1. /\ sent \in Scripts /\ wire = Sent /\ inbuf = << >> /\ got = << >> /\ pc = "read"
      /\ inhdrs = NoHeaders /\ inbody = << >>
  BY DEF Init, Sent
<1>2. /\ Len(sent) \in Nat /\ last \in Nat /\ Len(Bytes[0]) = 0
  <2>1. Len(sent) \in Nat /\ Sent \in Seq(Symbols) /\ Bytes[0] = << >>
    BY <1>1, SentLayout
  <2> QED
    BY <2>1
<1>3. Len(got) = 0 /\ Len(inbuf) = 0
  BY <1>1
<1>4. Pos = last - 0 - last
  BY <1>1, <1>3 DEF Pos
<1>5. Pos = 0
  <2> HIDE DEF last
  <2> QED
    BY <1>2, <1>4
<1>6. Synced
  <2>1. \A i \in 1 .. Len(inbuf) : inbuf[i] = Sent[Pos + i]
    BY <1>3
  <2>2. \A i \in 1 .. Len(wire) : wire[i] = Sent[Pos + Len(inbuf) + i]
    BY <1>1, <1>2, <1>3, <1>5
  <2> QED
    BY <1>5, <2>1, <2>2 DEF Synced
<1>7. Uncut
  BY <1>1 DEF Uncut
<1>8. Understood
  BY <1>2, <1>3 DEF Understood
<1>9. Offset = 0
  BY <1>2, <1>3, <1>5 DEF Offset
<1>10. InHeaders
  <2>1. CASE Len(sent) = 0
    <3>1. last = 0
      BY <1>2, <2>1 DEF Sent
    <3>2. AllRead
      BY <1>1, <1>3, <1>5, <2>1, <3>1 DEF AllRead
    <3> QED
      BY <3>2 DEF InHeaders
  <2>2. CASE Len(sent) # 0
    <3>1. Len(got) < Len(sent)
      BY <1>2, <1>3, <2>2
    <3>2. AtLine
      BY <1>1, <1>9, <3>1 DEF AtLine, AtStart
    <3> QED
      BY <3>2 DEF InHeaders
  <2> QED
    BY <2>1, <2>2
<1> QED
  BY <1>1, <1>6, <1>7, <1>8, <1>10 DEF InStep, Progress

\* As long as no read has been cut at one of the two bad places, the server is in step.
LEMMA StepInStep == IInv /\ [Next]_vars => IInv'
<1> SUFFICES ASSUME IInv, [Next]_vars PROVE IInv'
  OBVIOUS
<1>1. TypeOK /\ TypeOK' /\ (torn \/ InStep)
  BY StepTypes DEF IInv
<1>2. torn => torn'
  <2>1. ASSUME torn, NEW n \in 0 .. Len(wire), ReadHeaders(n) \/ ReadBody(n) PROVE torn'
    BY <2>1 DEF ReadHeaders, ReadBody
  <2>2. ASSUME torn, HeaderLine \/ EmptyLine \/ Unfinished \/ LineTooLong \/ BodyTooLarge
                       \/ CbufOverrun \/ HeadersDone \/ Prepare \/ Reset \/ UNCHANGED vars
        PROVE  torn'
    BY <2>2 DEF HeaderLine, EmptyLine, Unfinished, LineTooLong, BodyTooLarge, CbufOverrun,
                HeadersDone, Prepare, Reset, vars
  <2> QED
    BY <2>1, <2>2 DEF Next
<1> SUFFICES ASSUME ~ torn' PROVE InStep'
  BY <1>1 DEF IInv
<1>3. InStep
  BY <1>1, <1>2
<1>4. ASSUME NEW n \in 0 .. Len(wire), ReadHeaders(n) PROVE InStep'
  BY <1>1, <1>3, <1>4, ReadHeadersInStep
<1>5. ASSUME NEW n \in 0 .. Len(wire), ReadBody(n) PROVE InStep'
  BY <1>1, <1>3, <1>5, ReadBodyInStep
<1>6. CASE HeaderLine
  BY <1>1, <1>3, <1>6, HeaderLineInStep
<1>7. CASE EmptyLine
  BY <1>1, <1>3, <1>7, EmptyLineInStep
<1>8. CASE Unfinished
  BY <1>1, <1>3, <1>8, UnfinishedInStep
<1>9. CASE LineTooLong \/ BodyTooLarge \/ CbufOverrun \/ UNCHANGED vars
  <2>1. UNCHANGED <<sent, wire, inbuf, inhdrs, inbody, inbody_sz, pc, got>>
    BY <1>9 DEF LineTooLong, BodyTooLarge, CbufOverrun, vars
  <2> QED
    BY <1>3, <2>1, ThrowInStep
<1>10. CASE HeadersDone
  BY <1>1, <1>3, <1>10, HeadersDoneInStep
<1>11. CASE Prepare
  BY <1>1, <1>3, <1>11, PrepareInStep
<1>12. CASE Reset
  BY <1>1, <1>3, <1>12, ResetInStep
<1> QED
  BY <1>4, <1>5, <1>6, <1>7, <1>8, <1>9, <1>10, <1>11, <1>12 DEF Next

\* Until a read is cut between the CR and the LF of a line, or runs past the end of a
\* body, the server is in the state of parsing that belongs to its place in what the
\* client has sent.
THEOREM Invariance == Spec => []IInv
<1>1. Init => IInv
  BY InitTypes, InitInStep DEF IInv
<1> QED
  BY <1>1, StepInStep, PTL DEF Spec

\* What has been understood so far is what IntactUnlessTorn says of it.
LEMMA UnderstoodIsPrefix ==
  ASSUME TypeOK, Understood
  PROVE  RequestsIntact
<1> DEFINE R == [reqln : Seq(Symbols), body : Seq(Symbols)]
           g == Len(got)
<1>1. /\ got \in Seq(R) /\ sent \in Scripts /\ g \in Nat /\ Len(sent) \in Nat /\ g <= Len(sent)
      /\ \A i \in 1 .. g : got[i] = Requests[i]
  BY Lengths DEF TypeOK, Understood
<1>2. Requests \in Seq(R) /\ Len(Requests) = Len(sent)
  <2>1. sent \in Seq(Request)
    BY <1>1, ScriptsAssumption
  <2>2. DOMAIN sent = 1 .. Len(sent) /\ \A i \in 1 .. Len(sent) : sent[i] \in Request
    BY <2>1
  <2>3. \A i \in 1 .. Len(sent) : [reqln |-> sent[i].line, body |-> sent[i].body] \in R
    BY <2>2 DEF Request
  <2>4. Requests = [i \in 1 .. Len(sent) |-> [reqln |-> sent[i].line, body |-> sent[i].body]]
    BY <2>2 DEF Requests
  <2> HIDE DEF R
  <2> QED
    BY <1>1, <2>3, <2>4
<1> HIDE DEF R
<1>3. /\ SubSeq(got, 1, g) \in Seq(R) /\ Len(SubSeq(got, 1, g)) = g
      /\ \A i \in 1 .. g : SubSeq(got, 1, g)[i] = got[i]
  BY <1>1
<1>4. /\ SubSeq(Requests, 1, g) \in Seq(R) /\ Len(SubSeq(Requests, 1, g)) = g
      /\ \A i \in 1 .. g : SubSeq(Requests, 1, g)[i] = Requests[i]
  BY <1>1, <1>2
<1>5. SubSeq(got, 1, g) = SubSeq(Requests, 1, g)
  <2> DEFINE s == SubSeq(got, 1, g)
             u == SubSeq(Requests, 1, g)
  <2>1. s \in Seq(R) /\ u \in Seq(R) /\ Len(s) = Len(u) /\ \A i \in 1 .. Len(s) : s[i] = u[i]
    BY <1>1, <1>3, <1>4
  <2> HIDE DEF s, u
  <2>2. s = u
    BY <2>1
  <2> QED
    BY <2>2 DEF s, u
<1> QED
  BY <1>1, <1>2, <1>5 DEF RequestsIntact, IsPrefix

\* For any well-formed requests, pipelined in any number, and any cuts but those two:
\* the requests handed to prepare_response are the ones the client sent, in order,
\* with their bodies.
THEOREM Intact == Spec => []IntactUnlessTorn
<1>1. IInv => IntactUnlessTorn
  BY UnderstoodIsPrefix DEF IInv, InStep, Progress, IntactUnlessTorn
<1> QED
  BY <1>1, Invariance, PTL
=============================================================================
