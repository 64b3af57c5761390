-------------------------- MODULE HttpServerProofs --------------------------
(***************************************************************************)
(* HTTPServer for any number of connections, of lines, of requests and of  *)
(* cached responses.  One connection: how the stream is cut into reads     *)
(* does not matter (HttpSession).  Many connections that share the         *)
(* response cache: mutual exclusion by the SpinLock, the right response,   *)
(* and the closing of connections whose responses are shared (RespCache).  *)
(***************************************************************************)
EXTENDS RespCache, HttpSession, Induction

-----------------------------------------------------------------------------
(* The recursions.                                                         *)

Start(state) ==
  [parse |-> [state |-> state, request |-> request_, ok |-> TRUE], used |-> 0]

\* The rounds of parseRequest().
LEMMA RoundsIs ==
  ASSUME NEW state, NEW buff, Len(buff) \in Nat
  PROVE  \A k \in 0..Len(buff) :
           Rounds(state, buff)[k] =
             IF k = 0 THEN Start(state) ELSE parseNext(Rounds(state, buff)[k - 1], buff[k])
<1> DEFINE a == Start(state)
           Is(f, n) == f = [k \in 0..n |-> IF k = 0 THEN a ELSE parseNext(f[k - 1], buff[k])]
           T == {n \in Nat : \E f : Is(f, n)}
<1> HIDE DEF a
<1>1. 0 \in T
  <2> DEFINE f == [k \in 0..0 |-> a]
  <2>1. Is(f, 0)
    <3>1. \A k \in 0..0 : k = 0
      OBVIOUS
    <3> QED
      BY <3>1, Zenon
  <2> QED
    BY <2>1, Zenon
<1>2. \A n \in Nat : n \in T => n + 1 \in T
  <2> SUFFICES ASSUME NEW n \in Nat, NEW f, Is(f, n) PROVE \E g : Is(g, n + 1)
    <3>1. \A n \in Nat : n + 1 \in Nat
      OBVIOUS
    <3> QED
      BY <3>1, Zenon
  <2> DEFINE g == [k \in 0..(n + 1) |-> IF k <= n THEN f[k] ELSE parseNext(f[n], buff[n + 1])]
  <2>1. \A k \in 0..n : f[k] = IF k = 0 THEN a ELSE parseNext(f[k - 1], buff[k])
    BY Zenon
  <2>2. \A k \in 0..(n + 1) : g[k] = IF k <= n THEN f[k] ELSE parseNext(f[n], buff[n + 1])
    BY Zenon
  <2>3. ASSUME NEW k \in 0..(n + 1)
        PROVE  g[k] = IF k = 0 THEN a ELSE parseNext(g[k - 1], buff[k])
    <3> HIDE DEF g
    <3>1. CASE k \in 0..n
      <4>1. k # 0 => k - 1 \in 0..(n + 1) /\ k - 1 <= n
        BY <3>1
      <4>2. k # 0 => g[k - 1] = f[k - 1]
        BY <4>1, <2>2, Zenon
      <4>3. k <= n
        BY <3>1
      <4> QED
        BY <3>1, <2>1, <2>2, <4>2, <4>3, Zenon
    <3>2. CASE k = n + 1
      <4>1. k - 1 = n /\ n \in 0..(n + 1) /\ k # 0 /\ ~(k <= n) /\ n <= n
        BY <3>2
      <4> QED
        BY <3>2, <4>1, <2>2, Zenon
    <3>3. k \in 0..n \/ k = n + 1
      OBVIOUS
    <3> QED
      BY <3>1, <3>2, <3>3, Zenon
  <2>4. Is(g, n + 1)
    BY <2>3, Zenon
  <2> QED
    BY <2>4, Zenon
<1> HIDE DEF T
<1>3. Len(buff) \in T
  BY <1>1, <1>2, Every, Zenon
<1> USE DEF T
<1>4. Is(Rounds(state, buff), Len(buff))
  BY <1>3, Zenon DEF Rounds, Start, a
<1> QED
  BY <1>4, Zenon DEF a

Begin ==
  [parse |-> [state |-> "kExpectRequestLine", request |-> EmptyRequest, ok |-> TRUE],
   out |-> <<>>]

\* The answers to an uncut stream.
LEMMA AnswersIs ==
  ASSUME NEW lines, Len(lines) \in Nat
  PROVE  \A k \in 0..Len(lines) :
           Answers(lines)[k] =
             IF k = 0 THEN Begin ELSE answerNext(Answers(lines)[k - 1], lines[k])
<1> DEFINE a == Begin
           Is(f, n) == f = [k \in 0..n |-> IF k = 0 THEN a ELSE answerNext(f[k - 1], lines[k])]
           T == {n \in Nat : \E f : Is(f, n)}
<1> HIDE DEF a
<1>1. 0 \in T
  <2> DEFINE f == [k \in 0..0 |-> a]
  <2>1. Is(f, 0)
    <3>1. \A k \in 0..0 : k = 0
      OBVIOUS
    <3> QED
      BY <3>1, Zenon
  <2> QED
    BY <2>1, Zenon
<1>2. \A n \in Nat : n \in T => n + 1 \in T
  <2> SUFFICES ASSUME NEW n \in Nat, NEW f, Is(f, n) PROVE \E g : Is(g, n + 1)
    <3>1. \A n \in Nat : n + 1 \in Nat
      OBVIOUS
    <3> QED
      BY <3>1, Zenon
  <2> DEFINE g == [k \in 0..(n + 1) |-> IF k <= n THEN f[k] ELSE answerNext(f[n], lines[n + 1])]
  <2>1. \A k \in 0..n : f[k] = IF k = 0 THEN a ELSE answerNext(f[k - 1], lines[k])
    BY Zenon
  <2>2. \A k \in 0..(n + 1) : g[k] = IF k <= n THEN f[k] ELSE answerNext(f[n], lines[n + 1])
    BY Zenon
  <2>3. ASSUME NEW k \in 0..(n + 1)
        PROVE  g[k] = IF k = 0 THEN a ELSE answerNext(g[k - 1], lines[k])
    <3> HIDE DEF g
    <3>1. CASE k \in 0..n
      <4>1. k # 0 => k - 1 \in 0..(n + 1) /\ k - 1 <= n
        BY <3>1
      <4>2. k # 0 => g[k - 1] = f[k - 1]
        BY <4>1, <2>2, Zenon
      <4>3. k <= n
        BY <3>1
      <4> QED
        BY <3>1, <2>1, <2>2, <4>2, <4>3, Zenon
    <3>2. CASE k = n + 1
      <4>1. k - 1 = n /\ n \in 0..(n + 1) /\ k # 0 /\ ~(k <= n) /\ n <= n
        BY <3>2
      <4> QED
        BY <3>2, <4>1, <2>2, Zenon
    <3>3. k \in 0..n \/ k = n + 1
      OBVIOUS
    <3> QED
      BY <3>1, <3>2, <3>3, Zenon
  <2>4. Is(g, n + 1)
    BY <2>3, Zenon
  <2> QED
    BY <2>4, Zenon
<1> HIDE DEF T
<1>3. Len(lines) \in T
  BY <1>1, <1>2, Every, Zenon
<1> USE DEF T
<1>4. Is(Answers(lines), Len(lines))
  BY <1>3, Zenon DEF Answers, Begin, a
<1> QED
  BY <1>4, Zenon DEF a

\* Lines that follow do not change the answers to the lines before them.
LEMMA AnswersAgree ==
  ASSUME NEW s, NEW t, NEW m \in Nat, Len(s) \in Nat, Len(t) \in Nat,
         m <= Len(s), m <= Len(t), \A k \in 1..m : s[k] = t[k]
  PROVE  \A k \in 0..m : Answers(s)[k] = Answers(t)[k]
<1> DEFINE p == Answers(s)
           q == Answers(t)
           T == {k \in Nat : p[k] = q[k]}
<1>1. /\ \A k \in 0..Len(s) : p[k] = IF k = 0 THEN Begin ELSE answerNext(p[k - 1], s[k])
      /\ \A k \in 0..Len(t) : q[k] = IF k = 0 THEN Begin ELSE answerNext(q[k - 1], t[k])
  BY AnswersIs, Zenon
<1> HIDE DEF p, q
<1>2. 0 \in T
  <2>1. 0 \in 0..Len(s) /\ 0 \in 0..Len(t) /\ 0 \in Nat
    BY SMT
  <2> QED
    BY <2>1, <1>1, Zenon
<1>3. ASSUME NEW k \in 0..(m - 1), k \in T PROVE k + 1 \in T
  <2>1. /\ k + 1 \in 0..Len(s) /\ k + 1 \in 0..Len(t) /\ k + 1 # 0 /\ (k + 1) - 1 = k
        /\ k + 1 \in 1..m /\ k + 1 \in Nat
    BY SMT
  <2> QED
    BY <1>3, <2>1, <1>1, ZenonT(60)
<1> HIDE DEF T
<1>4. \A k \in 0..m : k \in T
  BY <1>2, <1>3, UpTo, Zenon
<1> QED
  BY <1>4, Zenon DEF T, p, q

-----------------------------------------------------------------------------
(* The parser.                                                             *)

Expecting == {"kExpectRequestLine", "kExpectHeader", "kExpectBody"}
Stage == Expecting \cup {"kGotAll"}

\* What the functions of HTTPContext make of a parse.
IsParse(p) ==
  /\ p = [state |-> p.state, request |-> p.request, ok |-> p.ok]
  /\ p.state \in Stage
  /\ p.ok \in BOOLEAN

Parse(x, y, z) == [state |-> x, request |-> y, ok |-> z]

\* A record with the three fields is a parse.
LEMMA MakeParse ==
  ASSUME NEW x \in Stage, NEW y, NEW z \in BOOLEAN
  PROVE  IsParse(Parse(x, y, z))
BY DEF IsParse, Parse

OtherState(p, x) == [p EXCEPT !.state = x]
OtherRequest(p, y) == [p EXCEPT !.request = y]
OtherOk(p, z) == [p EXCEPT !.ok = z]
OtherBoth(p, y, z) == [p EXCEPT !.request = y, !.ok = z]

\* What an assignment to a field leaves of a parse.
LEMMA OtherIs ==
  ASSUME NEW p, IsParse(p), NEW x, NEW y, NEW z
  PROVE  /\ OtherState(p, x) = Parse(x, p.request, p.ok)
         /\ OtherRequest(p, y) = Parse(p.state, y, p.ok)
         /\ OtherOk(p, z) = Parse(p.state, p.request, z)
         /\ OtherBoth(p, y, z) = Parse(p.state, y, z)
<1>1. PICK s, r, o : p = Parse(s, r, o)
  BY Zenon DEF IsParse, Parse
<1>2. p.state = s /\ p.request = r /\ p.ok = o
  BY <1>1 DEF Parse
<1>3. OtherState(p, x) = Parse(x, r, o)
  BY <1>1 DEF OtherState, Parse
<1>4. OtherRequest(p, y) = Parse(s, y, o)
  BY <1>1 DEF OtherRequest, Parse
<1>5. OtherOk(p, z) = Parse(s, r, z)
  BY <1>1 DEF OtherOk, Parse
<1>6. OtherBoth(p, y, z) = Parse(s, y, z)
  <2>1. OtherBoth(p, y, z) = OtherOk(OtherRequest(p, y), z)
    BY DEF OtherBoth, OtherOk, OtherRequest
  <2> QED
    BY <2>1, <1>4 DEF OtherOk, Parse
<1> QED
  BY <1>2, <1>3, <1>4, <1>5, <1>6, Zenon

\* An assignment to a field makes a parse of a parse.
LEMMA OtherParse ==
  ASSUME NEW p, IsParse(p), NEW x \in Stage, NEW y, NEW z \in BOOLEAN
  PROVE  /\ IsParse(OtherState(p, x)) /\ IsParse(OtherRequest(p, y))
         /\ IsParse(OtherOk(p, z)) /\ IsParse(OtherBoth(p, y, z))
         /\ IsParse([state |-> "kExpectHeader", ok |-> TRUE, request |-> y])
<1>1. p.state \in Stage /\ p.ok \in BOOLEAN
  BY Zenon DEF IsParse
<1>2. TRUE \in BOOLEAN /\ FALSE \in BOOLEAN /\ "kExpectHeader" \in Stage
  BY DEF Expecting, Stage
<1>3. [state |-> "kExpectHeader", ok |-> TRUE, request |-> y] =
        Parse("kExpectHeader", y, TRUE)
  BY DEF Parse
<1>4. IsParse(Parse("kExpectHeader", y, TRUE))
  BY <1>2, MakeParse, Zenon
<1>5. /\ OtherState(p, x) = Parse(x, p.request, p.ok)
      /\ OtherRequest(p, y) = Parse(p.state, y, p.ok)
      /\ OtherOk(p, z) = Parse(p.state, p.request, z)
      /\ OtherBoth(p, y, z) = Parse(p.state, y, z)
  BY OtherIs, ZenonT(60)
<1>6. IsParse(OtherState(p, x))
  BY <1>1, <1>5, MakeParse, Zenon
<1>7. IsParse(OtherRequest(p, y))
  BY <1>1, <1>5, MakeParse, Zenon
<1>8. IsParse(OtherOk(p, z))
  BY <1>1, <1>5, MakeParse, Zenon
<1>9. IsParse(OtherBoth(p, y, z))
  BY <1>1, <1>5, MakeParse, Zenon
<1> QED
  BY <1>3, <1>4, <1>6, <1>7, <1>8, <1>9, Zenon

\* A line makes a parse of a parse.
LEMMA ParseOneLine ==
  ASSUME NEW p, IsParse(p), p.state \in Expecting, NEW line
  PROVE  IsParse(parseOneLine(p, line))
<1>1. \A x \in Stage : \A y : \A z \in BOOLEAN :
        /\ IsParse(OtherState(p, x)) /\ IsParse(OtherRequest(p, y))
        /\ IsParse(OtherOk(p, z)) /\ IsParse(OtherBoth(p, y, z))
        /\ IsParse([state |-> "kExpectHeader", ok |-> TRUE, request |-> y])
  BY OtherParse, Zenon
<1>2. /\ "kExpectBody" \in Stage
      /\ "kGotAll" \in Stage
      /\ FALSE \in BOOLEAN
  BY DEF Expecting, Stage
<1>3. IsParse(parseRequestLine(p, line))
  <2> DEFINE uri == [p.request EXCEPT !.method = line.method, !.path = line.path]
             whole == [uri EXCEPT !.version = line.version]
  <2>1. \/ parseRequestLine(p, line) = OtherOk(p, FALSE)
        \/ parseRequestLine(p, line) = OtherBoth(p, uri, FALSE)
        \/ parseRequestLine(p, line) =
             [state |-> "kExpectHeader", ok |-> TRUE, request |-> whole]
    BY Zenon DEF parseRequestLine, OtherOk, OtherBoth
  <2> HIDE DEF uri, whole
  <2> QED
    BY <2>1, <1>1, <1>2, Zenon
<1>4. IsParse(parseHeader(p, line))
  <2>1. \/ parseHeader(p, line) = OtherOk(p, FALSE)
        \/ parseHeader(p, line) = OtherRequest(p, setHeader(p.request, line))
    BY Zenon DEF parseHeader, OtherOk, OtherRequest
  <2> QED
    BY <2>1, <1>1, <1>2, Zenon
<1>5. \/ parseOneLine(p, line) = parseRequestLine(p, line)
      \/ parseOneLine(p, line) = parseHeader(p, line)
      \/ parseOneLine(p, line) = OtherState(p, "kExpectBody")
      \/ parseOneLine(p, line) = OtherState(p, "kGotAll")
  <2>1. CASE p.state = "kExpectRequestLine"
    BY <2>1 DEF parseOneLine
  <2>2. CASE p.state = "kExpectHeader"
    <3>1. parseOneLine(p, line) =
            IF line.kind = "empty"
            THEN [p EXCEPT !.state = IF expectBody(p.request) THEN "kExpectBody" ELSE "kGotAll"]
            ELSE parseHeader(p, line)
      BY <2>2 DEF parseOneLine
    <3> QED
      BY <3>1, Zenon DEF OtherState
  <2>3. CASE p.state = "kExpectBody"
    BY <2>3 DEF parseOneLine, OtherState
  <2> QED
    BY <2>1, <2>2, <2>3, Zenon DEF Expecting
<1> QED
  BY <1>1, <1>2, <1>3, <1>4, <1>5, Zenon

\* Every round of parseRequest() leaves a parse, and used every line as long as
\* it neither met a bad line nor came to the end of a request.
RoundWell(r, k) ==
  /\ IsParse(r.parse)
  /\ r.used \in 0..k
  /\ r.parse.ok /\ r.parse.state # "kGotAll" => r.used = k

\* One round.
LEMMA RoundKeeps ==
  ASSUME NEW r, NEW k \in Nat, RoundWell(r, k), NEW line
  PROVE  RoundWell(parseNext(r, line), k + 1)
<1> DEFINE p == parseOneLine(r.parse, line)
<1>0. IsParse(r.parse) /\ r.used \in 0..k
  BY Zenon DEF RoundWell
<1>1. CASE ~r.parse.ok \/ r.parse.state = "kGotAll"
  <2>1. parseNext(r, line) = r
    BY <1>1, Zenon DEF parseNext
  <2>2. r.used \in 0..(k + 1)
    BY <1>0
  <2> QED
    BY <2>1, <2>2, <1>0, <1>1, Zenon DEF RoundWell
<1>2. CASE r.parse.ok /\ r.parse.state # "kGotAll"
  <2>1. parseNext(r, line) = [parse |-> p, used |-> IF p.ok THEN r.used + 1 ELSE r.used]
    BY <1>2, Zenon DEF parseNext
  <2>2. r.used = k
    BY <1>2, Zenon DEF RoundWell
  <2>3. IsParse(p)
    BY <1>0, <1>2, ParseOneLine, Zenon DEF IsParse, Stage
  <2>4. k \in 0..(k + 1) /\ k + 1 \in 0..(k + 1)
    OBVIOUS
  <2> HIDE DEF p
  <2>5. parseNext(r, line).parse = p /\ parseNext(r, line).used = IF p.ok THEN k + 1 ELSE k
    BY <2>1, <2>2
  <2> QED
    BY <2>3, <2>4, <2>5, Zenon DEF RoundWell
<1>3. r.parse.ok \in BOOLEAN
  BY <1>0, Zenon DEF IsParse
<1> QED
  BY <1>1, <1>2, <1>3, Zenon

\* All rounds.
LEMMA RoundsWell ==
  ASSUME NEW state \in Expecting, NEW buff, Len(buff) \in Nat
  PROVE  \A k \in 0..Len(buff) : RoundWell(Rounds(state, buff)[k], k)
<1> DEFINE L == Rounds(state, buff)
           T == {k \in Nat : RoundWell(L[k], k)}
<1>1. \A k \in 0..Len(buff) : L[k] = IF k = 0 THEN Start(state) ELSE parseNext(L[k - 1], buff[k])
  BY RoundsIs, Zenon
<1> HIDE DEF L
<1>2. 0 \in T
  <2>1. RoundWell(Start(state), 0)
    <3>1. state \in Stage /\ TRUE \in BOOLEAN
      BY DEF Stage
    <3>2. IsParse([state |-> state, request |-> request_, ok |-> TRUE])
      BY <3>1, MakeParse, Zenon DEF Parse
    <3>3. /\ Start(state).parse = [state |-> state, request |-> request_, ok |-> TRUE]
          /\ Start(state).used = 0 /\ 0 \in 0..0
      BY DEF Start
    <3> QED
      BY <3>2, <3>3, Zenon DEF RoundWell
  <2>2. 0 \in 0..Len(buff) /\ 0 \in Nat
    OBVIOUS
  <2> QED
    BY <1>1, <2>1, <2>2, Zenon
<1>3. ASSUME NEW k \in 0..(Len(buff) - 1), k \in T PROVE k + 1 \in T
  <2>1. k + 1 \in 0..Len(buff) /\ k + 1 # 0 /\ (k + 1) - 1 = k /\ k + 1 \in Nat /\ k \in Nat
    BY SMT
  <2>2. L[k + 1] = parseNext(L[k], buff[k + 1])
    BY <2>1, <1>1, Zenon
  <2> QED
    BY <1>3, <2>1, <2>2, RoundKeeps, Zenon
<1> HIDE DEF T
<1>4. \A k \in 0..Len(buff) : k \in T
  BY <1>2, <1>3, UpTo, Zenon
<1> QED
  BY <1>4, Zenon DEF T, L

-----------------------------------------------------------------------------
(* The answers.                                                            *)

Response == [code : {200, 400, 404}, close : BOOLEAN]
Open(out) == \A i \in 1..Len(out) : ~out[i].close

\* What connectionOnRead() sends is a response.
LEMMA Responses ==
  ASSUME NEW req
  PROVE  badRequest \in Response /\ notFound \in Response /\ respond(req) \in Response
<1>1. badRequest \in Response /\ notFound \in Response
  BY DEF badRequest, notFound, Response
<1>2. toClose(req) \in BOOLEAN
  BY Zenon DEF toClose
<1>3. [code |-> 200, close |-> toClose(req)] \in Response
  BY <1>2 DEF Response
<1> QED
  BY <1>1, <1>3, Zenon DEF respond

\* A line adds at most one response.
Grows(s, t) == t = s \/ \E r \in Response : t = Append(s, r)

\* Responses added to responses.
LEMMA GrowsType ==
  ASSUME NEW s \in Seq(Response), NEW t, Grows(s, t)
  PROVE  t \in Seq(Response)
BY DEF Grows

-----------------------------------------------------------------------------
(* The responses up to the one that closes.                                *)

Closer(out, c) ==
  /\ c \in 1..Len(out) /\ out[c].close
  /\ \A j \in 1..(c - 1) : ~out[j].close

\* UpToClose() ends with the first response that closes.
LEMMA CloserIs ==
  ASSUME NEW out \in Seq(Response), NEW c, Closer(out, c)
  PROVE  UpToClose(out) = SubSeq(out, 1, c)
<1> DEFINE P(i) == out[i].close /\ \A j \in 1..(i - 1) : ~out[j].close
           d == CHOOSE i \in DOMAIN out : P(i)
<1>1. DOMAIN out = 1..Len(out)
  OBVIOUS
<1>2. c \in DOMAIN out /\ P(c)
  BY <1>1, Zenon DEF Closer
<1>3. d \in DOMAIN out /\ P(d)
  BY <1>2, Zenon
<1>4. \A i, j \in DOMAIN out : i = j \/ i \in 1..(j - 1) \/ j \in 1..(i - 1)
  BY <1>1, SMT
<1> HIDE DEF d
<1>5. d = c
  BY <1>2, <1>3, <1>4, Zenon
<1>6. \E i \in DOMAIN out : out[i].close
  BY <1>2, Zenon
<1> QED
  BY <1>5, <1>6, Zenon DEF UpToClose, d

\* When a response closes there is a first one.
LEMMA HasCloser ==
  ASSUME NEW out \in Seq(Response), ~Open(out)
  PROVE  \E c : Closer(out, c)
<1> DEFINE T == {i \in 1..Len(out) : out[i].close}
<1>1. T \in SUBSET Nat /\ T # {}
  BY DEF Open
<1>2. PICK c \in T : \A j \in T : c <= j
  <2> HIDE DEF T
  <2> QED
    BY <1>1, LeastNat, Zenon
<1>3. ASSUME NEW j \in 1..(c - 1) PROVE ~out[j].close
  <2>1. j \in 1..Len(out) /\ ~(c <= j)
    BY <1>2, SMT
  <2> QED
    BY <2>1, <1>2, Zenon
<1> QED
  BY <1>2, <1>3, Zenon DEF Closer

\* Nothing is cut off while no response closes.
LEMMA OpenIsWhole ==
  ASSUME NEW out \in Seq(Response), Open(out)
  PROVE  UpToClose(out) = out
<1>1. DOMAIN out = 1..Len(out)
  OBVIOUS
<1> QED
  BY <1>1, Zenon DEF Open, UpToClose

\* A response behind others that do not close is not cut off.
LEMMA OpenGrown ==
  ASSUME NEW s \in Seq(Response), Open(s), NEW r \in Response
  PROVE  UpToClose(Append(s, r)) = Append(s, r)
<1> DEFINE t == Append(s, r)
<1>1. /\ t \in Seq(Response) /\ Len(t) = Len(s) + 1 /\ t[Len(s) + 1] = r
      /\ \A j \in 1..Len(s) : t[j] = s[j]
  OBVIOUS
<1>2. Len(s) \in Nat
  OBVIOUS
<1>3. SubSeq(t, 1, Len(t)) = t
  OBVIOUS
<1> HIDE DEF t
<1>4. CASE r.close
  <2>1. Closer(t, Len(t))
    <3>1. Len(t) \in 1..Len(t) /\ Len(t) - 1 = Len(s)
      BY <1>1, <1>2, SMT
    <3> QED
      BY <3>1, <1>1, <1>4, Zenon DEF Closer, Open
  <2> QED
    BY <2>1, <1>1, <1>3, CloserIs, Zenon DEF t
<1>5. CASE ~r.close
  <2>1. Open(t)
    <3>1. \A j \in 1..Len(t) : j \in 1..Len(s) \/ j = Len(s) + 1
      BY <1>1, <1>2, SMT
    <3> QED
      BY <3>1, <1>1, <1>5, Zenon DEF Open
  <2> QED
    BY <2>1, <1>1, OpenIsWhole, Zenon DEF t
<1> QED
  BY <1>4, <1>5, Zenon

\* Nothing that is sent behind a response that closes counts.
LEMMA ClosedStays ==
  ASSUME NEW s \in Seq(Response), ~Open(s), NEW t, Grows(s, t)
  PROVE  ~Open(t) /\ UpToClose(t) = UpToClose(s)
<1>1. PICK c : Closer(s, c)
  BY HasCloser, Zenon
<1>2. ASSUME NEW r \in Response, t = Append(s, r)
      PROVE  ~Open(t) /\ UpToClose(t) = UpToClose(s)
  <2>1. /\ t \in Seq(Response) /\ \A j \in 1..Len(s) : t[j] = s[j] /\ j \in 1..Len(t)
        /\ \A k \in 1..Len(s) : SubSeq(t, 1, k) = SubSeq(s, 1, k)
    BY <1>2
  <2>2. \A j \in 1..(c - 1) : c \in 1..Len(s) => j \in 1..Len(s)
    BY SMT
  <2>3. Closer(t, c)
    BY <1>1, <2>1, <2>2, Zenon DEF Closer
  <2>4. ~Open(t)
    BY <2>3, Zenon DEF Closer, Open
  <2>5. SubSeq(t, 1, c) = SubSeq(s, 1, c)
    BY <1>1, <2>1, Zenon DEF Closer
  <2> QED
    BY <1>1, <2>1, <2>3, <2>4, <2>5, CloserIs, Zenon
<1> QED
  BY <1>2, Zenon DEF Grows

Acc(p, o) == [parse |-> p, out |-> o]
AnsweredAs(a, q, o) ==
  /\ ~q.ok => a.out = Append(o, badRequest)
  /\ q.ok /\ q.state = "kGotAll" =>
       a = Acc(Parse("kExpectRequestLine", q.request, TRUE), Append(o, respond(q.request)))
  /\ q.ok /\ q.state # "kGotAll" => a = Acc(q, o)

\* With a line more, an open stream is answered as parseRequest() goes on.
LEMMA AnswerOpen ==
  ASSUME NEW p, NEW o \in Seq(Response), Open(o), NEW line,
         IsParse(parseOneLine(p, line))
  PROVE  AnsweredAs(answerNext(Acc(p, o), line), parseOneLine(p, line), o)
<1> DEFINE acc == Acc(p, o)
           a == answerNext(acc, line)
           q == parseOneLine(p, line)
<1>1. acc.parse = p /\ acc.out = o
  BY DEF Acc
<1>2. ~Closing(o)
  <2>1. o # <<>> => Len(o) \in 1..Len(o)
    OBVIOUS
  <2> QED
    BY <2>1, Zenon DEF Closing, Open
<1>3. a = IF ~q.ok THEN [acc EXCEPT !.out = Append(@, badRequest)]
          ELSE IF q.state = "kGotAll"
          THEN [parse |-> OtherState(q, "kExpectRequestLine"),
                out |-> Append(o, respond(q.request))]
          ELSE [acc EXCEPT !.parse = q]
  <2> HIDE DEF acc
  <2> QED
    BY <1>1, <1>2, Zenon DEF answerNext, OtherState
<1>4. IsParse(q)
  BY Zenon
<1>5. OtherState(q, "kExpectRequestLine") = Parse("kExpectRequestLine", q.request, q.ok)
  BY <1>4, OtherIs, Zenon
<1> HIDE DEF a, q
<1>6. ~q.ok => a.out = Append(o, badRequest)
  <2> DEFINE e == [acc EXCEPT !.out = Append(@, badRequest)]
  <2>1. e.out = Append(o, badRequest)
    BY DEF acc, Acc
  <2>2. ~q.ok => a = e
    BY <1>3, Zenon
  <2> HIDE DEF e
  <2> QED
    BY <2>1, <2>2, Zenon
<1>7. q.ok /\ q.state = "kGotAll" =>
        a = [parse |-> Parse("kExpectRequestLine", q.request, TRUE),
             out |-> Append(o, respond(q.request))]
  <2>1. q.ok => q.ok = TRUE
    BY <1>4, Zenon DEF IsParse
  <2>2. q.ok /\ q.state = "kGotAll" =>
          a = [parse |-> OtherState(q, "kExpectRequestLine"),
               out |-> Append(o, respond(q.request))]
    BY <1>3, Zenon
  <2>3. q.ok => OtherState(q, "kExpectRequestLine") = Parse("kExpectRequestLine", q.request, TRUE)
    BY <1>5, <2>1, Zenon
  <2> QED
    BY <2>2, <2>3, Zenon
<1>8. q.ok /\ q.state # "kGotAll" => a = [parse |-> q, out |-> o]
  <2> DEFINE e == [acc EXCEPT !.parse = q]
  <2>1. e = [parse |-> q, out |-> o]
    BY DEF acc, Acc
  <2>2. q.ok /\ q.state # "kGotAll" => a = e
    BY <1>3, Zenon
  <2> HIDE DEF e
  <2> QED
    BY <2>1, <2>2, Zenon
<1> QED
  BY <1>6, <1>7, <1>8, Zenon DEF a, q, AnsweredAs, Acc

-----------------------------------------------------------------------------
(* One read against the uncut stream.                                      *)

\* The loop of parseRequest() has used the k lines behind the first u of stream.
Going(stream, u, o, r, k) ==
  /\ r.parse.ok /\ r.parse.state \in Expecting
  /\ r.used = k
  /\ Answers(stream)[u + k] = Acc(r.parse, o)

\* It has come to the end of a request, or to a bad line, with the j-th.
Ended(stream, u, o, r, j) ==
  \/ /\ r.parse.ok /\ r.parse.state = "kGotAll"
     /\ r.used = j
     /\ Answers(stream)[u + j] = Acc(Parse("kExpectRequestLine", r.parse.request, TRUE),
                                    Append(o, respond(r.parse.request)))
  \/ /\ ~r.parse.ok
     /\ Answers(stream)[u + j].out = Append(o, badRequest)

Along(stream, u, o, r, k) ==
  IsParse(r.parse) /\ (Going(stream, u, o, r, k) \/ \E j \in 1..k : Ended(stream, u, o, r, j))

Advances(stream, i, line) ==
  Answers(stream)[i + 1] = answerNext(Answers(stream)[i], line)

\* One round.
LEMMA AlongStep ==
  ASSUME NEW stream, NEW u \in Nat, NEW k \in Nat, NEW o \in Seq(Response), Open(o), NEW r,
         NEW line,
         Along(stream, u, o, r, k),
         Advances(stream, u + k, line)
  PROVE  Along(stream, u, o, parseNext(r, line), k + 1)
<1> DEFINE m == k + 1
           b == Answers(stream)
<1>1. m \in 1..m /\ \A j \in 1..k : j \in 1..m
  OBVIOUS
<1>2. ASSUME NEW j \in 1..k, Ended(stream, u, o, r, j)
      PROVE  Along(stream, u, o, parseNext(r, line), k + 1)
  <2>1. parseNext(r, line) = r
    BY <1>2, Zenon DEF Ended, parseNext
  <2> QED
    BY <1>1, <1>2, <2>1, Zenon DEF Along
<1>3. CASE Going(stream, u, o, r, k)
  <2> DEFINE p == r.parse
             q == parseOneLine(p, line)
             w == parseNext(r, line)
  <2>1. IsParse(q)
    BY <1>3, ParseOneLine, Zenon DEF Along, Going
  <2>2. w = [parse |-> q, used |-> IF q.ok THEN r.used + 1 ELSE r.used]
    <3>1. p.ok /\ p.state # "kGotAll"
      BY <1>3 DEF Going, Expecting
    <3> QED
      BY <3>1, Zenon DEF parseNext
  <2>3. b[u + m] = answerNext(Acc(p, o), line)
    <3>1. u + m = (u + k) + 1
      BY SMT
    <3> QED
      BY <3>1, <1>3, Zenon DEF Going, Advances
  <2>4. AnsweredAs(b[u + m], q, o)
    BY <2>1, <2>3, AnswerOpen, Zenon
  <2>5. r.used = k
    BY <1>3, Zenon DEF Going
  <2> HIDE DEF q
  <2>6. w.parse = q /\ w.used = IF q.ok THEN m ELSE k
    BY <2>2, <2>5
  <2>7. q.ok \in BOOLEAN /\ (q.state \in Expecting \/ q.state = "kGotAll")
    BY <2>1 DEF IsParse, Stage
  <2> HIDE DEF w, b, m
  <2>8. CASE ~q.ok
    <3>1. Ended(stream, u, o, w, m)
      BY <2>4, <2>6, <2>8, Zenon DEF AnsweredAs, Ended, b
    <3> QED
      BY <3>1, <1>1, <2>1, <2>6, Zenon DEF Along, w, m
  <2>9. CASE q.ok /\ q.state = "kGotAll"
    <3>1. Ended(stream, u, o, w, m)
      BY <2>4, <2>6, <2>9, Zenon DEF AnsweredAs, Ended, b
    <3> QED
      BY <3>1, <1>1, <2>1, <2>6, Zenon DEF Along, w, m
  <2>10. CASE q.ok /\ q.state # "kGotAll"
    <3>1. Going(stream, u, o, w, m)
      BY <2>4, <2>6, <2>7, <2>10, Zenon DEF AnsweredAs, Going, b
    <3> QED
      BY <3>1, <2>1, <2>6, Zenon DEF Along, w, m
  <2> QED
    BY <2>7, <2>8, <2>9, <2>10, Zenon
<1> QED
  BY <1>2, <1>3, Zenon DEF Along

\* All rounds: parseRequest() on the lines left of a stream.
LEMMA AlongAll ==
  ASSUME NEW stream, Len(stream) \in Nat, NEW buff, Len(buff) \in Nat, NEW u \in Nat,
         Len(stream) = u + Len(buff), \A k \in 1..Len(buff) : buff[k] = stream[u + k],
         NEW o \in Seq(Response), Open(o), NEW state \in Expecting,
         Answers(stream)[u] = Acc(Parse(state, request_, TRUE), o)
  PROVE  Along(stream, u, o, Rounds(state, buff)[Len(buff)], Len(buff))
<1> DEFINE L == Rounds(state, buff)
           b == Answers(stream)
           T == {k \in Nat : Along(stream, u, o, L[k], k)}
<1>1. \A k \in 0..Len(buff) : L[k] = IF k = 0 THEN Start(state) ELSE parseNext(L[k - 1], buff[k])
  BY ONLY Len(buff) \in Nat, RoundsIs, ZenonT(60)
<1>2. \A k \in 0..Len(stream) : b[k] = IF k = 0 THEN Begin ELSE answerNext(b[k - 1], stream[k])
  BY AnswersIs, Zenon
<1> HIDE DEF L, b
<1>3. 0 \in T
  <2>1. 0 \in 0..Len(buff) /\ 0 \in Nat /\ u + 0 = u /\ TRUE \in BOOLEAN
    OBVIOUS
  <2>2. state \in Stage
    BY DEF Stage
  <2>3. Start(state).parse = Parse(state, request_, TRUE) /\ Start(state).used = 0
    BY DEF Start, Parse
  <2>4. IsParse(Start(state).parse)
    BY <2>1, <2>2, <2>3, MakeParse, Zenon
  <2>5. Start(state).parse.ok /\ Start(state).parse.state = state
    BY DEF Start
  <2>6. L[0] = Start(state)
    BY <1>1, <2>1, Zenon
  <2>7. Going(stream, u, o, L[0], 0)
    BY <2>1, <2>3, <2>5, <2>6, Zenon DEF Going
  <2> QED
    BY <2>1, <2>4, <2>6, <2>7, Zenon DEF Along
<1>4. ASSUME NEW k \in 0..(Len(buff) - 1), k \in T PROVE k + 1 \in T
  <2>1. k + 1 \in 0..Len(buff) /\ k + 1 # 0 /\ (k + 1) - 1 = k /\ k + 1 \in Nat /\ k \in Nat
        /\ k + 1 \in 1..Len(buff)
    BY SMT
  <2>2. /\ (u + k) + 1 \in 0..Len(stream) /\ (u + k) + 1 # 0 /\ ((u + k) + 1) - 1 = u + k
        /\ u + (k + 1) = (u + k) + 1
    BY SMT
  <2>3. L[k + 1] = parseNext(L[k], buff[k + 1])
    BY <2>1, <1>1, Zenon
  <2>4. Advances(stream, u + k, buff[k + 1])
    BY <2>1, <2>2, <1>2, ZenonT(60) DEF Advances, b
  <2>5. Along(stream, u, o, L[k], k)
    BY <1>4, Zenon
  <2> DEFINE r == L[k]
             line == buff[k + 1]
  <2>6. Along(stream, u, o, r, k) /\ Advances(stream, u + k, line)
    BY <2>4, <2>5, Zenon
  <2> HIDE DEF r, line
  <2>7. Along(stream, u, o, parseNext(r, line), k + 1)
    BY <2>1, <2>6, AlongStep, Zenon
  <2>8. Along(stream, u, o, L[k + 1], k + 1)
    BY <2>3, <2>7, Zenon DEF r, line
  <2> QED
    BY <2>1, <2>8, Zenon
<1> HIDE DEF T
<1>5. \A k \in 0..Len(buff) : k \in T
  BY <1>3, <1>4, UpTo, Zenon
<1>6. Len(buff) \in 0..Len(buff)
  OBVIOUS
<1> QED
  BY <1>5, <1>6, Zenon DEF T, L

-----------------------------------------------------------------------------
(* The connection.                                                         *)

\* The first u lines of stream have been answered with out; as long as no
\* response closes, the other lines are in buff, and the parser is where it
\* would be after u lines of the uncut stream.
Caught(stream, buff, state, req, out, u) ==
  /\ UpToClose(out) = Answers(stream)[u].out
  /\ Open(out) => /\ buff = SubSeq(stream, u + 1, Len(stream))
                  /\ Answers(stream)[u] = Acc(Parse(state, req, TRUE), out)

SessionInv ==
  /\ received \in Seq(Lines) /\ in_buffer_ \in Seq(Lines) /\ sent \in Seq(Response)
  /\ state_ \in Expecting
  /\ \E u \in 0..Len(received) : Caught(received, in_buffer_, state_, request_, sent, u)
  /\ NoLineLeftBehind

\* Initially no line has been answered.
LEMMA SessionInitOK == SessionInit => SessionInv
<1> SUFFICES ASSUME SessionInit PROVE SessionInv
  OBVIOUS
<1> DEFINE e == <<>>
<1>1. e \in Seq(Lines) /\ e \in Seq(Response) /\ Len(e) = 0 /\ Len(e) \in Nat /\ Open(e)
  BY DEF Open
<1>2. SubSeq(e, 0 + 1, Len(e)) = e /\ 0 \in 0..Len(e)
  OBVIOUS
<1> HIDE DEF e
<1>3. Answers(e)[0] = Begin
  BY <1>1, <1>2, AnswersIs, Zenon
<1>4. Begin = Acc(Parse("kExpectRequestLine", EmptyRequest, TRUE), e)
  BY Zenon DEF Begin, Acc, Parse, e
<1>5. Begin.out = e
  BY DEF Begin, e
<1>6. UpToClose(e) = e
  BY <1>1, OpenIsWhole, Zenon
<1>7. received = e /\ in_buffer_ = e /\ sent = e /\ state_ = "kExpectRequestLine"
      /\ request_ = EmptyRequest
  BY Zenon DEF SessionInit, e
<1>8. Caught(received, in_buffer_, state_, request_, sent, 0)
  BY <1>2, <1>3, <1>4, <1>5, <1>6, <1>7, Zenon DEF Caught
<1>9. state_ \in Expecting
  BY <1>7 DEF Expecting
<1>10. NoLineLeftBehind
  BY <1>7, Zenon DEF NoLineLeftBehind, e
<1> QED
  BY <1>1, <1>2, <1>7, <1>8, <1>9, <1>10, Zenon DEF SessionInv

\* Sequences of lines with the same length and elements are the same.
LEMMA SameLines ==
  ASSUME NEW s \in Seq(Lines), NEW t \in Seq(Lines),
         Len(s) = Len(t), \A i \in 1..Len(s) : s[i] = t[i]
  PROVE  s = t
BY SMT

\* The end of a sequence of lines.
LEMMA EndOfLines ==
  ASSUME NEW s \in Seq(Lines), NEW u \in 0..Len(s)
  PROVE  /\ SubSeq(s, u + 1, Len(s)) \in Seq(Lines)
         /\ Len(SubSeq(s, u + 1, Len(s))) = Len(s) - u
         /\ \A k \in 1..(Len(s) - u) : SubSeq(s, u + 1, Len(s))[k] = s[u + k]
<1>1. SubSeq(s, u + 1, Len(s)) \in Seq(Lines)
  BY SMT
<1>2. Len(SubSeq(s, u + 1, Len(s))) = Len(s) - u
  BY SMT
<1>3. \A k \in 1..(Len(s) - u) : SubSeq(s, u + 1, Len(s))[k] = s[u + k]
  <2> TAKE k \in 1..(Len(s) - u)
  <2>1. SubSeq(s, u + 1, Len(s))[k] = s[(u + 1) + k - 1]
    BY SMT
  <2>2. (u + 1) + k - 1 = u + k
    BY SMT
  <2> QED
    BY <2>1, <2>2, Zenon
<1> QED
  BY <1>1, <1>2, <1>3, Zenon

\* A read behind them.
LEMMA JoinLines ==
  ASSUME NEW s \in Seq(Lines), NEW t \in Seq(Lines)
  PROVE  /\ s \o t \in Seq(Lines)
         /\ Len(s \o t) = Len(s) + Len(t)
         /\ \A i \in 1..Len(s) : (s \o t)[i] = s[i]
         /\ \A i \in 1..Len(t) : (s \o t)[Len(s) + i] = t[i]
BY SMT

Continues(s, t, u) ==
  LET b == SubSeq(s, u + 1, Len(s)) \o t
      w == s \o t
  IN  /\ b \in Seq(Lines) /\ w \in Seq(Lines)
      /\ Len(w) = u + Len(b)
      /\ \A k \in 1..Len(b) : b[k] = w[u + k]
      /\ \A j \in 0..Len(b) : SubSeq(b, j + 1, Len(b)) = SubSeq(w, (u + j) + 1, Len(w))

\* The lines behind those that are answered, with those of a read, are the end of
\* the longer stream.
LEMMA ReadLines ==
  ASSUME NEW s \in Seq(Lines), NEW t \in Seq(Lines), NEW u \in 0..Len(s)
  PROVE  Continues(s, t, u)
<1> DEFINE a == SubSeq(s, u + 1, Len(s))
           b == a \o t
           w == s \o t
<1>1. a \in Seq(Lines) /\ Len(a) = Len(s) - u /\ \A k \in 1..(Len(s) - u) : a[k] = s[u + k]
  BY EndOfLines
<1> HIDE DEF a
<1>2. /\ b \in Seq(Lines) /\ Len(b) = Len(a) + Len(t)
      /\ \A i \in 1..Len(a) : b[i] = a[i]
      /\ \A i \in 1..Len(t) : b[Len(a) + i] = t[i]
  BY <1>1, JoinLines, Zenon
<1>3. /\ w \in Seq(Lines) /\ Len(w) = Len(s) + Len(t)
      /\ \A i \in 1..Len(s) : w[i] = s[i]
      /\ \A i \in 1..Len(t) : w[Len(s) + i] = t[i]
  BY JoinLines
<1>4. Len(s) \in Nat /\ Len(t) \in Nat
  OBVIOUS
<1> HIDE DEF b, w
<1>5. ASSUME NEW k \in 1..Len(b) PROVE b[k] = w[u + k]
  <2>1. CASE k <= Len(a)
    <3>1. k \in 1..Len(a) /\ k \in 1..(Len(s) - u) /\ u + k \in 1..Len(s)
      BY <1>1, <1>4, <2>1, SMT
    <3> QED
      BY <3>1, <1>1, <1>2, <1>3, Zenon
  <2>2. CASE ~(k <= Len(a))
    <3> DEFINE i == k - Len(a)
    <3>1. i \in 1..Len(t) /\ Len(a) + i = k /\ Len(s) + i = u + k
      BY <1>1, <1>2, <1>4, <2>2, SMT
    <3> HIDE DEF i
    <3> QED
      BY <3>1, <1>2, <1>3, Zenon
  <2> QED
    BY <2>1, <2>2, Zenon
<1>6. Len(w) = u + Len(b) /\ Len(b) \in Nat
  BY <1>1, <1>2, <1>3, <1>4, SMT
<1>7. ASSUME NEW j \in 0..Len(b)
      PROVE  SubSeq(b, j + 1, Len(b)) = SubSeq(w, (u + j) + 1, Len(w))
  <2> DEFINE x == SubSeq(b, j + 1, Len(b))
             v == u + j
             y == SubSeq(w, v + 1, Len(w))
  <2>1. v \in 0..Len(w) /\ Len(w) - v = Len(b) - j
    BY <1>6, SMT
  <2>2. x \in Seq(Lines) /\ Len(x) = Len(b) - j /\ \A k \in 1..(Len(b) - j) : x[k] = b[j + k]
    BY <1>2, EndOfLines, Zenon
  <2> HIDE DEF v
  <2>3. y \in Seq(Lines) /\ Len(y) = Len(w) - v /\ \A k \in 1..(Len(w) - v) : y[k] = w[v + k]
    BY <1>3, <2>1, EndOfLines, Zenon
  <2>4. \A k \in 1..(Len(b) - j) : j + k \in 1..Len(b) /\ u + (j + k) = v + k
    BY <1>6, SMT DEF v
  <2> HIDE DEF x, y
  <2>5. \A k \in 1..Len(x) : x[k] = y[k]
    <3> SUFFICES ASSUME NEW k \in 1..(Len(b) - j) PROVE x[k] = y[k]
      BY <2>2, Zenon
    <3>1. j + k \in 1..Len(b) /\ u + (j + k) = v + k
      BY <2>4, Zenon
    <3>2. x[k] = b[j + k] /\ y[k] = w[v + k]
      BY <2>1, <2>2, <2>3, Zenon
    <3>3. b[j + k] = w[u + (j + k)]
      BY <3>1, <1>5, Zenon
    <3> QED
      BY <3>1, <3>2, <3>3, Zenon
  <2>6. x = y
    BY <2>1, <2>2, <2>3, <2>5, SameLines, Zenon
  <2> QED
    BY <2>6, Zenon DEF x, y, v
<1> QED
  BY <1>2, <1>3, <1>5, <1>6, <1>7, Zenon DEF Continues, a, b, w

\* What connectionOnRead() does with the result of parseRequest().
ReadIs(lines, buff, r) ==
  /\ received' = received \o lines
  /\ in_buffer_' = SubSeq(buff, r.used + 1, Len(buff))
  /\ request_' = r.parse.request
  /\ state_' = resetState(r.parse)
  /\ ~r.parse.ok => sent' = Append(sent, badRequest) /\ answered' = TRUE
  /\ r.parse.ok /\ r.parse.state = "kGotAll" =>
       sent' = Append(sent, respond(r.parse.request)) /\ answered' = TRUE
  /\ r.parse.ok /\ r.parse.state # "kGotAll" => sent' = sent

\* connectionOnRead(), with sent written as what is appended to it.
LEMMA ReadStep ==
  ASSUME NEW lines, connectionOnRead(lines), sent \in Seq(Response),
         IsParse(parseRequest(in_buffer_ \o lines).parse)
  PROVE  ReadIs(lines, in_buffer_ \o lines, parseRequest(in_buffer_ \o lines))
<1> DEFINE buff == in_buffer_ \o lines
           r == parseRequest(buff)
           p == r.parse
           more == IF ~p.ok THEN <<badRequest>>
                   ELSE IF p.state = "kGotAll" THEN <<respond(p.request)>> ELSE <<>>
<1>1. /\ received' = received \o lines
      /\ in_buffer_' = SubSeq(buff, r.used + 1, Len(buff))
      /\ request_' = p.request /\ state_' = resetState(p)
      /\ sent' = sent \o more
      /\ answered' = (~p.ok \/ p.state = "kGotAll")
  BY Zenon DEF connectionOnRead
<1>2. \A x \in Response : sent \o <<x>> = Append(sent, x)
  OBVIOUS
<1>3. sent \o <<>> = sent
  OBVIOUS
<1>4. badRequest \in Response /\ respond(p.request) \in Response
  BY Responses, Zenon
<1>5. ~p.ok => more = <<badRequest>>
  BY Zenon
<1>6. p.ok /\ p.state = "kGotAll" => more = <<respond(p.request)>>
  BY Zenon
<1>7. p.ok /\ p.state # "kGotAll" => more = <<>>
  BY Zenon
<1> HIDE DEF more, r, buff
<1> QED
  BY <1>1, <1>2, <1>3, <1>4, <1>5, <1>6, <1>7, Zenon DEF ReadIs, r, buff

\* A read keeps the invariant.
LEMMA ReadKeeps ==
  ASSUME SessionInv, NEW lines \in Seq(Lines), connectionOnRead(lines)
  PROVE  SessionInv'
<1> DEFINE buff == in_buffer_ \o lines
           stream == received \o lines
           r == parseRequest(buff)
           p == r.parse
<1>1. /\ received \in Seq(Lines) /\ in_buffer_ \in Seq(Lines) /\ sent \in Seq(Response)
      /\ state_ \in Expecting
  BY Zenon DEF SessionInv
<1>2. PICK u \in 0..Len(received) : Caught(received, in_buffer_, state_, request_, sent, u)
  BY Zenon DEF SessionInv
<1>3. /\ buff \in Seq(Lines) /\ stream \in Seq(Lines)
      /\ Len(stream) = Len(received) + Len(lines)
      /\ \A i \in 1..Len(received) : stream[i] = received[i]
  BY <1>1, JoinLines
<1>4. Len(buff) \in Nat /\ Len(buff) \in 0..Len(buff)
  BY <1>3
<1>5. /\ Len(stream) \in Nat /\ Len(received) \in Nat
      /\ Len(received) <= Len(received) /\ Len(received) <= Len(stream)
      /\ u \in 0..Len(stream) /\ u \in Nat
  BY <1>1, <1>3
<1> HIDE DEF stream
<1>6. Answers(stream)[u] = Answers(received)[u]
  BY <1>3, <1>5, AnswersAgree, ZenonT(60)
<1> HIDE DEF buff
<1>7. RoundWell(r, Len(buff))
  BY <1>1, <1>4, RoundsWell, Zenon DEF parseRequest
<1>8. IsParse(p)
  BY <1>7, Zenon DEF RoundWell
<1>9. ReadIs(lines, buff, r)
  BY <1>1, <1>8, ReadStep, Zenon DEF buff
<1> HIDE DEF r
<1>10. p.ok \in BOOLEAN /\ p.state \in Stage /\ r.used \in 0..Len(buff)
  BY <1>7, <1>8, Zenon DEF IsParse, RoundWell
<1>11. state_' \in Expecting
  <2>1. resetState(p) \in Expecting
    BY <1>10 DEF resetState, Stage, Expecting
  <2> QED
    BY <2>1, <1>9, Zenon DEF ReadIs
<1>12. badRequest \in Response /\ respond(p.request) \in Response
  BY Responses, Zenon
<1>13. Grows(sent, sent')
  BY <1>9, <1>10, <1>12, Zenon DEF ReadIs, Grows
<1>14. sent' \in Seq(Response)
  BY <1>1, <1>13, GrowsType, Zenon
<1>15. in_buffer_' \in Seq(Lines)
  BY <1>3, <1>9, <1>10, EndOfLines, Zenon DEF ReadIs
<1>16. received' = stream
  BY <1>9, Zenon DEF ReadIs, stream
<1>17. NoLineLeftBehind'
  <2>1. CASE p.ok /\ p.state # "kGotAll"
    <3>1. r.used = Len(buff)
      BY <1>7, <2>1, Zenon DEF RoundWell
    <3>2. SubSeq(buff, Len(buff) + 1, Len(buff)) = <<>>
      BY <1>3
    <3> QED
      BY <1>9, <3>1, <3>2, Zenon DEF ReadIs, NoLineLeftBehind
  <2>2. CASE ~p.ok \/ p.state = "kGotAll"
    BY <1>9, <1>10, <2>2, Zenon DEF ReadIs, NoLineLeftBehind
  <2> QED
    BY <2>1, <2>2, <1>10, Zenon
<1>18. \E v \in 0..Len(stream) : Caught(stream, in_buffer_', state_', request_', sent', v)
  <2>1. CASE ~Open(sent)
    <3>1. ~Open(sent') /\ UpToClose(sent') = UpToClose(sent)
      BY <1>1, <1>13, <2>1, ClosedStays, Zenon
    <3> QED
      BY <3>1, <1>2, <1>5, <1>6, Zenon DEF Caught
  <2>2. CASE Open(sent)
    <3>1. /\ in_buffer_ = SubSeq(received, u + 1, Len(received))
          /\ Answers(stream)[u] = Acc(Parse(state_, request_, TRUE), sent)
      BY <1>2, <1>6, <2>2, Zenon DEF Caught
    <3>2. Continues(received, lines, u)
      BY <1>1, ReadLines, Zenon
    <3>3. /\ Len(stream) = u + Len(buff)
          /\ \A k \in 1..Len(buff) : buff[k] = stream[u + k]
          /\ \A j \in 0..Len(buff) :
               SubSeq(buff, j + 1, Len(buff)) = SubSeq(stream, (u + j) + 1, Len(stream))
      BY <3>1, <3>2, Zenon DEF Continues, buff, stream
    <3>4. Along(stream, u, sent, r, Len(buff))
      <4>1. Along(stream, u, sent, Rounds(state_, buff)[Len(buff)], Len(buff))
        BY <1>1, <1>4, <1>5, <2>2, <3>1, <3>3, AlongAll, ZenonT(60)
      <4> QED
        BY <4>1, Zenon DEF r, parseRequest
    <3>5. \A i \in 0..Len(buff) : u + i \in 0..Len(stream)
      BY <1>4, <1>5, <3>3, SMT
    <3>6. UpToClose(sent) = sent
      BY <1>1, <2>2, OpenIsWhole, Zenon
    <3>7. CASE Going(stream, u, sent, r, Len(buff))
      <4> DEFINE v == u + Len(buff)
      <4>1. p.ok /\ p.state \in Expecting /\ r.used = Len(buff) /\ Answers(stream)[v] = Acc(p, sent)
        BY <3>7, Zenon DEF Going
      <4>2. p.state # "kGotAll"
        BY <4>1 DEF Expecting
      <4>3. v \in 0..Len(stream)
        BY <1>4, <3>5, Zenon
      <4>4. in_buffer_' = SubSeq(stream, v + 1, Len(stream))
        BY <1>4, <1>9, <3>3, <4>1, Zenon DEF ReadIs
      <4> HIDE DEF v
      <4>5. sent' = sent /\ state_' = p.state /\ request_' = p.request
        BY <1>9, <4>1, <4>2, Zenon DEF ReadIs, resetState
      <4>6. p = Parse(p.state, p.request, p.ok) /\ p.ok = TRUE
        BY <1>8, <4>1, Zenon DEF IsParse, Parse
      <4>7. Acc(p, sent).out = sent
        BY DEF Acc
      <4>8. Answers(stream)[v] = Acc(Parse(p.state, p.request, TRUE), sent)
        BY <4>1, <4>6, Zenon
      <4>9. Caught(stream, in_buffer_', state_', request_', sent', v)
        BY <3>6, <4>1, <4>4, <4>5, <4>7, <4>8, ZenonT(60) DEF Caught
      <4> QED
        BY <4>3, <4>9, Zenon
    <3>8. ASSUME NEW j \in 1..Len(buff), Ended(stream, u, sent, r, j)
          PROVE  \E v \in 0..Len(stream) : Caught(stream, in_buffer_', state_', request_', sent', v)
      <4> DEFINE v == u + j
                 x == respond(p.request)
                 q == Parse("kExpectRequestLine", p.request, TRUE)
      <4>1. j \in 0..Len(buff)
        BY <1>4, SMT
      <4>2. v \in 0..Len(stream)
        BY <4>1, <3>5, Zenon
      <4>3. CASE p.ok /\ p.state = "kGotAll"
        <5>1. r.used = j /\ Answers(stream)[v] = Acc(q, Append(sent, x))
          BY <3>8, <4>3, Zenon DEF Ended
        <5>2. /\ sent' = Append(sent, x) /\ state_' = "kExpectRequestLine"
              /\ request_' = p.request
          BY <1>9, <4>3, Zenon DEF ReadIs, resetState
        <5>3. in_buffer_' = SubSeq(stream, v + 1, Len(stream))
          BY <1>9, <3>3, <4>1, <5>1, Zenon DEF ReadIs
        <5>4. UpToClose(Append(sent, x)) = Append(sent, x)
          BY <1>1, <1>12, <2>2, OpenGrown, Zenon
        <5> HIDE DEF v, x
        <5>5. Acc(q, Append(sent, x)).out = Append(sent, x)
          BY DEF Acc
        <5>6. Caught(stream, in_buffer_', state_', request_', sent', v)
          BY <5>1, <5>2, <5>3, <5>4, <5>5, ZenonT(60) DEF Caught
        <5> QED
          BY <4>2, <5>6, Zenon
      <4>4. CASE ~p.ok
        <5>1. Answers(stream)[v].out = Append(sent, badRequest)
          BY <3>8, <4>4, Zenon DEF Ended
        <5>2. sent' = Append(sent, badRequest)
          BY <1>9, <4>4, Zenon DEF ReadIs
        <5>3. UpToClose(Append(sent, badRequest)) = Append(sent, badRequest)
          BY <1>1, <1>12, <2>2, OpenGrown, Zenon
        <5>4. ~Open(Append(sent, badRequest))
          <6>1. badRequest.close
            BY DEF badRequest
          <6>2. \A s \in Seq(Response), y \in Response :
                  /\ Len(s) + 1 \in 1..Len(Append(s, y)) /\ Append(s, y)[Len(s) + 1] = y
            OBVIOUS
          <6> QED
            BY <1>1, <1>12, <6>1, <6>2, Zenon DEF Open
        <5> HIDE DEF v
        <5>5. Caught(stream, in_buffer_', state_', request_', sent', v)
          BY <5>1, <5>2, <5>3, <5>4, Zenon DEF Caught
        <5> QED
          BY <4>2, <5>5, Zenon
      <4> QED
        BY <3>8, <4>3, <4>4, Zenon DEF Ended
    <3> QED
      BY <3>4, <3>7, <3>8, Zenon DEF Along
  <2> QED
    BY <2>1, <2>2, Zenon
<1> QED
  BY <1>3, <1>11, <1>14, <1>15, <1>16, <1>17, <1>18, Zenon DEF SessionInv

\* Every state of the connection.
LEMMA SessionInvariant == SessionSpec => []SessionInv
<1>1. SessionInit => SessionInv
  BY SessionInitOK
<1>2. SessionInv /\ [SessionNext]_sessionVars => SessionInv'
  <2> SUFFICES ASSUME SessionInv, [SessionNext]_sessionVars PROVE SessionInv'
    OBVIOUS
  <2>1. CASE UNCHANGED sessionVars
    <3>1. /\ in_buffer_' = in_buffer_ /\ state_' = state_ /\ request_' = request_
          /\ received' = received /\ sent' = sent /\ answered' = answered
      BY <2>1, Zenon DEF sessionVars
    <3> QED
      BY <3>1, Zenon DEF SessionInv, NoLineLeftBehind
  <2>2. ASSUME NEW n \in 0..MaxRead, NEW lines \in [1..n -> Lines], connectionOnRead(lines)
        PROVE  SessionInv'
    <3>1. n \in Nat
      BY HttpSessionAssumption
    <3>2. lines \in Seq(Lines)
      BY <3>1
    <3> QED
      BY <2>2, <3>2, ReadKeeps, Zenon
  <2> QED
    BY <2>1, <2>2, Zenon DEF SessionNext
<1> QED
  BY <1>1, <1>2, PTL DEF SessionSpec

\* An answer that closes is the last one.
LEMMA ClosedAnswersStay ==
  ASSUME NEW stream, Len(stream) \in Nat, NEW u \in 0..Len(stream),
         Closing(Answers(stream)[u].out)
  PROVE  Answers(stream)[u].out = Reference(stream)
<1> DEFINE b == Answers(stream)
           n == Len(stream) - u
           T == {k \in Nat : b[u + k] = b[u]}
<1>1. \A k \in 0..Len(stream) : b[k] = IF k = 0 THEN Begin ELSE answerNext(b[k - 1], stream[k])
  BY AnswersIs, Zenon
<1> HIDE DEF b
<1>2. n \in Nat /\ u + n = Len(stream) /\ n \in 0..n
  OBVIOUS
<1>3. 0 \in T
  <2>1. u + 0 = u /\ 0 \in Nat
    OBVIOUS
  <2> QED
    BY <2>1, Zenon
<1>4. ASSUME NEW k \in 0..(n - 1), k \in T PROVE k + 1 \in T
  <2>1. /\ u + (k + 1) \in 0..Len(stream) /\ u + (k + 1) # 0
        /\ (u + (k + 1)) - 1 = u + k /\ k + 1 \in Nat
    BY SMT
  <2>2. b[u + (k + 1)] = answerNext(b[u + k], stream[u + (k + 1)])
    BY <1>1, <2>1, Zenon
  <2>3. b[u + k] = b[u] /\ Closing(b[u].out)
    BY <1>4, Zenon DEF b
  <2>4. b[u + (k + 1)] = b[u]
    BY <2>2, <2>3, Zenon DEF answerNext
  <2> QED
    BY <2>1, <2>4, Zenon
<1> HIDE DEF T, n
<1>5. n \in T
  BY <1>2, <1>3, <1>4, UpTo, Zenon
<1> QED
  BY <1>2, <1>5, Zenon DEF T, b, Reference

\* What is sent up to the first response that closes ends with it.
LEMMA UpToCloseCloses ==
  ASSUME NEW out \in Seq(Response), ~Open(out)
  PROVE  Closing(UpToClose(out))
<1>1. PICK c : Closer(out, c)
  BY HasCloser, Zenon
<1>2. UpToClose(out) = SubSeq(out, 1, c)
  BY <1>1, CloserIs, Zenon
<1>3. \A k \in 1..Len(out) :
        LET s == SubSeq(out, 1, k) IN s # <<>> /\ s[Len(s)] = out[k]
  OBVIOUS
<1> QED
  BY <1>1, <1>2, <1>3, Zenon DEF Closer, Closing

\* The first lines of the stream, cut off where the buffer begins.
LEMMA FirstLines ==
  ASSUME NEW stream \in Seq(Lines), NEW u \in 0..Len(stream),
         NEW buff, buff = SubSeq(stream, u + 1, Len(stream))
  PROVE  LET first == SubSeq(stream, 1, Len(stream) - Len(buff))
         IN  /\ Len(first) = u /\ u \in Nat
             /\ \A i \in 1..u : stream[i] = first[i]
<1>1. Len(buff) = Len(stream) - u
  OBVIOUS
<1>2. Len(stream) - Len(buff) = u
  BY <1>1
<1> QED
  BY <1>2

\* Whatever the reads, the responses are exactly those to the lines parsed.
THEOREM AnswersOfTheStream == SessionSpec => []AnsweredAsUncut
<1>1. SessionInv => AnsweredAsUncut
  <2> SUFFICES ASSUME SessionInv PROVE AnsweredAsUncut
    OBVIOUS
  <2>1. received \in Seq(Lines) /\ sent \in Seq(Response)
    BY Zenon DEF SessionInv
  <2>2. Len(received) \in Nat
    BY <2>1
  <2>3. PICK u \in 0..Len(received) : Caught(received, in_buffer_, state_, request_, sent, u)
    BY Zenon DEF SessionInv
  <2>4. UpToClose(sent) = Answers(received)[u].out
    BY <2>3, Zenon DEF Caught
  <2>5. Open(sent) <=> ~\E i \in DOMAIN sent : sent[i].close
    BY <2>1 DEF Open
  <2>6. CASE Open(sent)
    <3> DEFINE first == SubSeq(received, 1, Len(received) - Len(in_buffer_))
    <3>1. in_buffer_ = SubSeq(received, u + 1, Len(received))
      BY <2>3, <2>6, Zenon DEF Caught
    <3>2. /\ Len(first) = u /\ u \in Nat /\ u \in 0..u
          /\ \A i \in 1..u : received[i] = first[i]
      BY <2>1, <3>1, FirstLines
    <3>3. DueLines = first
      BY <2>5, <2>6, Zenon DEF DueLines
    <3> HIDE DEF first
    <3>4. u <= Len(received) /\ u <= Len(first)
      BY <2>2, <3>2
    <3>5. Answers(received)[u] = Answers(first)[u]
      BY <2>2, <3>2, <3>4, AnswersAgree, ZenonT(60)
    <3> QED
      BY <2>4, <3>2, <3>3, <3>5, Zenon DEF AnsweredAsUncut, Reference
  <2>7. CASE ~Open(sent)
    <3>1. DueLines = received
      BY <2>5, <2>7, Zenon DEF DueLines
    <3>2. Closing(Answers(received)[u].out)
      BY <2>1, <2>4, <2>7, UpToCloseCloses, Zenon
    <3> QED
      BY <2>2, <2>4, <3>1, <3>2, ClosedAnswersStay, Zenon DEF AnsweredAsUncut
  <2> QED
    BY <2>6, <2>7, Zenon
<1> QED
  BY <1>1, SessionInvariant, PTL

\* A line stays unparsed only behind a response.
THEOREM LinesAreUsed == SessionSpec => []NoLineLeftBehind
<1>1. SessionInv => NoLineLeftBehind
  BY Zenon DEF SessionInv
<1> QED
  BY <1>1, SessionInvariant, PTL

-----------------------------------------------------------------------------
(* Sequences.                                                              *)

\* A function on 1..n is a sequence.
LEMMA IsSeq ==
  ASSUME NEW S, NEW n \in Nat, NEW t, t = [j \in 1..n |-> t[j]], \A j \in 1..n : t[j] \in S
  PROVE  t \in Seq(S)
BY SMT

\* A part of a sequence.
LEMMA PartIs ==
  ASSUME NEW S, NEW s \in Seq(S), NEW m \in Int, NEW n \in Int, 1 <= m, n <= Len(s)
  PROVE  SubSeq(s, m, n) \in Seq(S)
BY SMT

\* Two sequences, one behind the other.
LEMMA JoinedIs ==
  ASSUME NEW S, NEW s \in Seq(S), NEW t \in Seq(S)
  PROVE  s \o t \in Seq(S)
BY SMT

\* One more element.
LEMMA AppendedIs ==
  ASSUME NEW S, NEW s \in Seq(S), NEW x \in S
  PROVE  /\ Append(s, x) \in Seq(S)
         /\ Len(Append(s, x)) = Len(s) + 1
         /\ \A i \in 1..Len(s) : Append(s, x)[i] = s[i]
         /\ Append(s, x)[Len(s) + 1] = x
BY SMT

\* An element replaced.
LEMMA ChangedIs ==
  ASSUME NEW S, NEW s \in Seq(S), NEW i \in 1..Len(s), NEW x \in S
  PROVE  /\ Len([s EXCEPT ![i] = x]) = Len(s)
         /\ \A j \in 1..Len(s) : [s EXCEPT ![i] = x][j] = IF j = i THEN x ELSE s[j]
<1> DEFINE t == [s EXCEPT ![i] = x]
<1>1. DOMAIN t = 1..Len(s) /\ Len(s) \in Nat
  OBVIOUS
<1>2. \A j \in 1..Len(s) : t[j] = IF j = i THEN x ELSE s[j]
  OBVIOUS
<1>3. \A j \in 1..Len(s) : t[j] \in S
  BY <1>2
<1>4. t = [j \in 1..Len(s) |-> t[j]]
  BY <1>1, Zenon
<1> HIDE DEF t
<1>5. t \in Seq(S)
  BY <1>1, <1>3, <1>4, IsSeq
<1>6. Len(t) = Len(s)
  BY <1>1, <1>5
<1> QED
  BY <1>2, <1>6, Zenon DEF t

-----------------------------------------------------------------------------
(* The response cache.                                                     *)

\* The SpinLock: a thread between lock() and the end of the lock_guard has set
\* lck, and no other thread is there.
LockInv ==
  /\ pc \in [Conns -> {"parse", "lock", "decide", "send", "close"} \cup Locked]
  /\ \A c \in Conns : pc[c] \in Locked => lck
  /\ OneThreadInCache

\* The list and the map are used by one thread at a time.
THEOREM MutualExclusion == Spec => []OneThreadInCache
<1> USE DEF Locked, OneThreadInCache, LockInv
<1>1. Init => LockInv
  BY ZenonT(60) DEF Init
<1>2. LockInv /\ [Next]_vars => LockInv'
  <2> SUFFICES ASSUME LockInv, [Next]_vars PROVE LockInv'
    BY Zenon
  <2> USE DEF At, Goto
  <2>1. CASE UNCHANGED vars
    BY <2>1, Zenon DEF vars
  <2>2. ASSUME NEW c \in Conns, readRequest(c) PROVE LockInv'
    BY <2>2 DEF readRequest
  <2>3. ASSUME NEW c \in Conns, lock(c) PROVE LockInv'
    BY <2>3 DEF lock
  <2>4. ASSUME NEW c \in Conns, count(c) PROVE LockInv'
    BY <2>4 DEF count
  <2>5. ASSUME NEW c \in Conns, getRespCache(c) PROVE LockInv'
    BY <2>5, ZenonT(60) DEF getRespCache
  <2>6. ASSUME NEW c \in Conns, makeResponse(c) PROVE LockInv'
    BY <2>6 DEF makeResponse
  <2>7. ASSUME NEW c \in Conns, evict(c) PROVE LockInv'
    BY <2>7 DEF evict
  <2>8. ASSUME NEW c \in Conns, addRespCache(c) PROVE LockInv'
    BY <2>8 DEF addRespCache
  <2>9. ASSUME NEW c \in Conns, unlock(c) PROVE LockInv'
    BY <2>9, Zenon DEF unlock
  <2>10. ASSUME NEW c \in Conns, decide(c) PROVE LockInv'
    BY <2>10, Zenon DEF decide
  <2>11. ASSUME NEW c \in Conns, appendToBuffer(c) PROVE LockInv'
    BY <2>11, Zenon DEF appendToBuffer
  <2>12. ASSUME NEW c \in Conns, shutdownOrNot(c) PROVE LockInv'
    BY <2>12, ZenonT(60) DEF shutdownOrNot
  <2> QED
    BY <2>1, <2>2, <2>3, <2>4, <2>5, <2>6, <2>7, <2>8, <2>9, <2>10, <2>11,
       <2>12, Zenon DEF Next
<1> QED
  BY <1>1, <1>2, PTL DEF Spec

-----------------------------------------------------------------------------
(* The responses.                                                          *)

Requests ==
  [path : {v.path : v \in Values \cup {NoValue}},
   version : {v.version : v \in Values \cup {NoValue}},
   connection : {v.connection : v \in Values \cup {NoValue}}]

\* A request object is such a record after every request parsed into it.
LEMMA ParsedType ==
  ASSUME NEW old \in Requests, NEW v \in Values
  PROVE  Parsed(old, v) \in Requests
<1> DEFINE x == IF old.connection = Absent THEN v.connection ELSE old.connection
<1>1. DOMAIN v = {"path", "version", "connection"}
  BY RespCacheAssumption, Zenon
<1>2. x \in {w.connection : w \in Values \cup {NoValue}}
  BY Zenon DEF Requests
<1>3. Parsed(old, v) = [path |-> v.path, version |-> v.version, connection |-> x]
  BY <1>1 DEF Parsed
<1> HIDE DEF x
<1>4. /\ v.path \in {w.path : w \in Values \cup {NoValue}}
      /\ v.version \in {w.version : w \in Values \cup {NoValue}}
  BY Zenon
<1> QED
  BY <1>2, <1>3, <1>4, SMT DEF Requests

\* The response of c was made for its request, by c or by another thread.
Own(c) ==
  /\ response[c] \in 3..Len(responses)
  /\ responses[response[c]].of = request[c]

TypeInv ==
  /\ request \in [Conns -> Requests]
  /\ pc \in [Conns -> {"parse", "lock", "decide", "send", "close"} \cup Locked]
  /\ response \in [Conns -> Nat \ {0}]
  /\ responses \in Seq([of : Requests, close_connection_ : BOOLEAN])
  /\ framing \in [Conns -> {"none", "close", "length"}]
  /\ cache_node_list_ \in Seq([req : Conns, resp : Nat \ {0}])

\* While no invalid iterator has been used: a thread that has got or made a
\* response has that of its request, and a map entry leads to the response of
\* the request that was hashed.
OwnInv ==
  /\ \A c \in Conns : pc[c] \in {"evict", "add", "unlock", "decide"} => Own(c)
  /\ \A e \in req_to_cache_node_iter_ : e.node # NoNode =>
       /\ e.node \in 3..Len(responses)
       /\ responses[e.node].of = e.hash

\* close_connection_ is never set but as the request of the response asks, by
\* every thread that shares it, and is set when a thread comes to send it.
CloseInv ==
  /\ Len(responses) >= 2
  /\ \A i \in 1..2 : responses[i].close_connection_ = TRUE
  /\ \A i \in 3..Len(responses) :
       responses[i].close_connection_ => toClose(responses[i].of)
  /\ \A c \in Conns : pc[c] \in {"send", "close"} =>
       \/ response[c] \in {1, 2}
       \/ Own(c) /\ responses[response[c]].close_connection_ = toClose(request[c])
  /\ \A c \in Conns : pc[c] = "close" =>
       framing[c] = IF Closes(c) THEN "close" ELSE "length"

DataInv == TypeInv /\ (~undefined => OwnInv /\ CloseInv)

\* splice() puts the node of the response in front and keeps the others.
LEMMA SpliceFront ==
  ASSUME TypeInv, NEW id, Live(id)
  PROVE  /\ splice(id) \in Seq([req : Conns, resp : Nat \ {0}])
         /\ Head(splice(id)).resp = id
         /\ id \in Nat \ {0}
<1> DEFINE S == [req : Conns, resp : Nat \ {0}]
           list == cache_node_list_
           i == CHOOSE j \in DOMAIN list : list[j].resp = id
<1>1. list \in Seq(S)
  BY Zenon DEF TypeInv
<1>2. i \in DOMAIN list /\ list[i].resp = id
  BY Zenon DEF Live
<1> HIDE DEF i, list, S
<1>3. i \in 1..Len(list) /\ list[i] \in S
  BY <1>1, <1>2
<1>4. /\ SubSeq(list, 1, i - 1) \in Seq(S)
      /\ SubSeq(list, i + 1, Len(list)) \in Seq(S)
  BY <1>1, <1>3, PartIs
<1>5. erase(list, i) \in Seq(S)
  BY <1>4, JoinedIs, Zenon DEF erase
<1>6. <<list[i]>> \o erase(list, i) \in Seq(S)
  BY <1>3, <1>5, JoinedIs
<1>7. Head(<<list[i]>> \o erase(list, i)) = list[i]
  BY <1>3, <1>5
<1>8. splice(id) = <<list[i]>> \o erase(list, i)
  BY Zenon DEF splice, i, list
<1>9. list[i].resp \in Nat \ {0}
  BY <1>3, Zenon DEF S
<1> QED
  BY <1>2, <1>6, <1>7, <1>8, <1>9, Zenon DEF S

\* setCloseConnection() changes one field.
LEMMA SetClose ==
  ASSUME NEW x \in [of : Requests, close_connection_ : BOOLEAN],
         NEW b \in BOOLEAN
  PROVE  /\ [x EXCEPT !.close_connection_ = b]
              \in [of : Requests, close_connection_ : BOOLEAN]
         /\ [x EXCEPT !.close_connection_ = b].of = x.of
         /\ [x EXCEPT !.close_connection_ = b].close_connection_ = b
BY Zenon

\* The types are kept.
LEMMA TypeStep == TypeInv /\ [Next]_vars => TypeInv'
<1> SUFFICES ASSUME TypeInv, [Next]_vars PROVE TypeInv'
  BY Zenon
<1> USE DEF At, Goto, Locked, connVars, cacheVars
<1>1. CASE UNCHANGED vars
  BY <1>1, Zenon DEF vars, TypeInv
<1>2. ASSUME NEW c \in Conns, readRequest(c) PROVE TypeInv'
  <2>1. request' \in [Conns -> Requests]
    <3>1. PICK v \in Values : request' = [request EXCEPT ![c] = Parsed(@, v)]
      BY <1>2, Zenon DEF readRequest
    <3>2. Parsed(request[c], v) \in Requests
      BY ParsedType, Zenon DEF TypeInv
    <3> QED
      BY <3>1, <3>2, Zenon DEF TypeInv
  <2>2. response' \in [Conns -> Nat \ {0}]
    BY <1>2 DEF readRequest, TypeInv, bad_request_resp_, not_found_resp_
  <2>3. pc' \in [Conns -> {"parse", "lock", "decide", "send", "close"} \cup Locked]
    BY <1>2, ZenonT(60) DEF readRequest, TypeInv
  <2> QED
    BY <1>2, <2>1, <2>2, <2>3, ZenonT(60) DEF readRequest, TypeInv
<1>3. ASSUME NEW c \in Conns, lock(c) PROVE TypeInv'
  BY <1>3, Zenon DEF lock, TypeInv
<1>4. ASSUME NEW c \in Conns, count(c) PROVE TypeInv'
  BY <1>4, Zenon DEF count, TypeInv
<1>5. ASSUME NEW c \in Conns, getRespCache(c) PROVE TypeInv'
  <2>1. CASE UNCHANGED <<cache_node_list_, response>>
    BY <1>5, <2>1, Zenon DEF getRespCache, TypeInv
  <2>2. ASSUME NEW e \in Found(c), Live(e.node),
               cache_node_list_' = splice(e.node),
               response' = [response EXCEPT ![c] = Head(splice(e.node)).resp]
        PROVE  TypeInv'
    <3>1. /\ splice(e.node) \in Seq([req : Conns, resp : Nat \ {0}])
          /\ Head(splice(e.node)).resp \in Nat \ {0}
      BY <2>2, SpliceFront, Zenon
    <3> QED
      BY <1>5, <2>2, <3>1, Zenon DEF getRespCache, TypeInv
  <2> QED
    BY <1>5, <2>1, <2>2, Zenon DEF getRespCache
<1>6. ASSUME NEW c \in Conns, makeResponse(c) PROVE TypeInv'
  <2>1. [of |-> request[c], close_connection_ |-> FALSE]
          \in [of : Requests, close_connection_ : BOOLEAN]
    BY Zenon DEF TypeInv
  <2>2. responses' \in Seq([of : Requests, close_connection_ : BOOLEAN])
    BY <1>6, <2>1, AppendedIs, Zenon DEF makeResponse, TypeInv
  <2>3. Len(responses) + 1 \in Nat \ {0}
    BY DEF TypeInv
  <2> QED
    BY <1>6, <2>2, <2>3, Zenon DEF makeResponse, TypeInv
<1>7. ASSUME NEW c \in Conns, evict(c) PROVE TypeInv'
  <2>1. cache_node_list_' \in Seq([req : Conns, resp : Nat \ {0}])
    <3>1. CASE UNCHANGED cache_node_list_
      BY <3>1, Zenon DEF TypeInv
    <3>2. CASE cache_node_list_ # <<>> /\ cache_node_list_' = pop_back(cache_node_list_)
      <4> DEFINE S == [req : Conns, resp : Nat \ {0}]
                 n == Len(cache_node_list_) - 1
      <4>1. cache_node_list_ \in Seq(S)
        BY Zenon DEF TypeInv
      <4> HIDE DEF S
      <4>2. n \in Int /\ n <= Len(cache_node_list_)
        BY <4>1
      <4> HIDE DEF n
      <4>3. SubSeq(cache_node_list_, 1, n) \in Seq(S)
        BY <4>1, <4>2, PartIs
      <4> QED
        BY <3>2, <4>3, Zenon DEF S, n, pop_back
    <3> QED
      BY <1>7, <3>1, <3>2, Zenon DEF evict
  <2> QED
    BY <1>7, <2>1, Zenon DEF evict, TypeInv
<1>8. ASSUME NEW c \in Conns, addRespCache(c) PROVE TypeInv'
  <2>1. [req |-> c, resp |-> response[c]] \in [req : Conns, resp : Nat \ {0}]
    BY Zenon DEF TypeInv
  <2>2. cache_node_list_' \in Seq([req : Conns, resp : Nat \ {0}])
    BY <1>8, <2>1, JoinedIs DEF addRespCache, TypeInv
  <2> QED
    BY <1>8, <2>2, Zenon DEF addRespCache, TypeInv
<1>9. ASSUME NEW c \in Conns, unlock(c) PROVE TypeInv'
  BY <1>9, Zenon DEF unlock, TypeInv
<1>10. ASSUME NEW c \in Conns, decide(c) PROVE TypeInv'
  <2>1. responses' \in Seq([of : Requests, close_connection_ : BOOLEAN])
    <3> DEFINE S == [of : Requests, close_connection_ : BOOLEAN]
               r == response[c]
               new == [responses[r] EXCEPT !.close_connection_ = toClose(request[c])]
    <3>1. responses \in Seq(S)
      BY Zenon DEF TypeInv
    <3>2. \/ responses' = responses
          \/ responses' = [responses EXCEPT ![r] = new]
      BY <1>10, Zenon DEF decide
    <3>3. toClose(request[c]) \in BOOLEAN
      BY Zenon DEF toClose
    <3>4. responses[r] \in S => new \in S
      BY <3>3, SetClose, Zenon
    <3> HIDE DEF S, r, new
    <3>5. r \in DOMAIN responses => responses[r] \in S
      BY <3>1
    <3>6. [responses EXCEPT ![r] = new] \in Seq(S)
      <4> DEFINE t == [responses EXCEPT ![r] = new]
      <4>1. DOMAIN t = 1..Len(responses) /\ Len(responses) \in Nat
        BY <3>1
      <4>2. \A j \in 1..Len(responses) : t[j] \in S
        BY <3>1, <3>4, <3>5
      <4>3. t = [j \in 1..Len(responses) |-> t[j]]
        BY <4>1, Zenon
      <4> HIDE DEF t
      <4>4. t \in Seq(S)
        BY <4>1, <4>2, <4>3, IsSeq
      <4> QED
        BY <4>4, Zenon DEF t
    <3> QED
      BY <3>1, <3>2, <3>6, Zenon DEF S
  <2> QED
    BY <1>10, <2>1, Zenon DEF decide, TypeInv
<1>11. ASSUME NEW c \in Conns, appendToBuffer(c) PROVE TypeInv'
  BY <1>11, Zenon DEF appendToBuffer, TypeInv
<1>12. ASSUME NEW c \in Conns, shutdownOrNot(c) PROVE TypeInv'
  BY <1>12, Zenon DEF shutdownOrNot, TypeInv
<1> QED
  BY <1>1, <1>2, <1>3, <1>4, <1>5, <1>6, <1>7, <1>8, <1>9, <1>10, <1>11,
     <1>12, ZenonT(60) DEF Next

\* What decide() does to the responses, which other threads are sending.
LEMMA DecideSets ==
  ASSUME TypeInv, NEW c \in Conns, decide(c), Own(c)
  PROVE  /\ Len(responses') = Len(responses)
         /\ \A i \in 1..Len(responses) : responses'[i].of = responses[i].of
         /\ \A i \in 1..Len(responses) : responses'[i] = responses[i]
              \/ (/\ i = response[c] /\ request[c].connection # Absent
                 /\ responses'[i].close_connection_ = toClose(request[c]))
         /\ request[c].connection # Absent =>
              responses'[response[c]].close_connection_ = toClose(request[c])
<1> DEFINE S == [of : Requests, close_connection_ : BOOLEAN]
           r == response[c]
           new == [responses[r] EXCEPT !.close_connection_ = toClose(request[c])]
<1>1. responses \in Seq(S) /\ r \in 1..Len(responses)
  BY DEF TypeInv, Own
<1>2. \/ request[c].connection = Absent /\ responses' = responses
      \/ /\ request[c].connection # Absent
         /\ responses' = [responses EXCEPT ![r] = new]
  BY Zenon DEF decide
<1>3. toClose(request[c]) \in BOOLEAN
  BY Zenon DEF toClose
<1> HIDE DEF S
<1>3a. responses[r] \in S
  BY <1>1
<1> USE DEF S
<1>4. /\ new \in S /\ new.of = responses[r].of
      /\ new.close_connection_ = toClose(request[c])
  BY <1>3, <1>3a, SetClose, Zenon
<1> HIDE DEF S, r, new
<1>5. CASE request[c].connection = Absent /\ responses' = responses
  BY <1>5, Zenon
<1>6. CASE /\ request[c].connection # Absent
           /\ responses' = [responses EXCEPT ![r] = new]
  <2>1. /\ Len(responses') = Len(responses)
        /\ \A j \in 1..Len(responses) :
             responses'[j] = IF j = r THEN new ELSE responses[j]
    BY <1>1, <1>4, <1>6, ChangedIs
  <2> QED
    BY <1>1, <1>4, <1>6, <2>1, ZenonT(60) DEF r
<1> QED
  BY <1>2, <1>5, <1>6, ZenonT(60)

\* close_connection_ is a bool.
LEMMA FlagBoolean ==
  ASSUME TypeInv, NEW i \in 1..Len(responses)
  PROVE  responses[i].close_connection_ \in BOOLEAN
<1> DEFINE S == [of : Requests, close_connection_ : BOOLEAN]
<1>1. responses \in Seq(S)
  BY Zenon DEF TypeInv
<1> HIDE DEF S
<1>2. responses[i] \in S
  BY <1>1
<1> QED
  BY <1>2, Zenon DEF S

\* OwnInv is kept up to the use of an invalid iterator.
LEMMA OwnStep ==
  ASSUME TypeInv, OwnInv, Len(responses) >= 2, ~undefined', [Next]_vars
  PROVE  OwnInv'
<1> USE DEF At, Goto, Locked, connVars, cacheVars
<1>1. CASE UNCHANGED vars
  BY <1>1, ZenonT(60) DEF vars, OwnInv, Own
<1>2. ASSUME NEW c \in Conns, readRequest(c) PROVE OwnInv'
  BY <1>2, SMTT(60) DEF readRequest, TypeInv, OwnInv, Own
<1>3. ASSUME NEW c \in Conns, lock(c) PROVE OwnInv'
  BY <1>3, Zenon DEF lock, TypeInv, OwnInv, Own
<1>4. ASSUME NEW c \in Conns, count(c) PROVE OwnInv'
  BY <1>4, Zenon DEF count, TypeInv, OwnInv, Own
<1>5. ASSUME NEW c \in Conns, getRespCache(c) PROVE OwnInv'
  <2>1. PICK e \in Found(c) :
          /\ Live(e.node)
          /\ response' = [response EXCEPT ![c] = Head(splice(e.node)).resp]
    BY <1>5, Zenon DEF getRespCache
  <2>2. Head(splice(e.node)).resp = e.node /\ e.node # NoNode
    BY <2>1, SpliceFront, Zenon DEF NoNode
  <2>3. e \in req_to_cache_node_iter_ /\ e.hash = request[c]
    BY Zenon DEF Found, to_hash_value
  <2>4. e.node \in 3..Len(responses) /\ responses[e.node].of = request[c]
    BY <2>2, <2>3, Zenon DEF OwnInv
  <2>5. response' = [response EXCEPT ![c] = e.node]
    BY <2>1, <2>2, Zenon
  <2>6. /\ pc' = [pc EXCEPT ![c] = "unlock"]
        /\ UNCHANGED <<request, responses, req_to_cache_node_iter_>>
    BY <1>5, ZenonT(60) DEF getRespCache
  <2> QED
    BY <2>4, <2>5, <2>6, Zenon DEF TypeInv, OwnInv, Own
<1>6. ASSUME NEW c \in Conns, makeResponse(c) PROVE OwnInv'
  <2> DEFINE S == [of : Requests, close_connection_ : BOOLEAN]
             new == [of |-> request[c], close_connection_ |-> FALSE]
  <2>1. responses \in Seq(S) /\ new \in S /\ new.of = request[c]
    BY Zenon DEF TypeInv
  <2>2. /\ responses' = Append(responses, new)
        /\ response' = [response EXCEPT ![c] = Len(responses) + 1]
        /\ pc' = [pc EXCEPT ![c] = "evict"]
        /\ UNCHANGED <<request, req_to_cache_node_iter_>>
    BY <1>6, ZenonT(60) DEF makeResponse
  <2> HIDE DEF S, new
  <2>3. /\ Len(responses) \in Nat
        /\ Len(responses') = Len(responses) + 1
        /\ \A i \in 1..Len(responses) : responses'[i] = responses[i]
        /\ responses'[Len(responses) + 1] = new
    BY <2>1, <2>2, AppendedIs
  <2> QED
    BY <2>1, <2>2, <2>3 DEF TypeInv, OwnInv, Own
<1>7. ASSUME NEW c \in Conns, evict(c) PROVE OwnInv'
  <2>1. req_to_cache_node_iter_' \subseteq req_to_cache_node_iter_
    BY <1>7, Zenon DEF evict
  <2> QED
    BY <1>7, <2>1, Zenon DEF evict, TypeInv, OwnInv, Own
<1>8. ASSUME NEW c \in Conns, addRespCache(c) PROVE OwnInv'
  <2>1. Own(c)
    BY <1>8, ZenonT(60) DEF addRespCache, OwnInv
  <2>2. \A e \in req_to_cache_node_iter_' :
          \/ e \in req_to_cache_node_iter_
          \/ e.hash = request[c] /\ e.node = response[c]
    <3> DEFINE new == [hash |-> request[c], req |-> c, node |-> response[c]]
    <3>1. \/ req_to_cache_node_iter_' = req_to_cache_node_iter_
          \/ req_to_cache_node_iter_' = req_to_cache_node_iter_ \cup {new}
      BY <1>8, ZenonT(60) DEF addRespCache, to_hash_value
    <3>2. new.hash = request[c] /\ new.node = response[c]
      BY ONLY SMTT(60)
    <3> QED
      BY ONLY <3>1, <3>2, SMTT(60)
  <2> QED
    BY <1>8, <2>1, <2>2, Zenon DEF addRespCache, TypeInv, OwnInv, Own
<1>9. ASSUME NEW c \in Conns, unlock(c) PROVE OwnInv'
  BY <1>9, ZenonT(60) DEF unlock, TypeInv, OwnInv, Own
<1>10. ASSUME NEW c \in Conns, decide(c) PROVE OwnInv'
  <2>1. Own(c)
    BY <1>10, Zenon DEF decide, OwnInv
  <2>2. /\ Len(responses') = Len(responses)
        /\ \A i \in 1..Len(responses) : responses'[i].of = responses[i].of
    BY <1>10, <2>1, DecideSets, Zenon
  <2> QED
    BY <1>10, <2>2 DEF decide, TypeInv, OwnInv, Own
<1>11. ASSUME NEW c \in Conns, appendToBuffer(c) PROVE OwnInv'
  BY <1>11, Zenon DEF appendToBuffer, TypeInv, OwnInv, Own
<1>12. ASSUME NEW c \in Conns, shutdownOrNot(c) PROVE OwnInv'
  BY <1>12, Zenon DEF shutdownOrNot, TypeInv, OwnInv, Own
<1> QED
  BY <1>1, <1>2, <1>3, <1>4, <1>5, <1>6, <1>7, <1>8, <1>9, <1>10, <1>11,
     <1>12, ZenonT(60) DEF Next

\* CloseInv is kept, too.
LEMMA CloseStep ==
  ASSUME TypeInv, OwnInv, CloseInv, ~undefined', [Next]_vars
  PROVE  CloseInv'
<1> USE DEF At, Goto, Locked, connVars, cacheVars
<1>1. CASE UNCHANGED vars
  BY <1>1, ZenonT(60) DEF vars, CloseInv, Closes, Own
<1>2. ASSUME NEW c \in Conns, readRequest(c) PROVE CloseInv'
  <2>1. /\ UNCHANGED <<responses, framing>>
        /\ pc'[c] \in {"parse", "lock", "send"}
        /\ pc'[c] = "send" => response'[c] \in {1, 2}
    BY <1>2, Zenon DEF readRequest, TypeInv, bad_request_resp_, not_found_resp_
  <2>2. \A d \in Conns : d # c => /\ pc'[d] = pc[d] /\ response'[d] = response[d]
                                 /\ request'[d] = request[d]
    BY <1>2, Zenon DEF readRequest, TypeInv
  <2> QED
    BY <2>1, <2>2 DEF CloseInv, Closes, Own
<1>3. ASSUME NEW c \in Conns, lock(c) PROVE CloseInv'
  BY <1>3, Zenon DEF lock, TypeInv, CloseInv, Closes, Own
<1>4. ASSUME NEW c \in Conns, count(c) PROVE CloseInv'
  BY <1>4, ZenonT(60) DEF count, TypeInv, CloseInv, Closes, Own
<1>5. ASSUME NEW c \in Conns, getRespCache(c) PROVE CloseInv'
  <2>1. /\ pc' = [pc EXCEPT ![c] = "unlock"]
        /\ UNCHANGED <<request, responses, framing>>
        /\ \A d \in Conns : d # c => response'[d] = response[d]
    BY <1>5, Zenon DEF getRespCache, TypeInv
  <2> QED
    BY <2>1, SMTT(60) DEF TypeInv, CloseInv, Closes, Own
<1>6. ASSUME NEW c \in Conns, makeResponse(c) PROVE CloseInv'
  <2> DEFINE S == [of : Requests, close_connection_ : BOOLEAN]
             new == [of |-> request[c], close_connection_ |-> FALSE]
  <2>1. responses \in Seq(S) /\ new \in S /\ ~new.close_connection_
    BY Zenon DEF TypeInv
  <2>2. /\ responses' = Append(responses, new)
        /\ response' = [response EXCEPT ![c] = Len(responses) + 1]
        /\ pc' = [pc EXCEPT ![c] = "evict"]
        /\ UNCHANGED <<request, framing>>
    BY <1>6, Zenon DEF makeResponse
  <2> HIDE DEF S, new
  <2>3. /\ Len(responses) \in Nat
        /\ Len(responses') = Len(responses) + 1
        /\ \A i \in 1..Len(responses) : responses'[i] = responses[i]
        /\ responses'[Len(responses) + 1] = new
    BY <2>1, <2>2, AppendedIs
  <2> QED
    BY <2>1, <2>2, <2>3 DEF TypeInv, CloseInv, Closes, Own
<1>7. ASSUME NEW c \in Conns, evict(c) PROVE CloseInv'
  BY <1>7, Zenon DEF evict, TypeInv, CloseInv, Closes, Own
<1>8. ASSUME NEW c \in Conns, addRespCache(c) PROVE CloseInv'
  BY <1>8, Zenon DEF addRespCache, TypeInv, CloseInv, Closes, Own
<1>9. ASSUME NEW c \in Conns, unlock(c) PROVE CloseInv'
  BY <1>9, ZenonT(60) DEF unlock, TypeInv, CloseInv, Closes, Own
<1>10. ASSUME NEW c \in Conns, decide(c) PROVE CloseInv'
  <2>1. Own(c)
    BY <1>10, Zenon DEF decide, OwnInv
  <2>2. /\ Len(responses') = Len(responses)
        /\ \A i \in 1..Len(responses) : responses'[i].of = responses[i].of
        /\ \A i \in 1..Len(responses) : responses'[i] = responses[i]
              \/ (/\ i = response[c] /\ request[c].connection # Absent
                 /\ responses'[i].close_connection_ = toClose(request[c]))
    BY <1>10, <2>1, DecideSets, Zenon
  <2> DEFINE r == response[c]
  <2>3. responses'[r].close_connection_ = toClose(request[c])
    <3>1. r \in 3..Len(responses) /\ responses[r].of = request[c]
      BY <2>1, Zenon DEF Own
    <3>2. CASE request[c].connection = Absent
      <4>1. ~toClose(request[c]) /\ responses' = responses
        BY <1>10, <3>2, ZenonT(60) DEF decide, toClose, Absent
      <4>2. responses[r].close_connection_ \in BOOLEAN
        BY <3>1, FlagBoolean
      <4>3. responses[r].close_connection_ => toClose(request[c])
        BY <3>1, Zenon DEF CloseInv
      <4>4. responses[r].close_connection_ = FALSE
        BY <4>1, <4>2, <4>3, ZenonT(60)
      <4>5. toClose(request[c]) = FALSE
        BY <4>1, Zenon DEF toClose
      <4> QED
        BY <4>1, <4>4, <4>5, Zenon
    <3>3. CASE request[c].connection # Absent
      BY <1>10, <2>1, <3>3, DecideSets, ZenonT(60)
    <3> QED
      BY <3>2, <3>3, Zenon
  <2> QED
    BY <1>10, <2>1, <2>2, <2>3, SMTT(60) DEF decide, TypeInv, CloseInv, Closes, Own
<1>11. ASSUME NEW c \in Conns, appendToBuffer(c) PROVE CloseInv'
  BY <1>11 DEF appendToBuffer, TypeInv, CloseInv, Closes, Own,
     bad_request_resp_, not_found_resp_
<1>12. ASSUME NEW c \in Conns, shutdownOrNot(c) PROVE CloseInv'
  BY <1>12, ZenonT(60) DEF shutdownOrNot, TypeInv, CloseInv, Closes, Own
<1> QED
  BY <1>1, <1>2, <1>3, <1>4, <1>5, <1>6, <1>7, <1>8, <1>9, <1>10, <1>11,
     <1>12, ZenonT(60) DEF Next

\* The invariant of the data holds in every state.
LEMMA DataHolds == Spec => []DataInv
<1>1. Init => DataInv
  <2>1. NoValue \in Requests
    <3>1. /\ NoValue.path \in {v.path : v \in Values \cup {NoValue}}
          /\ NoValue.version \in {v.version : v \in Values \cup {NoValue}}
          /\ NoValue.connection \in {v.connection : v \in Values \cup {NoValue}}
      BY Zenon
    <3>2. NoValue = [path |-> NoValue.path, version |-> NoValue.version,
                     connection |-> NoValue.connection]
      BY DEF NoValue
    <3> QED
      BY <3>1, <3>2, SMT DEF Requests
  <2> QED
    BY <2>1 DEF Init, DataInv, TypeInv, OwnInv, CloseInv, bad_request_resp_
<1>2. DataInv /\ [Next]_vars => DataInv'
  <2> SUFFICES ASSUME DataInv, [Next]_vars PROVE DataInv'
    BY Zenon
  <2>1. TypeInv'
    BY TypeStep, Zenon DEF DataInv
  <2>2. ASSUME ~undefined' PROVE OwnInv' /\ CloseInv'
    <3>1. ~undefined
      BY <2>2, ZenonT(60) DEF Next, At, vars, cacheVars, readRequest, lock, count,
         getRespCache, makeResponse, evict, addRespCache, unlock, decide,
         appendToBuffer, shutdownOrNot
    <3>2. OwnInv /\ CloseInv /\ Len(responses) >= 2
      BY <3>1, Zenon DEF DataInv, CloseInv
    <3> QED
      BY <2>2, <3>2, OwnStep, CloseStep, ZenonT(60) DEF DataInv
  <2> QED
    BY <2>1, <2>2, Zenon DEF DataInv
<1> QED
  BY <1>1, <1>2, PTL DEF Spec

\* A response is only sent for the request it was made for.
THEOREM ResponseIsRight == Spec => []RightResponse
<1>1. DataInv => RightResponse
  BY Zenon DEF DataInv, OwnInv, Own, RightResponse, At
<1> QED
  BY <1>1, DataHolds, PTL

\* The header and the shutdown() both follow the connection's own request.
THEOREM ClosesAsAsked == Spec => []CloseAsAsked
<1>1. DataInv => CloseAsAsked
  <2> SUFFICES ASSUME DataInv, NEW c \in Conns, At(c, "close")
               PROVE  /\ framing[c] = IF Closes(c) THEN "close" ELSE "length"
                      /\ responses[response[c]].close_connection_ = Closes(c)
    BY Zenon DEF CloseAsAsked
  <2>1. CloseInv /\ pc[c] = "close"
    BY Zenon DEF DataInv, At
  <2>2. framing[c] = IF Closes(c) THEN "close" ELSE "length"
    BY <2>1, Zenon DEF CloseInv
  <2>3. CASE response[c] \in {1, 2}
    <3>1. responses[response[c]].close_connection_ = TRUE
      BY <2>1, <2>3 DEF CloseInv
    <3>2. Closes(c) = TRUE
      BY <2>3, Zenon DEF Closes, bad_request_resp_, not_found_resp_
    <3> QED
      BY <2>2, <3>1, <3>2, ZenonT(60)
  <2>4. CASE response[c] \notin {1, 2}
    <3>1. responses[response[c]].close_connection_ = toClose(request[c])
      BY <2>1, <2>4, Zenon DEF CloseInv
    <3>2. Closes(c) = toClose(request[c])
      BY <2>4, Zenon DEF Closes, bad_request_resp_, not_found_resp_, toClose
    <3> QED
      BY <2>2, <3>1, <3>2, Zenon
  <2> QED
    BY <2>3, <2>4, Zenon
<1> QED
  BY <1>1, DataHolds, PTL
=============================================================================
