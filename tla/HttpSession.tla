---------------------------- MODULE HttpSession ----------------------------
(***************************************************************************)
(* The HTTP side of one connection: HTTPContext (http_context.h) parses    *)
(* what in_buffer_ holds line by line into an HTTPRequest                  *)
(* (http_request.h), and HTTPServer::connectionOnRead (http_server.cc),    *)
(* without the response cache, answers.  A read delivers some complete     *)
(* lines; a line that is not complete yet is not seen by std::search.      *)
(*                                                                         *)
(* A line is a record: a request line with its fields, a header, an empty  *)
(* line, or text that is none of these.                                    *)
(***************************************************************************)
EXTENDS HttpLiteral, Integers, Sequences

CONSTANTS
  Lines,      \* the lines the client sends
  Handled,    \* the paths in responseCallbacks_
  MaxLines,   \* bound: the lines sent in all
  MaxRead,    \* bound: the lines completed by one read
  MaxSent     \* bound: the responses sent

ASSUME HttpSessionAssumption ==
  /\ MaxLines \in Nat /\ MaxRead \in Nat /\ MaxSent \in Nat
  /\ \A line \in Lines :
       /\ line.kind \in {"request", "header", "empty", "text"}
       /\ line.kind = "request" => {"method", "path", "version"} \subseteq DOMAIN line
       /\ line.kind = "header" => {"key", "value"} \subseteq DOMAIN line

VARIABLES
  in_buffer_,  \* the complete lines not parsed yet
  state_, request_,
  received,    \* history: all complete lines received
  sent,        \* history: the responses sent
  answered     \* did the last read send a response?

sessionVars == <<in_buffer_, state_, request_, received, sent, answered>>

EmptyRequest ==
  [method |-> "invalid", version |-> "unknown", path |-> "", connection |-> Absent]

SessionInit ==
  /\ in_buffer_ = <<>>
  /\ state_ = "kExpectRequestLine" /\ request_ = EmptyRequest
  /\ received = <<>> /\ sent = <<>> /\ answered = FALSE

-----------------------------------------------------------------------------
(* HTTPContext.  A parse is [state, request, ok]; ok is what the function  *)
(* of the code returns.                                                    *)

\* HTTPRequest: do setMethod() and setVersion() take what the line says?
setMethod(line) == line.kind = "request" /\ line.method \in gHttpMethods
setVersion(line) == line.version \in gHttpVersions

\* headers_.emplace() keeps the value of a key that is there already.
setHeader(request, line) ==
  IF line.key = "Connection" /\ request.connection = Absent
  THEN [request EXCEPT !.connection = line.value] ELSE request

expectBody(request) == request.method = "POST"

\* A bad method leaves the request as it was, a bad version does not.
parseRequestLine(p, line) ==
  IF ~setMethod(line) THEN [p EXCEPT !.ok = FALSE]
  ELSE LET uri == [p.request EXCEPT !.method = line.method, !.path = line.path]
       IN  IF ~setVersion(line) THEN [p EXCEPT !.request = uri, !.ok = FALSE]
           ELSE [state |-> "kExpectHeader", ok |-> TRUE,
                 request |-> [uri EXCEPT !.version = line.version]]

parseHeader(p, line) ==
  IF line.kind # "header" THEN [p EXCEPT !.ok = FALSE]
                          ELSE [p EXCEPT !.request = setHeader(@, line)]

parseOneLine(p, line) ==
  CASE p.state = "kExpectRequestLine" -> parseRequestLine(p, line)
    [] p.state = "kExpectHeader" ->
         IF line.kind = "empty"
         THEN [p EXCEPT !.state = IF expectBody(p.request)
                                  THEN "kExpectBody" ELSE "kGotAll"]
         ELSE parseHeader(p, line)
    [] p.state = "kExpectBody" -> [p EXCEPT !.state = "kGotAll"]

\* One round of the loop of parseRequest(), which ends behind a whole request
\* and in front of a bad line.
parseNext(r, line) ==
  IF ~r.parse.ok \/ r.parse.state = "kGotAll" THEN r
  ELSE LET p == parseOneLine(r.parse, line)
       IN  [parse |-> p, used |-> IF p.ok THEN r.used + 1 ELSE r.used]

\* The rounds over the lines of buff, from a given state.
Rounds(state, buff) ==
  LET r[k \in 0..Len(buff)] ==
        IF k = 0
        THEN [parse |-> [state |-> state, request |-> request_, ok |-> TRUE], used |-> 0]
        ELSE parseNext(r[k - 1], buff[k])
  IN  r

\* mutant: a read starts a new request
parseRequestMut1(buff) == Rounds("kExpectRequestLine", buff)[Len(buff)]

\* mutant: "if" for "for"
parseRequestMut2(buff) == Rounds(state_, buff)[IF buff = <<>> THEN 0 ELSE 1]

parseRequest(buff) == Rounds(state_, buff)[Len(buff)]

-----------------------------------------------------------------------------
(* HTTPServer.                                                             *)

badRequest == [code |-> 400, close |-> TRUE]
notFound == [code |-> 404, close |-> TRUE]

respond(request) ==
  IF request.path \in Handled THEN [code |-> 200, close |-> toClose(request)]
                              ELSE notFound

resetState(p) == IF p.state = "kGotAll" THEN "kExpectRequestLine" ELSE p.state

\* handleRead() appended the lines of one read, and at most one request is
\* answered.
connectionOnRead(lines) ==
  /\ Len(received) + Len(lines) <= MaxLines
  /\ Len(sent) < MaxSent
  /\ received' = received \o lines
  /\ LET buff == in_buffer_ \o lines
         r == parseRequest(buff)
         p == r.parse
     IN  /\ in_buffer_' = SubSeq(buff, r.used + 1, Len(buff))
         /\ request_' = p.request
         /\ state_' = resetState(p)
         /\ sent' = sent \o (IF ~p.ok THEN <<badRequest>>
                             ELSE IF p.state = "kGotAll"
                                  THEN <<respond(p.request)>> ELSE <<>>)
         /\ answered' = (~p.ok \/ p.state = "kGotAll")

SessionNext ==
  \E n \in 0..MaxRead : \E lines \in [1..n -> Lines] : connectionOnRead(lines)

SessionSpec == SessionInit /\ [][SessionNext]_sessionVars
-----------------------------------------------------------------------------
(* Properties.                                                             *)

Closing(out) == out # <<>> /\ out[Len(out)].close

\* A stream of lines that is parsed as a whole: one more line, up to the first
\* response that closes the connection.
answerNext(acc, line) ==
  LET p == parseOneLine(acc.parse, line)
  IN  IF Closing(acc.out) THEN acc
      ELSE IF ~p.ok THEN [acc EXCEPT !.out = Append(@, badRequest)]
      ELSE IF p.state = "kGotAll"
      THEN [parse |-> [p EXCEPT !.state = "kExpectRequestLine"],
            out |-> Append(acc.out, respond(p.request))]
      ELSE [acc EXCEPT !.parse = p]

Answers(lines) ==
  LET acc[k \in 0..Len(lines)] ==
        IF k = 0
        THEN [parse |-> [state |-> "kExpectRequestLine", request |-> EmptyRequest,
                         ok |-> TRUE],
              out |-> <<>>]
        ELSE answerNext(acc[k - 1], lines[k])
  IN  acc

\* The responses to the stream.
Reference(lines) == Answers(lines)[Len(lines)].out

UpToClose(out) ==
  IF \E i \in DOMAIN out : out[i].close
  THEN SubSeq(out, 1, CHOOSE i \in DOMAIN out :
                        out[i].close /\ \A j \in 1..(i - 1) : ~out[j].close)
  ELSE out

\* The lines whose answers are due: those parsed, and all lines once a response
\* has closed the connection.
DueLines ==
  IF \E i \in DOMAIN sent : sent[i].close THEN received
  ELSE SubSeq(received, 1, Len(received) - Len(in_buffer_))

\* How TCP cuts the stream into reads changes no answer: parseRequest() goes on
\* where the last read stopped, so that the responses are exactly those to the
\* lines parsed, read as one stream, up to the one that closes the connection.
\* The cuts only decide how many requests wait in in_buffer_, since a read
\* answers one.
AnsweredAsUncut == UpToClose(sent) = Reference(DueLines)

\* A line stays unparsed only behind a response: when connectionOnRead() sends
\* nothing, parseRequest() has used every complete line.
NoLineLeftBehind == in_buffer_ # <<>> => answered

\* The "Connection" header of each request of the stream: the first one in the
\* request itself.
askedNext(acc, line) ==
  LET p == parseOneLine(acc.parse, line)
      own == IF /\ acc.own = Absent /\ acc.parse.state = "kExpectHeader"
                /\ line.kind = "header" /\ line.key = "Connection"
             THEN line.value ELSE acc.own
  IN  IF ~acc.parse.ok THEN acc
      ELSE IF p.state = "kGotAll"
      THEN [parse |-> [p EXCEPT !.state = "kExpectRequestLine"],
            own |-> Absent, asked |-> Append(acc.asked, own)]
      ELSE [parse |-> p, own |-> own, asked |-> acc.asked]

HeadersOfRequest(lines) ==
  LET acc[k \in 0..Len(lines)] ==
        IF k = 0
        THEN [parse |-> [state |-> "kExpectRequestLine", request |-> EmptyRequest,
                         ok |-> TRUE],
              own |-> Absent, asked |-> <<>>]
        ELSE askedNext(acc[k - 1], lines[k])
  IN  acc[Len(lines)].asked

\* http_server.cc:91 says that the "Connection" header of the request decides
\* whether to close the connection: a request that says "close" is answered
\* with a response that closes.
CloseRequestCloses ==
  LET asked == HeadersOfRequest(received)
  IN  \A i \in DOMAIN asked :
        i \in DOMAIN sent /\ asked[i] = "close" => sent[i].close
=============================================================================
