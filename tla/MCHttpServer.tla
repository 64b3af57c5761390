---------------------------- MODULE MCHttpServer ----------------------------
(***************************************************************************)
(* HTTPServer with and without the response cache, as the environment      *)
(* variable USE_RESP_CACHE says when the program starts: the threads of    *)
(* RespCache, or one connection of HttpSession with the lines and requests *)
(* that tell the branches apart.                                           *)
(***************************************************************************)
EXTENDS RespCache, HttpSession

VARIABLE kUseRespCache

UseCache == kUseRespCache /\ Next /\ UNCHANGED <<kUseRespCache, sessionVars>>
NoCache == ~kUseRespCache /\ SessionNext /\ UNCHANGED <<kUseRespCache, vars>>

MCInit == Init /\ SessionInit /\ kUseRespCache \in BOOLEAN
MCSpec == MCInit /\ [][UseCache \/ NoCache]_<<kUseRespCache, sessionVars, vars>>

Request(m, p, v) == [kind |-> "request", method |-> m, path |-> p, version |-> v]
Connection(v) == [kind |-> "header", key |-> "Connection", value |-> v]

MCLines ==
  {Request("GET", "/", "1.1"), Request("GET", "/", "1.0"),
   Request("POST", "/", "1.1"), Request("GET", "/none", "1.1"),
   Request("GET", "/", "2.0"), Request("BREW", "/", "1.1"),
   Connection("close"), Connection("Keep-Alive"),
   [kind |-> "header", key |-> "Host", value |-> "h"],
   [kind |-> "empty"], [kind |-> "text"]}

\* Lines for longer conversations: what keeps a connection open.
MCKeepAliveLines ==
  {Request("GET", "/", "1.1"), Connection("close"), Connection("Keep-Alive"),
   [kind |-> "empty"]}

Value(p, v, c) == [path |-> p, version |-> v, connection |-> c]

MCValues ==
  {Value("/", "1.1", Absent), Value("/", "1.1", "close"),
   Value("/b", "1.0", "Keep-Alive"), Value("/none", "1.1", Absent)}

\* Requests without the header, which are told apart by their paths.
MCPlainValues == {Value(p, "1.1", Absent) : p \in {"/", "/b", "/c"}}
=============================================================================
