----------------------------- MODULE RespCache -----------------------------
(***************************************************************************)
(* HTTPServer::connectionOnRead (http_server.cc) in the io threads of      *)
(* several connections, with the response cache (USE_RESP_CACHE): a list   *)
(* of nodes, most recently used first, and an unordered_map from requests  *)
(* to list iterators, both under spin_lock_.                               *)
(*                                                                         *)
(* The key of an entry is a pointer to the HTTPRequest of a connection,    *)
(* and the next request on that connection is parsed into the same object, *)
(* without the lock.  A map node keeps the hash its key had when it was    *)
(* inserted; a lookup needs that hash and the key's present value to       *)
(* match.  Values of requests are told apart by their hash.                *)
(*                                                                         *)
(* The HTTPResponse objects are shared too, by all the threads that send   *)
(* the same response, and close_connection_ is set, and read twice, after  *)
(* the lock is released.  A node and its response have the same number.    *)
(***************************************************************************)
EXTENDS HttpLiteral, Naturals, Sequences, FiniteSets

CONSTANTS
  Conns,          \* the connections, each in a thread of its own
  Values,         \* what a request can say: [path, version, connection]
  Cacheable,      \* the paths in responseCallbacks_
  kMaxReqCached,
  MaxRequests     \* bound: requests parsed in all

ASSUME RespCacheAssumption ==
  /\ kMaxReqCached \in Nat \ {0} /\ MaxRequests \in Nat
  /\ \A v \in Values : DOMAIN v = {"path", "version", "connection"}

VARIABLES
  request,      \* connection -> the value of its HTTPRequest
  pc,           \* connection -> where its thread is in connectionOnRead()
  response,     \* connection -> its response, an index of responses
  responses,    \* the HTTPResponse objects: [of, close_connection_]
  framing,      \* connection -> the header that says where its response ends
  lck,          \* is the SpinLock taken?
  cache_node_list_,         \* sequence of [req, resp]
  req_to_cache_node_iter_,  \* set of [hash, req, node]; node 0 is no iterator
  parsed,       \* requests parsed so far
  undefined     \* was an invalid iterator used?

connVars == <<request, framing, parsed>>
cacheVars == <<cache_node_list_, req_to_cache_node_iter_, undefined>>
vars == <<connVars, cacheVars, pc, response, responses, lck>>

NoValue == [path |-> "", version |-> "unknown", connection |-> Absent]
NoNode == 0
bad_request_resp_ == 1
not_found_resp_ == 2

\* The constructor fills the two responses that are never cached.
Init ==
  /\ request = [c \in Conns |-> NoValue]
  /\ pc = [c \in Conns |-> "parse"]
  /\ response = [c \in Conns |-> bad_request_resp_]
  /\ responses = [i \in 1..2 |-> [of |-> NoValue, close_connection_ |-> TRUE]]
  /\ framing = [c \in Conns |-> "none"]
  /\ lck = FALSE
  /\ cache_node_list_ = <<>> /\ req_to_cache_node_iter_ = {}
  /\ parsed = 0
  /\ undefined = FALSE

At(c, where) == pc[c] = where /\ ~undefined
Goto(c, where) == pc' = [pc EXCEPT ![c] = where]

-----------------------------------------------------------------------------
\* headers_ keeps what earlier requests of the connection put there.
Parsed(old, v) ==
  [v EXCEPT !.connection = IF old.connection = Absent THEN @ ELSE old.connection]

\* parseRequest() changes the request object; then the request is incomplete,
\* bad, one with a callback, or one without.
readRequest(c) ==
  /\ At(c, "parse") /\ parsed < MaxRequests
  /\ parsed' = parsed + 1
  /\ \E v \in Values :
       /\ request' = [request EXCEPT ![c] = Parsed(@, v)]
       /\ \/ Goto(c, "parse") /\ UNCHANGED response
          \/ /\ response' = [response EXCEPT ![c] = bad_request_resp_]
             /\ Goto(c, "send")
          \/ v.path \in Cacheable /\ Goto(c, "lock") /\ UNCHANGED response
          \/ /\ v.path \notin Cacheable
             /\ response' = [response EXCEPT ![c] = not_found_resp_]
             /\ Goto(c, "send")
  /\ UNCHANGED <<framing, responses, lck, cacheVars>>

\* SpinLock::lock(): test_and_set succeeds.
lock(c) ==
  /\ At(c, "lock") /\ ~lck
  /\ lck' = TRUE
  /\ Goto(c, "count")
  /\ UNCHANGED <<connVars, cacheVars, response, responses>>

\* mutant: the headers are left out of the hash
to_hash_valueMut(v) == [v EXCEPT !.connection = Absent]

\* HTTPRequest::to_hash_value() combines all the fields.
to_hash_value(v) == v

\* The map nodes that a lookup of the present value of c's request finds.
Found(c) ==
  {e \in req_to_cache_node_iter_ :
     /\ e.hash = to_hash_value(request[c])
     /\ to_hash_value(request[e.req]) = to_hash_value(request[c])}

\* getRespCache(), count().
count(c) ==
  /\ At(c, "count")
  /\ Goto(c, IF Found(c) = {} THEN "make" ELSE "get")
  /\ UNCHANGED <<connVars, cacheVars, response, responses, lck>>

Live(id) == \E i \in DOMAIN cache_node_list_ : cache_node_list_[i].resp = id

\* std::list: the last node, and the list without it or without another one.
back(list) == list[Len(list)]
pop_back(list) == SubSeq(list, 1, Len(list) - 1)
erase(list, i) == SubSeq(list, 1, i - 1) \o SubSeq(list, i + 1, Len(list))

\* mutant: the node found is not moved to the front
spliceMut(id) == cache_node_list_

\* list::splice() to the front.
splice(id) ==
  LET i == CHOOSE i \in DOMAIN cache_node_list_ : cache_node_list_[i].resp = id
  IN  <<cache_node_list_[i]>> \o erase(cache_node_list_, i)

\* getRespCache(), from operator[] on.  operator[] inserts an entry without
\* an iterator when it finds none.
getRespCache(c) ==
  /\ At(c, "get")
  /\ \/ /\ Found(c) = {}
        /\ req_to_cache_node_iter_' = req_to_cache_node_iter_ \cup
             {[hash |-> to_hash_value(request[c]), req |-> c, node |-> NoNode]}
        /\ undefined' = TRUE
        /\ UNCHANGED <<cache_node_list_, response>>
     \/ \E e \in Found(c) :
          /\ IF Live(e.node)
             THEN /\ cache_node_list_' = splice(e.node)
                  /\ response' = [response EXCEPT ![c] = Head(splice(e.node)).resp]
                  /\ UNCHANGED undefined
             ELSE undefined' = TRUE /\ UNCHANGED <<cache_node_list_, response>>
          /\ UNCHANGED req_to_cache_node_iter_
  /\ Goto(c, "unlock")
  /\ UNCHANGED <<connVars, responses, lck>>

\* The user's callback fills a new response.
makeResponse(c) ==
  /\ At(c, "make")
  /\ responses' =
       Append(responses, [of |-> request[c], close_connection_ |-> FALSE])
  /\ response' = [response EXCEPT ![c] = Len(responses) + 1]
  /\ Goto(c, "evict")
  /\ UNCHANGED <<connVars, cacheVars, lck>>

\* addRespCache(): the least recently used node goes, with the map entry that
\* a lookup of its request finds now.
evict(c) ==
  /\ At(c, "evict")
  /\ IF Cardinality(req_to_cache_node_iter_) < kMaxReqCached
     THEN UNCHANGED cacheVars
     ELSE IF cache_node_list_ = <<>>
     THEN /\ undefined' = TRUE
          /\ UNCHANGED <<cache_node_list_, req_to_cache_node_iter_>>
     ELSE LET found == Found(back(cache_node_list_).req)
          IN  /\ \/ found = {} /\ UNCHANGED req_to_cache_node_iter_
                 \/ \E e \in found : req_to_cache_node_iter_' =
                                       req_to_cache_node_iter_ \ {e}
              /\ cache_node_list_' = pop_back(cache_node_list_)
              /\ UNCHANGED undefined
  /\ Goto(c, "add")
  /\ UNCHANGED <<connVars, response, responses, lck>>

\* addRespCache(): push_front(), and emplace(), which keeps an equal key.
addRespCache(c) ==
  /\ At(c, "add")
  /\ cache_node_list_' = <<[req |-> c, resp |-> response[c]]>> \o cache_node_list_
  /\ req_to_cache_node_iter_' =
       IF Found(c) # {} THEN req_to_cache_node_iter_
       ELSE req_to_cache_node_iter_ \cup
              {[hash |-> to_hash_value(request[c]), req |-> c, node |-> response[c]]}
  /\ Goto(c, "unlock")
  /\ UNCHANGED <<connVars, response, responses, lck, undefined>>

\* The lock_guard ends.
unlock(c) ==
  /\ At(c, "unlock")
  /\ lck' = FALSE
  /\ Goto(c, "decide")
  /\ UNCHANGED <<connVars, cacheVars, response, responses>>

-----------------------------------------------------------------------------
(* The response is shared, and the lock is not held.                       *)

\* setCloseConnection(), if the request has a "Connection" header.
decide(c) ==
  /\ At(c, "decide")
  /\ responses' =
       IF request[c].connection = Absent THEN responses
       ELSE [responses EXCEPT ![response[c]].close_connection_ = toClose(request[c])]
  /\ Goto(c, "send")
  /\ UNCHANGED <<connVars, cacheVars, response, lck>>

\* appendToBuffer(): a response has its length only if the connection stays.
appendToBuffer(c) ==
  /\ At(c, "send")
  /\ framing' = [framing EXCEPT ![c] =
       IF responses[response[c]].close_connection_ THEN "close" ELSE "length"]
  /\ Goto(c, "close")
  /\ UNCHANGED <<request, parsed, cacheVars, response, responses, lck>>

\* getCloseConnection() decides on shutdown(); connectionOnRead() returns.
shutdownOrNot(c) ==
  /\ At(c, "close")
  /\ framing' = [framing EXCEPT ![c] = "none"]
  /\ Goto(c, "parse")
  /\ UNCHANGED <<request, parsed, cacheVars, response, responses, lck>>

Next ==
  \E c \in Conns :
    \/ readRequest(c) \/ lock(c) \/ count(c) \/ getRespCache(c)
    \/ makeResponse(c) \/ evict(c) \/ addRespCache(c) \/ unlock(c)
    \/ decide(c) \/ appendToBuffer(c) \/ shutdownOrNot(c)

Spec == Init /\ [][Next]_vars
-----------------------------------------------------------------------------
(* Properties.                                                             *)

\* spin_lock_ keeps the list and the map to one thread at a time.
Locked == {"count", "get", "make", "evict", "add", "unlock"}
OneThreadInCache ==
  \A c, d \in Conns : pc[c] \in Locked /\ pc[d] \in Locked => c = d

\* A response is only ever sent for the request it was made for, although the
\* keys of the map change under it: a stale entry is missed, never mistaken.
RightResponse ==
  \A c \in Conns : At(c, "decide") => responses[response[c]].of = request[c]

\* Does the server close the connection after the response to this request?
Closes(c) ==
  \/ response[c] \in {bad_request_resp_, not_found_resp_}
  \/ toClose(request[c])

\* Whatever other threads do to the shared response between the two reads of
\* close_connection_, the header that was sent and the shutdown() that follows
\* both are what the connection's own request asked for: no client waits for
\* the end of a response without a length, and none is cut off.
CloseAsAsked ==
  \A c \in Conns : At(c, "close") =>
    /\ framing[c] = IF Closes(c) THEN "close" ELSE "length"
    /\ responses[response[c]].close_connection_ = Closes(c)

\* README.md:36 promises a cached response for the same request: a lookup that
\* finds the request leads to the node that holds its response.
HitHasNode == ~undefined
=============================================================================
