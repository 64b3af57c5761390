--------------------------- MODULE TcpServerProofs ---------------------------
(***************************************************************************)
(* TCPServer for any number of io threads, connections, descriptors and    *)
(* client addresses: what a poller knows of is owned by the server, a      *)
(* queued handleCreate() finds its connection, a connection is erased once *)
(* and goes through the stages of ConnectionLife, and a descriptor has one *)
(* Channel at a time.                                                      *)
(***************************************************************************)
EXTENDS TcpServer, SequenceTheorems, Induction

\* Nothing is in the queue twice, except for the members of X.
NoRepeat(s, X) == \A i, j \in DOMAIN s : s[i] = s[j] => i = j \/ s[i] \in X

-----------------------------------------------------------------------------
(* Queues of callbacks, by the connections they are for.                   *)

\* push_back() to a queue.
LEMMA AppendRange ==
  ASSUME NEW S, NEW s \in Seq(S), NEW e \in S, NEW X
  PROVE  /\ Append(s, e) \in Seq(S)
         /\ SeqRange(Append(s, e)) = SeqRange(s) \cup {e}
         /\ NoRepeat(s, X) /\ (e \notin SeqRange(s) \/ e \in X) => NoRepeat(Append(s, e), X)
<1>1. /\ Append(s, e) \in Seq(S)
      /\ DOMAIN s = 1..Len(s) /\ Len(s) \in Nat
      /\ DOMAIN Append(s, e) = 1..(Len(s) + 1)
      /\ \A i \in 1..Len(s) : Append(s, e)[i] = s[i]
      /\ Append(s, e)[Len(s) + 1] = e
  BY AppendProperties
<1>2. SeqRange(Append(s, e)) = SeqRange(s) \cup {e}
  BY <1>1 DEF SeqRange
<1>3. NoRepeat(s, X) /\ (e \notin SeqRange(s) \/ e \in X) => NoRepeat(Append(s, e), X)
  BY <1>1 DEF SeqRange, NoRepeat
<1> QED
  BY <1>1, <1>2, <1>3, Zenon

\* The first callback of a queue is taken.
LEMMA TailRange ==
  ASSUME NEW S, NEW s \in Seq(S), s # <<>>, NEW X
  PROVE  /\ Head(s) \in S /\ Tail(s) \in Seq(S)
         /\ SeqRange(s) = SeqRange(Tail(s)) \cup {Head(s)}
         /\ NoRepeat(s, X) => /\ NoRepeat(Tail(s), X)
                              /\ Head(s) \notin SeqRange(Tail(s)) \/ Head(s) \in X
<1>1. /\ Head(s) \in S /\ Tail(s) \in Seq(S)
      /\ Len(s) \in Nat \ {0} /\ DOMAIN s = 1..Len(s) /\ Head(s) = s[1]
      /\ DOMAIN Tail(s) = 1..(Len(s) - 1)
      /\ \A i \in 1..(Len(s) - 1) : Tail(s)[i] = s[i + 1]
  BY HeadTailProperties
<1>2. SeqRange(s) = SeqRange(Tail(s)) \cup {Head(s)}
  <2>1. ASSUME NEW x \in SeqRange(s) PROVE x \in SeqRange(Tail(s)) \cup {Head(s)}
    <3>1. PICK i \in 1..Len(s) : x = s[i]
      BY <1>1, <2>1, Zenon DEF SeqRange
    <3>2. CASE i = 1
      BY <1>1, <3>1, <3>2, Zenon
    <3>3. CASE i # 1
      <4>1. i - 1 \in 1..(Len(s) - 1) /\ Tail(s)[i - 1] = x
        BY <1>1, <3>1, <3>3
      <4> QED
        BY <1>1, <4>1, Zenon DEF SeqRange
    <3> QED
      BY <3>2, <3>3, Zenon
  <2>2. SeqRange(Tail(s)) \cup {Head(s)} \subseteq SeqRange(s)
    BY <1>1 DEF SeqRange
  <2> QED
    BY <2>1, <2>2, Zenon
<1>3. NoRepeat(s, X) => /\ NoRepeat(Tail(s), X)
                        /\ Head(s) \notin SeqRange(Tail(s)) \/ Head(s) \in X
  BY <1>1, SMTT(60) DEF SeqRange, NoRepeat
<1> QED
  BY <1>1, <1>2, <1>3, Zenon

\* Two queues, one behind the other.
LEMMA ConcatRange ==
  ASSUME NEW S, NEW s \in Seq(S), NEW t \in Seq(S), NEW X
  PROVE  /\ s \o t \in Seq(S)
         /\ SeqRange(s \o t) = SeqRange(s) \cup SeqRange(t)
         /\ NoRepeat(s, X) /\ NoRepeat(t, X) /\ SeqRange(s) \cap SeqRange(t) \subseteq X
              => NoRepeat(s \o t, X)
<1>1. /\ s \o t \in Seq(S)
      /\ Len(s) \in Nat /\ Len(t) \in Nat
      /\ DOMAIN s = 1..Len(s) /\ DOMAIN t = 1..Len(t)
      /\ DOMAIN (s \o t) = 1..(Len(s) + Len(t))
      /\ \A i \in 1..(Len(s) + Len(t)) :
           (s \o t)[i] = IF i <= Len(s) THEN s[i] ELSE t[i - Len(s)]
  BY ConcatProperties
<1> DEFINE u == s \o t
<1> HIDE DEF u
<1>2. /\ \A i \in DOMAIN s : i \in DOMAIN u /\ u[i] = s[i]
      /\ \A i \in DOMAIN t : i + Len(s) \in DOMAIN u /\ u[i + Len(s)] = t[i]
      /\ \A i \in DOMAIN u : \/ i \in DOMAIN s /\ u[i] = s[i]
                             \/ i - Len(s) \in DOMAIN t /\ u[i] = t[i - Len(s)]
      /\ DOMAIN u \subseteq Int
  BY <1>1, SMTT(60) DEF u
<1>3. SeqRange(u) = SeqRange(s) \cup SeqRange(t)
  BY <1>2 DEF SeqRange
<1>4. NoRepeat(s, X) /\ NoRepeat(t, X) /\ SeqRange(s) \cap SeqRange(t) \subseteq X
        => NoRepeat(u, X)
  <2> SUFFICES ASSUME NoRepeat(s, X), NoRepeat(t, X),
                      SeqRange(s) \cap SeqRange(t) \subseteq X,
                      NEW i \in DOMAIN u, NEW j \in DOMAIN u, u[i] = u[j], u[i] \notin X
               PROVE  i = j
    BY Zenon DEF NoRepeat
  <2>1. CASE i \in DOMAIN s /\ u[i] = s[i] /\ j \in DOMAIN s /\ u[j] = s[j]
    BY <2>1, Zenon DEF NoRepeat
  <2>2. CASE /\ i - Len(s) \in DOMAIN t /\ u[i] = t[i - Len(s)]
             /\ j - Len(s) \in DOMAIN t /\ u[j] = t[j - Len(s)]
    <3>1. i - Len(s) = j - Len(s)
      BY <2>2, Zenon DEF NoRepeat
    <3> QED
      BY <1>1, <1>2, <3>1
  <2>3. ~(i \in DOMAIN s /\ u[i] = s[i] /\ j - Len(s) \in DOMAIN t
            /\ u[j] = t[j - Len(s)])
    BY Zenon DEF SeqRange
  <2>4. ~(j \in DOMAIN s /\ u[j] = s[j] /\ i - Len(s) \in DOMAIN t
            /\ u[i] = t[i - Len(s)])
    BY Zenon DEF SeqRange
  <2> QED
    BY <1>2, <2>1, <2>2, <2>3, <2>4, Zenon
<1> QED
  BY <1>1, <1>3, <1>4, Zenon DEF u

\* A new queue.
LEMMA EmptyRange == SeqRange(<<>>) = {} /\ \A X : NoRepeat(<<>>, X)
BY DEF SeqRange, NoRepeat

\* What is in a queue, whether something is in it twice or not.
LEMMA ConcatMembers ==
  ASSUME NEW S, NEW s \in Seq(S), NEW t \in Seq(S)
  PROVE  s \o t \in Seq(S) /\ SeqRange(s \o t) = SeqRange(s) \cup SeqRange(t)
<1>1. PICK X : X = {}
  BY Zenon
<1> QED
  BY ConcatRange

\* The same for what is left when the first is taken.
LEMMA TailMembers ==
  ASSUME NEW S, NEW s \in Seq(S), s # <<>>
  PROVE  /\ Head(s) \in S /\ Tail(s) \in Seq(S)
         /\ SeqRange(s) = SeqRange(Tail(s)) \cup {Head(s)}
<1>1. PICK X : X = {}
  BY Zenon
<1> QED
  BY TailRange

-----------------------------------------------------------------------------
(* Types.                                                                  *)

Statuses == {"none", "kConnecting", "kConnected", "kDisconnected"}

MainType ==
  /\ arrived \in 0..MaxConns /\ next_conn_id_ \in 0..MaxConns
  /\ next_thread_idx_ \in Loops
  /\ connections_ \in [Names -> Conns \cup {None}]
  /\ mainPending \in Seq(Conns)
  /\ mainRun \in Seq(Conns) /\ mainRan \in Seq(Conns)
  /\ mainAt \in {"check", "create", "connect"} => next_conn_id_ \in Conns
  /\ overtaken \subseteq Conns /\ DOMAIN started = Loops

IoType ==
  /\ status \in [Conns -> Statuses]
  /\ DOMAIN fd = Conns /\ loop \in [Conns -> Loops] /\ peer \in [Conns -> Peers]
  /\ fd2channels_ \in [Loops -> [Fds -> Conns \cup {None}]]
  /\ pending \in [Loops -> Seq(Conns)] /\ executing \in [Loops -> Seq(Conns)]
  /\ unhandled \in [Loops -> SUBSET Conns]
  /\ current \in [Loops -> Conns \cup {None}]

TypeInv == MainType /\ IoType

\* The connections and the loops are numbered.
LEMMA Numbers ==
  /\ None \notin Conns
  /\ \A n \in 0..MaxConns : Conns \cap (1..n) = 1..n
  /\ \A l \in Loops : (l + 1) % NumThreads \in Loops
<1>1. NumThreads \in Nat \ {0} /\ MaxConns \in Nat
  BY TcpServerAssumption, ZenonT(60)
<1> QED
  BY ONLY <1>1 DEF None, Conns, Loops

\* addChannel() and removeChannel() change one entry of one poller.
LEMMA SetEntry ==
  ASSUME NEW S, NEW T \in [Loops -> [Fds -> S]],
         NEW l \in Loops, NEW f, NEW x \in S
  PROVE  /\ [T EXCEPT ![l][f] = x] \in [Loops -> [Fds -> S]]
         /\ \A k \in Loops, g \in Fds :
              [T EXCEPT ![l][f] = x][k][g] = IF k = l /\ g = f THEN x ELSE T[k][g]
BY ZenonT(60)

\* The types are kept.
LEMMA TypeStep == TypeInv /\ [Next]_vars => TypeInv'
<1> SUFFICES ASSUME TypeInv, [Next]_vars PROVE TypeInv'
  BY Zenon
<1> USE DEF TypeInv, mainVars, ioVars, netVars, startVars
<1>1. CASE listen
  BY <1>1, Zenon DEF listen, MainType, IoType
<1>2. CASE acceptorReadCallback
  <2> DEFINE c == next_conn_id_ + 1
             l == next_thread_idx_
  <2>1. c \in Conns /\ next_conn_id_' \in 0..MaxConns /\ next_conn_id_' = c
    BY <1>2, TcpServerAssumption DEF acceptorReadCallback, AcceptReady, MainType, Conns
  <2>2. next_thread_idx_' \in Loops
    BY <1>2, Numbers, Zenon DEF acceptorReadCallback, getNextThread, MainType
  <2> HIDE DEF c
  <2>3. PICK f : /\ fd' = [fd EXCEPT ![c] = f]
                 /\ loop' = [loop EXCEPT ![c] = l]
                 /\ connections_' = [connections_ EXCEPT ![Name(c)] = c]
                 /\ status' = [status EXCEPT ![c] = "kConnecting"]
    BY <1>2, Zenon DEF acceptorReadCallback, c
  <2>4. UNCHANGED <<arrived, mainPending, mainRun, mainRan, overtaken, started, peer,
                    fd2channels_, pending, executing, unhandled, current>>
    BY <1>2, ZenonT(60) DEF acceptorReadCallback
  <2>5. MainType'
    BY <2>1, <2>2, <2>3, <2>4, Zenon DEF MainType
  <2>6. DOMAIN fd' = Conns /\ loop' \in [Conns -> Loops] /\ status' \in [Conns -> Statuses]
    BY <2>1, <2>3, Zenon DEF MainType, IoType, Statuses
  <2>7. IoType'
    BY <2>4, <2>6, Zenon DEF IoType
  <2> QED
    BY <2>5, <2>7, Zenon
<1>22. CASE runInLoop
  <2> DEFINE l == loop[next_conn_id_]
  <2>1. /\ next_conn_id_ \in Conns /\ mainAt' \in {"swap", "create"}
        /\ pending' = [pending EXCEPT ![l] = Append(@, next_conn_id_)] \/ UNCHANGED pending
        /\ UNCHANGED <<next_conn_id_, next_thread_idx_, connections_, mainRun, mainRan, fd,
                       loop, peer, mainPending, ioVars, netVars>>
    BY <1>22, Zenon DEF runInLoop, MainType
  <2>2. l \in Loops /\ Append(pending[l], next_conn_id_) \in Seq(Conns)
    BY <2>1, AppendRange, Zenon DEF IoType
  <2>3. pending' \in [Loops -> Seq(Conns)]
    <3> HIDE DEF l
    <3> QED
      BY <2>1, <2>2, ZenonT(60) DEF IoType
  <2>4. MainType'
    BY <2>1, Zenon DEF MainType
  <2> QED
    BY <2>1, <2>3, <2>4, Zenon DEF IoType
<1>23. CASE createHere
  <2>1. PICK c \in Conns : c = next_conn_id_
    BY <1>23, Zenon DEF createHere, MainType
  <2>2. PICK f : fd2channels_' = [fd2channels_ EXCEPT ![loop[c]][f] = c]
    BY <1>23, <2>1, ZenonT(60) DEF createHere, addChannel
  <2>3. UNCHANGED <<next_conn_id_, next_thread_idx_, connections_, mainRun, mainRan, fd,
                    loop, peer, status, executing, unhandled, current, mainPending, pending,
                    netVars>>
    BY <1>23, Zenon DEF createHere
  <2>4. fd2channels_' \in [Loops -> [Fds -> Conns \cup {None}]]
    <3>1. /\ fd2channels_ \in [Loops -> [Fds -> Conns \cup {None}]]
          /\ loop[c] \in Loops /\ c \in Conns \cup {None}
      BY <2>1, Zenon DEF IoType
    <3> QED
      BY ONLY <2>2, <3>1, SetEntry, Zenon
  <2>5. MainType'
    BY ONLY MainType, <2>1, <2>3, Zenon DEF MainType, netVars, startVars
  <2> QED
    BY ONLY IoType, <2>3, <2>4, <2>5, Zenon DEF IoType
<1>24. CASE connectHere
  BY <1>24, Zenon DEF connectHere, MainType, IoType, Statuses
<1>3. CASE acceptFailed
  BY <1>3, Zenon DEF acceptFailed, MainType, IoType
<1>4. CASE mainWoken
  BY <1>4, ZenonT(60) DEF mainWoken, MainType, IoType
<1>5. CASE mainDoPendingCallbacks
  BY <1>5 DEF mainDoPendingCallbacks, MainType, IoType
<1>6. CASE eraseConnection
  <2>1. /\ Head(mainRun) \in Conns /\ Tail(mainRun) \in Seq(Conns)
        /\ Append(mainRan, Head(mainRun)) \in Seq(Conns)
    BY <1>6, TailRange, AppendRange, Zenon DEF eraseConnection, MainType
  <2> QED
    BY <1>6, <2>1, Zenon DEF eraseConnection, MainType, IoType
<1>7. CASE destroyCallback
  <2>1. mainRan # <<>> => Tail(mainRan) \in Seq(Conns)
    BY TailRange, Zenon DEF MainType
  <2> QED
    BY <1>7, <2>1, Zenon DEF destroyCallback, MainType, IoType
<1>8. ASSUME NEW l \in Loops, startLoop(l) PROVE TypeInv'
  BY <1>8, ZenonT(60) DEF startLoop, MainType, IoType
<1>9. ASSUME NEW l \in Loops, poll(l) PROVE TypeInv'
  BY <1>9, ZenonT(60) DEF poll, Ready, MainType, IoType
<1>10. ASSUME NEW l \in Loops, handleEvent(l) PROVE TypeInv'
  BY <1>10, SMTT(60) DEF handleEvent, MainType, IoType
<1>11. ASSUME NEW l \in Loops, handleEventDone(l) PROVE TypeInv'
  BY <1>11, Zenon DEF handleEventDone, MainType, IoType
<1>12. ASSUME NEW l \in Loops, NEW c \in Conns, closingCallback(l, c)
       PROVE  TypeInv'
  <2>1. Append(mainPending, c) \in Seq(Conns)
    BY AppendRange, Zenon DEF MainType
  <2>2. /\ handleClose(l, c)
        /\ UNCHANGED <<mainVars, executing, unhandled, current, pending, netVars>>
    BY <1>12, Zenon DEF closingCallback
  <2>3. CASE status[c] # "kDisconnected"
    <3>1. /\ fd2channels_' = [fd2channels_ EXCEPT ![l][fd[c]] = None]
          /\ status' = [status EXCEPT ![c] = "kDisconnected"]
          /\ mainPending' = Append(mainPending, c)
      BY <2>2, <2>3, Zenon DEF handleClose, removeChannel
    <3>2. fd2channels_' \in [Loops -> [Fds -> Conns \cup {None}]]
      BY <3>1, SetEntry, ZenonT(60) DEF IoType
    <3> QED
      BY <2>1, <2>2, <3>1, <3>2, ZenonT(60) DEF MainType, IoType, Statuses
  <2>4. CASE status[c] = "kDisconnected"
    BY <2>2, <2>4, Zenon DEF handleClose, MainType, IoType
  <2> QED
    BY <2>3, <2>4, Zenon
<1>13. ASSUME NEW l \in Loops, handleCloseReturns(l) PROVE TypeInv'
  BY <1>13, Zenon DEF handleCloseReturns, MainType, IoType
<1>14. ASSUME NEW l \in Loops, NEW c \in Conns, servingCallback(l, c)
       PROVE  TypeInv'
  BY <1>14, ZenonT(60) DEF servingCallback, MainType, IoType
<1>15. ASSUME NEW l \in Loops, NEW c \in Conns, danglingCallback(l, c)
       PROVE  TypeInv'
  BY <1>15, Zenon DEF danglingCallback, MainType, IoType
<1>16. ASSUME NEW l \in Loops, doPendingCallbacks(l) PROVE TypeInv'
  BY <1>16, SMTT(60) DEF doPendingCallbacks, MainType, IoType
<1>17. ASSUME NEW l \in Loops, handleCreate(l) PROVE TypeInv'
  <2>1. Head(executing[l]) \in Conns /\ Tail(executing[l]) \in Seq(Conns)
    BY <1>17, TailRange, ZenonT(60) DEF handleCreate, IoType
  <2> QED
    BY <1>17, <2>1, Zenon DEF handleCreate, addChannel, MainType, IoType, Statuses
<1>18. ASSUME NEW l \in Loops, tasksDone(l) PROVE TypeInv'
  BY <1>18, Zenon DEF tasksDone, MainType, IoType
<1>19. CASE ClientConnects
  BY <1>19, TcpServerAssumption DEF ClientConnects, MainType, IoType
<1>20. ASSUME NEW c \in Conns, PeerSends(c) \/ PeerCloses(c) \/ PeerResets(c)
       PROVE  TypeInv'
  BY <1>20, Zenon
  DEF PeerSends, PeerCloses, PeerResets, PeerDoes, MainType, IoType
<1>21. CASE UNCHANGED vars
  BY <1>21, Zenon DEF vars, MainType, IoType
<1> QED
  BY <1>1, <1>2, <1>3, <1>4, <1>5, <1>6, <1>7, <1>8, <1>9, <1>10, <1>11,
     <1>12, <1>13, <1>14, <1>15, <1>16, <1>17, <1>18, <1>19, <1>20, <1>21, <1>22,
     <1>23, <1>24, ZenonT(60)
  DEF Next, MainStep, IoStep, Network


-----------------------------------------------------------------------------
(* The invariant: where a connection is, by its status.                    *)

\* Connections are numbered as they are accepted.
Numbered ==
  \A c \in Conns : /\ status[c] = "none" <=> c > next_conn_id_
                   /\ c \in overtaken => status[c] # "none"

\* In a poller: owned, in no queue of the main loop, and connected, or in the
\* middle of a handleCreate() in the main thread.
Registered ==
  \A l \in Loops, f \in Fds, c \in Conns :
    fd2channels_[l][f] = c =>
      /\ fd[c] = f /\ loop[c] = l /\ connections_[Name(c)] = c
      /\ status[c] = "kConnected" \/ (mainAt = "connect" /\ c = next_conn_id_)
      /\ c \notin SeqRange(mainPending) /\ c \notin SeqRange(mainRun)

\* In the queue of an io loop, once: connecting.
Queued ==
  \A l \in Loops :
    /\ NoRepeat(pending[l], {}) /\ NoRepeat(executing[l], {})
    /\ SeqRange(pending[l]) \cap SeqRange(executing[l]) = {}
    /\ \A c \in SeqRange(pending[l]) \cup SeqRange(executing[l]) :
         status[c] = "kConnecting" /\ loop[c] = l /\ c \notin overtaken

\* In the hands of an io loop: one of its own, connected or closed since, if
\* the loop has not started in the middle of its handleCreate().
Served ==
  \A l \in Loops, c \in Conns :
    c \in unhandled[l] \/ current[l] = c =>
      /\ loop[c] = l
      /\ status[c] \in {"kConnected", "kDisconnected"} \/ c \in overtaken

\* In the queue of the main loop: once, and disconnected, unless overtaken.
Closing ==
  /\ NoRepeat(mainPending, overtaken)
  /\ NoRepeat(mainRun, overtaken) /\ NoRepeat(mainRan, overtaken)
  /\ SeqRange(mainPending) \cap SeqRange(mainRun) \subseteq overtaken
  /\ SeqRange(mainPending) \cap SeqRange(mainRan) \subseteq overtaken
  /\ SeqRange(mainRun) \cap SeqRange(mainRan) \subseteq overtaken
  /\ \A c \in SeqRange(mainPending) \cup SeqRange(mainRun) \cup SeqRange(mainRan) :
       status[c] = "kDisconnected" \/ c \in overtaken
  /\ mainAt # "run" => mainRun = <<>> /\ mainRan = <<>>

\* In connections_: accepted, and not yet erased.
Owned ==
  \A c \in Conns : status[c] # "none" /\ c \notin overtaken =>
    (connections_[Name(c)] = c <=>
       \/ status[c] # "kDisconnected"
       \/ c \in SeqRange(mainPending) \/ c \in SeqRange(mainRun))

\* Not yet in the hands of anyone but the main thread.
Untouched(c) ==
  /\ status[c] = "kConnecting" /\ c \notin SeqRange(mainPending)
  /\ \A l \in Loops : c \notin unhandled[l] /\ current[l] # c

\* The connection that the main thread is about to create: its loop is one
\* that has not started, until it is overtaken.
Creating ==
  mainAt \in {"check", "create", "connect"} =>
    \E c \in Conns :
      /\ c = next_conn_id_ /\ connections_[Name(c)] = c
      /\ \A l \in Loops : /\ c \notin SeqRange(pending[l])
                          /\ c \notin SeqRange(executing[l])
      /\ (mainAt = "connect" /\ c \in overtaken) \/ Untouched(c)
      /\ c \in overtaken => mainAt # "check"
      /\ c \in overtaken \/ mainAt = "check" \/ ~started[loop[c]]

Inv == Numbered /\ Registered /\ Queued /\ Served /\ Closing /\ Owned /\ Creating

\* What each part of it is about: a step that changes nothing of that keeps it.
LEMMA Frames ==
  /\ Numbered /\ UNCHANGED <<status, next_conn_id_, overtaken>> => Numbered'
  /\ Registered /\ UNCHANGED <<fd2channels_, status, fd, loop, connections_, peer, mainAt,
                               next_conn_id_, mainPending, mainRun>> => Registered'
  /\ Queued /\ UNCHANGED <<pending, executing, status, loop, overtaken>> => Queued'
  /\ Served /\ UNCHANGED <<unhandled, current, status, loop, overtaken>> => Served'
  /\ Closing /\ UNCHANGED <<mainPending, mainRun, mainRan, mainAt, status, overtaken>>
       => Closing'
  /\ Owned /\ UNCHANGED <<connections_, peer, mainPending, mainRun, status, overtaken>>
       => Owned'
  /\ Creating /\ UNCHANGED <<mainAt, next_conn_id_, connections_, peer, pending, executing,
                             status, mainPending, unhandled, current, overtaken, started,
                             loop>> => Creating'
<1>1. Numbered /\ UNCHANGED <<status, next_conn_id_, overtaken>> => Numbered'
  BY DEF Numbered
<1>2. Registered /\ UNCHANGED <<fd2channels_, status, fd, loop, connections_, peer, mainAt,
                                next_conn_id_, mainPending, mainRun>> => Registered'
  BY DEF Registered, Name
<1>3. Queued /\ UNCHANGED <<pending, executing, status, loop, overtaken>> => Queued'
  BY Zenon DEF Queued
<1>4. Served /\ UNCHANGED <<unhandled, current, status, loop, overtaken>> => Served'
  BY Zenon DEF Served
<1>5. Closing /\ UNCHANGED <<mainPending, mainRun, mainRan, mainAt, status, overtaken>>
        => Closing'
  BY Zenon DEF Closing
<1>6. Owned /\ UNCHANGED <<connections_, peer, mainPending, mainRun, status, overtaken>>
        => Owned'
  BY Zenon DEF Owned, Name
<1>7. Creating /\ UNCHANGED <<mainAt, next_conn_id_, connections_, peer, pending, executing,
                              status, mainPending, unhandled, current, overtaken, started,
                              loop>> => Creating'
  BY DEF Creating, Untouched, Name
<1> QED
  BY <1>1, <1>2, <1>3, <1>4, <1>5, <1>6, <1>7, ZenonT(60)

\* Names differ, for connections from the same address too.
LEMMA NameUnique ==
  ASSUME IoType, NEW c \in Conns, NEW d \in Conns
  PROVE  /\ Name(c) \in Names
         /\ Name(c) = Name(d) => c = d
BY ZenonT(60) DEF IoType, Name, Names

\* The queues hold connections.
LEMMA RangeType ==
  ASSUME NEW S, NEW s \in Seq(S)
  PROVE  SeqRange(s) \subseteq S
BY SMTT(60) DEF SeqRange

\* acceptorReadCallback() keeps the invariant, up to runInLoop().
LEMMA AcceptStep ==
  ASSUME TypeInv, Inv, acceptorReadCallback
  PROVE  Inv'
<1> DEFINE c == next_conn_id_ + 1
           l == next_thread_idx_
<1>1. /\ c \in Conns /\ l \in Loops /\ next_conn_id_' = c
      /\ next_conn_id_ \in Nat
  BY TcpServerAssumption
  DEF acceptorReadCallback, AcceptReady, TypeInv, MainType, Conns
<1>2. \A d \in Conns : d > c <=> d > next_conn_id_ /\ d # c
  BY <1>1 DEF Conns
<1>3. PICK f : /\ fd' = [fd EXCEPT ![c] = f]
               /\ loop' = [loop EXCEPT ![c] = l]
               /\ connections_' = [connections_ EXCEPT ![Name(c)] = c]
               /\ status' = [status EXCEPT ![c] = "kConnecting"]
  BY Zenon DEF acceptorReadCallback
<1>4. /\ UNCHANGED <<mainPending, mainRun, mainRan, peer, fd2channels_, pending,
                     executing, unhandled, current, overtaken>>
      /\ mainAt = "poll" /\ mainAt' = "check"
  BY ZenonT(60) DEF acceptorReadCallback, AcceptReady, netVars, startVars
<1>5. status[c] = "none" /\ c \notin overtaken
  BY <1>1, <1>2, SMTT(60) DEF Inv, Numbered
<1> HIDE DEF c, l
<1>6. /\ status'[c] = "kConnecting" /\ loop'[c] = l /\ fd'[c] = f
      /\ \A d \in Conns : d # c => /\ status'[d] = status[d]
                                   /\ loop'[d] = loop[d] /\ fd'[d] = fd[d]
      /\ \A d \in Conns : Name(d)' = Name(d)
  BY <1>1, <1>3, <1>4, ZenonT(60) DEF TypeInv, IoType, Name
<1>7. Numbered'
  BY <1>1, <1>2, <1>4, <1>5, <1>6, ZenonT(60) DEF Inv, Numbered
<1>8. /\ \A k \in Loops, g \in Fds : fd2channels_[k][g] # c
      /\ \A k \in Loops : /\ c \notin SeqRange(pending[k])
                          /\ c \notin SeqRange(executing[k])
                          /\ c \notin unhandled[k] /\ current[k] # c
      /\ c \notin SeqRange(mainPending) /\ c \notin SeqRange(mainRun)
      /\ c \notin SeqRange(mainRan)
  BY <1>1, <1>4, <1>5, SMTT(60) DEF Inv, Registered, Queued, Served, Closing
<1>9. /\ connections_'[Name(c)] = c
      /\ \A d \in Conns : d # c => connections_'[Name(d)] = connections_[Name(d)]
  BY <1>1, <1>3, NameUnique, ZenonT(60) DEF TypeInv, MainType
<1>10. Registered'
  <2>1. ASSUME NEW k \in Loops, NEW g \in Fds, NEW d \in Conns, fd2channels_'[k][g] = d
        PROVE  /\ fd'[d] = g /\ loop'[d] = k /\ connections_'[Name(d)'] = d
               /\ status'[d] = "kConnected"
               /\ d \notin SeqRange(mainPending') /\ d \notin SeqRange(mainRun')
    <3>1. d # c
      BY <1>4, <1>8, <2>1, SMTT(60)
    <3>2. /\ fd[d] = g /\ loop[d] = k /\ connections_[Name(d)] = d
          /\ status[d] = "kConnected"
          /\ d \notin SeqRange(mainPending') /\ d \notin SeqRange(mainRun')
      BY <1>4, <2>1, SMTT(60) DEF Inv, Registered
    <3> QED
      BY <1>6, <1>9, <3>1, <3>2, ZenonT(60)
  <2> QED
    BY ONLY <2>1, SMTT(60) DEF Registered, Name
<1>11. Queued'
  <2>1. \A k \in Loops : /\ SeqRange(pending[k]) \subseteq Conns
                         /\ SeqRange(executing[k]) \subseteq Conns
    BY RangeType, ZenonT(60) DEF TypeInv, IoType
  <2> QED
    BY <1>4, <1>6, <1>8, <2>1, SMTT(60) DEF Inv, Queued
<1>12. Served'
  BY <1>4, <1>6, <1>8 DEF Inv, Served
<1>13. Closing'
  <2>1. /\ SeqRange(mainPending) \subseteq Conns
        /\ SeqRange(mainRun) \subseteq Conns /\ SeqRange(mainRan) \subseteq Conns
    BY RangeType, Zenon DEF TypeInv, MainType
  <2>2. mainRun = <<>> /\ mainRan = <<>>
    BY <1>4, SMTT(60) DEF Inv, Closing
  <2> QED
    BY <1>4, <1>6, <1>8, <2>1, <2>2, ZenonT(60) DEF Inv, Closing
<1>14. Owned'
  BY <1>1, <1>4, <1>6, <1>9, SMTT(60) DEF Inv, Owned
<1>15. Creating'
  <2>1. PICK d \in Conns : d = c
    BY <1>1, ZenonT(60)
  <2>2. Untouched(d)'
    BY <1>4, <1>6, <1>8, <2>1, ZenonT(60) DEF Untouched
  <2>3. connections_'[Name(d)'] = d /\ d \notin overtaken'
    BY <1>4, <1>5, <1>6, <1>9, <2>1, Zenon
  <2>4. \A k \in Loops : d \notin SeqRange(pending'[k]) /\ d \notin SeqRange(executing'[k])
    BY <1>4, <1>8, <2>1, ZenonT(60)
  <2> QED
    BY ONLY <1>1, <1>4, <2>1, <2>2, <2>3, <2>4, ZenonT(60) DEF Creating
<1> QED
  BY <1>7, <1>10, <1>11, <1>12, <1>13, <1>14, <1>15, ZenonT(60) DEF Inv

\* runInLoop() keeps it, whether handleCreate() is queued or called.
LEMMA RunInLoopStep ==
  ASSUME TypeInv, Inv, runInLoop
  PROVE  Inv'
<1>1. /\ mainAt = "check" /\ mainAt' \in {"swap", "create"}
      /\ UNCHANGED <<next_conn_id_, connections_, mainRun, mainRan, fd, loop, peer, status,
                     fd2channels_, executing, unhandled, current, mainPending, overtaken,
                     started>>
  BY Zenon DEF runInLoop, ioVars, netVars, startVars
<1>2. PICK c \in Conns :
        /\ c = next_conn_id_ /\ connections_[Name(c)] = c
        /\ \A k \in Loops : /\ c \notin SeqRange(pending[k])
                            /\ c \notin SeqRange(executing[k])
        /\ Untouched(c) /\ c \notin overtaken
  BY <1>1 DEF Inv, Creating
<1>3. PICK l \in Loops : l = loop[c]
  BY <1>2, ZenonT(60) DEF TypeInv, IoType
<1>4. \/ /\ pending' = [pending EXCEPT ![l] = Append(@, c)]
         /\ mainAt' = "swap"
      \/ UNCHANGED pending /\ mainAt' = "create" /\ ~started[l]
  BY <1>2, <1>3, Zenon DEF runInLoop
<1>5. Numbered' /\ Served' /\ Owned'
  BY <1>1, Frames, ZenonT(60) DEF Inv
<1>6. Registered'
  BY <1>1 DEF Inv, Registered, Name
<1>7. Closing'
  BY <1>1, Zenon DEF Inv, Closing
<1>8. Queued' /\ Creating'
  <2>1. CASE UNCHANGED pending /\ mainAt' = "create" /\ ~started[l]
    <3>1. Queued'
      BY <1>1, <2>1, Frames, ZenonT(60) DEF Inv
    <3>2. Untouched(c)' /\ Name(c)' = Name(c) /\ mainAt' # "check"
      BY <1>1, <1>2, <2>1, ZenonT(60) DEF Untouched, Name
    <3> QED
      BY <1>1, <1>2, <1>3, <2>1, <3>1, <3>2, ZenonT(60) DEF Creating
  <2>2. CASE pending' = [pending EXCEPT ![l] = Append(@, c)] /\ mainAt' = "swap"
    <3>1. /\ SeqRange(Append(pending[l], c)) = SeqRange(pending[l]) \cup {c}
          /\ NoRepeat(Append(pending[l], c), {})
      BY <1>2, AppendRange, SMTT(60) DEF TypeInv, IoType, Inv, Queued
    <3>2. /\ SeqRange(pending'[l]) = SeqRange(pending[l]) \cup {c}
          /\ NoRepeat(pending'[l], {})
          /\ \A k \in Loops : k # l => pending'[k] = pending[k]
      BY <2>2, <3>1, ZenonT(60) DEF TypeInv, IoType
    <3>3. status[c] = "kConnecting"
      BY <1>2, ZenonT(60) DEF Untouched
    <3>4. Queued'
      BY <1>1, <1>2, <1>3, <3>2, <3>3, SMTT(60) DEF Inv, Queued
    <3> QED
      BY <2>2, <3>4, ZenonT(60) DEF Creating
  <2> QED
    BY <1>4, <2>1, <2>2, ZenonT(60)
<1> QED
  BY <1>5, <1>6, <1>7, <1>8, Zenon DEF Inv

\* So does handleCreate() in the main thread: adding the Channel,
LEMMA CreateHereStep ==
  ASSUME TypeInv, Inv, createHere
  PROVE  Inv'
<1>1. /\ mainAt = "create" /\ mainAt' = "connect"
      /\ UNCHANGED <<next_conn_id_, connections_, mainRun, mainRan, fd, loop, peer, status,
                     executing, unhandled, current, mainPending, pending, overtaken,
                     started>>
  BY Zenon DEF createHere, netVars, startVars
<1>2. PICK c \in Conns :
        /\ c = next_conn_id_ /\ connections_[Name(c)] = c
        /\ \A k \in Loops : /\ c \notin SeqRange(pending[k])
                            /\ c \notin SeqRange(executing[k])
        /\ Untouched(c)
        /\ c \in overtaken \/ ~started[loop[c]]
  BY <1>1, SMTT(60) DEF Inv, Creating
<1>3. PICK l \in Loops : l = loop[c]
  BY <1>2, Zenon DEF TypeInv, IoType
<1>4. Numbered' /\ Queued' /\ Served' /\ Owned'
  BY <1>1, Frames, ZenonT(60) DEF Inv
<1>5. mainRun = <<>> /\ mainRan = <<>>
  BY <1>1, SMTT(60) DEF Inv, Closing
<1>6. Closing'
  BY <1>1, <1>5, ZenonT(60) DEF Inv, Closing
<1>7. Registered'
  <2>1. PICK f : f = fd[c] /\ fd2channels_' = [fd2channels_ EXCEPT ![l][f] = c]
    BY <1>2, <1>3, ZenonT(60) DEF createHere, addChannel
  <2>2. fd2channels_ \in [Loops -> [Fds -> Conns \cup {None}]] /\ c \in Conns \cup {None}
    BY ZenonT(60) DEF TypeInv, IoType
  <2>3. \A k \in Loops, g \in Fds :
          fd2channels_'[k][g] = IF k = l /\ g = f THEN c ELSE fd2channels_[k][g]
    BY ONLY l \in Loops, <2>1, <2>2, SetEntry, SMTT(60)
  <2>4. c \notin SeqRange(mainPending) /\ c \notin SeqRange(mainRun)
    BY <1>2, <1>5, EmptyRange, ZenonT(60) DEF Untouched
  <2> QED
    BY <1>1, <1>2, <1>3, <2>1, <2>3, <2>4, SMTT(60) DEF Inv, Registered, Name
<1>8. Creating'
  <2>1. Untouched(c)' /\ Name(c)' = Name(c)
    BY <1>1, <1>2, ZenonT(60) DEF Untouched, Name
  <2> QED
    BY <1>1, <1>2, <2>1 DEF Creating
<1> QED
  BY <1>4, <1>6, <1>7, <1>8, ZenonT(60) DEF Inv

\* and the assignment to status_, whatever has become of the connection.
LEMMA ConnectHereStep ==
  ASSUME TypeInv, Inv, connectHere
  PROVE  Inv'
<1>1. /\ mainAt = "connect" /\ mainAt' = "swap"
      /\ UNCHANGED <<next_conn_id_, connections_, mainRun, mainRan, fd, loop, peer,
                     fd2channels_, executing, unhandled, current, mainPending, pending,
                     overtaken>>
  BY Zenon DEF connectHere, netVars, startVars
<1>2. PICK c \in Conns :
        /\ c = next_conn_id_ /\ connections_[Name(c)] = c
        /\ \A k \in Loops : /\ c \notin SeqRange(pending[k])
                            /\ c \notin SeqRange(executing[k])
        /\ c \in overtaken \/ Untouched(c)
  BY <1>1 DEF Inv, Creating
<1>3. /\ status'[c] = "kConnected"
      /\ \A d \in Conns : d # c => status'[d] = status[d]
  BY <1>2, Zenon DEF connectHere, TypeInv, IoType
<1>4. status[c] # "none"
  <2>1. ~(c > next_conn_id_)
    BY <1>2, SMTT(60) DEF Conns
  <2> QED
    BY <2>1, Zenon DEF Inv, Numbered
<1>5. Numbered'
  BY <1>1, <1>3, <1>4, ZenonT(60) DEF Inv, Numbered
<1>6. Registered'
  BY <1>1, <1>2, <1>3, SMTT(60) DEF Inv, Registered, Name
<1>7. Queued'
  <2>1. \A k \in Loops : /\ SeqRange(pending[k]) \subseteq Conns \ {c}
                         /\ SeqRange(executing[k]) \subseteq Conns \ {c}
    <3>1. \A k \in Loops : /\ SeqRange(pending[k]) \subseteq Conns
                           /\ SeqRange(executing[k]) \subseteq Conns
      BY RangeType, ZenonT(60) DEF TypeInv, IoType
    <3> QED
      BY ONLY <1>2, <3>1, Zenon
  <2> SUFFICES ASSUME NEW k \in Loops,
                      NEW d \in SeqRange(pending[k]) \cup SeqRange(executing[k])
               PROVE  status'[d] = status[d]
    BY <1>1, ZenonT(60) DEF Inv, Queued
  <2> QED
    BY <1>3, <2>1, Zenon
<1>8. Served'
  BY <1>1, <1>3 DEF Inv, Served
<1>9. Closing'
  <2>1. /\ SeqRange(mainPending) \subseteq Conns
        /\ mainRun = <<>> /\ mainRan = <<>>
    BY <1>1, RangeType DEF TypeInv, MainType, Inv, Closing
  <2>2. \A d \in SeqRange(mainPending) : status'[d] = "kDisconnected" \/ d \in overtaken
    <3> SUFFICES ASSUME NEW d \in SeqRange(mainPending), d \notin overtaken
                 PROVE  status'[d] = "kDisconnected"
      BY Zenon
    <3>1. d # c /\ d \in Conns
      BY <1>2, <2>1, ZenonT(60) DEF Untouched
    <3>2. status[d] = "kDisconnected"
      BY ZenonT(60) DEF Inv, Closing
    <3> QED
      BY <1>3, <3>1, <3>2, Zenon
  <2> QED
    BY <1>1, <2>1, <2>2, EmptyRange, ZenonT(60) DEF Inv, Closing
<1>10. Owned'
  BY <1>1, <1>2, <1>3, ZenonT(60) DEF Inv, Owned, Name
<1>11. Creating'
  BY <1>1, SMTT(60) DEF Creating
<1> QED
  BY <1>5, <1>6, <1>7, <1>8, <1>9, <1>10, <1>11, ZenonT(60) DEF Inv

\* startLoop() keeps it: one connection at most is overtaken.
LEMMA StartStep ==
  ASSUME TypeInv, Inv, NEW l \in Loops, startLoop(l)
  PROVE  Inv'
<1>1. /\ started' = [started EXCEPT ![l] = TRUE]
      /\ overtaken' = overtaken \cup
           {c \in Conns : /\ mainAt \in {"create", "connect"}
                          /\ c = next_conn_id_ /\ loop[c] = l}
      /\ UNCHANGED <<next_conn_id_, connections_, mainAt, mainRun, mainRan, fd, loop, peer,
                     status, fd2channels_, executing, unhandled, current, mainPending,
                     pending>>
  BY Zenon DEF startLoop, mainVars, ioVars
<1>2. /\ overtaken \subseteq overtaken' /\ overtaken' \subseteq Conns
      /\ \A c \in overtaken' \ overtaken :
           mainAt \in {"create", "connect"} /\ c = next_conn_id_ /\ loop[c] = l
  BY <1>1, Zenon DEF TypeInv, MainType
<1>3. Numbered'
  <2>1. \A c \in Conns : c = next_conn_id_ => ~(c > next_conn_id_)
    BY DEF Conns
  <2> QED
    BY <1>1, <1>2, <2>1, ZenonT(60) DEF Inv, Numbered
<1>4. Registered'
  BY <1>1, Frames, Zenon DEF Inv
<1>5. Queued'
  <2>1. ASSUME NEW k \in Loops, NEW c \in SeqRange(pending[k]) \cup SeqRange(executing[k])
        PROVE  c \notin overtaken'
    <3>1. c \notin overtaken
      BY <2>1, Zenon DEF Inv, Queued
    <3>2. mainAt \in {"create", "connect"} => c # next_conn_id_
      BY <2>1, SMTT(60) DEF Inv, Creating
    <3> QED
      BY <1>2, <3>1, <3>2, ZenonT(60)
  <2> QED
    BY <1>1, <2>1, ZenonT(60) DEF Inv, Queued
<1>6. Served'
  BY <1>1, <1>2, Zenon DEF Inv, Served
<1>7. Closing'
  <2>1. \A s : NoRepeat(s, overtaken) => NoRepeat(s, overtaken')
    BY <1>2, ZenonT(60) DEF NoRepeat
  <2> QED
    BY <1>1, <1>2, <2>1, ZenonT(60) DEF Inv, Closing
<1>8. Owned'
  BY <1>1, <1>2, ZenonT(60) DEF Inv, Owned, Name
<1>9. Creating'
  <2> SUFFICES ASSUME mainAt \in {"check", "create", "connect"}
               PROVE  Creating'
    BY <1>1 DEF Creating
  <2>1. PICK c \in Conns :
          /\ c = next_conn_id_ /\ connections_[Name(c)] = c
          /\ \A k \in Loops : /\ c \notin SeqRange(pending[k])
                              /\ c \notin SeqRange(executing[k])
          /\ (mainAt = "connect" /\ c \in overtaken) \/ Untouched(c)
          /\ c \in overtaken => mainAt # "check"
          /\ c \in overtaken \/ mainAt = "check" \/ ~started[loop[c]]
    BY Zenon DEF Inv, Creating
  <2>2. Name(c)' = Name(c) /\ (Untouched(c) => Untouched(c)')
    BY <1>1, Zenon DEF Name, Untouched
  <2>3. (mainAt = "connect" /\ c \in overtaken') \/ Untouched(c)'
    BY <1>2, <2>1, <2>2, ZenonT(60)
  <2>4. c \in overtaken' => mainAt # "check"
    BY <1>2, <2>1
  <2>5. c \in overtaken' \/ mainAt = "check" \/ ~started'[loop[c]]
    BY <1>1, <2>1, Zenon DEF TypeInv, MainType, IoType
  <2> QED
    BY <1>1, <2>1, <2>2, <2>3, <2>4, <2>5, ZenonT(60) DEF Creating
<1> QED
  BY <1>3, <1>4, <1>5, <1>6, <1>7, <1>8, <1>9, ZenonT(60) DEF Inv

\* handleClose() keeps it, from whichever callback it is called.
LEMMA CloseStep ==
  ASSUME TypeInv, Inv, NEW l \in Loops, NEW c \in Conns, closingCallback(l, c)
  PROVE  Inv'
<1>1. /\ current[l] = c
      /\ handleClose(l, c)
      /\ UNCHANGED <<mainVars, executing, unhandled, current, pending, netVars>>
  BY Zenon DEF closingCallback, InCallback
<1>2. UNCHANGED <<next_conn_id_, connections_, mainAt, mainRun, mainRan, fd, loop,
                  peer, executing, unhandled, current, pending, overtaken, started>>
  BY <1>1, Zenon DEF mainVars, netVars, startVars
<1>3. CASE status[c] = "kDisconnected"
  <2>1. UNCHANGED <<fd2channels_, status, mainPending>>
    BY <1>1, <1>3, ZenonT(60) DEF handleClose
  <2> QED
    BY <1>2, <2>1, Frames, ZenonT(60) DEF Inv
<1>4. CASE status[c] # "kDisconnected"
  <2>1. /\ fd2channels_' = [fd2channels_ EXCEPT ![l][fd[c]] = None]
        /\ status' = [status EXCEPT ![c] = "kDisconnected"]
        /\ mainPending' = Append(mainPending, c)
    BY <1>1, <1>4, ZenonT(60) DEF handleClose, removeChannel
  <2>2. loop[c] = l /\ (status[c] = "kConnected" \/ c \in overtaken)
    BY <1>1, <1>4 DEF Inv, Served
  <2>3. /\ status'[c] = "kDisconnected"
        /\ \A d \in Conns : d # c => status'[d] = status[d]
    BY <2>1, Zenon DEF TypeInv, IoType
  <2>4. Numbered'
    BY <1>2, <2>2, <2>3, SMTT(60) DEF Inv, Numbered
  <2>5. /\ SeqRange(mainPending) \subseteq Conns /\ SeqRange(mainRun) \subseteq Conns
        /\ SeqRange(mainRan) \subseteq Conns
    BY RangeType, Zenon DEF TypeInv, MainType
  <2>6. \/ c \in overtaken
        \/ /\ c \notin SeqRange(mainPending) /\ c \notin SeqRange(mainRun)
           /\ c \notin SeqRange(mainRan)
    BY <1>4, Zenon DEF Inv, Closing
  <2>7. /\ SeqRange(mainPending') = SeqRange(mainPending) \cup {c}
        /\ NoRepeat(mainPending', overtaken)
    <3>1. NoRepeat(mainPending, overtaken) /\ mainPending \in Seq(Conns)
      BY Zenon DEF TypeInv, MainType, Inv, Closing
    <3> QED
      BY ONLY c \in Conns, <2>1, <2>6, <3>1, AppendRange, SMTT(60)
  <2>8. Registered'
    <3>1. \A k \in Loops, g \in Fds :
            fd2channels_'[k][g] = IF k = l /\ g = fd[c] THEN None
                                                       ELSE fd2channels_[k][g]
      BY <2>1, SetEntry, SMTT(60) DEF TypeInv, IoType
    <3>2. \A k \in Loops, g \in Fds : fd2channels_'[k][g] # c
      BY <2>2, <3>1, Numbers, SMTT(60) DEF Inv, Registered
    <3> QED
      BY <1>2, <2>3, <2>7, <3>1, <3>2, Numbers, SMTT(60) DEF Inv, Registered, Name
  <2>9. \A k \in Loops : /\ SeqRange(pending[k]) \subseteq Conns \ {c}
                         /\ SeqRange(executing[k]) \subseteq Conns \ {c}
    <3>1. \A k \in Loops : /\ SeqRange(pending[k]) \subseteq Conns
                           /\ SeqRange(executing[k]) \subseteq Conns
      BY RangeType, ZenonT(60) DEF TypeInv, IoType
    <3>2. \A k \in Loops : c \notin SeqRange(pending[k]) /\ c \notin SeqRange(executing[k])
      BY <2>2, ZenonT(60) DEF Inv, Queued
    <3> QED
      BY <3>1, <3>2, Zenon
  <2>10. Queued'
    <3> SUFFICES ASSUME NEW k \in Loops,
                        NEW d \in SeqRange(pending[k]) \cup SeqRange(executing[k])
                 PROVE  status'[d] = status[d]
      BY <1>2, ZenonT(60) DEF Inv, Queued
    <3> QED
      BY <2>3, <2>9, ZenonT(60)
  <2>11. Served'
    BY <1>2, <2>2, <2>3 DEF Inv, Served
  <2>12. Closing'
    <3>1. \A d \in Conns : status[d] = "kDisconnected" => status'[d] = "kDisconnected"
      BY <2>3, ZenonT(60)
    <3>2. \A d \in SeqRange(mainPending') \cup SeqRange(mainRun) \cup SeqRange(mainRan) :
            status'[d] = "kDisconnected" \/ d \in overtaken
      BY <2>3, <2>5, <2>7, <3>1, ZenonT(60) DEF Inv, Closing
    <3> QED
      BY <1>2, <2>6, <2>7, <3>2, ZenonT(60) DEF Inv, Closing
  <2>13. Owned'
    BY <1>2, <1>4, <2>2, <2>3, <2>6, <2>7, SMTT(60) DEF Inv, Owned, Name
  <2>14. Creating'
    <3> SUFFICES ASSUME mainAt \in {"check", "create", "connect"}
                 PROVE  Creating'
      BY <1>2, SMTT(60) DEF Creating
    <3>1. PICK d \in Conns :
            /\ d = next_conn_id_ /\ connections_[Name(d)] = d
            /\ \A k \in Loops : /\ d \notin SeqRange(pending[k])
                                /\ d \notin SeqRange(executing[k])
            /\ (mainAt = "connect" /\ d \in overtaken) \/ Untouched(d)
            /\ d \in overtaken => mainAt # "check"
            /\ d \in overtaken \/ mainAt = "check" \/ ~started[loop[d]]
      BY Zenon DEF Inv, Creating
    <3>2. Name(d)' = Name(d)
      BY <1>2, ZenonT(60) DEF Name
    <3>3. Untouched(d) => Untouched(d)'
      BY <1>1, <1>2, <2>3, <2>7, ZenonT(60) DEF Untouched
    <3> QED
      BY ONLY <1>2, <3>1, <3>2, <3>3, ZenonT(60) DEF Creating
  <2> QED
    BY <2>4, <2>8, <2>10, <2>11, <2>12, <2>13, <2>14, ZenonT(60) DEF Inv
<1> QED
  BY <1>3, <1>4, Zenon

\* handleCreate() keeps it: the connection is not queued a second time.
LEMMA CreateStep ==
  ASSUME TypeInv, Inv, NEW l \in Loops, handleCreate(l)
  PROVE  Inv'
<1> DEFINE c == Head(executing[l])
<1>1. executing[l] \in Seq(Conns) /\ executing[l] # <<>>
  BY ZenonT(60) DEF handleCreate, TypeInv, IoType
<1>2. /\ c \in Conns
      /\ SeqRange(executing[l]) = SeqRange(Tail(executing[l])) \cup {c}
      /\ NoRepeat(Tail(executing[l]), {}) /\ c \notin SeqRange(Tail(executing[l]))
  BY <1>1, TailRange DEF Inv, Queued
<1>3. /\ fd2channels_' = [fd2channels_ EXCEPT ![l][fd[c]] = c]
      /\ status' = [status EXCEPT ![c] = "kConnected"]
      /\ executing' = [executing EXCEPT ![l] = Tail(@)]
  BY Zenon DEF handleCreate, addChannel
<1>4. UNCHANGED <<next_conn_id_, connections_, mainAt, mainRun, mainRan, fd, loop,
                  peer, unhandled, current, mainPending, pending, overtaken, started>>
  BY Zenon DEF handleCreate, mainVars, netVars, startVars
<1> HIDE DEF c
<1>5. status[c] = "kConnecting" /\ loop[c] = l /\ c \notin overtaken
  BY <1>2, ZenonT(60) DEF Inv, Queued
<1>6. /\ status'[c] = "kConnected"
      /\ \A d \in Conns : d # c => status'[d] = status[d]
  BY <1>2, <1>3, ZenonT(60) DEF TypeInv, IoType
<1>7. Numbered'
  BY <1>4, <1>5, <1>6, SMTT(60) DEF Inv, Numbered
<1>8. mainAt \in {"check", "create", "connect"} => c # next_conn_id_
  BY <1>2, SMTT(60) DEF Inv, Creating
<1>9. /\ c \notin SeqRange(mainPending) /\ c \notin SeqRange(mainRun)
      /\ c \notin SeqRange(mainRan)
  BY <1>5, ZenonT(60) DEF Inv, Closing
<1>10. Registered'
  <2>1. c \in Conns \cup {None}
    BY <1>2, Zenon
  <2>2. \A k \in Loops, g \in Fds :
          fd2channels_'[k][g] = IF k = l /\ g = fd[c] THEN c
                                                     ELSE fd2channels_[k][g]
    BY <1>3, <2>1, SetEntry, SMTT(60) DEF TypeInv, IoType
  <2>3. \A k \in Loops, g \in Fds : fd2channels_[k][g] # c
    BY <1>2, <1>5, <1>8, SMTT(60) DEF Inv, Registered
  <2>4. connections_[Name(c)] = c
    BY <1>2, <1>5 DEF Inv, Owned
  <2> QED
    BY <1>2, <1>4, <1>5, <1>6, <1>9, <2>2, <2>3, <2>4, SMTT(60) DEF Inv, Registered, Name
<1>11. Queued'
  <2>1. /\ SeqRange(executing'[l]) = SeqRange(executing[l]) \ {c}
        /\ NoRepeat(executing'[l], {})
        /\ \A k \in Loops : k # l => executing'[k] = executing[k]
    BY <1>2, <1>3, ZenonT(60) DEF TypeInv, IoType
  <2>2. \A k \in Loops : SeqRange(pending[k]) \subseteq Conns \ {c}
    BY <1>2, <1>5, RangeType DEF TypeInv, IoType, Inv, Queued
  <2>3. \A k \in Loops : SeqRange(executing'[k]) \subseteq Conns \ {c}
    <3>1. \A k \in Loops : SeqRange(executing[k]) \subseteq Conns
      BY RangeType, Zenon DEF TypeInv, IoType
    <3>2. \A k \in Loops : k # l => c \notin SeqRange(executing[k])
      BY <1>5, Zenon DEF Inv, Queued
    <3> QED
      BY <2>1, <3>1, <3>2, ZenonT(60)
  <2>4. \A k \in Loops : /\ NoRepeat(pending[k], {}) /\ NoRepeat(executing'[k], {})
                         /\ SeqRange(executing'[k]) \subseteq SeqRange(executing[k])
    BY <2>1, ZenonT(60) DEF Inv, Queued
  <2> SUFFICES ASSUME NEW k \in Loops
               PROVE  /\ SeqRange(pending[k]) \cap SeqRange(executing'[k]) = {}
                      /\ \A d \in SeqRange(pending[k]) \cup SeqRange(executing'[k]) :
                           /\ status'[d] = "kConnecting" /\ loop[d] = k
                           /\ d \notin overtaken
    BY <1>4, <2>4, ZenonT(60) DEF Queued
  <2>5. SeqRange(pending[k]) \cap SeqRange(executing'[k]) = {}
    BY <2>4, Zenon DEF Inv, Queued
  <2>6. ASSUME NEW d \in SeqRange(pending[k]) \cup SeqRange(executing'[k])
        PROVE  status'[d] = "kConnecting" /\ loop[d] = k /\ d \notin overtaken
    <3>1. d \in Conns /\ d # c
      BY <2>2, <2>3, ZenonT(60)
    <3>2. status[d] = "kConnecting" /\ loop[d] = k /\ d \notin overtaken
      BY <2>4, ZenonT(60) DEF Inv, Queued
    <3> QED
      BY <1>6, <3>1, <3>2, ZenonT(60)
  <2> QED
    BY <2>5, <2>6, ZenonT(60)
<1>12. Served'
  BY <1>4, <1>6, SMTT(60) DEF Inv, Served
<1>13. /\ SeqRange(mainPending) \subseteq Conns \ {c}
       /\ SeqRange(mainRun) \subseteq Conns \ {c}
       /\ SeqRange(mainRan) \subseteq Conns \ {c}
  BY <1>9, RangeType, Zenon DEF TypeInv, MainType
<1>14. Closing'
  BY <1>4, <1>6, <1>13, Zenon DEF Inv, Closing
<1>15. Owned'
  BY <1>4, <1>5, <1>6, <1>9, ZenonT(60) DEF Inv, Owned, Name
<1>16. Creating'
  <2> SUFFICES ASSUME mainAt \in {"check", "create", "connect"}
               PROVE  Creating'
    BY <1>4, SMTT(60) DEF Creating
  <2>1. PICK d \in Conns :
          /\ d = next_conn_id_ /\ connections_[Name(d)] = d
          /\ \A k \in Loops : /\ d \notin SeqRange(pending[k])
                              /\ d \notin SeqRange(executing[k])
          /\ (mainAt = "connect" /\ d \in overtaken) \/ Untouched(d)
          /\ d \in overtaken => mainAt # "check"
          /\ d \in overtaken \/ mainAt = "check" \/ ~started[loop[d]]
    BY Zenon DEF Inv, Creating
  <2>2. Name(d)' = Name(d) /\ (Untouched(d) => Untouched(d)')
    BY <1>4, <1>6, <1>8, <2>1, ZenonT(60) DEF Name, Untouched
  <2>3. \A k \in Loops : SeqRange(executing'[k]) \subseteq SeqRange(executing[k])
    BY <1>2, <1>3, Zenon DEF TypeInv, IoType
  <2> QED
    BY ONLY <1>4, <2>1, <2>2, <2>3, ZenonT(60) DEF Creating
<1> QED
  BY <1>7, <1>10, <1>11, <1>12, <1>14, <1>15, <1>16, ZenonT(60) DEF Inv

\* So do the steps of doPendingCallbacks() in the main loop.
LEMMA EraseStep ==
  ASSUME TypeInv, Inv, mainDoPendingCallbacks \/ eraseConnection \/ destroyCallback
  PROVE  Inv'
<1>1. UNCHANGED <<next_conn_id_, status, fd, loop, peer, fd2channels_, executing,
                  unhandled, current, pending, overtaken>>
  BY Zenon DEF mainDoPendingCallbacks, eraseConnection, destroyCallback, ioVars, netVars,
     startVars
<1>2. Numbered' /\ Queued' /\ Served'
  BY <1>1, Frames, Zenon DEF Inv
<1>6. mainAt \in {"swap", "run"} /\ mainAt' \in {"run", "poll"}
  BY ZenonT(60) DEF mainDoPendingCallbacks, eraseConnection, destroyCallback
<1>7. Creating'
  BY <1>6, SMTT(60) DEF Creating
<1>8. ASSUME \A d \in Conns : connections_[Name(d)] = d /\ d \notin SeqRange(mainRun)
                                => connections_'[Name(d)] = d,
             SeqRange(mainPending') \subseteq SeqRange(mainPending),
             SeqRange(mainRun') \subseteq SeqRange(mainPending) \cup SeqRange(mainRun)
      PROVE  Registered'
  <2>1. ASSUME NEW k \in Loops, NEW g \in Fds, NEW d \in Conns, fd2channels_[k][g] = d
        PROVE  /\ fd[d] = g /\ loop[d] = k /\ connections_'[Name(d)] = d
               /\ status[d] = "kConnected"
               /\ d \notin SeqRange(mainPending') /\ d \notin SeqRange(mainRun')
    <3>1. /\ fd[d] = g /\ loop[d] = k /\ connections_[Name(d)] = d
          /\ status[d] = "kConnected"
          /\ d \notin SeqRange(mainPending) /\ d \notin SeqRange(mainRun)
      BY <1>6, <2>1, SMTT(60) DEF Inv, Registered
    <3> QED
      BY ONLY d \in Conns, <1>8, <3>1, ZenonT(60)
  <2> QED
    BY ONLY <1>1, <2>1, SMTT(60) DEF Registered, Name
<1>3. CASE mainDoPendingCallbacks
  <2>1. /\ mainRun' = mainPending /\ mainPending' = <<>> /\ mainRan' = mainRan
        /\ mainRun = <<>> /\ mainRan = <<>> /\ mainAt' = "run"
        /\ connections_' = connections_
    BY <1>3, SMTT(60) DEF mainDoPendingCallbacks, Inv, Closing
  <2>2. Closing'
    BY <1>1, <2>1, EmptyRange, ZenonT(60) DEF Inv, Closing
  <2>3. Owned'
    BY <1>1, <2>1, EmptyRange, ZenonT(60) DEF Inv, Owned, Name
  <2>4. Registered'
    BY <1>8, <2>1, EmptyRange, ZenonT(60)
  <2> QED
    BY <1>2, <1>7, <2>2, <2>3, <2>4, ZenonT(60) DEF Inv
<1>4. CASE eraseConnection
  <2> DEFINE c == Head(mainRun)
  <2>1. /\ connections_' = [connections_ EXCEPT ![Name(c)] = None]
        /\ mainRun' = Tail(mainRun) /\ mainRan' = Append(mainRan, c)
        /\ mainAt = "run" /\ mainAt' = "run" /\ mainPending' = mainPending
        /\ mainRun # <<>>
    BY <1>4, ZenonT(60) DEF eraseConnection
  <2>2. /\ c \in Conns
        /\ SeqRange(mainRun) = SeqRange(mainRun') \cup {c}
        /\ NoRepeat(mainRun', overtaken)
        /\ c \notin SeqRange(mainRun') \/ c \in overtaken
    <3>1. NoRepeat(mainRun, overtaken) /\ mainRun \in Seq(Conns)
      BY Zenon DEF TypeInv, MainType, Inv, Closing
    <3> QED
      BY ONLY <2>1, <3>1, TailRange, SMTT(60)
  <2> HIDE DEF c
  <2>3. c \in overtaken \/ (c \notin SeqRange(mainRan) /\ c \notin SeqRange(mainPending))
    BY <2>2, ZenonT(60) DEF Inv, Closing
  <2>4. /\ SeqRange(mainRan') = SeqRange(mainRan) \cup {c}
        /\ NoRepeat(mainRan', overtaken)
    <3>1. NoRepeat(mainRan, overtaken) /\ mainRan \in Seq(Conns)
      BY ZenonT(60) DEF TypeInv, MainType, Inv, Closing
    <3> QED
      BY ONLY <2>1, <2>2, <2>3, <3>1, AppendRange, SMTT(60)
  <2>5. Closing'
    BY <1>1, <2>1, <2>2, <2>3, <2>4, ZenonT(60) DEF Inv, Closing
  <2>6. /\ connections_'[Name(c)] = None
        /\ \A d \in Conns : d # c => connections_'[Name(d)] = connections_[Name(d)]
    BY <2>1, <2>2, NameUnique, ZenonT(60) DEF TypeInv, MainType
  <2>7. (status[c] = "kDisconnected" \/ c \in overtaken) /\ None # c
    BY <2>2, Numbers, ZenonT(60) DEF Inv, Closing
  <2>8. Owned'
    <3> SUFFICES ASSUME NEW d \in Conns, status'[d] # "none", d \notin overtaken'
                 PROVE  (connections_[Name(d)] = d <=>
                           \/ status[d] # "kDisconnected"
                           \/ d \in SeqRange(mainPending) \/ d \in SeqRange(mainRun))'
      BY <1>1, ZenonT(60) DEF Owned, Name
    <3>1. CASE d = c
      BY <1>1, <2>1, <2>2, <2>3, <2>6, <2>7, <3>1, ZenonT(60) DEF Name
    <3>2. CASE d # c
      BY <1>1, <2>1, <2>2, <2>3, <2>6, <3>2, ZenonT(60) DEF Inv, Owned, Name
    <3> QED
      BY <3>1, <3>2, Zenon
  <2>9. Registered'
    BY <1>8, <2>1, <2>2, <2>6, ZenonT(60)
  <2> QED
    BY <1>2, <1>7, <2>5, <2>8, <2>9, Zenon DEF Inv
<1>5. CASE destroyCallback
  <2>1. /\ mainRun = <<>> /\ mainRun' = mainRun /\ mainPending' = mainPending
        /\ connections_' = connections_
        /\ \/ mainRan = <<>> /\ mainRan' = mainRan
           \/ mainRan # <<>> /\ mainRan' = Tail(mainRan) /\ mainAt' = "run"
    BY <1>5, Zenon DEF destroyCallback
  <2>2. NoRepeat(mainRan', overtaken) /\ SeqRange(mainRan') \subseteq SeqRange(mainRan)
    <3>1. mainRan \in Seq(Conns) /\ NoRepeat(mainRan, overtaken)
      BY Zenon DEF TypeInv, MainType, Inv, Closing
    <3>2. CASE mainRan' = mainRan
      BY <3>1, <3>2, ZenonT(60)
    <3>3. CASE mainRan # <<>> /\ mainRan' = Tail(mainRan)
      <4>1. /\ SeqRange(mainRan) = SeqRange(Tail(mainRan)) \cup {Head(mainRan)}
            /\ NoRepeat(Tail(mainRan), overtaken)
        BY ONLY <3>1, <3>3, TailRange
      <4> QED
        BY <3>3, <4>1, Zenon
    <3> QED
      BY <2>1, <3>2, <3>3, Zenon
  <2>3. Closing'
    BY <1>1, <2>1, <2>2, ZenonT(60) DEF Inv, Closing
  <2>4. Owned'
    BY <1>1, <2>1 DEF Inv, Owned, Name
  <2>5. Registered'
    BY <1>8, <2>1, ZenonT(60)
  <2> QED
    BY <1>2, <1>7, <2>3, <2>4, <2>5, Zenon DEF Inv
<1> QED
  BY <1>3, <1>4, <1>5, ZenonT(60)

\* Every step keeps the invariant.
LEMMA InvStep == TypeInv /\ Inv /\ [Next]_vars => Inv'
<1> SUFFICES ASSUME TypeInv, Inv, [Next]_vars PROVE Inv'
  BY ZenonT(60)
<1> DEFINE relevant == <<next_conn_id_, connections_, mainPending, mainRun, mainRan,
                         status, fd, loop, peer, fd2channels_, overtaken>>
<1>1. ASSUME UNCHANGED <<relevant, pending, executing, unhandled, current>>,
             \/ mainAt' = mainAt /\ UNCHANGED started
             \/ mainAt \in {"listen", "poll"} /\ mainAt' \in {"poll", "swap"}
      PROVE  Inv'
  <2>1. CASE mainAt' = mainAt /\ UNCHANGED started
    BY <1>1, <2>1, Frames, Zenon DEF Inv
  <2>2. CASE mainAt \in {"listen", "poll"} /\ mainAt' \in {"poll", "swap"}
    <3>1. Closing' /\ Creating'
      <4>1. UNCHANGED <<mainPending, mainRun, mainRan, status, overtaken>>
        BY <1>1, Zenon
      <4>2. Closing
        BY Zenon DEF Inv
      <4>3. /\ mainAt # "run" /\ mainAt' # "run"
            /\ mainAt' \notin {"check", "create", "connect"}
        BY ONLY <2>2, SMTT(60)
      <4> QED
        BY ONLY <4>1, <4>2, <4>3, SMTT(60) DEF Closing, Creating
    <3>2. Registered'
      <4>1. UNCHANGED <<fd2channels_, status, fd, loop, connections_, peer,
                        next_conn_id_, mainPending, mainRun>>
        BY <1>1, Zenon
      <4>2. Registered
        BY Zenon DEF Inv
      <4>3. mainAt # "connect" /\ mainAt' # "connect"
        BY ONLY <2>2, SMT
      <4> QED
        BY ONLY <4>1, <4>2, <4>3, SMTT(60) DEF Registered, Name
    <3> QED
      BY <1>1, <3>1, <3>2, Frames, ZenonT(60) DEF Inv
  <2> QED
    BY <1>1, <2>1, <2>2, Zenon
<1>2. CASE listen \/ acceptFailed \/ mainWoken
  BY <1>1, <1>2, ZenonT(60)
  DEF listen, acceptFailed, mainWoken, AcceptReady, ioVars, netVars, startVars
<1>3. ASSUME NEW l \in Loops, handleCloseReturns(l) \/ tasksDone(l)
      PROVE  Inv'
  BY <1>1, <1>3, ZenonT(60)
  DEF handleCloseReturns, tasksDone, mainVars, ioVars, netVars, startVars
<1>4. ASSUME NEW l \in Loops, NEW c \in Conns,
             servingCallback(l, c) \/ danglingCallback(l, c)
      PROVE  Inv'
  BY <1>1, <1>4, ZenonT(60)
  DEF servingCallback, danglingCallback, mainVars, netVars, startVars
<1>5. ASSUME Network PROVE Inv'
  BY <1>1, <1>5, SMTT(60) DEF Network, ClientConnects, PeerSends, PeerCloses, PeerResets,
     PeerDoes, mainVars, ioVars, startVars
<1>6. CASE UNCHANGED vars
  BY <1>1, <1>6, Zenon DEF vars, mainVars, ioVars, netVars, startVars
<1>7. ASSUME NEW l \in Loops, UNCHANGED <<relevant, pending, executing, mainAt, started>>,
             \A k \in Loops, c \in Conns :
               c \in unhandled'[k] \/ current'[k] = c =>
                 \/ c \in unhandled[k] \/ current[k] = c
                 \/ loop[c] = k /\ status[c] = "kConnected"
                 \/ loop[c] = k /\ c \in overtaken /\ mainAt = "connect"
      PROVE  Inv'
  <2>1. Served'
    BY <1>7, ZenonT(60) DEF Inv, Served
  <2>2. Creating'
    <3> SUFFICES ASSUME mainAt \in {"check", "create", "connect"}
                 PROVE  Creating'
      BY <1>7, Zenon DEF Creating
    <3>1. PICK d \in Conns :
            /\ d = next_conn_id_ /\ connections_[Name(d)] = d
            /\ \A k \in Loops : /\ d \notin SeqRange(pending[k])
                                /\ d \notin SeqRange(executing[k])
            /\ (mainAt = "connect" /\ d \in overtaken) \/ Untouched(d)
            /\ d \in overtaken => mainAt # "check"
            /\ d \in overtaken \/ mainAt = "check" \/ ~started[loop[d]]
      BY ZenonT(60) DEF Inv, Creating
    <3>2. /\ Name(d)' = Name(d)
          /\ (mainAt = "connect" /\ d \in overtaken) \/ Untouched(d)'
      BY <1>7, <3>1, ZenonT(60) DEF Name, Untouched
    <3>3. UNCHANGED <<next_conn_id_, connections_, overtaken, loop, started, mainAt, pending,
                      executing>>
      BY <1>7, Zenon
    <3> QED
      BY ONLY <3>1, <3>2, <3>3, ZenonT(60) DEF Creating
  <2> QED
    BY <1>7, <2>1, <2>2, Frames, Zenon DEF Inv
<1>8. ASSUME NEW l \in Loops, poll(l) PROVE Inv'
  <2>1. \A c \in Ready(l) :
          /\ loop[c] = l
          /\ status[c] = "kConnected" \/ (c \in overtaken /\ mainAt = "connect")
    <3> SUFFICES ASSUME NEW c \in Conns, NEW f \in Fds, fd2channels_[l][f] = c,
                        status[c] # "kConnected"
                 PROVE  c \in overtaken
      BY DEF Ready, Inv, Registered
    <3>1. mainAt = "connect" /\ c = next_conn_id_ /\ loop[c] = l
      BY DEF Inv, Registered
    <3>2. started[l]
      BY <1>8, Zenon DEF poll
    <3> QED
      BY <3>1, <3>2, SMTT(60) DEF Inv, Creating
  <2>2. /\ UNCHANGED <<relevant, pending, executing, mainAt, current, started>>
        /\ unhandled' = [unhandled EXCEPT ![l] = Ready(l)]
    BY <1>8, ZenonT(60) DEF poll, mainVars, netVars, startVars
  <2> QED
    BY <1>7, <2>1, <2>2, ZenonT(60) DEF TypeInv, IoType
<1>9. ASSUME NEW l \in Loops, handleEvent(l) \/ handleEventDone(l) PROVE Inv'
  <2>1. UNCHANGED <<relevant, pending, executing, mainAt, started>>
    BY <1>9, Zenon DEF handleEvent, handleEventDone, mainVars, netVars, startVars
  <2>2. \A k \in Loops, c \in Conns :
          c \in unhandled'[k] \/ current'[k] = c =>
            c \in unhandled[k] \/ current[k] = c
    <3>1. CASE handleEvent(l)
      <4>1. PICK d \in unhandled[l] :
              /\ current' = [current EXCEPT ![l] = d]
              /\ unhandled' = [unhandled EXCEPT ![l] = unhandled[l] \ {d}]
        BY <3>1, Zenon DEF handleEvent
      <4> QED
        BY <4>1, ZenonT(60) DEF TypeInv, IoType
    <3>2. CASE handleEventDone(l)
      <4>1. current' = [current EXCEPT ![l] = None] /\ unhandled' = unhandled
        BY <3>2, ZenonT(60) DEF handleEventDone
      <4> QED
        BY <4>1, Numbers, ZenonT(60) DEF TypeInv, IoType
    <3> QED
      BY <1>9, <3>1, <3>2, Zenon
  <2> QED
    BY <1>7, <1>9, <2>1, <2>2, ZenonT(60)
<1>10. ASSUME NEW l \in Loops, doPendingCallbacks(l) PROVE Inv'
  <2>1. /\ UNCHANGED <<relevant, mainAt, unhandled, current, started>>
        /\ executing' = [executing EXCEPT ![l] = pending[l]]
        /\ pending' = [pending EXCEPT ![l] = <<>>]
    BY <1>10, ZenonT(60) DEF doPendingCallbacks, mainVars, netVars, startVars
  <2>2. Queued'
    <3>1. /\ executing'[l] = pending[l] /\ pending'[l] = <<>>
          /\ \A k \in Loops : k # l => /\ executing'[k] = executing[k]
                                       /\ pending'[k] = pending[k]
      BY <2>1, ZenonT(60) DEF TypeInv, IoType
    <3> QED
      BY <2>1, <3>1, EmptyRange, SMTT(60) DEF Inv, Queued
  <2>3. Creating'
    <3>1. \A k \in Loops :
            \/ k = l /\ executing'[k] = pending[k] /\ pending'[k] = <<>>
            \/ executing'[k] = executing[k] /\ pending'[k] = pending[k]
      BY <2>1, Zenon DEF TypeInv, IoType
    <3> QED
      BY <2>1, <3>1, EmptyRange, SMTT(60) DEF Inv, Creating, Untouched, Name
  <2> QED
    BY <2>1, <2>2, <2>3, Frames, ZenonT(60) DEF Inv
<1> QED
  BY <1>2, <1>3, <1>4, <1>5, <1>6, <1>8, <1>9, <1>10, AcceptStep, RunInLoopStep,
     CreateHereStep, ConnectHereStep, StartStep, CloseStep, CreateStep, EraseStep, ZenonT(60)
  DEF Next, MainStep, IoStep

\* The invariant holds in every state.
LEMMA InvHolds == Spec => [](TypeInv /\ Inv)
<1>1. Init => TypeInv /\ Inv
  <2> SUFFICES ASSUME Init PROVE TypeInv /\ Inv
    BY ZenonT(60)
  <2>1. MaxConns \in Nat /\ 0 \in Loops
    BY TcpServerAssumption, SMTT(60) DEF Loops
  <2>2. MainType
    BY <2>1, SMTT(60) DEF Init, MainType
  <2>3. IoType
    BY <2>1, SMTT(60) DEF Init, IoType, Statuses
  <2>4. Numbered /\ Registered /\ Served
    BY Numbers, SMTT(60) DEF Init, Numbered, Registered, Served, Conns
  <2>5. Queued
    BY EmptyRange, ZenonT(60) DEF Init, Queued
  <2>6. Closing /\ Owned /\ Creating
    BY EmptyRange, SMTT(60) DEF Init, Closing, Owned, Creating
  <2> QED
    BY <2>2, <2>3, <2>4, <2>5, <2>6, ZenonT(60) DEF TypeInv, Inv
<1> QED
  BY <1>1, TypeStep, InvStep, PTL DEF Spec

-----------------------------------------------------------------------------
(* The theorems.                                                           *)

\* What a poller knows of is in connections_ and connected, or the connection
\* that the main thread is creating at this moment.
THEOREM PollerEntriesOwned == Spec => []RegisteredIsOwned
<1>1. TypeInv /\ Inv => RegisteredIsOwned
  <2> SUFFICES ASSUME TypeInv, Inv, NEW l \in Loops, NEW f \in Fds,
                      fd2channels_[l][f] # None
               PROVE  LET c == fd2channels_[l][f]
                      IN  /\ connections_[Name(c)] = c
                          /\ \/ status[c] = "kConnected"
                             \/ mainAt = "connect" /\ c = next_conn_id_
                          /\ fd[c] = f /\ loop[c] = l
    BY Zenon DEF RegisteredIsOwned
  <2>1. fd2channels_[l][f] \in Conns
    BY DEF TypeInv, IoType
  <2> QED
    BY <2>1, SMTT(60) DEF Inv, Registered
<1> QED
  BY <1>1, InvHolds, PTL

\* A queued handleCreate() finds the element its reference points to.
THEOREM CreateNeverDangles == Spec => []CreateFindsConnection
<1>1. TypeInv /\ Inv => CreateFindsConnection
  <2> SUFFICES ASSUME TypeInv, Inv, NEW l \in Loops,
                      NEW c \in SeqRange(executing[l] \o pending[l])
               PROVE  CreateValid(c)
    BY Zenon DEF CreateFindsConnection
  <2>1. executing[l] \in Seq(Conns) /\ pending[l] \in Seq(Conns)
    BY Zenon DEF TypeInv, IoType
  <2>2. /\ c \in SeqRange(pending[l]) \cup SeqRange(executing[l])
        /\ c \in Conns
    BY <2>1, ConcatMembers, RangeType, SMTT(60)
  <2>3. status[c] = "kConnecting" /\ c \notin overtaken
    BY <2>2, Zenon DEF Inv, Queued
  <2> QED
    BY <2>2, <2>3, ZenonT(60) DEF Inv, Owned, CreateValid
<1> QED
  BY <1>1, InvHolds, PTL

\* A connection is handed to the main loop once and erased once, unless its
\* loop started while the main thread was creating it.
THEOREM EachErasedOnce == Spec => []ErasedOnce
<1>1. TypeInv /\ Inv => ErasedOnce
  <2> SUFFICES ASSUME TypeInv, Inv PROVE ErasedOnce
    BY ZenonT(60)
  <2>1. /\ mainPending \in Seq(Conns) /\ mainRun \in Seq(Conns)
        /\ mainRan \in Seq(Conns)
    BY ZenonT(60) DEF TypeInv, MainType
  <2> DEFINE two == mainPending \o mainRun
  <2>2. /\ two \in Seq(Conns) /\ NoRepeat(two, overtaken)
        /\ SeqRange(two) = SeqRange(mainPending) \cup SeqRange(mainRun)
    BY <2>1, ConcatRange DEF Inv, Closing
  <2> HIDE DEF two
  <2>3. NoRepeat(two \o mainRan, overtaken)
    <3>1. NoRepeat(mainRan, overtaken) /\ SeqRange(two) \cap SeqRange(mainRan) \subseteq overtaken
      BY <2>2, Zenon DEF Inv, Closing
    <3> QED
      BY ONLY <2>1, <2>2, <3>1, ConcatRange, SMTT(60)
  <2>4. \A c \in Accepted : c \in Conns /\ status[c] # "none"
    BY TcpServerAssumption DEF Accepted, Conns, TypeInv, MainType, Inv, Numbered
  <2> QED
    BY <2>2, <2>3, <2>4, Zenon DEF ErasedOnce, NoRepeat, two, Inv, Owned
<1> QED
  BY <1>1, InvHolds, PTL

-----------------------------------------------------------------------------
(* The life of a connection: who holds it, and which step lets go of it.   *)

InMap(c) == connections_[Name(c)] = c

Closes(l, c) == at[l] = "closing" /\ current[l] = c

Held(c) ==
  \/ InMap(c)
  \/ c \in SeqRange(mainPending) \/ c \in SeqRange(mainRun)
  \/ c \in SeqRange(mainRan)
  \/ \E l \in Loops : Closes(l, c)

\* A connection is in connections_ under its own name only.
Keyed ==
  /\ DOMAIN at = Loops /\ active \in [Loops -> SUBSET Conns]
  /\ \A n \in Names, c \in Conns : connections_[n] = c => n = Name(c)

\* Every step keeps that.
LEMMA KeyedStep == TypeInv /\ Keyed /\ [Next]_vars => Keyed'
<1> SUFFICES ASSUME TypeInv, Keyed, [Next]_vars PROVE Keyed'
  BY Zenon
<1> DEFINE keys == \A n \in Names, c \in Conns : connections_[n] = c => n = Name(c)
<1>1. ASSUME UNCHANGED <<connections_, peer>> PROVE keys'
  BY <1>1, Zenon DEF Keyed, Name
<1>2. ASSUME UNCHANGED <<at, active>>, keys' PROVE Keyed'
  BY <1>2, Zenon DEF Keyed
<1>3. CASE listen \/ acceptFailed \/ mainWoken \/ mainDoPendingCallbacks \/ destroyCallback
  BY <1>1, <1>2, <1>3, ZenonT(60)
  DEF listen, acceptFailed, mainWoken, mainDoPendingCallbacks, destroyCallback, ioVars
<1>8. CASE runInLoop \/ createHere \/ connectHere
  BY <1>1, <1>2, <1>8, Zenon DEF runInLoop, createHere, connectHere, ioVars
<1>4. CASE acceptorReadCallback
  <2> DEFINE c == next_conn_id_ + 1
  <2>1. /\ connections_' = [connections_ EXCEPT ![Name(c)] = c]
        /\ UNCHANGED <<peer, at, active>>
    BY <1>4, ZenonT(60) DEF acceptorReadCallback
  <2>2. \A d \in Conns : Name(d)' = Name(d)
    BY <2>1, Zenon DEF Name
  <2> HIDE DEF c
  <2>3. keys'
    BY <2>1, <2>2, ZenonT(60) DEF Keyed, TypeInv, MainType
  <2> QED
    BY <1>2, <2>1, <2>3, Zenon
<1>5. CASE eraseConnection
  <2> DEFINE c == Head(mainRun)
  <2>1. /\ connections_' = [connections_ EXCEPT ![Name(c)] = None]
        /\ UNCHANGED <<peer, at, active>>
    BY <1>5, Zenon DEF eraseConnection, ioVars
  <2>2. \A d \in Conns : Name(d)' = Name(d)
    BY <2>1, ZenonT(60) DEF Name
  <2> HIDE DEF c
  <2>3. keys'
    BY <2>1, <2>2, Numbers, ZenonT(60) DEF Keyed, TypeInv, MainType
  <2> QED
    BY <1>2, <2>1, <2>3, Zenon
<1>6. CASE Network \/ UNCHANGED vars
  BY <1>1, <1>2, <1>6 DEF Network, ClientConnects, PeerSends, PeerCloses,
     PeerResets, PeerDoes, mainVars, ioVars, vars
<1>7. ASSUME NEW l \in Loops, IoStep(l) PROVE Keyed'
  <2>1. UNCHANGED <<connections_, peer>>
    BY <1>7, ZenonT(60) DEF IoStep, startLoop, poll, handleEvent, handleEventDone,
       handleCloseReturns, doPendingCallbacks, handleCreate, tasksDone,
       closingCallback, servingCallback, danglingCallback, mainVars
  <2>2. \/ UNCHANGED at
        \/ \E a : at' = [at EXCEPT ![l] = a]
    BY <1>7, Zenon DEF IoStep, startLoop, poll, handleEvent, handleEventDone,
       handleCloseReturns, doPendingCallbacks, handleCreate, tasksDone,
       closingCallback, handleClose, servingCallback, danglingCallback, ioVars
  <2>3. \/ UNCHANGED active
        \/ \E a \in SUBSET Conns : active' = [active EXCEPT ![l] = a]
    BY <1>7, Zenon DEF IoStep, startLoop, poll, Ready, handleEvent,
       handleEventDone, handleCloseReturns, doPendingCallbacks, handleCreate,
       tasksDone, closingCallback, servingCallback, danglingCallback, ioVars
  <2>4. DOMAIN at' = Loops /\ active' \in [Loops -> SUBSET Conns]
    BY <2>2, <2>3, ZenonT(60) DEF Keyed
  <2> QED
    BY <1>1, <2>1, <2>4, Zenon DEF Keyed
<1> QED
  BY <1>3, <1>4, <1>5, <1>6, <1>7, <1>8, ZenonT(60) DEF Next, MainStep

\* It holds in every state.
LEMMA KeyedHolds == Spec => []Keyed
<1>1. Init => Keyed
  <2> SUFFICES ASSUME Init PROVE Keyed
    BY Zenon
  <2>1. DOMAIN at = Loops /\ active \in [Loops -> SUBSET Conns]
    BY Zenon DEF Init
  <2>2. \A n \in Names, c \in Conns : connections_[n] # c
    BY Numbers, Zenon DEF Init
  <2> QED
    BY <2>1, <2>2, Zenon DEF Keyed
<1> QED
  BY <1>1, KeyedStep, InvHolds, PTL DEF Spec

\* The shared_ptrs that keep a connection alive, one by one.
LEMMA AliveIsHeld ==
  ASSUME TypeInv, Keyed, NEW c \in Conns
  PROVE  ConnectionAlive(c) <=> Held(c)
<1>1. (\E n \in Names : connections_[n] = c) <=> InMap(c)
  BY NameUnique, Zenon DEF TypeInv, Keyed, InMap
<1>2. /\ mainPending \in Seq(Conns) /\ mainRun \in Seq(Conns)
      /\ mainRan \in Seq(Conns)
  BY Zenon DEF TypeInv, MainType
<1> DEFINE two == mainPending \o mainRun
<1>3. /\ two \in Seq(Conns)
      /\ SeqRange(two) = SeqRange(mainPending) \cup SeqRange(mainRun)
  BY <1>2, ConcatMembers, ZenonT(60)
<1> HIDE DEF two
<1>4. SeqRange(two \o mainRan) = SeqRange(two) \cup SeqRange(mainRan)
  BY ONLY <1>2, <1>3, ConcatMembers
<1>5. c \in SeqRange(mainPending \o mainRun \o mainRan)
        <=> \/ c \in SeqRange(mainPending) \/ c \in SeqRange(mainRun)
            \/ c \in SeqRange(mainRan)
  BY <1>3, <1>4, Zenon DEF two
<1> QED
  BY <1>1, <1>5, Zenon DEF ConnectionAlive, Held, Closes

\* A step that is none of a connection's business.
Same(c) ==
  /\ status'[c] = status[c] /\ (c \in overtaken' <=> c \in overtaken)
  /\ InMap(c)' <=> InMap(c)
  /\ Held(c)' <=> Held(c)

\* A step that brings a connection on, if it is not overtaken,
Advanced(c) ==
  \/ status[c] = "none" /\ status'[c] = "kConnecting"
  \/ status[c] = "kConnecting" /\ status'[c] = "kConnected" /\ InMap(c)
  \/ /\ status[c] = "kConnected" /\ status'[c] = "kDisconnected"
     /\ InMap(c) /\ InMap(c)'
  \/ /\ status[c] = "kDisconnected" /\ status'[c] = "kDisconnected"
     /\ InMap(c) /\ ~InMap(c)' /\ Held(c)'
  \/ /\ status'[c] = status[c] /\ (InMap(c)' <=> InMap(c)) /\ Held(c)

\* and whatever becomes of it otherwise, while it exists.
Moved(c) ==
  \/ c \notin overtaken /\ c \notin overtaken' /\ Advanced(c)
  \/ /\ c \in overtaken' /\ (c \in overtaken \/ status[c] = "kConnecting")
     /\ Held(c)' => Held(c)

AllSame == \A c \in Conns : Same(c)
OneMoves(c) == Moved(c) /\ \A d \in Conns \ {c} : Same(d)

\* An io loop that is not closing a connection holds none.
LEMMA LoopsHold ==
  ASSUME UNCHANGED <<status, connections_, peer, mainPending, mainRun, mainRan, overtaken>>,
         \A l \in Loops, c \in Conns : Closes(l, c)' <=> Closes(l, c)
  PROVE  AllSame
<1>1. \A c \in Conns : InMap(c)' <=> InMap(c)
  BY Zenon DEF InMap, Name
<1>2. \A c \in Conns : Held(c)' <=> Held(c)
  BY <1>1, Zenon DEF Held
<1> QED
  BY <1>1, <1>2, Zenon DEF AllSame, Same

\* acceptorReadCallback() makes one connection.
LEMMA AcceptMoves ==
  ASSUME TypeInv, Inv, acceptorReadCallback
  PROVE  \E c \in Conns : OneMoves(c)
<1>0. PICK c : c = next_conn_id_ + 1
  BY ZenonT(60)
<1>1. c \in Conns /\ next_conn_id_ \in Nat /\ c > next_conn_id_
  BY <1>0, TcpServerAssumption, SMTT(60)
  DEF acceptorReadCallback, AcceptReady, TypeInv, MainType, Conns
<1>2. status[c] = "none" /\ c \notin overtaken
  BY <1>1, Zenon DEF Inv, Numbered
<1>3. /\ connections_' = [connections_ EXCEPT ![Name(c)] = c]
      /\ status' = [status EXCEPT ![c] = "kConnecting"]
      /\ UNCHANGED <<mainPending, mainRun, mainRan, peer, at, current, overtaken>>
  BY <1>0, Zenon DEF acceptorReadCallback, netVars, startVars
<1>4. /\ status'[c] = "kConnecting"
      /\ \A d \in Conns \ {c} : status'[d] = status[d]
  BY <1>1, <1>3, ZenonT(60) DEF TypeInv, IoType
<1>5. \A d \in Conns \ {c} : InMap(d)' <=> InMap(d)
  BY <1>1, <1>3, NameUnique, ZenonT(60) DEF TypeInv, MainType, InMap, Name
<1>6. \A d \in Conns \ {c} : Held(d)' <=> Held(d)
  BY <1>3, <1>5, Zenon DEF Held, Closes
<1> QED
  BY <1>1, <1>2, <1>3, <1>4, <1>5, <1>6, ZenonT(60) DEF OneMoves, Moved, Advanced, Same

\* handleCreate() in the main thread connects one.
LEMMA ConnectMoves ==
  ASSUME TypeInv, Inv, connectHere
  PROVE  \E c \in Conns : OneMoves(c)
<1>1. mainAt = "connect"
  BY ZenonT(60) DEF connectHere
<1>2. PICK c \in Conns :
        /\ c = next_conn_id_ /\ connections_[Name(c)] = c
        /\ c \in overtaken \/ Untouched(c)
  BY <1>1, SMTT(60) DEF Inv, Creating
<1>3. /\ status' = [status EXCEPT ![c] = "kConnected"]
      /\ UNCHANGED <<connections_, peer, mainPending, mainRun, mainRan, at, current,
                     overtaken>>
  BY <1>2 DEF connectHere, netVars, startVars
<1>4. /\ status'[c] = "kConnected"
      /\ \A d \in Conns \ {c} : status'[d] = status[d]
  BY <1>3, Zenon DEF TypeInv, IoType
<1>5. \A d \in Conns : InMap(d)' <=> InMap(d)
  BY <1>3, ZenonT(60) DEF InMap, Name
<1>6. \A d \in Conns : Held(d)' <=> Held(d)
  BY <1>3, <1>5, Zenon DEF Held, Closes
<1>7. Moved(c)
  <2>1. CASE c \in overtaken
    BY <1>3, <1>6, <2>1, ZenonT(60) DEF Moved
  <2>2. CASE c \notin overtaken
    <3>1. status[c] = "kConnecting" /\ InMap(c) /\ c \notin overtaken'
      BY <1>2, <1>3, <2>2, Zenon DEF InMap, Untouched
    <3> QED
      BY <1>4, <2>2, <3>1, Zenon DEF Moved, Advanced
  <2> QED
    BY <2>1, <2>2, Zenon
<1> QED
  BY <1>3, <1>4, <1>5, <1>6, <1>7, ZenonT(60) DEF OneMoves, Same

\* startLoop() overtakes one at most, and nobody lets go of it.
LEMMA StartMoves ==
  ASSUME TypeInv, Inv, NEW l \in Loops, startLoop(l)
  PROVE  AllSame \/ \E c \in Conns : OneMoves(c)
<1>1. /\ overtaken' = overtaken \cup
           {c \in Conns : /\ mainAt \in {"create", "connect"}
                          /\ c = next_conn_id_ /\ loop[c] = l}
      /\ UNCHANGED <<status, connections_, peer, mainPending, mainRun, mainRan, at, current>>
  BY Zenon DEF startLoop, mainVars, ioVars
<1>2. /\ \A d \in Conns : InMap(d)' <=> InMap(d)
      /\ \A d \in Conns : Held(d)' <=> Held(d)
  <2>1. \A d \in Conns : InMap(d)' <=> InMap(d)
    BY <1>1, ZenonT(60) DEF InMap, Name
  <2> QED
    BY <1>1, <2>1, Zenon DEF Held, Closes
<1>3. CASE overtaken' = overtaken
  BY <1>1, <1>2, <1>3, ZenonT(60) DEF AllSame, Same
<1>4. CASE overtaken' # overtaken
  <2>1. PICK c \in Conns :
          /\ mainAt \in {"create", "connect"} /\ c = next_conn_id_
          /\ c \notin overtaken /\ overtaken' = overtaken \cup {c}
    BY <1>1, <1>4, ZenonT(60)
  <2>2. status[c] = "kConnecting"
    BY <2>1 DEF Inv, Creating, Untouched
  <2>3. Moved(c)
    BY <1>2, <2>1, <2>2, Zenon DEF Moved
  <2> QED
    BY <1>1, <1>2, <2>1, <2>3, ZenonT(60) DEF OneMoves, Same
<1> QED
  BY <1>3, <1>4, Zenon

\* handleCreate() connects one.
LEMMA CreateMoves ==
  ASSUME TypeInv, Inv, NEW l \in Loops, handleCreate(l)
  PROVE  \E c \in Conns : OneMoves(c)
<1>1. PICK c \in Conns : c = Head(executing[l])
  BY TailRange, Zenon DEF handleCreate, TypeInv, IoType
<1>2. /\ CreateValid(c)
      /\ status' = [status EXCEPT ![c] = "kConnected"]
      /\ UNCHANGED <<connections_, peer, mainPending, mainRun, mainRan, at, current,
                     overtaken>>
  BY <1>1, Zenon DEF handleCreate, mainVars, netVars, startVars
<1>6. status[c] = "kConnecting" /\ c \notin overtaken
  <2>1. executing[l] \in Seq(Conns) /\ executing[l] # <<>>
    BY Zenon DEF handleCreate, TypeInv, IoType
  <2>2. c \in SeqRange(executing[l])
    <3>1. SeqRange(executing[l]) = SeqRange(Tail(executing[l])) \cup {Head(executing[l])}
      BY ONLY <2>1, TailMembers, ZenonT(60)
    <3> QED
      BY ONLY <1>1, <3>1, ZenonT(60)
  <2> QED
    BY <2>2, Zenon DEF Inv, Queued
<1>3. /\ status'[c] = "kConnected"
      /\ \A d \in Conns \ {c} : status'[d] = status[d]
  BY <1>1, <1>2, ZenonT(60) DEF TypeInv, IoType
<1>4. \A d \in Conns : InMap(d)' <=> InMap(d)
  BY <1>2, Zenon DEF InMap, Name
<1>5. \A d \in Conns : Held(d)' <=> Held(d)
  BY <1>2, <1>4, Zenon DEF Held, Closes
<1> QED
  BY <1>1, <1>2, <1>3, <1>4, <1>5, <1>6, ZenonT(60)
  DEF OneMoves, Moved, Advanced, Same, CreateValid, InMap

\* handleClose() ends one, or finds it ended.
LEMMA CloseMoves ==
  ASSUME TypeInv, Keyed, Inv, NEW l \in Loops, NEW c \in Conns,
         closingCallback(l, c)
  PROVE  AllSame \/ OneMoves(c)
<1>1. /\ current[l] = c /\ at[l] = "handle" /\ handleClose(l, c) /\ ConnectionAlive(c)
      /\ UNCHANGED <<connections_, peer, mainRun, mainRan, current, overtaken>>
  BY Zenon DEF closingCallback, InCallback, mainVars, netVars, startVars
<1>2. CASE status[c] = "kDisconnected"
  BY <1>1, <1>2, LoopsHold, Zenon DEF handleClose, Closes
<1>3. CASE status[c] # "kDisconnected"
  <2>1. /\ status' = [status EXCEPT ![c] = "kDisconnected"]
        /\ mainPending' = Append(mainPending, c)
        /\ at' = [at EXCEPT ![l] = "closing"]
    BY <1>1, <1>3, ZenonT(60) DEF handleClose
  <2>2. c \in overtaken \/ (status[c] = "kConnected" /\ InMap(c))
    BY <1>1, <1>3, SMTT(60) DEF Inv, Served, Owned, InMap
  <2>3. /\ status'[c] = "kDisconnected"
        /\ \A d \in Conns \ {c} : status'[d] = status[d]
    BY <2>1, Zenon DEF TypeInv, IoType
  <2>4. \A d \in Conns : InMap(d)' <=> InMap(d)
    BY <1>1, Zenon DEF InMap, Name
  <2>5. SeqRange(mainPending') = SeqRange(mainPending) \cup {c}
    <3>1. mainPending \in Seq(Conns)
      BY Zenon DEF TypeInv, MainType
    <3>2. SeqRange(Append(mainPending, c)) = SeqRange(mainPending) \cup {c}
      BY ONLY <3>1, c \in Conns, AppendRange
    <3> QED
      BY <2>1, <3>2, ZenonT(60)
  <2>6. \A k \in Loops, d \in Conns \ {c} : Closes(k, d)' <=> Closes(k, d)
    <3>1. \A k \in Loops : k # l => at'[k] = at[k]
      BY <2>1, Zenon DEF Keyed
    <3> QED
      BY <1>1, <3>1, ZenonT(60) DEF Closes
  <2>7. \A d \in Conns \ {c} : Held(d)' <=> Held(d)
    BY <1>1, <2>4, <2>5, <2>6, Zenon DEF Held
  <2>8. Held(c)
    BY <1>1, AliveIsHeld, ZenonT(60)
  <2>9. Moved(c)
    BY <1>1, <2>2, <2>3, <2>4, <2>8, ZenonT(60) DEF Moved, Advanced
  <2> QED
    BY <1>1, <2>3, <2>4, <2>7, <2>9, ZenonT(60) DEF OneMoves, Same
<1> QED
  BY <1>2, <1>3, ZenonT(60)

\* handleClose() returns: it lets go of one.
LEMMA ReturnMoves ==
  ASSUME TypeInv, Keyed, NEW l \in Loops, handleCloseReturns(l)
  PROVE  AllSame \/ \E c \in Conns : OneMoves(c)
<1>0. PICK c \in Conns \cup {None} : c = current[l]
  BY Zenon DEF TypeInv, IoType
<1>1. /\ at[l] = "closing" /\ at' = [at EXCEPT ![l] = "handle"]
      /\ UNCHANGED <<status, connections_, peer, mainPending, mainRun, mainRan,
                     current, overtaken>>
  BY Zenon DEF handleCloseReturns, mainVars, netVars, startVars
<1>2. /\ at'[l] = "handle"
      /\ \A k \in Loops : k # l => at'[k] = at[k]
  BY <1>1, Zenon DEF Keyed
<1>3. \A k \in Loops, d \in Conns \ {c} : Closes(k, d)' <=> Closes(k, d)
  BY <1>0, <1>1, <1>2, ZenonT(60) DEF Closes
<1>4. CASE c \notin Conns
  BY <1>1, <1>3, <1>4, LoopsHold, ZenonT(60)
<1>5. CASE c \in Conns
  <2>1. \A d \in Conns : InMap(d)' <=> InMap(d)
    BY <1>1, ZenonT(60) DEF InMap, Name
  <2>2. Held(c)
    BY <1>0, <1>1, Zenon DEF Held, Closes
  <2>3. \A d \in Conns \ {c} : Held(d)' <=> Held(d)
    BY <1>1, <1>3, <2>1, Zenon DEF Held
  <2> QED
    BY <1>1, <1>5, <2>1, <2>2, <2>3, ZenonT(60) DEF OneMoves, Moved, Advanced, Same
<1> QED
  BY <1>4, <1>5, Zenon

\* The main loop erases one, or destroys the callback that erased one.
LEMMA EraseMoves ==
  ASSUME TypeInv, Inv, mainDoPendingCallbacks \/ eraseConnection \/ destroyCallback
  PROVE  AllSame \/ \E c \in Conns : OneMoves(c)
<1>1. UNCHANGED <<status, peer, at, current, overtaken>>
  BY ZenonT(60) DEF mainDoPendingCallbacks, eraseConnection, destroyCallback, ioVars, netVars,
     startVars
<1>2. CASE mainDoPendingCallbacks
  <2>1. /\ mainRun' = mainPending /\ mainPending' = <<>> /\ mainRan' = mainRan
        /\ mainRun = <<>> /\ connections_' = connections_
    BY <1>2, SMTT(60) DEF mainDoPendingCallbacks, Inv, Closing
  <2>2. \A c \in Conns : InMap(c)' <=> InMap(c)
    BY <1>1, <2>1, ZenonT(60) DEF InMap, Name
  <2>3. \A c \in Conns : Held(c)' <=> Held(c)
    BY <1>1, <2>1, <2>2, EmptyRange, ZenonT(60) DEF Held, Closes
  <2> QED
    BY <1>1, <2>2, <2>3, ZenonT(60) DEF AllSame, Same
<1>3. CASE eraseConnection
  <2>0. PICK c \in Conns : c = Head(mainRun)
    BY <1>3, TailRange, Zenon DEF eraseConnection, TypeInv, MainType
  <2>1. /\ connections_' = [connections_ EXCEPT ![Name(c)] = None]
        /\ mainRun' = Tail(mainRun) /\ mainRan' = Append(mainRan, c)
        /\ mainPending' = mainPending /\ mainRun # <<>>
    BY <1>3, <2>0, ZenonT(60) DEF eraseConnection
  <2>2. c \in Conns /\ SeqRange(mainRun) = SeqRange(mainRun') \cup {c}
    BY <2>0, <2>1, TailRange, ZenonT(60) DEF TypeInv, MainType
  <2>3. SeqRange(mainRan') = SeqRange(mainRan) \cup {c}
    <3>1. mainRan \in Seq(Conns)
      BY ZenonT(60) DEF TypeInv, MainType
    <3>2. SeqRange(Append(mainRan, c)) = SeqRange(mainRan) \cup {c}
      BY ONLY <2>2, <3>1, AppendRange, SMTT(60)
    <3> QED
      BY <2>1, <3>2, Zenon
  <2>4. c \in overtaken \/ (status[c] = "kDisconnected" /\ InMap(c))
    BY <2>2, SMTT(60) DEF Inv, Closing, Owned, InMap
  <2>5. /\ connections_'[Name(c)] = None
        /\ \A d \in Conns \ {c} : connections_'[Name(d)] = connections_[Name(d)]
    <3>1. IoType /\ connections_ \in [Names -> Conns \cup {None}]
      BY Zenon DEF TypeInv, MainType
    <3>2. \A d \in Conns : Name(d) \in Names /\ (Name(d) = Name(c) => d = c)
      BY <2>2, <3>1, NameUnique, ZenonT(60)
    <3> QED
      BY ONLY <2>1, <2>2, <3>1, <3>2, ZenonT(60)
  <2>6. \A d \in Conns : Name(d)' = Name(d)
    BY <1>1, Zenon DEF Name
  <2>7. ~InMap(c)' /\ \A d \in Conns \ {c} : InMap(d)' <=> InMap(d)
    <3>1. None # c
      BY <2>2, Numbers, ZenonT(60)
    <3>2. ~InMap(c)'
      BY ONLY <2>2, <2>5, <2>6, <3>1, SMTT(60) DEF InMap
    <3>3. ASSUME NEW d \in Conns \ {c} PROVE InMap(d)' <=> InMap(d)
      BY ONLY <2>5, <2>6, <3>3, SMTT(60) DEF InMap
    <3> QED
      BY <3>2, <3>3, Zenon
  <2>8. \A d \in Conns : \A l \in Loops : Closes(l, d)' <=> Closes(l, d)
    BY <1>1, Zenon DEF Closes
  <2>9. Held(c)' /\ \A d \in Conns \ {c} : Held(d)' <=> Held(d)
    <3>1. mainPending' = mainPending
      BY <2>1, ZenonT(60)
    <3>2. Held(c)'
      BY ONLY <2>3, ZenonT(60) DEF Held
    <3>3. ASSUME NEW d \in Conns \ {c} PROVE Held(d)' <=> Held(d)
      <4>1. /\ d \in SeqRange(mainRun') <=> d \in SeqRange(mainRun)
            /\ d \in SeqRange(mainRan') <=> d \in SeqRange(mainRan)
        BY ONLY <2>2, <2>3, <3>3, ZenonT(60)
      <4>2. InMap(d)' <=> InMap(d)
        BY <2>7, Zenon
      <4>3. \A l \in Loops : Closes(l, d)' <=> Closes(l, d)
        BY <2>8, Zenon
      <4> QED
        BY ONLY <3>1, <4>1, <4>2, <4>3, ZenonT(60) DEF Held
    <3> QED
      BY <3>2, <3>3, Zenon
  <2>10. Moved(c)
    <3>1. status' = status /\ overtaken' = overtaken
      BY <1>1, Zenon
    <3>2. Held(c)
      BY <2>2, Zenon DEF Held
    <3> QED
      BY ONLY <2>4, <2>7, <2>9, <3>1, <3>2, ZenonT(60) DEF Moved, Advanced
  <2>11. \A d \in Conns \ {c} : Same(d)
    BY ONLY <1>1, <2>7, <2>9, ZenonT(60) DEF Same
  <2> QED
    BY <2>2, <2>10, <2>11, ZenonT(60) DEF OneMoves
<1>4. CASE destroyCallback
  <2>1. UNCHANGED <<connections_, mainPending, mainRun>>
    BY <1>4, Zenon DEF destroyCallback
  <2>2. \A c \in Conns : InMap(c)' <=> InMap(c)
    BY <1>1, <2>1, ZenonT(60) DEF InMap, Name
  <2>3. CASE mainRan = <<>>
    BY <1>1, <1>4, <2>1, <2>3, LoopsHold, ZenonT(60) DEF destroyCallback, Closes
  <2>4. CASE mainRan # <<>>
    <3>0. PICK c \in Conns : c = Head(mainRan)
      BY <2>4, TailRange, ZenonT(60) DEF TypeInv, MainType
    <3>1. SeqRange(mainRan) = SeqRange(Tail(mainRan)) \cup {c}
      BY <2>4, <3>0, TailRange, Zenon DEF TypeInv, MainType
    <3>2. mainRan' = Tail(mainRan)
      BY <1>4, <2>4, ZenonT(60) DEF destroyCallback
    <3>3. Held(c) /\ \A d \in Conns \ {c} : Held(d)' <=> Held(d)
      BY <1>1, <2>1, <2>2, <3>1, <3>2, ZenonT(60) DEF Held, Closes
    <3> QED
      BY <1>1, <2>2, <3>1, <3>3, ZenonT(60) DEF OneMoves, Moved, Advanced, Same
  <2> QED
    BY <2>3, <2>4, Zenon
<1> QED
  BY <1>2, <1>3, <1>4, ZenonT(60)

\* Every step brings on one connection at most.
LEMMA StepMoves ==
  ASSUME TypeInv, Keyed, Inv, [Next]_vars
  PROVE  AllSame \/ \E c \in Conns : OneMoves(c)
<1>1. CASE \/ listen \/ acceptFailed \/ mainWoken \/ runInLoop \/ createHere \/ Network
           \/ UNCHANGED vars
  <2>1. UNCHANGED <<status, connections_, peer, mainPending, mainRun, mainRan,
                    at, current, overtaken>>
    BY <1>1, ZenonT(60) DEF listen, acceptFailed, mainWoken, runInLoop, createHere, Network,
       ClientConnects, PeerSends, PeerCloses, PeerResets, PeerDoes, mainVars, ioVars,
       netVars, startVars, vars
  <2> QED
    BY <2>1, LoopsHold, ZenonT(60) DEF Closes
<1>2. ASSUME NEW l \in Loops, IoStep(l)
      PROVE  AllSame \/ \E c \in Conns : OneMoves(c)
  <2>1. CASE \E c \in Conns : servingCallback(l, c) \/ danglingCallback(l, c)
    <3>1. UNCHANGED <<status, connections_, peer, mainPending, mainRun, mainRan,
                      at, current, overtaken>>
      BY <2>1, Zenon DEF servingCallback, danglingCallback, mainVars, netVars, startVars
    <3> QED
      BY <3>1, LoopsHold, ZenonT(60) DEF Closes
  <2>2. CASE \/ poll(l) \/ handleEvent(l) \/ handleEventDone(l)
             \/ doPendingCallbacks(l) \/ tasksDone(l)
    <3>1. UNCHANGED <<status, connections_, peer, mainPending, mainRun, mainRan, overtaken>>
      BY <2>2, ZenonT(60) DEF poll, handleEvent, handleEventDone, doPendingCallbacks,
         tasksDone, mainVars, netVars, startVars
    <3>2. /\ at[l] # "closing"
          /\ \/ UNCHANGED at
             \/ \E a \in {"handle", "tasks", "poll"} : at' = [at EXCEPT ![l] = a]
          /\ UNCHANGED current \/ \E x : current' = [current EXCEPT ![l] = x]
      BY <2>2, Zenon DEF poll, handleEvent, handleEventDone, doPendingCallbacks,
         tasksDone
    <3>3. /\ at'[l] # "closing"
          /\ \A k \in Loops : k # l => at'[k] = at[k] /\ current'[k] = current[k]
      BY <3>2, Zenon DEF Keyed, TypeInv, IoType
    <3> QED
      BY <3>1, <3>2, <3>3, LoopsHold, ZenonT(60) DEF Closes
  <2>3. CASE handleCloseReturns(l)
    BY <2>3, ReturnMoves, ZenonT(60)
  <2>4. CASE handleCreate(l)
    BY <2>4, CreateMoves, Zenon
  <2>5. ASSUME NEW c \in Conns, closingCallback(l, c)
        PROVE  AllSame \/ OneMoves(c)
    BY <2>5, CloseMoves, Zenon
  <2>6. CASE startLoop(l)
    BY <2>6, StartMoves, ZenonT(60)
  <2> QED
    BY <1>2, <2>1, <2>2, <2>3, <2>4, <2>5, <2>6, ZenonT(60) DEF IoStep
<1> QED
  BY <1>1, <1>2, AcceptMoves, ConnectMoves, EraseMoves, ZenonT(60) DEF Next, MainStep

\* What a connection's stage is, in terms of its holders.
StagesByHolders ==
  \A c \in Conns :
    Stage(c) = IF c \in overtaken THEN "overtaken"
               ELSE IF status[c] # "kDisconnected" THEN status[c]
               ELSE IF InMap(c) THEN "kDisconnected"
               ELSE IF Held(c) THEN "erased" ELSE "destroyed"

\* In every state that satisfies the invariants.
LEMMA StageIs == TypeInv /\ Keyed => StagesByHolders
BY AliveIsHeld, Zenon DEF StagesByHolders, Stage, InMap

\* Whatever the threads do, every connection goes through its stages in order,
\* until a loop that starts late overtakes it.
THEOREM RefinesLife == Spec => ImplementsLife
<1> DEFINE stages == [c \in Conns |-> Stage(c)]
<1>1. Init => Life!Init
  <2> SUFFICES ASSUME Init PROVE Life!Init
    BY Zenon
  <2>1. \A c \in Conns : Stage(c) = "none"
    BY Zenon DEF Init, Stage
  <2> QED
    BY <2>1, ZenonT(60) DEF Life!Init
<1>2. /\ TypeInv /\ Keyed /\ Inv /\ TypeInv' /\ Keyed'
      /\ [Next]_vars
      => [Life!Next]_stages
  <2> SUFFICES ASSUME TypeInv, Keyed, Inv, TypeInv', Keyed', [Next]_vars
               PROVE  [Life!Next]_stages
    BY ZenonT(60)
  <2>0. StagesByHolders /\ StagesByHolders'
    BY StageIs, PTL
  <2>1. ASSUME NEW c \in Conns, Same(c) PROVE Stage(c)' = Stage(c)
    BY <2>0, <2>1, Zenon DEF StagesByHolders, Same
  <2>2. CASE AllSame
    BY <2>1, <2>2, ZenonT(60) DEF AllSame
  <2>3. ASSUME NEW c \in Conns, OneMoves(c) PROVE [Life!Next]_stages
    <3>1. \A d \in Conns \ {c} : Stage(d)' = Stage(d)
      BY <2>1, <2>3, Zenon DEF OneMoves
    <3>2. stages' = [stages EXCEPT ![c] = stages'[c]]
      BY <3>1, ZenonT(60)
    <3>3. Stage(c)' = Stage(c) \/ <<Stage(c), Stage(c)'>> \in Life!Follows
      <4>1. \/ Stage(c)' = Stage(c)
            \/ Stage(c) = "none" /\ Stage(c)' = "kConnecting"
            \/ Stage(c) = "kConnecting" /\ Stage(c)' = "kConnected"
            \/ Stage(c) = "kConnecting" /\ Stage(c)' = "overtaken"
            \/ Stage(c) = "kConnected" /\ Stage(c)' = "kDisconnected"
            \/ Stage(c) = "kDisconnected" /\ Stage(c)' = "erased"
            \/ Stage(c) = "erased" /\ Stage(c)' = "destroyed"
        BY <2>0, <2>3, ZenonT(60) DEF StagesByHolders, OneMoves, Moved, Advanced
      <4> QED
        BY <4>1, Zenon DEF Life!Follows
    <3>4. CASE Stage(c)' = Stage(c)
      BY <3>1, <3>4, ZenonT(60)
    <3>5. CASE <<Stage(c), Stage(c)'>> \in Life!Follows
      <4>1. stages[c] = Stage(c) /\ stages'[c] = Stage(c)'
        BY ZenonT(60)
      <4> QED
        BY <3>2, <3>5, <4>1, ZenonT(60) DEF Life!Next
    <3> QED
      BY <3>3, <3>4, <3>5, ZenonT(60)
  <2> QED
    BY <2>2, <2>3, StepMoves, ZenonT(60)
<1> QED
  BY <1>1, <1>2, InvHolds, KeyedHolds, PTL DEF Spec, ImplementsLife, Life!Spec

-----------------------------------------------------------------------------
(* Descriptors.  What is in a poller is in connections_, so that a Channel *)
(* is not held by the poller alone.                                        *)

ChannelHeld(c) == Held(c) \/ \E l \in Loops : c \in active[l]

ChannelsByHolders == \A c \in Conns : ChannelAlive(c) <=> ChannelHeld(c)

\* What fd2channels_ holds is in connections_.
LEMMA InPollerIsHeld ==
  ASSUME TypeInv, Inv, NEW l \in Loops, NEW f \in Fds, NEW c \in Conns,
         fd2channels_[l][f] = c
  PROVE  Held(c)
BY SMTT(60) DEF Inv, Registered, InMap, Held

\* The shared_ptrs that keep a Channel alive.
LEMMA ChannelIs == TypeInv /\ Keyed /\ Inv => ChannelsByHolders
<1> SUFFICES ASSUME TypeInv, Keyed, Inv, NEW c \in Conns
             PROVE  ChannelAlive(c) <=> ChannelHeld(c)
  BY Zenon DEF ChannelsByHolders
<1>1. ConnectionAlive(c) <=> Held(c)
  BY AliveIsHeld, ZenonT(60)
<1>2. (\E l \in Loops : \E f \in Fds : fd2channels_[l][f] = c) => Held(c)
  BY InPollerIsHeld, ZenonT(60)
<1> QED
  BY <1>1, <1>2, ZenonT(60) DEF ChannelAlive, ChannelHeld

\* An accepted connection whose Channel is destroyed never gets it back.
LEMMA StaysDestroyed ==
  ASSUME TypeInv, Keyed, Inv, [Next]_vars, NEW c \in Accepted, ChannelHeld(c)'
  PROVE  ChannelHeld(c)
<1>1. c \in Conns /\ status[c] # "none"
  BY TcpServerAssumption, SMTT(60) DEF Accepted, Conns, TypeInv, MainType, Inv, Numbered
<1>2. Held(c)' => Held(c)
  <2>1. Same(c) => (Held(c)' => Held(c))
    BY Zenon DEF Same
  <2>2. Moved(c) => (Held(c)' => Held(c))
    BY <1>1, ZenonT(60) DEF Moved, Advanced, Held
  <2> QED
    BY <1>1, <2>1, <2>2, StepMoves, ZenonT(60) DEF AllSame, OneMoves
<1>3. ASSUME NEW l \in Loops, c \in active'[l]
      PROVE  c \in active[l] \/ Held(c)
  <2>1. CASE active' = active
    BY <1>3, <2>1, Zenon
  <2>2. CASE active' # active
    <3>1. PICK k \in Loops : active' = [active EXCEPT ![k] = Ready(k)]
                             \/ active' = [active EXCEPT ![k] = {}]
      BY <2>2, ZenonT(60) DEF Next, MainStep, IoStep, Network, listen,
         acceptorReadCallback, runInLoop, createHere, connectHere, acceptFailed, mainWoken, mainDoPendingCallbacks,
         eraseConnection, destroyCallback, startLoop, poll, handleEvent,
         handleEventDone, handleCloseReturns, doPendingCallbacks, handleCreate,
         tasksDone, closingCallback, servingCallback, danglingCallback,
         ClientConnects, PeerSends, PeerCloses, PeerResets, PeerDoes, ioVars, vars
    <3>2. c \in active[l] \/ c \in Ready(l)
      BY <1>3, <3>1, ZenonT(60) DEF Keyed
    <3>3. c \in Ready(l) => Held(c)
      BY <1>1, InPollerIsHeld, Zenon DEF Ready
    <3> QED
      BY <3>2, <3>3, ZenonT(60)
  <2> QED
    BY <2>1, <2>2, Zenon
<1> QED
  BY <1>2, <1>3, ZenonT(60) DEF ChannelHeld

\* accept4() returns a descriptor that no Channel has.
LEMMA AcceptTakesFree ==
  ASSUME acceptorReadCallback, TypeInv
  PROVE  \E f \in FreeFds : fd' = [fd EXCEPT ![next_conn_id_ + 1] = f]
<1> DEFINE least == CHOOSE x \in FreeFds : \A y \in FreeFds : x <= y
<1>1. FreeFds \in SUBSET Nat /\ FreeFds # {}
  BY TcpServerAssumption, ZenonT(60) DEF acceptorReadCallback, FreeFds
<1>2. \E x \in FreeFds : \A y \in FreeFds : x <= y
  BY <1>1, LeastNat, Zenon
<1>3. least \in FreeFds
  BY <1>2, ZenonT(60)
<1>4. fd' = [fd EXCEPT ![next_conn_id_ + 1] = least]
  BY ZenonT(60) DEF acceptorReadCallback
<1> QED
  BY <1>3, <1>4, ZenonT(60)

\* No two Channels have one descriptor, for any number of clients and loops.
THEOREM DescriptorsExclusiveHolds == Spec => []DescriptorsExclusive
<1>1. Init => DescriptorsExclusive
  BY SMTT(60) DEF Init, DescriptorsExclusive, Accepted
<1>2. /\ DescriptorsExclusive /\ TypeInv /\ Keyed /\ Inv
      /\ TypeInv' /\ Keyed' /\ Inv' /\ [Next]_vars
      => DescriptorsExclusive'
  <2> SUFFICES ASSUME DescriptorsExclusive, TypeInv, Keyed, Inv, TypeInv', Keyed',
                      Inv', [Next]_vars
               PROVE  DescriptorsExclusive'
    BY Zenon
  <2>1. ChannelsByHolders /\ ChannelsByHolders'
    BY ChannelIs, PTL
  <2>2. Accepted \subseteq Conns /\ Accepted' \subseteq Conns
    BY TcpServerAssumption DEF Accepted, Conns, TypeInv, MainType
  <2>3. ASSUME NEW c \in Accepted, ChannelAlive(c)' PROVE ChannelAlive(c)
    BY <2>1, <2>2, <2>3, StaysDestroyed, ZenonT(60) DEF ChannelsByHolders
  <2>4. CASE acceptorReadCallback
    <3>1. PICK n : n = next_conn_id_ + 1
      BY Zenon
    <3>2. PICK f \in FreeFds : fd' = [fd EXCEPT ![n] = f]
      BY <2>4, <3>1, AcceptTakesFree, ZenonT(60)
    <3>3. next_conn_id_ \in Nat /\ next_conn_id_' = n
      BY <2>4, <3>1, SMTT(60) DEF acceptorReadCallback, TypeInv, MainType
    <3>4. Accepted' = Accepted \cup {n} /\ n \notin Accepted
      BY <3>1, <3>3 DEF Accepted
    <3>5. fd'[n] = f /\ \A d \in Accepted : fd'[d] = fd[d]
      BY <2>2, <3>2, <3>4, ZenonT(60) DEF TypeInv, IoType
    <3>6. \A d \in Accepted : ChannelAlive(d) => fd[d] # f
      BY <3>2, ZenonT(60) DEF FreeFds
    <3> QED
      BY <2>3, <3>4, <3>5, <3>6, ZenonT(60) DEF DescriptorsExclusive
  <2>5. CASE ~acceptorReadCallback
    <3>1. fd' = fd /\ Accepted' = Accepted
      BY <2>5, ZenonT(60) DEF Next, MainStep, IoStep, Network, listen, acceptFailed,
         runInLoop, createHere, connectHere,
         mainWoken, mainDoPendingCallbacks, eraseConnection, destroyCallback,
         startLoop, poll, handleEvent, handleEventDone, handleCloseReturns,
         doPendingCallbacks, handleCreate, tasksDone, closingCallback,
         servingCallback, danglingCallback, ClientConnects, PeerSends,
         PeerCloses, PeerResets, PeerDoes, mainVars, vars, Accepted
    <3> QED
      BY <2>3, <3>1, ZenonT(60) DEF DescriptorsExclusive
  <2> QED
    BY <2>4, <2>5, ZenonT(60)
<1> QED
  BY <1>1, <1>2, InvHolds, KeyedHolds, PTL DEF Spec

-----------------------------------------------------------------------------
\* Only a closed connection is destroyed while its io loop handles it, if the
\* loop did not start while the main thread was creating the connection.
THEOREM OnlyClosedDangle == Spec => []DestroyedWasClosed
<1>1. TypeInv /\ Keyed /\ Inv => DestroyedWasClosed
  <2> SUFFICES ASSUME TypeInv, Keyed, Inv, NEW l \in Loops, NEW c \in Conns \ overtaken,
                      current[l] = c, status[c] # "kDisconnected"
               PROVE  ConnectionAlive(c)
    BY Zenon DEF DestroyedWasClosed
  <2>1. status[c] # "none"
    BY DEF Inv, Served
  <2>2. InMap(c)
    BY <2>1, Zenon DEF Inv, Owned, InMap
  <2> QED
    BY <2>2, AliveIsHeld, Zenon DEF Held
<1> QED
  BY <1>1, InvHolds, KeyedHolds, PTL
=============================================================================
