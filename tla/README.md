# A verification of web_server in TLA+

`srcs/` is a multi-threaded HTTP server in the reactor style: one event loop per
thread, nonblocking sockets, callbacks. This directory models its components as TLA+
state machines, checks them with TLC on small instances and proves the results that
matter most with TLAPS for all values of the constants. `PROJECT.json` lists the
components, the runs, the source lines behind every definition, the hazards and the
findings.

## 1. The system

    main thread                          io thread (one of a pool)
    EventLoop + EpollPoller              EventLoop + EpollPoller
      Acceptor --accept--> TCPServer --runInLoop(handleCreate)--> TCPConnection
      TCPServer::connections_  <--runInLoop(erase)-- handleClose()  | Channel, Buffer
                                                      HTTPServer::connectionOnRead
                                                      HTTPContext, response cache

| Part | State | Operations | What makes it hard |
|---|---|---|---|
| EventLoop | thread_id_, looping_, pending_callbacks_, eventfd | startLoop, loop, endLoop, runInLoop, queueInLoop, wakeup, doPendingCallbacks | threads between an unlock and the wakeup; a loop that is built by another thread |
| EventLoopThread(Pool) | next_thread_idx_ | startLoop, getNextThread | the start races with the first connections |
| EpollPoller, Channel | fd2channels_, active_channels_, events | poll, add, update, remove, handleEvent | several callbacks for one event; descriptors are reused |
| FDHandler | a shared descriptor | closes with the last holder | the last holder may be in another thread |
| TCPConnection | status_, out_buffer_, interest | handleCreate, Read, Write, Close, Error, send, shutdown | the peer acts between any two system calls; partial writes |
| Buffer, LinkedBuffer | bytes, reader, writer; nodes in a deque | append, read, readUntil, readAll, writeFromFD, readToFD | index arithmetic, ends of nodes, an iterator kept while the deque moves its map |
| Acceptor, TCPServer | connections_, next_conn_id_ | listen, accept, create, erase | two threads own one connection |
| HTTPContext, HTTPServer | parse state, request | parseRequest, connectionOnRead | TCP cuts the stream anywhere; objects are reused |
| Response cache | list, map, SpinLock, responses | getRespCache, addRespCache | the keys and the shared responses change outside the lock |
| Date, TimeZone | tables of a zone | reading the file, conversions both ways | leap days, 1970, the repeated hour, a file cut short |
| LogStream, Logger, Timestamp | fixed buffer, cached time | header, operators, newline | a full buffer, the least integer, a stale time |
| SocketAddress, sysw, utils | | | not modelled: no state of their own |

## 2. The modules

Every module has the code's names where TLA+ allows it. A mutant of a definition (a
plausible bug) stands in front of it, is named `...Mut` and is used by no specification.

**TaskQueue** (abstract): callbacks are executed once each, in the order of submission.
**EventLoop** implements it. A section under `mutex_` is one step; the reads of
`thread_id_` and `looping_` outside it are steps of their own. `lpc` is the loop thread's
place in `loop()`, `pc[t]` each caller's place in `runInLoop()`. The eventfd is a counter
that refuses to overflow. `pushed` and `done` are histories.

**ByteQueue** (abstract): bytes are put at the end and taken from the front. **Buffer**
implements it with a vector and two indices, **LinkedBuffer** with a sequence of nodes
and an iterator `<<node, char>>`. **BufferSizes** has the sizes of both.
LinkedBuffer keeps its nodes in a std::deque, which finds its chunks through a map
(`map_size`, `start`, with `NodesPerChunk` and `InitialMap` for the library's numbers).
A `push_back()` that needs a place at the end moves or reallocates the map; `reader_iter_`
was made before and is then `stale`, and walking from it to end() is `undefined`. From
there on the model does nothing more, since nothing is known of what the program does.
`IovMax` is the number of pieces that `writev` takes.

**ConnectionLife** (abstract): a connection is accepted, connected, closed, erased from
connections_ and destroyed, one stage after the other. TcpConnection and TcpServer both
implement it. Nothing is said of a connection that its io loop overtakes (stage "overtaken",
see TcpServer). This joins the two models: TcpServer has no kDisconnecting and no data, and
what it supposes of the handlers (connected once, closed once, never back) is what
TcpConnection shows of them, with kDisconnecting seen as connected. The last two stages
are the server's: a connection is "erased" while handleClose() or the callback that erased
it still holds it, and "destroyed" after that (`Stage`).

**TcpConnection**: one connection in its io thread; the peer and the kernel act between
the system calls. Data is counted in units. The socket (`inq`, `snd`, `shutWr`, `fin`,
`rst`, `reported`) is external, modelled by what the calls in the code can return: the error
of a reset is returned once, and a write after that raises SIGPIPE like one after SHUT_WR.

**TcpServer**: composes the main loop, the io loops, their pollers and the life of all
connections, from `listen()` on. What EventLoop shows of one queue is used here: a queue of
callbacks is a sequence. An io loop in `LateLoops` may run `startLoop()` after the first
clients were accepted; until then it takes the main thread for its own, and the main
thread runs handleCreate() itself. The check of the thread (`runInLoop`), the entry in the
poller (`createHere`) and the change of status_ (`connectHere`) are steps of their own, and
the loop may start and serve the connection between them; `overtaken` is the history of the
connections to which this happened, with the end of the process as a possible outcome of two
threads in one fd2channels_. Ownership is explicit: `ConnectionAlive` and
`ChannelAlive` list the shared_ptrs that the code holds, and a descriptor is free when its
Channel is not alive. A callback of a destroyed connection is a choice of what the build
can do: nothing, or the end of the process. A name is made of the peer and the number;
`NameFits` is the arithmetic of why snprintf() into 64 bytes keeps the number.

**HttpSession**: parsing and answering on one connection, without the cache. A line is a
record; characters are not modelled. **RespCache**: connectionOnRead() of several
connections, each in a thread of its own, with the cache: parse, lock, look up, create,
evict, add, unlock, decide to close, send, shut down. The requests are keys of the map
and change without the lock: a map node keeps the hash it was inserted with, so a lookup
needs the old hash and the present value to agree; hash collisions are not modelled. The
headers of earlier requests stay in the object (`Parsed`), as in HttpSession. The
`responses` are shared by all that hit them, and `close_connection_` is written and read
after the unlock, in steps of their own. **HttpLiteral** has what both use.

**Calendar**: Date and the UTC conversions against a calendar stepped day by day.
**CppDivision** has the division and the remainder of C++, which round towards zero, for
Calendar and LogStream.
**TimeZone**: a zone file of records that may end after any of them, what is kept of it,
and the conversions both ways. **LogStream**: a Logger with its header and the cached time
of it, the operators that fill the FixedBuffer, `convert()` and `convertHex()`, the newline.

**MCEventLoop** gives EventLoop its constants. **MCHttpServer** runs HttpSession or
RespCache, as USE_RESP_CACHE says. **MCTimerLogger** runs one of three libraries, which
share no state. The modules named `...Proofs`, and Induction, are the subject of section 4.

## 3. What the runs show

Unless said otherwise a bound only limits how much happens, not in what order.

| Run | Properties | Instance |
|---|---|---|
| loop | NoLostWakeup, QueueOrder, OffThreadOnlyBeforeStart, ImplementsTaskQueue, EventuallyRuns, StopsOnceWoken | 3 threads, 3 callbacks, eventfd limit 2 so that it is reached |
| buffer | IndexOrder, StorageBound, ImplementsByteQueue | 2 free bytes, a temporary buffer of 2, chunks up to 3, at most 5 unread: each branch of append() is taken |
| linked_buffer | WithinCapacity, NodesFilled, PiecesBounded, ForwardArithmetic, ImplementsByteQueue | the same chunks in nodes of 3 bytes, `writev` of 2 pieces, a deque with a map of 3 places for one node each, so that the map moves within few appends |
| connection | BacklogWatched, ClosedOnce, DeliveredBeforeEnd, ImplementsLife, Drains, ShutdownCarriedOut, PeerEndNoticed | send buffer of 2, responses up to 3, so that writes are partial; 3 units from the peer |
| server_safety | RegisteredIsOwned, CreateFindsConnection, ErasedOnce, ImplementsLife | 2 connections of one client address, 2 descriptors, 2 io loops which may both start late, main loop with a wakeup channel: descriptors and addresses are reused, and each client's handleCreate() races with its loop |
| server_live | ClosedIsReleased, EveryClientAccepted | 3 clients, 1 descriptor, main loop without a wakeup channel, io loops that have started |
| http_server | AnsweredAsUncut, NoLineLeftBehind (no cache); RightResponse, CloseAsAsked (cache) | 11 kinds of line, 5 lines, up to 2 per read, 3 responses; 2 threads, 4 requests with 4 values, cache of 2, so that it is full and evicts |
| timer_logger | DateAgrees, UtcRoundTrip; LocalRoundTrip, WholeOrFixed, ClockJumpsOnlyAtTransitions; WithinBuffer, LineEnds, NumeralForm, TimeShown | every day of 1900..2500, UTC for 1902..2037, whose seconds TLC's 32-bit integers hold; 5 zone files that end anywhere and a zone without one, with transitions before the epoch and after, summer time of one hour and of two, and standard time set back; times around every transition; the buffer of 4000 bytes with strings that end on each of its last bytes, integers at every change of length (the least one is left to the proof, as TLC cannot negate it), 3 pieces after the header |

Types are no run's property: `TypeCorrect` proves them for EventLoop and TcpConnection, and
elsewhere they are part of the inductive invariants.

Deadlock is not checked where the system may stop: when the peer is silent, the bound is
reached or the process has ended. The property that fits is then a liveness property.

**Fairness.** Each thread is weakly fair as a whole: the operating system schedules a
thread that can run. In EventLoop this leaves out signals (`pollInterrupted`), new
submissions and readiness of other channels. In TcpConnection the peer goes on reading
what it was sent; it need not send or close. Only `LeavingSpec` of TcpServer lets clients
leave in the end: without it a server with no free descriptor cannot accept.

### Disagreements between the code and what is said of it

Each has a run that must end in a counterexample, and a finding with the quotation.

| Run | What happens |
|---|---|
| connection_assert | `assert(status_ == kConnected)` in handleWrite() fails for a connection shutting down with a backlog. |
| server_dangling | handleEvent() keeps its Channel alive but not the connection its callbacks use. |
| http_header | Headers of an earlier request on the connection decide about a later one. |
| cache_evict | The keys of the cache change after insertion: eviction leaves an entry without a node, and a later hit uses it. |

The models also contain, without a run of their own:

- the main thread inside `runInLoop()` of an io loop that has just started (EventLoop, a
  call that read `thread_id_` before `startLoop()`; OffThreadOnlyBeforeStart bounds it), and
  what it does to a connection: the loop can serve and close it before the main thread sets
  status_ to kConnected, and it is then closed again and handed to the main loop twice
  (TcpServer; RegisteredIsOwned holds nevertheless, ErasedOnce and ImplementsLife except it);
- data read after `shutdown()`, where a comment expects only EOF, and the SIGPIPE of an
  answer to it (TcpConnection, `sendKilled`), or of a handleWrite() after a handleRead() that
  met a reset (`handleWriteKilled`);
- a connection that `send()` gives up because the send buffer is full (`sendFailed`);
- a closed connection that stays until the next client comes, when the main loop has no
  wakeup channel (TcpServer; ClosedIsReleased says when it is released);
- a cache key that changes between `count()` and `operator[]` (RespCache, two connections);
- two threads that write `close_connection_` of one response without a lock: a data race,
  but both write what the one request that they share asks for (CloseAsAsked);
- an append to a LinkedBuffer with unread data that moves the deque's map, after which
  read() and readUntil() are undefined. append() to an empty buffer sets `reader_iter_` anew,
  so a connection which reads all of its data before the next append does not get there;
- `operator+=` with a negative number and `operator-` with the nearer iterator on the left,
  which are wrong across nodes; no caller uses them, and ForwardArithmetic is about the rest;
- a local time that a clock shows twice: fromLocalTime() gives the later of the two, or an
  hour before it at the end of summer time, which is the inverse only when the clock is set
  back by an hour (LocalRoundTrip says by how much it is off);
- a server whose bind() or listen() failed, which runs on without being told;
- a zone whose file has no local time type at all, with which nothing is converted.

Findings are disagreements in the model; which of the two sides is meant is for the
authors to say.

## 4. What is proved

All proofs are for every value of the constants that the ASSUMEs allow. Each argument is an
inductive invariant, listed with why the property needs it.

**EventLoopProofs** (any threads, callbacks and eventfd limit).
`TypeCorrect` is inductive as it stands. `WakeupNeverLost`: NoLostWakeup is inductive
together with TypeOK, because only `wakeupCallback` empties the counter, and it leaves the
loop in "handle", on its way to the swap. `QueueOrderHolds` needs one more conjunct,
OrderInv: outside "exec" there is nothing left to execute, else the swap would drop
callbacks. `ConfinedOnceStarted` rests on StartedInv: once started, thread_id_ is the
loop's. `RefinesTaskQueue`: every step maps to Submit, Run or a stutter; that Run
takes the right callback is OrderInv.

**ConnectionProofs** has a connection and its Buffer.
*Buffer* (any sizes and bytes): BufferInv is TypeOK, IndexOrder and StorageBound together:
the bound on the storage needs the order of the indices, and neither holds without the
types. `IndicesInOrder`, `StorageBounded` and `RefinesByteQueue` follow; the last one shows of
each operation that the readable slice changes at one end only, from lemmas on copying,
resizing and slicing.
*TcpConnection* (any send buffer, response size and amount of data): `TypeCorrect`, then
`ClosesOnce`, `BacklogIsWatched`, `AllDelivered` and `ShutdownWaits` (that SHUT_WR is a step
taken with no backlog only) from one invariant, Inv. Its conjuncts beyond the
properties: nothing is sent before handleCreate() (Created); units are conserved,
`rcvd + snd + out = queued` (Conserved); after SHUT_WR nothing is put into out_buffer_
again (Sealed). A peer at the end of the stream has `snd = 0`, and Sealed gives `out = 0`,
so that Conserved says that it has everything. The SIGPIPE ends the process (`at` = "killed"),
and Inv holds there as before. `RefinesLife`: a step leaves status_ alone,
connects, starts to shut down or closes (StatusStep), and none of these leaves kDisconnected.

**TcpServerProofs** (any io loops, late or not, clients, addresses and descriptors).
`PollerEntriesOwned`, `CreateNeverDangles` and `EachErasedOnce`. Inv says of each connection where
it is, by its status: not accepted (Numbered), connecting and in the queue of its loop
once (Queued), connected and in a poller or in the hands of its loop (Registered, Served),
disconnected and in one queue of the main loop once (Closing), and in connections_ from
the accept to the erasure (Owned). Creating is about the connection that the main thread is
creating: until addChannel() nobody else has it (Untouched), and after it the loop has it only
if it was overtaken, so that a loop which starts in between can make it served or closed but no
entry of a poller stale. The properties are about the two ends of this path and
none is inductive alone: that handleCreate() finds its connection needs that only
disconnected ones are erased, which needs that no connecting one is in any of the queues
of the main loop.
`RefinesLife` adds Keyed: an entry of connections_ is under the name of its connection. With
it a connection is alive exactly as long as it is in the map or held by a loop that closes
or erases it (AliveIsHeld). One lemma per action shows which connection it brings on
(AcceptMoves, ConnectMoves, StartMoves, CreateMoves, CloseMoves, ReturnMoves, EraseMoves) and
that all others keep their stage, so that a step moves one connection by one stage or none
(StepMoves). The hard case is the erasure: whichever of handleClose() and the main loop's
callback ends last destroys the connection, and it is in the map or in a queue until then.
`DescriptorsExclusiveHolds`: no two Channels alive have one descriptor. A Channel is held by
what holds its connection and by active_channels_ (ChannelIs), one that is destroyed stays
so (StaysDestroyed), and accept4() returns a number that none has (AcceptTakesFree).
`OnlyClosedDangle` bounds the finding server_dangling: a connection that is destroyed while
handleEvent() calls it is disconnected already, because one that is not is in connections_,
or was overtaken. TLC agrees with the last two on the instance of server_safety; they are
stated in TcpServer and are no properties of a run.

**Induction** has what the other modules need for recursive functions and for loops: the
least natural number with a property (LeastNat), and from it induction over a *set* of
numbers (UpTo, Every). No prover here can instantiate an induction theorem that takes an
operator, so each lemma below that is an induction names the set of the numbers for which
it holds. The same set shows of a recursive function that its equation holds.

**LinkedBufferProofs** (any node sizes, bytes, deque and number of pieces for writev).
LinkedInv: no node is over its capacity, which is kMinNodeSize at least, two neighbours hold
kMinNodeSize bytes at least, and the reader is in the first node, at end() of an empty deque,
or not set yet. `InsertKeepsNodes` and `NodesStayFilled` are parts of it; `PiecesStayBounded` adds
the pairs of neighbours up: the unread bytes bound how many pieces writev() is given.
`ForwardConsistent`: `operator+=` stops in the first node in which it may (PlusIs), and
`operator-` adds up the nodes between (DistanceIs), both loops of the code; counting, moving
and comparing then agree, from the reader and from any place behind it. `LinkedBufferIsAQueue`: the bytes of the nodes one after the other
(PrefixesIs) grow at the end with a node or in the last one and shrink at the front; this is
the refinement of ByteQueue, up to the step that is undefined.

**HttpServerProofs** has both ways of connectionOnRead().
*Without the cache* (any lines, any segmentation, HttpSessionAssumption for the fields of a
line): `AnswersOfTheStream` and `LinesAreUsed`. The reference, Answers, parses the lines of the
whole stream one by one; the code parses what each read brought, in the loop of
parseRequest(), and keeps state_, request_ and the lines behind. SessionInv says where the
two meet: there is a number u of lines of the stream such that the answers sent are those of
the first u, the parser is where the reference is after them, and in_buffer_ holds the
lines behind them. One read is followed round by round against the stream (AlongStep,
AlongAll): every round uses the next line, and ends where the reference answers
(AnswerOpen) or where no line is left. Up to the first answer that closes the
connection, more lines only add answers (OpenGrown); after it they add none (ClosedStays).
*With the cache* (any threads, values and cache size): `MutualExclusion`: a thread inside has
set lck, hence there is one. `ResponseIsRight` and `ClosesAsAsked` hold up to the use of an
invalid iterator (finding cache_evict): OwnInv says that a map entry leads to a response
made for the value that was *hashed*, which is the value a lookup matches although the key
has changed since; CloseInv says that close_connection_ of a shared response is only ever
set as its request asks, so that it does not matter which thread writes it or when.

**LogStreamProofs** (any buffer size, strings and times; numbers shorter than
kMaxNumericSize). `NothingOutside`: WithinBuffer is inductive with one byte that append() and
formatNumber() never give away (Room). `NewlineKept`: a line is output without its
newline only if that byte is the last. `RightTime`: t_time is of the second in
t_lastSecond, so that the conversion may be left out when the second is the same.
`NumbersReadBack`: each round of the loop of convert() and convertHex() takes one digit off
the absolute value and leaves the sign (AbsRests), the loop ends in the first round that
leaves 0 (RoundsIs), and the digits read from the left give the value back (ReadBack); the
least integer is no exception, since `zero` is indexed by remainders of either sign.

**TimerProofs** has dates and zones.
*Calendar* (any of the years 1900..2500 that date.h names, any seconds of a day):
`DateAgreesHolds` and `UtcRoundTripHolds`, and `UtcAllYears` for the years whose seconds TLC
cannot hold. DateInv says that jdn is the number of the day reached. It is
inductive because getJulianDayNumber() advances by one from each day to the next
(NextDay), at the ends of the months (MonthTurn) and years (YearTurn) too, and
getYearMonthDay() inverts it (DateInverse): a day number is taken apart into centuries,
years from March on and months, each with the remainder that the next one starts from.
*TimeZone* (any well-formed zone files whose transitions are further apart than their clocks
are set, places where they end, and times, before the epoch too; ZoneAssumption).
`CutFileIsWholeOrFixed`: a file that ends before the last type gives no transition at all,
and any other one gives the tables of the whole file. `ClockSteady`: findLocaltime(), with
std::lower_bound as the least index not earlier, finds the transition in force
(FindsInForce), and two times without a transition between them have the same one.
`LocalTimeInverse`: the transitions are in the order of their local times too
(LocalIncreasing, from Apart), so that the search by local time finds the transition in force
or, where the clock is about to be set back, the one after it. In the first case the offset
is that of the way there, and the time comes back; in the second the result is off by what the
clock is set back, less the 3600 seconds that fromLocalTime() subtracts when tm_isdst was set
and the type found is not summer time (ThereAndBack). LocalRoundTrip states both cases.

Only model-checked:

- liveness (EventuallyRuns, StopsOnceWoken, Drains, ShutdownCarriedOut, PeerEndNoticed,
  ClosedIsReleased, EveryClientAccepted): it rests on fairness, hence on ENABLED, which
  these provers cannot treat;
- the four counterexamples, which are behaviours and not theorems.

## 5. Not modelled

- Destruction of the server and joining of threads: no code stops the io loops.
- A pool of no io threads: getNextThread() needs one at least (TcpServerAssumption).
- HTTP text: the characters of a line, queries, bodies longer than a line, the text of a
  response apart from the headers that say where it ends. None of it is state that outlives
  a call, and the branches it decides are choices between kinds of line.
- Names longer than 63 characters, which only two IPv6 addresses give.
- The bytes of a log line going to stdout, and the level taken from the environment.
- Formatting: Date::toIsoString(), Timestamp's text, the abbreviations of a zone.
- SocketAddress, sysw, utils and types: wrappers and declarations without state. What the
  system calls can return is in the modules of their callers.
- `tests/webbench`, a client of its own.

## 6. Plan

1. Compose HttpSession with TcpConnection (the responses as the units sent).
2. Bodies and queries in HttpSession, with requests cut inside a line.
3. The life of the io threads, should the program learn to stop them.
