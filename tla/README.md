# A TLA+ verification of ckWebserver

ckWebserver is a C++ web server in the style of muduo: one event loop per thread,
non-blocking sockets with level-triggered epoll, an HTTP layer, an asynchronous
logger, an LFU cache and a memory pool. This directory holds TLA+ models of these
parts, the TLC configurations that check them on small instances, and TLAPS proofs of
their most important properties for all values of the parameters. `PROJECT.json` maps
every definition to the source lines it models.

    tlc -config EventLoop.cfg EventLoop        # one run; PROJECT.json lists them all
    tlapm EventLoopProofs.tla                  # one proof module

Operators marked `\* mutant` are plausible bugs of the definition that follows them.
No specification uses them; they are put in its place to see that a property notices.

## 1. Inventory

| Component | State | Operations | Works with | What is hard | What makes it correct |
|---|---|---|---|---|---|
| EventLoop | `quit_`, `pendingFuntors_`, `callingPendingFunctors_`, eventfd | `loop`, `quit`, `runInLoop`, `queueInLoop`, `wakeup`, `doPendingFunctors` | every thread that posts callbacks | push and wakeup are two steps, and so are quit and its wakeup; the queue is swapped while others push | no wakeup is lost; callbacks run once and in order; quit ends the loop |
| EPollPoller, Channel | `channels_`, `index_`, epoll's interest list, active channels | `poll`, `updateChannel`, `removeChannel`, `handleEvent` | loops, acceptor, connections | bare pointers; descriptor numbers that are used again; a failing ADD or MOD ends the process | no event reaches a destroyed object; map, index and interest list agree |
| TcpServer, Acceptor | `connections_`, next connection id, backlog | accept, `newConnection`, `removeConnection`, destructor | base loop, I/O loops | closing goes I/O loop, base loop, I/O loop; the destructor and late calls of other threads race with it; EMFILE | each connection comes up and goes down once and is reclaimed; the destructor ends |
| TcpConnection | `state_`, output buffer, channel events, its owners | `send`, `sendInLoop`, `shutdown`, the four handlers | its I/O loop, user threads, server | tests of `state_` that are stale when used; calls bound to a bare `this`; short writes; FIN behind data | bytes in order, FIN last, EPOLLOUT exactly while there is output; nothing of its own runs after its destructor |
| EventLoopThread, pool, Thread | `loop_`, semaphore, condition variable | `start`, `startLoop`, `threadFunc`, destructors | owner of the pool, new threads | publication of a stack object; quit before loop; join | returned loops live; all threads are joined |
| Buffer | vector, reader and writer index | `append`, `readFd`, `retrieve*`, `makeSpace` | connections, HTTP parser | bytes moved, vector grown, scattered reads | a FIFO of bytes inside the vector |
| HTTP server and parser | parser state, `request_`, unread bytes | `onMessage`, `parseRequest`, `onRequest`, `HttpRequest` setters | connection and its input buffer | requests cut anywhere; pipelining; bodies; stale headers | answers in order, each for the request as it was meant; nothing after close |
| AsyncLogging, FixedBuffer | two front buffers, filled buffers, backend's spares | `append`, `start`, `stop`, `threadFunc` | all threads, LogFile | buffers change hands under one lock; `back()` of a vector that may be empty | no line lost or overtaken; spares suffice; lines reach the disk |
| LogFile, FileUtil | file, counters, times of the last roll and flush | `append`, `flush`, `rollFile` | the logger's backend | clock read twice; days in UTC and names in local time | flushed in time, rolls when the counter is above the limit, change of day noticed |
| LfuCache, HashLfuCache | node map, frequency lists, minimum, totals | `get`, `put`, `purge` | caller threads, one mutex per slice | minimum kept incrementally, aging of all counts; `purge` takes no mutex | capacity; the least frequent key goes |
| MemoryPool, HashBucket | free list through the slots, current block | `allocate`, `deallocate`, `allocateNewBlock` | caller threads, two mutexes | `freeList_` is written under both mutexes; address arithmetic | a slot has one user; slots inside blocks, apart, none lost |
| HttpResponse | status, body, `closeConnection_` | `appendToBuffer` | HttpServer | a string stream that keeps its text | a client can tell what becomes of the connection |
| Logger, LogStream | a stream per statement, `g_output`, `g_flush`, the process's `struct tm` | constructor, `<<`, destructor, `setOutput`, `setFlush` | every thread | `localtime` shared by threads; a buffer that fills; the least int; `abort` | lines whole and headed by their own time; FATAL lines leave the process |
| Timestamp, CurrentThread, socket options, InetAddress | none of interest | formatting, system calls | | | |
| webbench | third-party load generator | | | | |

Interactions: other threads reach a loop only through `queueInLoop`/`runInLoop` and
`quit`; the loop reaches objects through channel callbacks; a connection reaches the
server through `closeCallback_`, and the server answers through the loops' queues; the
logger's front end and backend share buffers under one mutex.

## 2. Modules

| Module | Models | Composition |
|---|---|---|
| `TaskQueue` | what an EventLoop promises: a FIFO executor | abstract |
| `EventLoop` | EventLoop with foreign threads | implements `TaskQueue` |
| `EventLoopProofs` | theorems about it and about `EventLoopThread` | |
| `TcpServer`, `MCTcpServer`, `TcpServerProofs` | TcpServer, Acceptor, life of TcpConnections, pollers and interest lists, base and I/O loops, destruction; its TLC instance; theorems | composes loops, pollers, connections |
| `TcpConnection`, `TcpConnectionProofs` | data path and owners of one connection, its loop, user threads, peer; theorems | |
| `EventLoopThread` | Thread, EventLoopThread, EventLoopThreadPool, as much of EventLoop as their protocol uses | |
| `ByteQueue` | what a Buffer promises | abstract |
| `Buffer`, `MCBuffer`, `BufferProofs` | Buffer, its TLC instance, theorems | implements `ByteQueue` |
| `HttpServer`, `MCHttpServer`, `HttpServerProofs` | HttpServer, HttpContext, HttpRequest and HttpResponse on one connection; the requests of the TLC instance; theorems | |
| `AsyncLogging`, `AsyncLoggingProofs` | logger front end and backend; theorems about them and about `Logger` and `LogFile` | |
| `Logger`, `MCLogger` | Logger, LogStream and FixedBuffer, used by several threads; the statements of the TLC instance | |
| `LogFile`, `MCLogFile` | rolling and flushing; its TLC instance | |
| `MCLogging` | the TLC instance of AsyncLogging, LogFile and Logger | the three side by side: they share no state |
| `LFU` | LfuCache, as functions of its state | a library of `HashLfuCache` |
| `HashLfuCache`, `MCHashLfuCache`, `HashLfuCacheProofs` | sliced cache; its TLC instance; theorems about it and `LFU` | each slice is a cache of `LFU` |
| `MemoryPool`, `MemoryPoolProofs` | one pool of HashBucket; theorems | |

### How state and steps correspond to the code

**EventLoop.** `pc` is the position of the loop thread in `loop()`; `call[t]` is what
is left of a call of thread `t` (between push and wakeup, between the store of
`quit_` and wakeup). `QueuePush` is the critical section of `queueInLoop`,
`QueueWake` the test and the write after it. `wakeupFd` is the eventfd's counter with
its limit: a write at the limit fails and is only logged. `PollSignalled` is an
`epoll_wait` that returns because of the eventfd, `PollOther` one that returns for
another channel or by the timeout. Callbacks are identities; a handler or callback
that runs is a phase in which the loop thread itself may call the loop.

**TcpServer.** `start` is the step from which peers can connect. Loop 0 is the base loop
and `1..numThreads` the I/O loops, each with a phase, active channels and a queue of
bound member functions. A connection has its state, descriptor and poller index; each
loop has its `channels_` and epoll's interest list, from descriptors to the channels
their entries point to. `updateChannel` and `removeChannel` change these as EPollPoller
does. `alive` says that the object exists, which is decided by `Owned` (map, queued
functors, the running functor or the tied guard), as `shared_ptr` does.
`AcceptConnection` is `Acceptor::handleRead` with all of `newConnection`, including
`getNextLoop` and `runInLoop(connectEstablished)`. Descriptors are the lowest free
numbers, so they are used again at once. Other threads may keep the pointer of the
connection callback (`users`); their `send` and `shutdown` are a test (`Calling`) and a
push (`Queueing`) of a functor bound to the bare `this`, which `RunFunctor` runs on
whatever state the connection then has and `RunStaleFunctor` on one that is gone.
`revived` are the connections whose channel such a `sendInLoop` has put into the poller
after it was taken out. Each loop begins outside `loop()`; `Enter` stores `quit_ =
false`, whether or not `quit()` has come before. `BeginDestroy`, `DestroyConnection`,
`JoinNext` and `EndDestroy` are `~TcpServer` with the destructors of its members.

**TcpConnection.** A message is `MsgLen` numbered bytes; a write takes any number of
bytes the send buffer has room for. User threads run `send` and `shutdown` as test,
store and push, as the code does without a lock. Writing to a reset connection is an
error (the models describe a process in which SIGPIPE is ignored). `HandleEvent` takes
the tied guard; `EventHup`, `EventRead`, `EventWrite` are the branches of
`handleEventWithGuard` with the whole handler. `Alive` is the count of the `shared_ptr`:
the server's map, closes waiting on the base loop, user threads (`held`, until
`Release`), functors bound to `shared_from_this()` (`Keeps`), queued or in the running
batch (`kept`), callbacks and the guard. `ServerDestructs` is what `~TcpServer` does to
one connection: it may still be connected when `connectDestroyed` runs. What runs on the
object after that is undefined behaviour: it is recorded in `touched` and changes
nothing else.

**EventLoopThread.** `main` is the owner's position in `start()` and in the
destructors, `child[t]` that of the new thread. The pool may be destroyed before all
threads have entered `loop()`.

**Buffer.** `buf.mem` is the vector, 1-based in TLA+ and 0-based in `r` and `w`.
`ReadFd` is `readv` into the free space and the 64 kB array (`ExtraSize`), which is
appended afterwards. `MaxReadable` bounds the bytes held.

**HttpServer.** The stream is a sequence of lines, each of two units, text and CRLF, so
that it can be cut inside; a line is a sequence of tokens, and blank, question mark and
colon are tokens of their own, so that `processRequestLine` and `addHeader` split it as
the code does. A request has a method, perhaps a query, a version, headers with blanks
around their values, perhaps a header line without a colon, perhaps a body. A body is any
sequence of texts between CRLFs: since nothing retrieves it, its lines are lines of the
stream, and the parser takes them for requests or headers; what is behind the last CRLF
stands in front of the next request line (`LinesOf`). `request` is `request_`. `OnRequest`
is `onRequest` with the user's callback and `appendToBuffer`; the callback answers 200, 400
or 404 and leaves `closeConnection_` or sets it. Responses are sequences of lines.

**AsyncLogging.** A line is a number and a length; buffers are sequences of lines with
a size. `append` is the critical section; `Swap` is the one of the backend;
`Write`, `EndWrite` and `Recycle` run without the lock. `flushed` counts the lines on
disk, `due` those appended when the backend last found `running_` set. The destructor is
not modelled: see section 5.

**Logger.** A thread that logs is between the call of `localtime` and its last read of
the shared `struct tm`, whose fields it reads one by one (`PrintField`); all else works
on the statement's own buffer and is one step (`Output`). A line is the sequence of its
pieces with their lengths; numbers are the digits `formatInteger` computes with C's
division (`Divided`, `CInteger`). `reached` is how many lines have left the process:
stdio and a custom sink write when they see fit (`SinkWrites`), a flush writes all if it
is of the same sink.

**LogFile.** `now` advances by itself and between the two times `append` reads the
clock. `oldest` is the time of the oldest line in the stdio buffer; `late` counts the
lines that went to yesterday's file. `written` is `writtenBytes_`, which starts at 0 whenever
a file is opened; `size` is how long the open file is: the name is the local date
(`LocalDate`), so a roll on the same date opens the same file to append to it
(`Reopened`). `flush` takes no lock; only the backend thread, which also appends, calls it.

**LFU, HashLfuCache.** The cache is one record, the helpers of the class are functions
on it, and where the code walks an `unordered_map` or uses an uninitialised key they
yield the set of possible results (`kickOut` from an empty list, after which the cache
is `corrupt`). HashLfuCache has a function from slices to such records and applies the
functions of LFU to the slice of the key.
`purge()` takes no lock and is two steps for each slice (`PurgeMap`, `PurgeLists`), between
which other threads put and get. A slice that is filled between the two has keys that are
in no list, and is followed no further (`torn`); that two threads may be inside one
`unordered_map` at once is undefined and not modelled.

**MemoryPool.** Addresses are numbers with unsigned arithmetic modulo `WordSize`. The
build sets no optimisation level, so every access to `freeList_` in the source is an
access to memory and the accesses under its mutex are steps of their own.
`freeList_ = nullptr` in `allocateNewBlock` is done under the other mutex and may come
between any two of them. An object overwrites the link in its slot (`Garbage`).

## 3. Runs

| Run | Instance | Shows |
|---|---|---|
| `loop` | two foreign threads, three callbacks, eventfd limit 2 | `NoLostWakeup`; the loop implements `TaskQueue`; `QueuedRuns` and `QuitStops` without help of the poll timeout |
| `server` | two connections; no I/O loop with one or two descriptors, one or two I/O loops with one; a send or shutdown of another thread in two of the four; destruction at any moment | `NoDanglingChannel`, `PollerConsistent`, `UpThenDown`; under fairness `ClosedIsReclaimed`, `BacklogDrains`, `DestroyEnds` |
| `connection` | two messages of two bytes, a send buffer of one byte, mark 2, one user thread beside the loop's, the server destroyed at any moment | `StreamIntact`, `WritingIffBuffered`, `FinAfterData`, `HighWaterOnce`, `BareThisOnly`; `AcceptedIsWritten`, `ShutdownSendsFin` |
| `threads` | three threads | `LoopsAlive`; `PoolStartsAndEnds`: start() returns, and the destructor does if every loop was entered when it began |
| `threads_lost_quit` | the same | `DestructorReturns` is **violated**: see below |
| `buffer` | up to four bytes in an initial vector of four | `ImplementsByteQueue`, `GrowsOnlyWhenFull` |
| `http` | two of twelve kinds of requests, cut anywhere, pipelined, malformed, with bodies that are text, a request or the beginning of one | `AnswersInOrder`, `ClosesAsTold`; `ReadAnswersNext` |
| `logging` | one of three in each behaviour: AsyncLogging with seven lines and buffers of four bytes; LogFile over seven seconds, days of three, local time one second ahead; Logger with two threads, statements that fill or pass the 4096 bytes, numbers at the limits of int, FATAL | `InOrder`, `SparesSuffice`, `StopKeepsDue`, `AppendedIsFlushed`; `FlushLag`, `CounterBounded`, `DayNoticed`; `LinesWhole`, `FatalReaches` |
| `logger_time` | Logger as in `logging` | `TimeIsOwn` is **violated** |
| `logfile_size` | LogFile as in `logging` | `SizeBounded` is **violated** |
| `lfu` | two slices of capacity 2, four keys, aging at an average above 3, INT8_MAX 3, purges whose clears lie between puts and gets | `WithinBounds`, `ListsMatchMap`, `MinFreqExact`, `EvictsLeastFrequent` |
| `pool` | three threads, two blocks, slots of 32 bytes | `Exclusive` (with `SlotsApart`), `LosesOnlyWithNewBlock` |

Every module has a type invariant (`TypeOK`; `PoolTypeOK`, `LogFileTypeOK` and
`LoggerTypeOK` where a proof module extends several). For EventLoop, Buffer and AsyncLogging it
is a theorem of its own; in the other modules it is a conjunct of the first invariant
of the run, and proved where that is.

### Where the code does not do what it says

`threads_lost_quit`: `startLoop` returns once `loop_` is published. A destructor that
runs before the thread enters `loop()` stores `quit_ = true` and wakes the loop, but
`loop()` begins with `quit_ = false`: the thread loops forever and `join()` never
returns. The comment on `quit()` says the loop quits in its next round.

Late sends: `sendInLoop` logs "disconnected, give up writing" and writes all the
same. A `send` of another thread whose test of `state_` came before the close runs it on a
closed connection; what the socket does not take is buffered, and `enableWriting` puts the
channel into the poller, even after `connectDestroyed` has taken it out. A hang-up then
runs `handleClose` and the connection callback again, and when the other thread lets go of
its pointer `channels_` names a destructed channel. `NoDanglingChannel`, `PollerConsistent`
and `UpThenDown` say how far this goes: they make an exception of such connections
(`revived`) only, and the interest list is right even of these.

`logfile_size`: `LogFile.h` announces a new file above `rollsize_`, and a name with the time
of day. The name is the date, so a roll by size opens the same file again with
`writtenBytes_` at 0, and the file has no limit before midnight. `CounterBounded` is what
holds instead, of the counter.

Bodies: the repository's README.md speaks of GET and POST. Nothing ever retrieves a
body: the branch for `kExpectBody` is empty and the state is never entered. A body is
parsed as the next request; one that is a request is answered as such, another spoils the
request line behind it, which is answered with 400. `AnswersInOrder` therefore speaks of
the requests up to and including the first one with a body.

`logger_time`: `localtime` returns the one `struct tm` of the process. Another thread may
overwrite it before its fields are printed, and a line is headed by a time that is not its
own, or by fields of two times (23:59 and 00:00 as 23:00).

Other things met while modelling. Each is the reason for an exception in a property,
or for the form of an action:

- The repository's README.md claims edge-triggered epoll. No event mask has EPOLLET
  (`Channel::kReadEvent`, `kWriteEvent`), so the poll is level-triggered, and the models'
  polls are. `BacklogDrains` rests on it: `handleRead` accepts one connection for each event,
  and one that fails for want of descriptors is tried again only because it is reported
  again. With edge triggering a connection could stay in the backlog (`AcceptReadyEdge`).
- A `quit()` that comes before a pool loop has entered `loop()` is lost in `~TcpServer` too;
  `DestroyEnds` asks for loops that had entered when the destructor began.
- `queueInLoop` by the loop thread before `loop()` wakes nothing (`early` in EventLoop).
- `~TcpServer` can end with `connectDestroyed` still queued on a loop that has stopped;
  the callback for going down is then never made (`UpThenDown` asks for it only while
  the server runs).
- A late `sendInLoop` or `shutdownInLoop` runs on a destructed connection if its caller
  has let go of its pointer (`lapses` in `BareThisOnly`, `touched` in TcpServer, whose
  behaviours end there).
- `quit()` may write to the eventfd of a loop that has been destroyed, but only of one
  that saw this `quit_` (`LoopsAlive`).
- `onMessage` answers one request for each read event; a request that came in the same
  read waits for more bytes (`ReadAnswersNext`).
- `oss.clear()` leaves the status text in the stream, so a keep-alive response has a
  line "HTTP/1.1 200 Content-Length: n" and no Content-Length header. The model writes
  that line; no property asks for the header, which is missing from every such response.
  Header names are compared with case. A user's own 400 does not close the connection
  (`ClosesAsTold` tells it from the parser's by its text).
- Lines appended after the backend last tested `running_` are not written when it is
  stopped (`StopKeepsDue`). `setOutput` and `setFlush` are called nowhere: nothing in
  the repository connects LOG_* statements to AsyncLogging.
- A line's time ends after the minutes: 17 of its 19 characters are streamed. The
  comment above the LOG_ macros speaks of a level below which nothing is output; there
  is none, and `savedErrno` is always 0. A FATAL line of one thread may be lost in the
  `abort()` of another (`FatalReaches`).
- `count_` of LogFile is not initialised (`CountAtStart` in `DayNoticed`).
- Aging and `purge()` leave `curTotalNum_` as it is, so the total only covers the counts
  (`WithinBounds`). `purge()` takes no lock: a put between its two clears leaves a key
  in the map and in no list, and the next get of it follows a list that is not there;
  the properties of HashLfuCache leave out the slices to which this has happened
  (`torn`). INT8_MAX is both a possible count and the mark for "no list": when aging
  leaves every count there or above, `kickOut` finds an empty list and evicts nothing
  (`MinFreqExact`, `EvictsLeastFrequent`). Slices are rounded up, so together they may
  hold more than the total capacity.
- `allocateNewBlock` clears `freeList_` under the wrong mutex: slots freed in the
  meantime are lost (`LosesOnlyWithNewBlock`) and a thread inside the other mutex may
  follow a null pointer (`pc[t] = "fault"`). The padding is wrong for slot sizes that do
  not divide the range of `size_t` (`SlotsApart`).

### Bounds

Counters are bounded by the sets of identities (callbacks, messages, lines, requests,
connections) or by named bounds in guards (`MaxReadable`, `MaxTotal`, `MaxTime`,
`MaxWritten`, `MaxCount`, `MaxLines`, `MaxMinutes`, `MaxStatements`). They are small but
reach the cases of interest: queues of more than one batch; a descriptor that is used
again while its former owner is still being destroyed; a send of another thread that
runs before, between and after the steps of a close; a message larger than the send
buffer and an output buffer that passes the mark twice; a vector that moves, grows and
reads past its end; four filled log buffers, one more than the backend's spares; aging
that meets counts of 1; two blocks with a free list between them; two statements between
which the minute changes. `MaxTotal` in `lfu` allows a slice to age and to go on, and
`Int8Max` is 3 in place of 127 so that counts reach it. What `setThreadNum` is given and
how many descriptors there are is chosen in the initial state of TcpServer from
`Configs`; two I/O loops share one descriptor, so that its number moves between pollers.
`server` gives it another thread for one connection at most, which makes one call
(`call`). Its graph has to stay small enough for liveness; for more connections,
descriptors and threads its invariants are proved (`TcpServerProofs`). One user thread in
`connection` is enough for a call on each side of a close. `WordSize` is 2^16; like 2^64
it is a multiple of the slot size 32. No run uses symmetry: none needs it.

`CHECK_DEADLOCK FALSE` appears where the system may stop: a destroyed pool or server,
a closed connection, a stopped logger, a client that sends no more, a cache at its
bound, a process that has faulted.

### Fairness

| Module | Assumed | Why |
|---|---|---|
| EventLoop | weak fairness of the loop thread, of `epoll_wait` with a readable eventfd, of calls that have begun | threads are scheduled and callbacks return. Nothing is assumed of the timeout or of other events: a lost wakeup would show |
| TcpServer | weak fairness of each loop and of the destructor's thread | threads are scheduled. Peers and other threads that hold a pointer owe nothing: what they keep is not reclaimed |
| TcpConnection | also of `ServerRemoves` and `PeerReads` | the base loop answers the close callback (a step of TcpServer); an open peer reads, without which TCP cannot make progress |
| EventLoopThread | of the owner and of each thread | scheduling; that the pool is ever destroyed is not assumed |
| AsyncLogging | of the backend | scheduling; its wait has a limit of three seconds |
| HttpServer | of `OnMessage` | the loop thread runs a callback to its end |

## 4. Proofs

Proofs are checked by TLAPS for all values of the constants, under the assumptions
named in the modules.

**EventLoopProofs** (`LoopAssumption`: the loop thread is not one of the others;
`EventfdAssumption`: the counter can hold at least 1). `TypeCorrect` is inductive by
itself. `NoLostWakeup` is not: its part `PendingSignalled` speaks only of a loop about
to block, and says nothing of a push made while callbacks run. `PendingCovered` extends
it to every point but those between the read of the eventfd and the swap, where the swap
is still to come; `LoopShape` ties the flag `callingPendingFunctors_`, the local vector
and the loop thread's own calls to the program counter. Their conjunction with `TypeOK`
and `QuitSignalled` is inductive and gives `NeverLosesWakeup`. `Refinement`: swapped and
pending callbacks concatenated are the abstract queue, so a push appends, a call takes
the head, and the swap, which needs `LoopShape` (the local vector is empty), is a
stutter.

EventLoopThread is proved about in the same module (`ThreadAssumption`: at least one
thread); its specification is `PoolSpec`, and its definitions have names of their own so
that one module can extend both. `LoopsAlive` is about `loop_` and the lifetime of a
stack object, which both follow the new thread's position (`ChildShape`). What makes it
inductive is how far the owner is: `Starting` relates `cur`, the semaphore and the
condition variable to the thread being started, `Ending` says that the destructor has
ended the threads before `cur` and that those after it loop and were not asked to quit.
`AlwaysAlive` follows.

**BufferProofs** (`BufferAssumption`). Lemmas say what copying, resizing, moving down,
scattered reading and retrieving do to the readable piece of the vector; from them
follow `TypeCorrect` (indices in order and inside the vector), `EmptiedIsReset`,
`Refinement` (to `ByteQueue`) and the action property `Growth`.

**AsyncLoggingProofs** (`LoggingAssumption`). `SparesSuffice` speaks of the moment of
recycling only; `SparesAccounted` follows the spares through the whole cycle:
`nextBuffer_` is missing only while a filled buffer waits, so what the backend takes
always replaces what it gives. `TypeCorrect` and `SparesAlwaysSuffice` follow.
For `LinesInOrder` the lines in each place are a run of consecutive numbers: `Ordered`
says that the file, the rest of the batch being written, the filled buffers and the
current one are such runs and that each begins where the one before it ends, so that
handing a buffer over only moves an end. `SparesEmpty` is why a buffer taken from the
spares starts a run, `BatchWritten` and `DueKept` carry the promise of `stop()` from the
test of `running_` to the flush (`StopFlushesDue`). Here the concatenation of the
buffers, which is a fold, had to be computed for any number of buffers: `Flattened`
and the `Chain` lemmas do it with the least counterexample (`LeastNumber`) in place of
induction.

LogFile (`LogFileSpec`) is proved about in the same module, which extends it too
(`LogFileAssumption`; the value of `count_` at the start is arbitrary).
`FlushInTime` needs that the oldest buffered line came after the last timed flush
(`BufferedSinceFlush`); `RollsByDay` that every late line was counted since `count_` was
last zero or uninitialised (`LateCounted`) and that the period is that of the last roll
(`PeriodOfRoll`). `CounterRolls` is inductive with the type invariant.

So is Logger (`LoggerSpec`, `LoggerAssumption`: numbers are of at most 64 bits, so of at
most 20 digits). `FatalAlwaysReaches` needs that a thread on its way to `abort()` has
output a FATAL line, which has left the process once it is flushed (`FatalOut`).
`LinesAlwaysWhole` is about what a line is computed to, for any pieces and numbers:
every line in the output is one that its statement makes (`LogTypes`), and `LineIsWhole`
shows that of any such line. Divisions keep the sign and take one digit each
(`DigitTaken`), so the reversed digits read back as the number (`NumberReadBack`), the
least int too; a piece is either left out because there may be no room for it or written
as something that reads as it (`StreamStep`); and along the pieces (`Streamed`) the size
is that of what was written, what was written is found in the statement piece by piece,
and what is left out shows that the texts and 32 bytes for each number do not fit
together. The folds of the model are functions on 0..n: `StepsExist` shows that there is
one, `Upwards` counts along it, in place of induction.

**TcpConnectionProofs** (`SizesAssumption`). `StreamIntact` and `HighWaterOnce` need only
the type invariant and sequences. `WritingIffBuffered` and `FinAfterData` need
`ConnectedIsOpen`: a state of kConnected means that no handler has closed the connection.
`BareThisOnly` needs who owns the connection: a thread inside a call
has its pointer (`CallersHold`), a functor bound to the bare `this` has a caller that
holds one or let go of it too early (`BareHasHolder`), a registered channel will be
removed (`WillBeRemoved`), `connectDestroyed` is queued by what took the connection out of
the map (`ErasedFirst`, the server's destructor included), and events are of a registered
channel (`EventsOfRegistered`).
The theorems are `StreamKept`, `NeitherSpinsNorStarves`, `ShutdownWaitsForData`,
`OneHighWaterCall` and `OnlyBareThisDangles`.

**TcpServerProofs** (`ConfigsAssumption`: at least one descriptor, and the names for no
channel and for the acceptor are not connections). A connection exists while something
owns it, and nothing that names it may outlive that, while its close travels from its
loop to the base loop and back and its descriptor number is given to the next one. The
invariant is a conjunction of: what the phases of a loop imply (`LoopInv`); a connection
is accepted once (`BacklogInv`); `state_` against `index_` and the callbacks made
(`LifeInv`); only a closed connection has left the map (`MapInv`); descriptors are held
by existing connections and by one each (`FdInv`); owners own what exists and functors
are on the loop, and at the stage, they are for (`OwnInv`); nothing about a connection
is queued before its `connectEstablished` (`OrderInv`); a channel in a poller has a
connection in the map or a `connectDestroyed` to come, which is why it is removed before
the object goes (`KeptInv`); map, interest list and active channels agree with the
channel (`PollInv`); another thread holds what exists and was established (`UserInv`);
and the order of destruction (`EndInv`). `LifeInv` and `KeptInv` except the channels a
late send has put back (`revived`); `PollInv` does not, but that the map may still name
them when they are gone. It gives `NoneDangles`, `IndexTellsPoller` and
`CallbacksInOrder`.

**MemoryPoolProofs** (`PoolAssumption`: addresses from `operator new` are multiples of 8,
blocks do not overlap or reach the end of memory and have room for a slot behind link
and padding, the range of `size_t` is a multiple of 8). `Geometry` keeps the rest of the
current block behind the slots that were cut from it; that the first slot is aligned is
arithmetic of remainders, proved for any sizes. `Exclusive` is not inductive because it
looks only at the slots that `freeList_` leads to, while a pop or a push under way brings
back a list that `allocateNewBlock` has cleared meanwhile. `Chains` speaks of all slots
not in use, the lost ones too: their links do not meet, lead to no slot in use and
carry nothing an object wrote. `Heads` says where the popped or pushed slot stands in its
chain, and `Locking` who may be there. `NoSlotTwice` follows. `Linked` is the least set
closed under links, so that for `LostOnlyWithNewBlock` it is enough that what is reached
after a step has the old pointers and is closed under the old links.

**HashLfuCacheProofs** (`SliceAssumption`: at least one slice, any capacity and hash,
INT8_MAX positive). Lemmas follow one slice through the helpers of the class: taking a
node out of its list, putting one at the end of another, the walk of
`handleOverMaxAverageNum` over the map in any order, `updateMinFreq`, and what a sum of
counts does when one of them changes. `Good` is what every slice satisfies between
operations; with it each of `getInternal`, `putInternal`, `kickOut` and the aging is a
step from a good slice to a good one. Between the two clears of `purge()` a slice is
`Halved`: its map is empty, so every get misses (`GetMisses`) and a put tears it
(`torn`); the second clear makes it good again (`ListsCleared`). `AlwaysWithinBounds`,
`ListsAlwaysMatch` and `MinFreqAlwaysExact` are parts of `Good`; `LeastFrequentEvicted`
is the action property, which needs that the head of the list of the exact minimum is a
cached key.

**HttpServerProofs** (`HttpAssumption`: what a request and a header are).
`AlwaysClosesAsTold` needs that the connection is up exactly while no response has
closed it, and what `appendToBuffer` writes. `AlwaysInOrder` needs where the parser is
in the stream: `Read` says that the units given so far and the state of the parser are
those of a prefix of the lines of the requests, and the parser between two requests,
behind the first h headers of a request with these h read, at a complete request, or
about to meet the blank line that a header line without a colon has left (`Stage`). Once
a request with a body has been answered nothing is claimed (`Lost`, which lasts:
`LostStays`); as long as that is not so, no request answered had one (`NotLost`), so the
lines are those of the heads. The lemmas say where each request's lines lie in the
stream (`FlattenPlaces`, `BlockLines`), what `processRequestLine` makes of a good, a bad
and an empty line (`GoodLine`, `BadLine`, `EmptyLine`), that `addHeader` finds the field
and the trimmed value whatever the blanks (`HeaderRead`), and that the last header of a
name wins (`ComesMeaning`).

Every invariant, action property and refinement that a passing run checks is proved. Only
model-checked: the leads-to properties (`QueuedRuns`, `QuitStops`, `ClosedIsReclaimed`,
`BacklogDrains`, `DestroyEnds`, `AcceptedIsWritten`, `ShutdownSendsFin`, `AppendedIsFlushed`,
`PoolStartsAndEnds`, `ReadAnswersNext`), because fairness and ENABLED are out of the
prover's reach.

One remark on the prover: the translation of tlapm 1.4.5 to SMT has an axiom by which a
value has the domain 1..n exactly if its length is n, whatever the value. Together with
the axiom that lengths are naturals it contradicts functions with other domains, such as
those on 0..n, so an obligation that mentions both lengths and such functions could be
proved for the wrong reason. All proofs here have therefore been checked a second time
with that axiom weakened to one direction (what has the domain 1..n has the length n),
under which they hold as well.

## 5. Not modelled

Timestamp's and InetAddress's formatting, socket options, webbench (third party), the
application callbacks in the examples. Of the modelled parts: an `epoll_ctl` that fails
for want of memory, growth of poll's event list (what does not fit is reported by the
next poll), `receiveTime_`, failing `fopen`, a stdio buffer that fills up, `~MemoryPool`
and sizes above MAX_SLOT_SIZE, a put or get inside one of the clears of `purge()`
(undefined behaviour of `unordered_map`) and what a slice does after a put between them,
the caller's duty to keep a string passed to `send` from another thread alive, SIGPIPE,
a user's own Connection header in a response, `~AsyncLogging` (it calls `stop()` and
does not join; `~Thread` detaches, so the backend goes on with the mutex and the buffers
of a destructed object: `stop` in the model is that of an object that lives on, as long
as its backend), `setOutput` while other threads log (a race on a `std::function`).

## 6. Plan

Done, in this order: EventLoop with its proofs; TcpServer; TcpConnection; Buffer with
its proofs; AsyncLogging with its proofs; EventLoopThread; LFU and HashLfuCache;
HttpServer; MemoryPool; LogFile; then interest lists in TcpServer, ownership in
TcpConnection, the request and the response in HttpServer, counts at INT8_MAX in LFU,
stop() in AsyncLogging, and Logger; then calls of other threads and loops not yet
entered in TcpServer, its destructor in TcpConnection, file names in LogFile, bodies in
HttpServer and the two steps of purge() in LFU.

Then proofs: EventLoopThread, TcpConnection, LogFile, TcpServer, the order of lines in
AsyncLogging, MemoryPool, LFU and HashLfuCache, Logger, and HttpServer.
