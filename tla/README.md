# QG-Server: a TLA+ verification project

QG-Server is a C++ network server built as *one event loop per thread*: a base
loop accepts connections and hands each to one of several io loops; loops talk
to each other only by queueing functors; an HTTP layer sits on top. This
directory holds TLA+ models of its core, the TLC configurations that check them
on small instances, and TLAPS proofs of the central claims. Paths are relative
to the repository root, `src/`; nearly all code is in `src/src/`.

## 1. Inventory

| Part | Source | State | Operations | Modelled in |
|---|---|---|---|---|
| EventLoop, Waker, Queue | `core/event_loop.{h,cpp}`, `util/block_queue.h` | queue of functors, pipe, handlers | `addFunctor`, `wake_up`, `loop`, `handlePendingFunctors` | `EventLoop`, `TaskQueue` |
| Pollpoller | `core/poll/Pollpoller.cpp` | vector of `pollfd`, map from descriptor to handler, index in each handler | `registerHandler`, `updateHandler`, `removeHandler`, `Wait` | `Pollpoller`, `Poller` |
| EventHandler | `core/event_handler.{h,cpp}` | interest mask, result mask, index, callbacks | `enable*`, `disable*`, `HandleEvent` | `Reactor` |
| TcpConnection | `core/tcp_connection.cpp` | socket, `write_buf_`, `disconnected_`, loop | `handleRead`, `handleWrite`, `writeInLoop`, `close`, `handleClose`, `closeConnection` | `TcpConnection` |
| Accepter, Server | `core/accepter.{h,cpp}`, `core/server.cpp` | connection counter and high water, map of connections | `handleRead`, `handleNewCon`, `handleConnectionClose` | `Server` |
| LoopThread(Pool) | `core/loop_thread*.{h,cpp}` | `loop_`, threads, round-robin position | `startLoop`, `getNextLoop` | `Server` (round robin) |
| Read/write helpers | `util/rwtool.h` | none | `read`, `write`, `readFile` | system call by system call in `ByteStream`, outcome in `TcpConnection` |
| Timers | `base/timer*.cpp`, `util/time_stamp.*` | heap, `next_time_` | `runAt`, `runAfter`, `runEvery`, `handleTimer`, the wait of `loop` | `TimerQueue`, `TimerHeap`, `TimerService` |
| HTTP server and context | `core/http/*` | parser, request | parser callbacks, `handleMessageCome`, `defaultHandleRequest`, `handleWriteComplete` | `HttpServer`, `HttpContext` |
| http-parser | `lib/http-parser/http_parser.c` | state, flags, lengths | `http_parser_execute`, `http_parser_parse_url` | `HttpParser`, `HttpUrl` (requests) |
| Router, KqueuePoller, SyncEventDemultiplexer, ThreadPool, AtomicInt | various | | | not part of the running program |

**Interaction.** A loop's thread is the only one that touches its handlers and
its connections. Everything that crosses threads is a functor in the target
loop's queue, followed by a byte in that loop's pipe. A connection's life crosses
threads three times:

    base   Accepter::handleRead: accept, construct, put into Server's map,
           queue handleConnection on the io loop
    io     handleConnection: register with the poller, read, write, ...
           handleClose: disable all events, queue handleConnectionClose on base
    base   handleConnectionClose: erase from the map, queue closeConnection on io
    io     closeConnection: decrement the counter, removeHandler; the functor's
           shared_ptr is the last one, its destruction closes the descriptor

There are two exceptions to the rule of confinement: the Accepter's counter, a
plain `int` written by the base thread and by io threads, and LoopThread's
`loop_`.

**What is hard here.** Wake-ups lost between a push and a poll; a pipe that is
full; functors left behind by a connection that is gone (`write` binds a plain
`this`); a close reached twice in one event; descriptors that the kernel reuses
at once; a result mask that is never cleared; swap-and-pop removal with indexes
held elsewhere; admission control by a racy counter; connections that must be
flushed and then released; a client that sends or reads between two system calls
of one helper; requests cut into reads anywhere, or two of them in one read; a
parser that is reset before it is asked; a timer that expires between two
readings of the clock. `PROJECT.json` lists these under `hazards`, each at
its line, with the properties that cover it.

**What makes each part correct.** The loop: no functor is stranded, each runs
once and in order. The poller: exactly the handlers whose events happened are
returned, and its three data structures agree. The connection: nothing is
called on it after its destruction, it is taken down exactly once, and it is
taken down if its client closes; bytes arrive once, in order, both ways. The
server: a descriptor has one owner, the number of connections is bounded, each
client is answered. The timers: each runs, not before its time, the earliest
first, and the loop wakes for it. HTTP: the request the application sees is the
one that was sent, however it was cut; nothing illegal is answered; a legal
request is answered once, and what ends the process is known.

## 2. Modules

| Module | What it is |
|---|---|
| `TaskQueue` | abstract: functors handed to a loop run once each, in order |
| `EventLoop` | one loop, its queue, its pipe and the threads that add functors |
| `EventLoopProofs` | TLAPS proofs about `EventLoop` |
| `Poller` | abstract: interest per registered handler; a poll returns exactly the ready ones |
| `Pollpoller` | the vector, the map and the indexes |
| `PollpollerProofs` | TLAPS proofs about `Pollpoller` |
| `Reactor` | loops as connections see them: poll, dispatch, batch of functors |
| `TcpConnection` | extends `Reactor`: callbacks and functors of a connection, the client, the kernel's socket |
| `Server` | extends `TcpConnection`: accepter, map, hand-over, close, lifetime of objects and descriptors |
| `ServerProofs` | TLAPS: the types of `Server`, and what a step does to the queues of functors |
| `ServerLifeProofs` | extends it: the life of a connection, what follows for any program, and what for programs that use the server in a certain way |
| `ByteStream` | one connection, system call by system call, over numbered bytes |
| `ByteStreamProofs` | TLAPS proofs about `ByteStream` |
| `SequenceFacts` | lemmas the proofs share: least numbers and induction, concatenation, prefixes, `FlattenSeq` |
| `TimerService` | abstract: pending timers run when due, the earliest first |
| `TimerHeap` | the binary heap, as functions on sequences |
| `TimerQueue` | extends `TimerHeap`: `next_time_`, `handleTimer`, the wait of `loop`, a moving clock |
| `TimerQueueProofs` | TLAPS proofs about `TimerHeap` and `TimerQueue` |
| `HttpUrl` | `parse_url_char` and `http_parser_parse_url` |
| `HttpContext` | extends `HttpUrl`: how callbacks put a request together |
| `HttpParser` | extends `HttpContext`: `http_parser_execute` for requests, one action per group of states |
| `HttpServer` | extends `HttpParser`: reads, answers, functors, files, the client |
| `HttpProofs` | TLAPS proofs about `HttpServer` and the parser |
| `MCEventLoop`, `MCPollpoller`, `MCServer`, `MCTimers`, `MCHttp` | instances for TLC (`ByteStream` needs none) |

### EventLoop

`queue_` is `pending_functors_->queue_`, `functors` the local batch of
`handlePendingFunctors`, empty outside it, `pipe_` the number of bytes in the Waker's pipe and
`adding` the threads that are between the push and the write of `addFunctor`
(lines 83 and 84 of `event_loop.cpp`). The mutex makes `push` and `pop_all`
atomic, nothing makes `addFunctor` so; `Push` and `WakeUp` are two actions.
`WakeUp` adds one byte, or none when the non-blocking pipe is full (the result
of `write` is ignored); `HandleRead` takes one. `PopAll` swaps, `RunFunctor`
runs and pops. The loop's own thread may add from a handler or from a functor.
A functor is its ticket: the k-th push pushes k, and `ran` records what ran.
The Waker's handler comes first in `ess`: its `pollfd` is registered by the
loop's constructor, is at index 0, and removal never moves that element.
With `PipeWaker = FALSE`, `WakeUp` is that of `Waker<EpollPoller>`: nothing.

### Pollpoller

`fds` is the vector (1-based), `index_` and `ievents_` the handlers' own fields,
`event_handler_map_` the map. `kernel` is the environment: the events each
descriptor had at the last poll. `WaitFails` is a poll that returns -1: the
code logs and walks the vector all the same. `EventLoop::updateHandler` asserts
that the handler is registered, so `UpdateHandler` is guarded by it; so is the
removal by an empty mask, because both callers (`handleClose` before
`closeConnection`, and `~Waker`) disable first. Polls may happen in between.

`Poller` is read through the mapping `interest[h] = fds[index_[h] + 1].events`
for the registered handlers: it is the *vector* that must hold what each
handler asked for, at the index that the handler remembers. After a failed poll
the events of the poll before are still in the vector, so `Wait` returns
handlers that have nothing to do (the log of line 86, "remove the revents",
notwithstanding); the abstract `Fail` allows that, and only for handlers that are
registered and ask for something.

### Reactor, TcpConnection, Server

A thread's position is `at[l]`, with the connection it works on in `cur[l]`.
`HandleEvent` is two steps, the read half and the write half, each with the
test of `revents_` against `ievents_` at the time it runs; `revents_` only
grows, as `setREvents` only or-s. Handlers of one poll are dispatched in any
order. Functors are records of the operation and the connection; a functor
keeps its shared_ptr until it is *popped*, one step after it has returned.
`Todo(l)` are the functors that loop l has still to run: its batch, without the
one that has returned, and then its queue.

Bytes are counted. `inbox` is what the kernel holds for the server, `sndbuf`
what it holds for the client, up to `SndCap`; `write_buf_` is the connection's
own. `Delivers` is the outcome of `handleRead`'s loop around `qg::read`: a count
above zero, unless the last read filled the buffer and the next one found
nothing, in which case -1 replaces the count. A write to a broken socket kills
the process (SIGPIPE is not ignored; `data.substr(-1)` throws): `crashed`.

A connection is `Alive` while a shared_ptr to it exists: in `connections_`, in
a functor other than `writeInLoop`, or on the stack of `handleNewCon`. Its
descriptor is in use exactly as long, and `accept` returns the lowest one free.
Increment and decrement of the counter are a load and a store each.

What an application does in its callbacks is a parameter: `OnConnect`,
`OnMessage` and `OnComplete` are subsets of nothing, write and shutdown. The
HTTP server's own behaviour is among them (write on a message; shutdown or
nothing on completion).

### ByteStream

The echo server of `src/test/test_server.cpp`, on the loop that serves its one
connection. The client numbers its bytes, so that one that is lost, repeated or
out of place can be told. Every `::read` and `::write` is a step of its own and
the client may send, finish or read in between. `buf`, `qcnt` and `cnt` are the
locals of `handleRead` and `qg::read`, `out` and `wcnt` those of `qg::write`.
Three situations make the code go wrong, and the model remembers each of them:

* `again`: bytes come between two calls of `qg::read` in one `handleRead`, and
  `buf`, which is not cleared, is added to `read_buf_` a second time;
* `exact`: reads fill the buffer and then find nothing, and the -1 of EAGAIN
  takes the place of the count, so that the bytes are dropped;
* `drains`: the client makes room between two calls of `::write` in one
  `qg::write`, which then starts over at the beginning of its buffer: bytes are
  repeated, and the count may pass the size, which `substr` answers with an
  exception.

The properties say that outside them nothing goes wrong. `writePolls`, which no step
changes, is the build's mask for write events (see the assumptions below): the run
and the proofs cover both. Without write events what the first full socket leaves in
`write_buf_` stays there (`Stuck`); `Echoed` and `Flushed` say that this is all that
is lost, and the run `server_flush` shows what it does to the connection.

`KeptOpen` and
`OutboundFaithful` also fix what the sticky `revents_` costs: once a write event
has been polled, the next one runs `handleRead` too, which finds nothing and sets
`disconnected_`; later messages are then dropped whole, never in part, and the
descriptor stays open until the client finishes.

### Timers

Time is in microseconds, scaled down (`PerMilli`, `PerSecond`), and `Now` is cut
to whole seconds as `TimeStamp::Now` is. The clock may move between any two
steps, in particular between `handleTimer` and the second reading in `loop`;
`late` marks a poll that began after the clock had passed `next_time`. `ToInt`
is the conversion to the `int` of `poll`. `TimerService` is read through
the mapping that gives each timer in `heap_` its time and interval. The swaps of
`up` and `down` are written as one function of the path they follow.

### HTTP

Text is a sequence of symbols, where a symbol is one character or a run of them
that the parser's tables take along one path (the rest of a keyword). Six methods
cover the branches of the method states. `http_parser_execute` is an action per
state or group of states, `p` runs over the data of one read, marks become
positions, and what a callback macro does at the end of a read
(`CALLBACK_DATA` on open marks) is part of the returning action. `Width`,
`UllongMax`, `MaxPort` and `MaxHeaderSize` stand for 16 bits, `ULLONG_MAX`,
65535 and the limit of the head.

`HttpServer` takes any prefix of what is unread as one read, runs the parser,
and follows `handleMessageCome`: check for an error, answer if the message is
complete, reset. Files may be removed at any time, also between `stat` and
`readFile`. The write and the write-complete callback are functors of the loop,
which may read the next request in between.

`ReadsUnseen` says that reads leave no trace in a request: what has come in of it,
delivered or still marked (`Seen`), grows by the symbols that the parser takes and
by nothing else, wherever reads end, and what it has grown to is what is handled.
It is about `request_url`, the headers and the body; the URL's *fields* are not
among them, as the first point below shows.

What the model shows of the code, as premises of its properties: a URL that is
split between reads has its fields appended again, or aborts the process if the
first part is not a URL (`split`); two messages in one read lose what follows the
first, or abort on a second body (`mixed`); a last header with an empty value is
not kept; a URL longer than its 16-bit offsets is cut at the wrong places; a
directory or a file that has just been removed ends the process in `readFile`; a
second request on a connection may be answered on a socket that was shut down after
the first answer. **A legal CONNECT request always ends the process**: line 70 of
`http_context.cpp` tells `http_parser_parse_url` that the method is not CONNECT, the
URL `host:port` is then refused, and line 72 aborts. `MCHttp` has such a request
(`Connect`), labelled legal; `PlainAnswered` excludes the method. `EndsOnlyFor` is
the complete list of the ways in which the HTTP layer ends the process (`ByteStream`
has one of its own, the exception of `substr`), over all streams and cuts, mixed reads, split URLs, directories and removed files included.

### Modelling assumptions

* In `TcpConnection` one call of `qg::read` or `qg::write` sees one state of the
  socket; what happens when the socket changes inside is `ByteStream`'s subject.
  In `HttpServer` the socket takes every answer at once.
* `poll` reports only events that were asked for. POSIX allows POLLHUP and
  POLLERR besides; on Darwin, the one system on which the sources build (they
  include a kqueue header unconditionally), a descriptor with an empty mask is
  not watched at all, and a hang-up comes together with readability.
* `WritePolls` (`writePolls` in `ByteStream`) says what `kEventWrite` is. TRUE is the Linux branch
  of `event_handler.h`, EPOLLOUT, which equals POLLOUT; but with it the sources do
  not compile. FALSE is the other branch, the one that builds: `POLL_OUT` is a code
  of `siginfo_t`, its value 2 is the bit POLLPRI, and poll never reports
  writability, as no client sends urgent data. Liveness is claimed for FALSE:
  `LetGo` and `Served` are checked with it, `Echoed` and `Flushed` with both values,
  and `Released`, which is what the comment in `handleRead` demands, is shown to
  fail with it. Safety is checked with both values and proved for both;
  `server_two_clients` has TRUE, where `handleWrite` runs and more can happen.
* `PipeWaker = TRUE` is `Waker<PollPoller>`, the one the program uses. With
  `FALSE`, the empty epoll Waker, `EveryFunctorRuns` does not hold: a functor
  added to a blocked loop waits for another event.
* `OnComplete` leaves out a write. A write from the write-complete callback may
  be queued behind a `closeConnection` and then finds a dead `this`; no program
  of the repository makes one.
* In `Reactor` a non-empty queue lets `Wait` return. This is what `EventLoop`
  establishes, as `NoLostWakeup` and `EveryFunctorRuns`.
* After a failed poll `Wait` dispatches on the events of the poll before. This is
  modelled in `Pollpoller`, not in `Reactor`, whose polls succeed.
* The test of the admission check and the load of the counter's increment are one
  step of `Server`. Only decrements by other threads could come between; one that
  does could as well have come before the test, which then passes too.
* The second reading of the clock and the start of the poll are one step of
  `TimerQueue`: a poll that starts later ends later by as much.
* The error callback, which nothing sets, and urgent data are left out.
* A timeout is a `Wait` that may return without an event in `EventLoop`; its
  computation is in `TimerQueue`.
* Timers are added by the loop's own thread, with positive intervals: with an
  interval of 0 `handleTimer` would never return.

## 3. Runs

| Run | Configuration | Checks | Shows |
|---|---|---|---|
| `event_loop` | `EventLoop.cfg` | `TypeOK`, `NoLostWakeup`, `RunsInOrder`, `EveryFunctorRuns`, `WakesDrain`, `ImplementsTaskQueue` | no functor is stranded behind a blocked poll, although bytes are dropped and taken one at a time |
| `pollpoller` | `Pollpoller.cfg` | `TypeOK`, `Consistent`, `DisabledIsQuiet`, `ImplementsPoller` | `Wait` returns exactly the ready handlers, through any registration history; vector, map, indexes and masks agree even if polls fail; the assertions of lines 40-42 and 84 hold |
| `server_lifecycle` | `ServerLife.cfg` | `TypeOK`, `NoDangling`, `LetGo`, `Served` | three clients, writes and shutdowns on connect, no write events: every client is accepted or denied although a denial ends the accept loop; a connection whose client has closed is let go, unless bytes are stuck in `write_buf_` |
| `server_two_clients` | `ServerTwo.cfg` | `NoDangling`, `ClosesOnce`, `FdsDistinct`, `NeverDisplaced` | two clients that send, close and reset, on one io loop with write events: nothing outlives its connection, which closes once, and a reused descriptor never meets its former owner's entries |
| `byte_stream` | `ByteStream.cfg` | `TypeOK`, `InboundFaithful`, `OutboundFaithful`, `KeptOpen`, `CompletionTrue`, `Echoed`, `Flushed` | outside the three situations above bytes go through once and in order, both ways; a connection is kept open and then flushed, up to what is stuck where write events are not polled; a completion is queued exactly when all is with the kernel |
| `timers` | `Timers.cfg` | `TypeOK`, `HeapOrdered`, `NextTimeIsTop`, `WakesForTimer`, `TimersRun`, `ImplementsTimerService` | the heap and `next_time_` agree through adds, runs and repeats, also from callbacks; the loop wakes for the earliest timer unless it expired between two readings of the clock; timers run, in order and not before their time |
| `http_requests` | `HttpRequests.cfg` | `TypeOK`, `AssertionsHold`, `RequestWhole`, `UrlWhole`, `OnlyLegalAnswered`, `EndsOnlyFor`, `PlainAnswered`, `ReadsUnseen` | legal and illegal requests, cut into reads at every place: the parser's assertions hold, where reads end leaves no trace in a request, what is handled is what was sent, nothing illegal is answered, a plain request is answered once, and the process ends only for the listed reasons |

Runs that are expected to find a disagreement between the code and what its
comments, messages or documents say:

| Run | Property | What TLC finds |
|---|---|---|
| `server_counter` | `AdmissionBound` | an increment and a decrement overlap, one is lost, and admission exceeds the bound, which already allows for the `>` of the test |
| `server_read_zero` | `ReadZeroMeansClosed` | a request that fills the read buffer exactly is counted as nothing and the open connection is closed |
| `server_flush` | `Released` | with `POLL_OUT` for `kEventWrite` what a partial write leaves is never sent and the connection never closed, though its client has closed and reads; the loop spins on its read events |
| `http_keep_alive` | `LastMessageIsLast` | the parser is reset before the write-complete callback asks it about keep-alive: a request sent after one with `Connection: close` is parsed and handled too, and its response queued behind the completion that shuts the socket down |
| `timers_wait` | `WaitIsRemaining` | the clock passes the earliest timer between `handleTimer` and the second reading, and the absolute time is taken for the time to wait |

Why `NoDangling` holds is worth knowing: `write` called from a message or connect
callback queues its plain `this` *before* any close of the connection can be
queued, and the queues are FIFO. From a write-complete functor it could be queued
after one.

### Bounds

* Event loop: two threads and the loop's own, a pipe of 2 bytes, 4 functors: more
  functors than the pipe has room for, so that bytes are dropped.
* Pollpoller: four handlers over three descriptors, one event. Three entries
  are the first, a middle and the last of the vector; the fourth handler reuses
  a descriptor. A removed handler is never registered again (its index stays
  non-negative, and `registerHandler` asserts that it is negative).
* Server: segments of 1 and 2 bytes against `ReadSize = 2` (a full and a partial
  read), a response of 2 bytes against a send buffer of 1 (a partial write).
  `MaxSends` bounds what one client sends. Two clients suffice for what one
  connection's close can do to another and for the reuse of its descriptor. In
  `server_lifecycle` the high water is 0, so that one connection is admitted, the
  second client denied, and the third left in the backlog by the denial; clients
  send nothing there, writes come from the connect callback. In `server_counter`,
  with a high water of 1, four clients are needed for the lost update to show above
  the bound.
* Clients are interchangeable; that symmetry is used in safety runs only.
* Bytes: 5 bytes against a read buffer and a send buffer of 2: full and partial
  reads and writes, messages that are appended to a non-empty `write_buf_`, and
  two rounds of each. `MaxDrains = 2` lets the client make room twice within one
  `qg::write`, which is enough for the count to pass the size.
* Timers: four of them, so that the heap has three levels and `down` has to choose
  between children; two milliseconds to a second and an `int` of 15, so that one
  of the times given to `runAt` does not fit; a clock that crosses the boundary of
  a second twice.
* HTTP: 153 streams, chosen so that every state of the request parser
  and every error of it is reached: URLs with each subset of fields, hosts with
  user, port and zone, headers with empty, folded and repeated values, lengths
  and chunks with trailers, two messages in a row, lengths at the limit of
  `UllongMax` and heads at that of `MaxHeaderSize`. Each is cut into any number of
  reads at any places.

Deadlock is not checked in the server, byte stream and timer runs: with all
clients gone every loop blocks in poll for good, a crashed process takes no step,
and the bounded clock stops. It is checked for HTTP, where only a stream that has
been read to its end, or a process that has ended, may rest.

### Fairness

Weak fairness of each loop thread and, in `EventLoop`, of a pending `wake_up`:
a thread that can run is scheduled in the end. `Wait` returning for a timeout
or for other events is *not* fair, nor is a new functor or a new client: nothing
in the code promises them. `Released`, `LetGo` and `Served` also assume that a client
keeps reading what it is sent (weak fairness of `ClientRead`), without which no
server can flush; so do `Echoed` and `Flushed`. `TimersRun` assumes that the clock
advances and that a poll returns when its timeout is over, which the kernel
promises; other events are not fair there, so a timer must run though nothing
else happens.

## 4. Proofs

For every value of the constants, checked by TLAPS:

| Module | Theorem | States |
|---|---|---|
| `EventLoopProofs` | `TypeCorrect` | `EventLoop`'s types |
| | `WakeupNotLost` | `NoLostWakeup`, when the Waker is the pipe |
| | `OrderKept` | `RunsInOrder` |
| | `LoopRefines` | `EventLoop` implements the safety part of `TaskQueue`, with either Waker |
| `PollpollerProofs` | `PollTypeCorrect`, `PollConsistent`, `PollQuiet` | `Pollpoller`'s types, `Consistent` and `DisabledIsQuiet`, whether or not polls fail |
| | `PollerRefines` | `Pollpoller` implements `Poller` |
| `ServerProofs` | `TypeCorrect` | `Server`'s types |
| `ServerLifeProofs` | `InvHolds` | the inductive invariant |
| | `TakenDownOnce`, `OwnDescriptors`, `MapKept` | `ClosesOnce`, `FdsDistinct`, `NeverDisplaced`, for any callbacks |
| | `NoneDangles` | `NoDangling`, if the write-complete callback does not write |
| | `AdmissionBounded` | `AdmissionBound`, if there are no io loops |
| `ByteStreamProofs` | `InvHolds`, `TypeCorrect` | the inductive invariant; `ByteStream`'s types |
| | `Inbound`, `Outbound` | `InboundFaithful`, `OutboundFaithful` |
| | `StaysOpen`, `Completion` | `KeptOpen`, `CompletionTrue` |
| `TimerQueueProofs` | `InvHolds`, `TypeCorrect` | the inductive invariant; `TimerQueue`'s types |
| | `HeapKept`, `NextTimeRight`, `WakesInTime` | `HeapOrdered`, `NextTimeIsTop`, `WakesForTimer` |
| | `Refines` | `TimerQueue` implements `TimerService` |
| `HttpProofs` | `InvHolds`, `TypeCorrect` | the inductive invariant; the types of `HttpServer` |
| | `Assertions` | `AssertionsHold` |
| | `Unseen` | `ReadsUnseen` |
| | `NoOverflow` | a length that passes the test against overflow takes another digit without wrapping, in base 10 and 16 |

Assumptions are those of the modules' `ASSUME`s, which TLC evaluates in every
run: the pipe holds at least one byte, the loop's thread is not one of the
others; each handler has one descriptor and `None` is no handler; descriptors are
positive numbers and `None` is none of them; buffers and messages hold at least one
byte; a second is a whole number of milliseconds, the clock starts after 0, and
intervals are positive; a client's stream is a sequence of the symbols of the model,
and `ULLONG_MAX` is above 16. Two theorems have a hypothesis besides:

* `NoneDangles` assumes that `OnComplete` leaves out "write". Every program of
  the repository meets it: the echo server's write-complete callback only prints
  (`src/test/test_server.cpp`), that of the HTTP server shuts down or does
  nothing. Without it the property is false, as section 2 explains.
* `AdmissionBounded` assumes `IoLoops = <<>>`, a server on one thread. With io
  threads the counter loses updates; that is the run `server_counter`. The bound
  allows one connection more than the high water, for the `>` of the test.

The theorems are about `Safety`, the specification without its fairness, and so
hold of `Spec` as well; `HttpServer` has no fairness, and its theorems are about
`Spec`. Each inductive invariant was checked with TLC on the
instances of section 3 before it was proved.

**WakeupNotLost.** `NoLostWakeup` speaks of `at = "wait"` only and is not
inductive: a step into `wait` has to know that the queue is empty or a byte is on
its way. `WakeInv` says that a non-empty queue always comes with a byte in the
pipe, a caller about to write one, or a loop on its way to `pop_all`. The
critical step is `HandleRead`, which may take the last byte: it leaves the loop
in `dispatch`, before `pop_all`. A dropped byte is harmless because the pipe is
full, hence not empty. The order of dispatch and `pop_all` within a round is what
carries the proof; reading the byte after `pop_all` would break it.

**OrderKept, LoopRefines.** `RunsInOrder` is inductive with `TypeOK`, which says
that the batch is empty outside `run`: otherwise `PopAll`, which replaces the
batch, could drop functors.
The refinement reads the abstract queue as `functors \o queue_`; `PopAll` is
then a stutter and `RunFunctor` the abstract `Execute`.

**Pollpoller.** `PollInv` is the conjunction of the three properties. None is
inductive alone: that `Wait` returns handlers needs `Consistent`, and
`Consistent` after a removal needs descriptors to be unique in the vector, which
follows from the indexes (`FdUnique`). `RemoveStep` follows each position of
the new vector back to the one it came from. The refinement needs one fact more,
`Fresh`: a handler that was never registered asks for nothing.

**Server.** The proof never looks at batches and queues apart, only at `Todo`:
`Moves` says that in one step some loops run the first functor they have to run
and at most one functor is added behind those of one loop (`MovesStep`). On top
of that, `Life(c)` says of each connection by itself

* `Placed`: its functors are on its own loop, except `handleConnectionClose`,
  which is on the base loop; its handler and its entry in the map are under its
  own loop and descriptor;
* `Built`: while the Accepter constructs it, nobody else knows it;
* `Entered`: while `handleConnection` is to run, nothing else is for it;
* `Closed`: a closing functor is alone, and with it the handler is registered,
  asks for nothing and counts as disconnected; the map still has the connection
  exactly if that functor is `handleConnectionClose`;
* `Kept`: a registered connection is in the map or has a `closeConnection` ahead.

`ClosesOnce` is a part of `Closed` and not inductive: that a second close cannot
be queued takes the empty interest mask (no further event) together with
`disconnected_` (no further close from a functor). There is a lemma for each way
in which a step changes the life of its connection (`ConstructLife`, `EnterLife`,
`ConnectLife`, `WorkLife`, `BeginCloseLife`, `EraseLife`, `RemoveLife`), one that
all other connections are left alone (`OtherLife`), and then each action is one
of these steps. `ThreadInv` and `BacklogInv` tie the threads' positions and the
backlog to it, and `FdInv` says that connections that are alive have different
descriptors; `accept` returns a descriptor that no connection alive has, and every
entry of the map or of a poller is of one alive. `NoDangling` needs `WriteInv`: a
queued `writeInLoop`, which holds a plain `this`, is ahead of any
`closeConnection` of its connection, which is either in the map or has that
functor queued. `AdmissionBound` needs `CountInv`: the counter is the number of
connections not yet closed, and a load that has not been stored yet is current.

**ByteStream.** `InboundFaithful` and `OutboundFaithful` are equations between
concatenations, and true in every state; what they lack is why each step may take
its bytes where it does. `PlaceInv` ties the thread's position to its locals,
`EventInv` has write events asked for exactly while bytes wait and a completion
owed exactly then, `FunctorInv` says which functors may be queued, `ReadInv` that
`qg::read` has counted what is in `buf`, and `WriteInv` that a partial write has
filled the socket, so that `::write` is not called twice unless the client makes
room. The bytes in queued functors are a `FlattenSeq` over the queue;
`SequenceFacts` shows what that function computes (`FlattenIs`), and from it how
it changes when a functor is queued, run, or carries nothing.

**Timers.** `up` and `down` are recursive functions over places of the heap.
Both are chains: a timer moves on from a place in a set `Go` to the next, and a
number falls with every step. From that alone follows that `rest` and `path` exist
(`RestsExist`, `PathsExist`), that the path is a way on which each place has one
place before it (`Ways`), and that the swaps along it permute the places
(`Sources`). Given the way, that `addTimer` leaves a heap is a case analysis on a
place and its parent: on the way, at its end, or beside it (`UpOrders`). `popTimer`
runs `down` while the last timer is at both ends of the vector, and then drops
the last place; that place holds, in either case, the copy (`LeftPermutes`). `Pops`
does not assume that the top timer is in order, because `handleTimer` restarts a
repeating timer while it is still at the top. `NextTimeIsTop` speaks only of the
moments when the loop reads `next_time_`. Its invariant, `NextInv`, adds that
`next_time_`, if it is known, is never after *any* timer in the heap: that is what
keeps `addTimer`, which moves it only for a new first timer, and `handleTimer`,
which moves it only forward, from leaving it wrong. `WakesInTime` is arithmetic
from there: the clock is cut to seconds, the wait to milliseconds, and an `int`
that can hold the wait keeps it. The refinement maps the heap to the set of its
timers with their times; adding, running the top and the return of a callback
are steps of `TimerService`, everything else is a stutter.

**HTTP.** `Inv` is the conjunction of four parts:

* `Cursor`: the position is inside the data of the read, or one past its end;
* `Marks`: while the parser runs, *exactly* the text of its state is marked, and
  no mark is past the position; between reads nothing is marked;
* `ParserOk`: what each state's assertions need has been made true by every step
  into that state, and lengths and `nread` keep their ranges;
* `RequestOk`: a read that ended inside a header's name has delivered the first
  part of it (`last_header_element` is FIELD), so that the next read adds to that
  name; and FIELD is found only there, or where no header has come, which is why
  the uninitialised `last_header_element` of a new request does no harm.

`AssertionsHold` is not inductive: "at most one mark is set" does not survive a
step that sets one, unless it is known that none was set, and which one may be
set depends on the state. `Marks` is what carries both theorems. A request is
spread over the request record and the pieces still marked, and `Seen` puts the
two together; `ReadsUnseen` says how `Seen` grows (`Grown`), as a function of the
symbols taken and of the states before and after, in which the end of a read does
not occur. Given `Marks`, every step of the parser is of one of a few kinds: it
stays inside a text, opens one, closes one, ends the headers or the message, takes
a piece of a body, or takes nothing; there is a lemma for each kind, and each
action is shown to be of one of them. At the end of a read `EndOfData` delivers
the open piece and `OpenMarks` opens it again at the beginning of the next read:
both leave `Seen` as it is. Once in error `http_parser_execute` returns at
once; for then the theorem says that nothing further is handled.

**Induction.** The library's induction theorems take an operator as parameter
and cannot be instantiated here. `LeastNat` and `SetInduction` in `SequenceFacts`
have a *set* of numbers instead, which the provers can; all inductions over
sequences and heaps in these proofs go through them.

## 5. Model-checked only

Liveness (`EveryFunctorRuns`, `WakesDrain`, `LetGo`, `Served`, `Echoed`,
`Flushed`, `TimersRun`, and the fairness part of `ImplementsTaskQueue`) is outside
the prover's reach. Of `HttpServer`, `RequestWhole`, `UrlWhole`,
`OnlyLegalAnswered`, `EndsOnlyFor` and `PlainAnswered` are checked with TLC only:
they compare what the server makes of a stream with the meaning that the instance
gives along with each stream (whether it is legal, its URL, headers and body). To
prove them would take a grammar of HTTP and an induction over what it generates.
What is proved, `ReadsUnseen`, takes the cuts out of them: what a request grows to
depends on its symbols and the states they lead through, for all streams; TLC then
shows for the listed streams that these are the right ones.

## 6. Not modelled

* Router: nothing calls it (`handleMessageCome` calls `defaultHandleRequest`).
* KqueuePoller (not selected by `event_loop.h`), SyncEventDemultiplexer (not in the
  build), ThreadPool (never instantiated, and does not compile), AtomicInt (unused).
* `http-parser`'s responses, bodies that end with the stream (no request has one),
  the non-strict build, `http_parser_pause`, and the methods beyond six.
* The start-up of loop threads: `LoopThread::loop_` is read before it is set.
* Socket options, address conversion, formatting of time stamps and of responses,
  logging, and the demo programs other than the echo server.

## 7. Plan

Done: the loop and its promise, the poller and its promise, the composition of
connections, accepter and server, the bytes of a connection, the timers and their
promise, and HTTP with its parser; proofs of the safety properties of all of these,
for HTTP those that do not depend on the meaning of a stream. Next, in this order:

1. **Start-up** of `LoopThread`.
2. **A grammar** of requests, so that `RequestWhole` and `OnlyLegalAnswered` can be
   stated without a list of streams.
