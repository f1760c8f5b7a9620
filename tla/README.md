# A verification of cppweb

cppweb is a C++ network library of the reactor kind: one `EventLoop` per
thread, channels for the descriptors it watches, TCP connections, servers and
clients built on them, timers, and a thread pool. This directory holds TLA+
specifications of its core, the TLC configurations that check them on small
instances, and proofs that TLAPS checks for instances of every size.

All line numbers are those of the files under `src/cppweb/`.

## 1. Inventory

| Part | State | Operations | Interacts with |
|---|---|---|---|
| `EventLoop` | `m_quit`, `m_pendingTasks` (mutex), `m_activeChannels`, the eventfd `m_wakeupFd` | `loop`, `runInLoop`, `queueInLoop`, `wakeup`, `quit`, `handleRead` | every other part: it calls their handlers, they queue closures |
| `Epoller` | the epoll descriptor, `m_events` (array that doubles) | `poll`, `updateChannel` | `EventLoop`, `Channel`, the kernel |
| `Channel` | `m_events`, `m_revents`, `polling`, `m_tie` | `enable…`, `disable…`, `handleEvents` | `Epoller`; owned by connection, acceptor, connector, timer queue |
| `TCPConnection` | `m_state`, `m_outputBuffer`, `m_inputBuffer`, its channel | `send`, `shutdown`, `forceClose`, `stopRead`, `startRead` from any thread; `handleRead/Write/Close/Error` on the loop | loop, channel, buffer, server or client (close callback), the application |
| `TCPServerSingle`, `Acceptor` | `m_connectionSet`; the listening socket | `start`, `newConnetction`, `closeConnection`; `listen`, `handleRead` | loop, connections |
| `TCPServer`, `EventLoopThread` | the loops of the threads, one `TCPServerSingle` each | `start`, `startInLoop`, `runInThread`; `startLoop`, destructors | starts and stops loops across threads |
| `TCPClient`, `Connector` | `m_connected`, `m_retryTimer`, `m_connection`; its socket and channel | `start`, `retry`, `newConnection`, `closeConnection`; `start`, `handleWrite` | loop, timers, connection |
| `TimerQueue`, `Timer` | `m_timers` ordered by time, the timerfd; time, interval, canceled | `addTimer`, `cancelTimer`, `handleRead` | loop |
| `Buffer` | a vector, `m_readerIndex`, `m_writerIndex` | `append`, `prepend`, `retrieve`, `readFd`, `makeSpace`, `swap` | connection |
| `ThreadPool` | `m_taskQueue`, `m_running`, two condition variables | `runTask`, `stop`, `takeTask` | stands alone |
| `Logger`, `InetAddress`, `Singleton`, `Callbacks`, `Timestamp` | – | formatting and wrappers | – |

What is hard in it:

* **Across threads**: `queueInLoop` pushes and wakes in two steps while the loop
  polls, swaps and runs; `quit` does the same with a flag; `forceClose` and
  `shutdown` exchange `m_state` under the loop's feet; two condition variables
  serve the pool; a loop is started in one thread and used from another.
* **Callbacks inside callbacks**: a handler may queue, close, send, add or cancel
  a timer while the loop is in the middle of the list it belongs to.
* **The kernel**: partial writes, EAGAIN, reset and half-closed peers, level
  triggered events, what `epoll_ctl` refuses.
* **Object lifetime**: shared pointers in closures, the tie of a channel, raw
  `Timer*` and `this` in others.

What makes each part correct:

* *EventLoop*: no closure, and no `quit()`, is slept through; closures run once
  and in the order they were queued, from whichever thread; no ready channel starves.
* *TCPConnection*: bytes of one sender leave in order and once; whatever is
  buffered is waited for; the FIN comes after the data; the close is noticed,
  happens once, and precedes the destruction.
* *ThreadPool*: no worker sleeps through a task, no submitter through a free
  place; a task is taken once; `stop()` returns and loses nothing.
* *TimerQueue*: the timerfd is armed early enough, however the system clock is
  set; each `Timer` is deleted once and not used afterwards; a due timer runs.
* *Buffer*: it is a queue of bytes; indices stay in order; memory is bounded.
* *TCPServer*, *EventLoopThread*: whoever starts a loop gets it; no connection
  waits in a backlog for ever; every loop is quit and joined, and none is used
  after it is destroyed.
* *TCPClient*: an attempt to connect is always waited for; the timer retries
  until there is a connection, and what is called a connection is one.

## 2. Plan

| Order | Modules | Composes | State |
|---|---|---|---|
| 1 | `TaskQueue`, `EventLoop`, `EventLoopProofs` | `EventLoop` implements `TaskQueue` | done |
| 2 | `Channel`, `TCPConnection` | connection = channel + the promise of `TaskQueue` | done |
| 3 | `ThreadPool` | – | done |
| 4 | `TimerQueue` | uses the promise of `EventLoop` | done |
| 5 | `ByteQueue`, `Buffer`, `BufferProofs` | `Buffer` implements `ByteQueue` | done |
| 6 | `EventLoopThread`, `TCPServer` (with `TCPServerSingle`, `Acceptor`) | the server's threads are those of `EventLoopThread`; connections as tokens | done |
| 7 | `TCPClient` (with `Connector`) | connector, retry timer, channel, the kernel's socket | done |
| 8 | `ThreadPoolProofs`: `TypeOK`, `TakenOnce`, `TasksHaveTakers`, `PlacesHavePushers` | counting over `FiniteSetTheorems` | done |
| 9 | `SetInduction`; `TimerQueueProofs`: `TypeOK`, `ArmedForFirst`, `OwnedOnce`, `NothingFails` | least elements, from the well-foundedness of finite sets | done |
| 10 | `TCPConnectionProofs`: `TypeOK`, `FinAfterData`, `BufferedIsAwaited`, `AssertionsHold`, `WirePrefix` | | done |
| 11 | `TCPServerProofs`: `TypeOK`, `NotifiedHasLoop` for any number of workers | | done |
| 12 | `TCPClientProofs`: `TypeOK`, `AttemptIsWatched`, `RetriesUntilConnected` | | done |
| 13 | `IntsReadBack` in `BufferProofs` | induction and recursion of `SetInduction` | done |
| 14 | The tokens of `TCPServer`: a connection is in one backlog or one set, for any number of loops | | open |

## 3. The modules

### EventLoop (and TaskQueue)

`pc` says where the loop thread is. One iteration of `loop()` (lines 73–88) is
`Poll` (or `PollInterrupted`), one `HandleWakeup` or `HandlerReturns` per active
channel, `SwapTasks`, one `RunTask` per closure, `LoopTest`. The application's
code appears as `Callback`: while a handler or a closure runs it may queue the
closures of one of `Posts`, call `quit()`, and make any set of channels ready or
not (that covers `updateChannel`, reads and new connections). The other threads
have `QueueInLoop` and `Quit`, each leaving the thread in `"wakeup"` until
`WriteWakeup`, the `::write` on the eventfd. The counter of the eventfd is
represented by whether it is zero. `Poll` takes any set of ready channels that
`epoll_wait` may return with an array of `maxEvents` entries.

`TaskQueue` is the abstract specification: one queue, run from the front. The
refinement maps it to `tasks \o pendingTasks`, the batch and what is pending.

### Channel

Operators on a record: `events` is `m_events` (only the bits something tells
apart), `polling` the flag of the Epoller, `interest` what the kernel was last
told. `DisableRead` and `DisableWrite` translate `m_events |= ~EPOLLIN` and
`m_events |= ~EPOLLOUT` as they are: every other bit is set, nothing is cleared.
Among the bits is `EPOLLEXCLUSIVE`, which `epoll_ctl` refuses to modify to, so
the kernel keeps the interest it had (`EpollCtl`).

### TCPConnection

One connection accepted by a `TCPServerSingle`, from the end of
`newConnetction` (line 24) to the destructor. `Poll` is `handleEvents` with its
tie, `callbacks` what `handleEventsWithGuard` still has to call, and `HandleError`,
`HandleInput`, `HandleReadError`, `HandleEnd`, `HandleWrite` those callbacks.
Calls on the loop thread (`LoopSend`, `LoopShutdown`, …) run their closure at
once, as `runInLoop` does. A call from another thread is several steps: the test
of `m_state` (`BeginSend`, `BeginShutdown`, `BeginForceClose`), the exchange
(`Exchange`), `queueInLoop` (`Push`); `RunClosure` then runs it on the loop. Of
the loop it uses only what `EventLoop` promises. `refs` counts holders of a
`shared_ptr`; closures that captured one hold it too (`Held`), those of `stopRead`
and `startRead` do not. `sock` is the kernel's socket, external: room in the
send buffer, data and FIN or RST of the peer, SO_ERROR. A byte is identified by
its sender and its number, and `InOrder` says of a sequence of them that it holds the
first bytes of each sender, once and in order.
`failed` names an assertion that failed: the process is then gone and no step follows.

### ThreadPool

Threads are at places (`pc`): a worker at `"test"` (line 65), `"take"` (about to
lock in `takeTask`), `"notEmpty"` (waiting), `"run"`; a submitter at `"push"`
(about to lock in `runTask`), `"notFull"`. What is done under the mutex is one
step; a notified thread is again about to lock. `stop` is the stopping thread:
the busy loop, `m_running = false`, `notify_all`, the joins, each a step. With
`Nested` tasks call `runTask` themselves.

### TimerQueue

`timers` is `m_timers` (pairs of time and object, ordered as `std::set` does).
There are two clocks: `now`, the system clock, in which timers are kept, and the
countdown `left` of the timerfd (`readable` when it has expired), which
`TimerfdSet` computes from the difference and which then goes on by itself
(`Tick`). `SetClock` sets the system clock, back or forward; `ahead` remembers by
how much it went forward, for `ArmedForFirst` only. The system clock stops at
`MaxTime`, the timerfd does not, so that every time asked for is reached.

`Poll` puts the timerfd among the active channels; handlers of other channels that come
before it in that poll may still add and cancel timers, and set the timerfd again.
`handleRead` is `HandleRead` (take what has expired, whatever the read of the timerfd
gave), then per entry `RunTimer` and,
after the callback, `AfterRun`, then `Rearm`; between `RunTimer` and `AfterRun` the
callback may `Add` and `Cancel` timers. Other threads queue the closures with
`PostAdd` and `PostCancel`, and `RunClosure` runs them. `Destroy` is `~TimerQueue`; a
timer whose adding closure was never run stays behind.

The raw `Timer*` lets callers cancel only what `MayCancel` says they can know to be
live. That is not enough, and `CancelFails` names the outcome: `failed` becomes
`"canceled in its batch"` when `handleRead()` holds the pointer and will use it,
`"canceled after it ran"` and `"canceled before it was added"` when the closures
of other threads come in that order. The process is then gone.

### Buffer (and ByteQueue)

A buffer is a record of cells and two indices, each operation an operator on it,
and the actions apply them to named buffers, `swap` to two. `Contents` is what is
readable; `ByteQueue` with `bytes` mapped to it is the abstract specification.
Integers are converted as the code does: most significant byte first
(`ToBytes`), and back (`PeekInt`), in a byte of `Base` values. `Power` is defined by
recursion instead of `^`, which the provers know nothing about. A call whose
assertion fails sets `failed`. The guard of `PrependData` is what a caller can
see, `prependableBytes()`; the assertion of `prepend()` asks for 8 more.

### EventLoopThread and TCPServer

`EventLoopThread` is one thread and the one that starts and stops it.
`startLoop()` is `StartThread`, `Sleep` (the caller is `"sleepy"` until it is in the
wait set), `Return`; the new thread does `StoreLoop`, `Notify`, `LoopTest`, and `Wake` when
its eventfd is readable. None of these steps holds the mutex together with the
other side, because the code of the thread does not take it: a notification
that comes while the caller is `"sleepy"` is lost, which `missed` remembers for
`Overslept`. `Spurious` wakes a waiter for nothing. `quit()` is two steps, `SetQuit` and
`WriteWakeup`, between which the loop may see `m_quit`, return and be destroyed
(`LoopEnds`): `failed = "dead loop"`.

`TCPServer` is a program: its main thread starts loops of `EventLoopThread`
(`Side`), starts the server (`MainStarts`, or `CallStart` on another thread and then
`RunStart` on the base loop), creates the workers one after the other (`CreateWorker`,
`TestPointer`, which is the `while` around the wait of `startInLoop`; the base loop's
thread is `"blocked"` in it and serves nothing meanwhile), runs the base loop, and on its end `~TCPServer` (`QuitWorker`, `JoinWorker`, `DestroyServer`) and the
`EventLoopThread`s (`StopLoop`). A worker is `runInThread`: `StoreLoop`, `NotifyServer`,
`StartWorker`, the loop, `EndWorker`.

Each loop of the server has an acceptor (`listening`, `watching`) and a set of
connections. `Arrive` puts a connection on the backlog of one listening socket,
as `SO_REUSEPORT` does; `HandleRead` is one `accept4()`: a connection
(`newConnetction`), one that was aborted, EMFILE, or the error that is FATAL. What a
connection does until `CloseConnection` is `TCPConnection`, so here it is a
token that takes a descriptor. `DestroySingle` fails when a connection is open or
the acceptor never listened.

An event and the test of `m_quit` after it are two steps of a loop, but a poll
reports one event only. A poll of several behaves like several polls of one
whose tests of `m_quit` all fail, which the model has, since nothing but `quit` and
`eventfd` is shared between a loop and the one that stops it.

### TCPClient

The client, its connector, the retry timer, the channel (operators of `Channel`)
and the kernel's socket, all on one loop. `Poll` takes any order of what is ready
(the timerfd, the connector's channel) into `batch`, and `HandleTimer`,
`HandleConnector` and `HandleWrite` handle it, while the socket goes on changing
(`AttemptEnds`, `PeerResets`). `Start` and the timer's callback `retry()` call
`ConnectorStart`: `ConnectResult` says what `::connect()` returns in each state of
the socket, which is one and the same for all attempts, and `AfterConnect` what it
does to it. An attempt that failed leaves SO_ERROR (`soError`), which whoever
comes first of `getsockopt` and the next `connect` reads and clears; an
established socket answers the next `connect` with success, a socket reset after
that with EISCONN for ever. `HandleWrite` takes the absence of an error for a
connection, as the code does (`NewConnection`: cancel the timer, `m_connected`); `conn`
is then `"up"` whatever the socket is, and `TrulyConnected` tells whether it is connected.
`CloseConnection` ends a connection; the code does not start another attempt
afterwards, and neither does the model. `Destroy` is `~TCPClient` and `~Connector`.

## 4. The runs

| Run | Instance | Shows |
|---|---|---|
| `loop` | 2 threads, 2 channels, 2 closures, array of 1 event, 2 pending | `NoLostWakeup`; `RunsTasksInOrder` (refinement); `TasksAreRun`, `QuitStops`, `ReadyIsHandled` under fairness |
| `connection` | 1 thread that sends, loop that sends, shuts down, force-closes; each sends 2 messages of 2 bytes, room for 1; 3 queued closures | `WirePrefix`, `BufferedIsAwaited`, `AssertionsHold`, `FinAfterData`, `BufferDrains` |
| `connection_calls` | 1 thread with `send`, `shutdown`, `forceClose`, `startRead`; loop with `send`, `stopRead`; both notification callbacks | `FinAfterData`, `PeerCloseIsReported`, `ForceCloseCloses` |
| `pool` | 2 workers, 2 submitters, 3 tasks, 1 place, nested submits | `TasksHaveTakers`, `PlacesHavePushers`, `TakenOnce`; `StopReturns`, `QueuedIsTaken` unless stuck |
| `timers` | 3 timers, one repeating every 2 ms, times of 0 to 2 ms, the system clock set once, 1 queued closure | `ArmedForFirst`, `OwnedOnce`, `NothingFails`, `TimersRun` |
| `buffer` | 2 buffers, 1 reserved and 1 initial cell, 3 readable bytes, bytes of 2 values | `IndicesInOrder`, `MemoryBounded`, `IntsReadBack`, `KeepsBytes` (refinement) |
| `server` | the base loop, 1 worker, 1 loop of `EventLoopThread`; `start()` by the main thread and another; 2 connections, 1 descriptor | `NotifiedHasLoop`; `StartReturns` unless `Overslept`; `QueuedIsAccepted`, `StopReturns` |
| `client` | 1 client | `AttemptIsWatched`, `RetriesUntilConnected`; `ConnectsAtLast` when the peer stays up, unless `Mistaken` |
| `client_retry` | 1 client | refutes `UpMeansConnected` |
| `drained_write` | loop that sends | refutes `HandleWriteHasData` |
| `force_close` | thread that force-closes | refutes `DestroyedWhenClosed` |
| `pool_stop` | 2 workers, 1 submitter | refutes `AllTakenAtStop` |

`CHECK_DEADLOCK FALSE` is set because each system may really stop: the loop
returns after `quit()`, a connection is destroyed, the pool is stopped, the clock
of the model ends, an assertion ends the process.

**Bounds and why they are enough.** `MaxPending`, `MaxQueue`: two closures are
needed for one to overtake or hide another, and for a batch to be followed by
the next (one in `timers`, where a closure meets handlers and callbacks). Two threads: one between its push and its wakeup while the other
pushes. An array of one event with two channels and the wakeup makes the loop
fill and grow it. Messages of two bytes with room for one make every write
partial; two messages of each of two senders, one on the loop thread and one that
queues its closures, make a later `send()` meet the rest of an earlier one of the
same sender in the buffer, on its way there in the queue, or gone, with the other
sender's bytes before, between or behind them. A second sending thread would queue
closures like the first; the theorems cover any number. In `connection_calls` one message each is enough: it is about the
calls and the closes. A queue of one place is
full and empty after one step; two workers and two submitters make each
notification meet a waiter, a thread on its way, or nobody. Two pending timers
beside the repeating one make one expire while another is run, canceled or
queued, and a clock set once, by one or two milliseconds, meets every state of
the timerfd. Two connections and one descriptor make `accept4()` fail while the
other is open, on the same loop or on the other one. One worker beside the base
loop makes each wait, notification, quit and join meet each step of the thread;
the worker and the `EventLoopThread` differ in the test before the wait, and
a second worker would only wait its turn (`startInLoop` creates them one by one).
The client needs no bound: its state is finite. Three readable bytes with one reserved cell make the buffer grow, move,
and split a read between the vector and `extrabuf`.

**Fairness and why the code justifies it.** The loop thread is weakly fair:
`loop()` never blocks but in `epoll_wait`, which returns when something is ready,
and callbacks are taken to return. A thread that has entered `queueInLoop()` or
`quit()` finishes it. In `TCPConnection` and `TimerQueue` queued closures are
strongly fair, which is what `TasksAreRun` shows of the loop: it runs them between
polls however many events come. The peer is assumed to go on reading, for
`BufferDrains` only; nothing else is asked of it. In `ThreadPool` a thread that
can go on does, tasks return, and the mutex is not withheld for ever from a
thread although `stop()` spins on it. Time passes in `TimerQueue`. In `TCPServer`
the main thread and each loop's thread go on, through the events of the loop
too: a thread is scheduled, and an acceptor's event is reported again until it is
handled (`ReadyIsHandled` shows that of the loop). In `TCPClient` the loop goes on,
time passes and an attempt to connect ends, as TCP's own timeout sees to; that
the peer is up for good is the hypothesis of `ConnectsAtLast` only. No
application has to call anything.

**Seeded faults.** Beside the definitions are operators commented "Seeded fault":
the code with a plausible mistake (a wakeup forgotten, a test off by one, an
update that does not reach epoll). No action uses them; replacing the
definition by its fault makes the run fail, which shows that the property can.
`PROJECT.json` pairs them.

## 5. What the checks found

* `Channel.hpp:31,32`: `disableRead()` and `disableWrite()` do not disable. After
  the output buffer has drained once, EPOLLOUT is reported again and
  `handleWrite()` fails its assertion `readableBytes() > 0` (`drained_write`). With
  NDEBUG it writes nothing for ever. After `stopRead()` the same mask makes
  `isWriting()` true without EPOLLOUT ever being asked for: what is sent then is
  buffered and stays there (that is why `stopRead` is not in the instance that
  checks `BufferedIsAwaited` and `BufferDrains`), and reading does not stop.
* `TCPConnection.cpp:122`: the test and the exchange of `forceClose()` are two
  steps, and the exchange overwrites `kDisconnected` (`force_close`). With calls
  from the loop thread alone it does not happen (`AssertionsHold`).
* `TCPConnection.cpp:106`: `shutdown()` asserts what a caller on another thread
  cannot know: the peer may have closed by then (`failed = "shutdown"`, which
  `AssertionsHold` allows).
* `TCPConnection.cpp:144`: the closure of `startRead()` does not look at `m_state`; run
  after the close it registers the channel again, and the next event fails the
  assertion of `handleRead()`. In `connection_calls` those runs end in `failed`,
  and the properties hold up to there.
* `ThreadPool.cpp:35`: `stop()` can lose a task that was being submitted
  (`pool_stop`). And when tasks submit tasks to a full queue, all workers can
  block in `m_notFull`; `stop()` then does not return (`Stuck`, the exception in
  `StopReturns` and `QueuedIsTaken`).
* `TimerQueue.cpp:87,99`: a canceled timer is deleted at once, and `handleRead()`
  asks `isCanceled()` of it afterwards when it was in the batch that is being run
  or is the running one. And a pointer to a timer that runs once is not safe
  to cancel from another thread at all (exceptions of `NothingFails`).
* `TimerQueue.cpp:31`: times of the system clock are counted down on another
  clock. No timer is lost by setting the clock, and none runs early; timers are
  late by as much as the clock was set forward (`ahead` in `ArmedForFirst`).
* `Buffer.hpp:186`: `prepend()` may not use the 8 bytes reserved for it. The model
  has the failure (`failed = "prepend"`); `IndicesInOrder` allows that assertion and
  no other.
* `EventLoopThread.cpp:23`: `startLoop()` waits without a predicate, and the thread
  notifies without the mutex: a notification before the wait is lost and
  `startLoop()` does not return; a spurious wakeup makes it return `nullptr`.
  `TCPServer.cpp:63` tests before it waits, but loses a notification between the
  test and the wait, and with it the base loop. `StartReturns` shows that
  nothing else goes wrong.
* `TCPServer.cpp:25`: `quit()` of a worker may write to the eventfd of a loop that has
  seen `m_quit` in the meantime and is destroyed (`failed = "dead loop"`).
* `TCPServerSingle.hpp:29`: a server destroyed with open connections, or never
  started, ends in a failed assertion or in `epoll_ctl` for a channel that is not
  there (`"open connection"`, `"never listened"`).
* `Connector.cpp:50`: a failed attempt is taken for a connection when the
  `connect()` of the retry has read its error first (`client_retry`). The timer is
  canceled then and there is no other attempt: a client may stay without a
  connection to a peer that is up for good. That is the exception `Mistaken` of
  `ConnectsAtLast`; without it TLC refutes the property. An error that is still there
  for `handleWrite()` is no exception: a client that ignored it would violate the property.
* `TCPClient.cpp:49`: when the `connect()` of `retry()` finds the connection
  established, the retry timer is canceled in its own callback. `Destroy` with an
  open connection leaves a closure that calls the client (`TCPClient.cpp:25`). A
  socket reset between success and its notice reports EISCONN for ever. All are
  further exceptions of `ConnectsAtLast`. `Connector.cpp:24` closes a descriptor that
  the connection has closed already, which a model with one socket cannot show.

## 6. The proofs

`EventLoopProofs` proves for any sets of threads, channels and closures, any
initial array and any bound, from `LoopAssumption` (the wakeup channel is not one
of the others, `Posts` are sequences of closures, the array is not empty):

* `TypeCorrect`: `Safety => []TypeOK`.
* `WakeupNeverLost`: `Safety => []NoLostWakeup`. `NoLostWakeup` alone is not
  inductive: when `LoopTest` goes from `"run"` to `"poll"` it needs that the wakeup of
  closures queued during the batch is still there, which holds because nothing
  reads the eventfd while `pc = "run"`. `LoopInv` adds that a batch is left over only
  while it runs.
* `ImplementsTaskQueue`: `Safety => RunsTasksInOrder`. `SwapTasks` maps to a stutter
  because the batch is empty when it happens (`LoopInv`), `TakeTask` to the run
  of the front of the whole queue (lemmas `TailOfConcat`, `FrontRuns`).

`BufferProofs` proves for any buffers, any byte and data, any reserved and
initial size and any bound on what is readable, from `BufferAssumption`:

* `ImplementsByteQueue`: `Spec => KeepsBytes`.
* `StaysInOrder`, `StaysSmall`, `TypeCorrect`: `Spec => []IndicesInOrder`,
  `[]MemoryBounded`, `[]TypeOK`.
* `IntsAreReadBack`: `Spec => []IntsReadBack`, for integers of any number of bytes
  (the run has 1 and 2, the code 1, 2, 4 and 8), in bytes of any number of values.

All five rest on one inductive invariant, `IInv`: each buffer is `Good`, that is in
order, within the bound on readable bytes, and within its size. The middle part
is what `MemoryBounded` lacks to be inductive: the vector grows only if
the free cells in front are fewer than the bytes to come (`MustGrow`), so its new
size is less than the reserved bytes plus twice what is then readable
(`SmallGrowth`). Under the invariant there is one lemma per operation, on
records and without states (`RetrieveTakesFront`, `EnsureMakesRoom`, `PutBehindAdds`,
`AppendAddsBehind`, `PrependAddsInFront`, `ReadAddsBehind`), each saying that order is kept and
what becomes of the readable bytes; the steps (`AddingStep`, `RetrieveStep`,
`SwapStep`) only cite them. That the move in `makeSpace()` never needs the vector
to be larger, and that `readFd()` glues the two parts of a read together, are
`EnsureMakesRoom` and `ReadAddsBehind`.

`IntsAreReadBack` adds arithmetic. After `i` bytes `peekInt()` has the quotient of the
number by `Power[n - i]` (`BytesAreNumber`, by induction on `i`), because dividing by a
product is dividing twice (`DivisionTwice`); what `n` bytes give in the end is the
integer or its two's complement, and only one of them is in `Ints(n)`
(`TwosComplement`). `Power` and the function in `PeekInt` are defined by recursion; that
functions with such equations exist is `RecursiveFunction`.

`SetInduction` holds what those proofs and `TimerQueueProofs` need of the naturals: a set
of them has a least element (`NatHasLeast`, from the library's theorem that
inclusion of finite sets is well-founded, applied to the intervals `1 .. n`),
induction (`NatInSet`) and recursion (`RecursiveFunction`), in terms of sets and
functions. The library states them of operators, to which the installed
provers cannot apply them.

`ThreadPoolProofs` proves for any finite sets of workers and submitters, any
tasks and any size of the queue, from `PoolAssumption` (workers and submitters
are different threads, there is a worker, a task and a place):

* `TypeCorrect`: `Safety => []TypeOK`, which bounds the queue.
* `NoTaskSleptThrough`, `NoPlaceSleptThrough`: `Safety => []TasksHaveTakers`,
  `[]PlacesHavePushers`. With the types each is inductive as it stands; the proof is
  counting. `Moves` says that one thread changes its place, `MoveChangesTwo` and
  `CountMoves` what that does to the number of threads at each place, `CountNotify`
  what `notify_one()` does; each action is one such move, followed in `Push` and
  `TakeTask` by a notification (`NextEnough`).
* `TaskTakenOnce`: `Safety => []TakenOnce`, from the stronger `Once`: a task is not
  submitted yet, or with one submitter, or at one place of the queue, or taken.

`TimerQueueProofs` proves for any timers, intervals and bounds, from the assumption of
`TimerQueue`:

* `TypeCorrect`, `TimerfdArmed`, `TimersOwnedOnce`, `AssertionsHold`: `Safety => []TypeOK`,
  `[]ArmedForFirst`, `[]OwnedOnce`, `[]NothingFails`.

All four are parts or consequences of `TimerInv`. What has to be added is `Owned`: an entry
that `m_timers`, the batch or the running callback holds has the time its timer
has (`when`), the timer is live and no closure is still to add it; each live
timer is in one of these places or in a closure that adds it; one that is
queued to be canceled is live or has run for the last time; no closure is
queued twice for one timer; and outside a callback nothing is `current`. Without
the last part two of the outcomes of `CancelFails` would overlap. `First` is a
`CHOOSE`; that every non-empty set of entries has a first one is `FirstIsLeast`.

`TCPConnectionProofs` proves for any threads, messages, marks and bounds:

* `TypeCorrect`: `Safety => []TypeOK`. Inductive once it is added that only whole messages
  are sent and that a thread inside `send()` has room for one more (`CallsOK`).
* `FinComesAfterData`: `Safety => FinAfterData`, whatever is called from wherever. By
  `AddsOrCloses` each step only adds to `m_events`, or is `handleClose()`; so
  buffered bytes have `isWriting()` true until the server lets go of the connection
  (`WritingInv`), and `shutdownInLoop()` tests that.
* `BufferedBytesAwaited`: `Safety => []BufferedIsAwaited` if nobody calls `stopRead()`. Until
  the first refused update the kernel has `m_events`, and it keeps the interest
  it had then, which has EPOLLOUT (`InterestInv`). `stopRead()` sets EPOLLOUT in `m_events`
  in an update that is refused, so without the hypothesis it is false.
* `AssertionsDoHold`: `Safety => []AssertionsHold` if other threads only send and no
  callback calls `startRead()`. The server has let go only of a connection that is
  `kDisconnected` (`DownInv`), whose channel is out of epoll and of whose callbacks none
  closes or reads (`ClosedInv`). The hypotheses exclude what section 5 says of
  `forceClose()` and `startRead()`.
* `WireHasPrefixes`: `Safety => []WirePrefix` if other threads do not call `shutdown()` or
  `forceClose()`. The stream, that is the wire and then the buffer, is in order
  and ends, of each sender, where what is queued goes on and the queue ends where
  its `send()`s have come to (`Orderly`). This holds while the connection is open
  and not broken (`OrderInv`); afterwards nothing is written. Without the
  hypothesis it is: an exchange of `m_state` after the close makes `sendInLoop()` write
  again, around what is still in the buffer.

`TCPServerProofs` proves for any number of workers, other loops, callers of `start()` and
connections, from `ServerAssumption`:

* `TypeCorrect`: `Safety => []TypeOK`, which says more than types: one closure of `start()` at
  most, no channel watched whose socket does not listen, and no loop quit twice
  (`failed` has no such value). The latter needs that a loop which was quit, other
  than the base loop, has a caller on its way to join it (`ThreadsOK`).
* `NotifiedReturnsLoop`: `Safety => NotifiedHasLoop`, from `Stored`: whoever is about to
  notify, or was notified, has its pointer stored. `AllMoves` says of every step
  that at most one thread changes its place and at most one caller changes its own.

`TCPClientProofs` proves with no assumption (`TCPClient` has no constants; TLC visits all
its states, and the proof shows why they are right):

* `TypeCorrect`, `AttemptsAreWatched`, `RetriesGoOn`: `Safety => []TypeOK`, `[]AttemptIsWatched`,
  `[]RetriesUntilConnected`. `ClientInv` adds that the connector's channel is either `Off` or
  `On`, that attempts are watched between polls too, that SO_ERROR is only set for a
  socket without an attempt under way (`Watched`), and that nothing is handled before
  the client has been started (`Retrying`).

With these every safety property that a passing run checks, invariant or
action property, is a theorem too. The inductive invariants were model-checked
before they were proved.

Only model-checked: liveness everywhere, and with it the exceptions it names
(`Overslept`, `Stuck`): the prover has no rule for fairness here.

## 7. Not modelled

* The destructors of `EventLoop` and `Epoller`; a loop is taken to outlive what it
  serves but where `TCPServer` says otherwise. `EventLoopThread` destroyed without
  `quit()`, which joins a thread that goes on.
* Sockets that cannot be made or bound (the process ends), and descriptors that
  run out anywhere but in `accept4()`.
* The connection's callbacks being replaced while it is in use, and the data
  race on `m_state`, a plain `int` read without synchronisation; reads are
  modelled as atomic.
* `ThreadPool` without threads, where `runTask()` calls the task.
* `findCRLF` and `findEOL`, which only look; `Logger`, `InetAddress` and the
  utilities, which keep no state that matters to the others; the programs in
  `src/test`.
