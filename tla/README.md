# TLA+ models of magicserver (libmsrv)

This directory holds TLA+ specifications of the libmsrv server framework
(`src/libmsrv`) and of its sample server (`MyHandler` in
`src/examples/libmsrvsample`, run by `serverMain` in
`src/examples/msrvsample_listener`). The
specifications are checked with TLC. Every definition that models code is
listed, with the source lines it translates, under `map` in `PROJECT.json`.
The runs, the mutants that show each checked property can fail, the findings
and the hazards are listed there too.

## The system

libmsrv is a single-threaded reactor with an optional pool of worker
threads.

* **Listener** (`msrvlistener.cc`) owns an array of watched descriptors
  (`mDescriptors`, an `Array<Descriptor>`).
  - `listen()` loops: select(), then one of three outcomes.
    - On failure it counts the error.
    - On timeout it calls `timeoutEvent()`.
    - On readiness it calls `descriptorEvent()` for every ready descriptor,
      indexing the array while handlers add and remove entries.
  - More than `MSRV_MAX_SELECT_ERROR_COUNT` (10) errors force shutdown.
  - After the loop, `listen()` calls `shutdown()`, then `::close`s whatever
    is still registered.
* **ServerListener** (`msrvserver.cc`) supplies the hooks.
  - `bind()` registers the server socket.
  - `descriptorEvent()` handles the server socket and the clients.
    - On the TCP server socket it accepts: it creates a `Connection`,
      registers it and delivers `NewConnection`.
    - Otherwise it reads all available bytes and delivers `StreamData` or
      `Datagram`.
    - On end of file it delivers `ConnectionLost`, then calls
      `removeDescriptor`.
  - `timeoutEvent()` delivers `Timeout`.
  - `shutdown()` delivers `Shutdown`, closes every connection through
    `ConnIter`, and closes and unregisters the server socket.
  - Each delivery is filtered by `mRequestMask`.
* **Connection::close** unregisters the descriptor and closes the socket.
  `~Connection` calls it.
* **RequestHandler::process** (`msrvrequest.cc`) switches on the request type
  and calls the typed method. It then deletes the request, and deleting a
  `ConnectionLostRequest` deletes its Connection.
* **WorkerPool** (`msrvworker.cc`) is a RequestHandler that puts requests on
  a `Queue` and signals a condition variable (`ThreadLock`, `msrvthread.cc`).
  - Each `Worker` thread loops: check the shutdown flag, wait, then drain the
    queue.
  - `shutdown()` sets the flag, broadcasts, joins workers 1..N-1 and handles
    the final Shutdown request in the caller's thread.
* **MyHandler** (`samplehandler.cc`) is the sample application.
  - "shutdown" calls `startShutdown()`.
  - "quit" calls `Connection::close()`.
  - Any other data is echoed, and relayed to all clients through `ConnIter`.

How the parts interact:
- The reactor calls the handler synchronously.
- With a WorkerPool, requests and the Connections they reference cross into
  worker threads.
- The handler calls back into the listener: `startShutdown`,
  `Connection::close`, `ConnIter`.

## Inventory: state, operations, hard behaviours

| Part | State | Operations | What is hard |
|------|-------|------------|--------------|
| Listener | `mDescriptors`, `mShutdownStatus`, `errorcount`, fdset, loop index | listen iteration, removeDescriptor, startShutdown | index shifts while handlers mutate the array; error counting across timeouts; when shutdown is noticed |
| Array | items, count | add, remove, Iterator | remove's upper-part guard; the iterator copies the array, pointer included |
| ServerListener | mask, mSocket, protocol | accept, descriptorEvent, timeoutEvent, shutdown, close, ConnIter | zero-length datagrams; masked ConnectionLost; `close` locks twice and never unlocks |
| Connection | mSocket, object lifetime | close, destructor | closed twice (quit, then lost; a worker and the reactor's shutdown); freed by a request while another worker uses it |
| RequestHandler | none | process (switch, delete) | deletion of the request deletes the Connection |
| WorkerPool / Worker / ThreadLock / Queue | queue, mIsShutdown, cond-var waiters, worker pcs | process, shutdown, destructor, execute, wait/signal/broadcast, push/pull | lost signal, lost broadcast, unjoined worker 0, FIFO order; requests of one connection in two workers |
| LogFile | open stream, recursive lock (owner, count) | message, write, open, close, setFilename | early returns with the lock held; writes of two threads interleaved |

The properties wanted of each part:
- **Mask.** A masked kind is never delivered.
- **Ownership.** An open client socket stays reachable, so it is watched and
  is closed at shutdown.
- **Connection lifetime.** No thread uses a Connection after its
  ConnectionLost request has deleted it, and a socket is closed once.
- **Shutdown.** A `startShutdown()` from any thread stops `listen()`.
- **Escalation.** Shutdown is forced only on consecutive failures, and
  always on them.
- **Progress.** Pending data is read or its socket is closed.
- **Pool.** Requests are dispatched FIFO, each once, with the final request
  last. Every request is eventually processed, and shutdown returns.
- **Destruction.** No worker outlives the pool object. Worker 0 does; the
  double close of `sp_double_close` is what it does meanwhile.

## Modules

### `Dispatcher.tla`: abstract specification of the request pool

It states what the pool promises:
- requests are taken in submission order, each by one worker, and finished
  after being taken;
- nothing is submitted after closing;
- the Shutdown request is handled once, after closing.

### `WorkerPool.tla` (+ `MCWorkerPool.tla`): WorkerPool, Worker, ThreadLock's condition variable, Queue

State:
- The queue is kept as the linked list of `Queue<T>`: its two ends
  `mpFirstItem` and `mpLastItem`, plus the `mpNext` and `mpPrev` links of
  every `ListItem`.
  - An item is named by the request it holds, because every request is
    pushed once.
  - `NULL` is `NoRequest`.
  - A deleted item's links are reset to `NULL`, since nothing reads them
    again.
  - `queue` is the sequence the links spell from `mpFirstItem`. `ItemsFrom`
    computes it, a `RECURSIVE` walk along `mpNext` that is bounded by the
    number of items so that it also ends on a cycle.
- `waitSet` is the set of threads blocked in `pthread_cond_wait`.
- `wpc`, `cur` and `mpc` are the program counters of the workers and of the
  calling (reactor) thread.
- `joinNext` is the join loop index.

Caller actions:
- `Submit`, then `Signal`: `process`. The push and the signal are separate
  steps, as in the code, where `signal()` is outside the queue lock.
- `StartShutdown`, `Broadcast`, `JoinWorker`, `FinishShutdown`: `shutdown`.
  `StartShutdown(FALSE)` is the call from `~WorkerPool`.
- `JoinUnstarted`: `Thread::join` of a worker whose thread was never
  created.

Thread start: with `CreateMayFail`, `Init` lets any worker be `"unstarted"`.
`pthread_create` failed, but `Thread::start` tests `result < 0` on a
positive error code, so it reports success, and the constructor ignores the
result anyway. Such a worker never runs. Joining it passes `pthread_join` a
thread id that names no thread, which is undefined behaviour. `JoinUnstarted`
therefore either goes on (ESRCH, ignored) or crashes the process (`mpc =
"crashed"`).
- `DestroyPool`: the deletion loop of `~WorkerPool`.

Worker actions (`Worker::execute`):
- `CheckShutdown`.
- `Wait`, with `Wakeup` or `SpuriousWakeup` after it.
- `Pull`, which ends the drain when the queue is empty.

`QueuePush` and `QueuePull` translate `Queue::push` and `Queue::pull`
pointer by pointer:
- push sets the old first item's `mpPrev`;
- pull moves `mpLastItem` to the old last item's `mpPrev` and sets that
  item's `mpNext` to `NULL`, or empties both ends.

Each is one step, because both run under the queue's lock.
- `Process`.

The wait carries no predicate, so a signal or broadcast with an empty
`waitSet` does nothing.

The refinement maps the pool onto `Dispatcher`:
- `pending` is `Reverse(queue)`;
- `inService` is the request of a worker that is processing;
- `done` is `processed`;
- `closed` is `mIsShutdown`.

### `Server.tla` (+ `MCServer.tla`): the reactor with a direct handler

The model covers `Listener::listen`, ServerListener's hooks, Connection,
`Array::remove`, `RequestHandler::process` and MyHandler's effects.
Descriptors are named by what they watch: `ListenSock`, or a client
`c \in Conns`.

State:
- `descs` is `mDescriptors` in array order; `Garbage` marks an uninitialised
  slot.
- `fdset`, `idx` and `errorcount` are listen()'s locals.
- `sock` and `obj` are each client's server-side socket and Connection
  object.
- The client side is `cstate`, `dataPending` and `peerEOF`, plus `dgram` for
  UDP. `sockErr` is a socket error that `read()` has yet to report.
- `delivered` and `consecFails` are history variables for the properties.
- `mProtocol` and `mRequestMask` are what `bind()` and `setRequestMask` fix
  before listen() runs. `Init` picks them from the constant `Configs`, and
  no step changes them, so one run can check a TCP and a UDP server.

The reactor is a program counter `rpc`. One listen() iteration is:
- `SelectFail`, `SelectTimeout` or `SelectReady`;
- then `DispatchSkip`, `Accept`, `AcceptFail`, `ReadData`, `ReadEOF`,
  `ReadError` and `ReadDatagram` per index, and `ReadResume` while the
  reactor is blocked in a read;
- `Handle` for each request delivered;
- `DispatchDone`, which ends the iteration.

`Handle` runs the typed method, the deletion of the request and what the
delivering hook does afterwards as one step, because the handler runs
synchronously. The hook's follow-up is `removeDescriptor` after
ConnectionLost, or the shutdown check after a timeout.

The handler's possible effects are one operator per typed method of
MyHandler: `ProcessDataActs`, `NewConnectionActs` and so on. There is one
exception. A Timeout handler may return `MSRVERR_SHUTDOWN_EVENT`, which makes
listen() start shutdown. MyHandler never does this, but an application handler
may, so the model allows it (`TimeoutActs`).

The requests the reactor builds itself are `DatagramRequest`,
`ShutdownRequest` and `TimeoutRequest`. They are the Request constructors for
the bound socket or for no socket. `DefaultRequestMask` is the mask that the
ServerListener constructor sets and that MyHandler::init sets again: every
kind but Timeout. The cfgs pair it, or `UdpMask`, with a protocol in
`Configs`.

After the loop come `ShutdownHook` and then `CloseConnections`.
`CloseConnections` covers three things:
- the `ConnIter` walk;
- closing and unregistering the server socket;
- listen()'s final close of any leftover descriptor.

`Array::remove` is modelled by what it does:
- it copies the lower `pos` slots;
- it copies the upper part only when `pos < mItemCount - pos`;
- any other slot is `Garbage`, or by chance the value it should hold,
  because malloc'd memory is uninitialised.

A ConnIter that meets `Garbage` dereferences a wild pointer, so the reactor
goes to `"crashed"`.

`Array::Iterator` copies the Array by value, pointer included. After the
first `remove()`, ConnIter in `shutdown()` therefore walks a freed buffer. The
model takes that buffer to keep its old contents, so the walk is over the
array as it was when the walk started.

Client actions: `Connect`, `Send`, `PeerClose`, `PeerReset`, and
`SendDatagram` for UDP. A datagram may have zero length.

`PeerReset` is a client's RST. It sets `sockErr`. The kernel then returns
the bytes already received, fails one read with ECONNRESET, and after that
reads end of file. `ReadError` is the `readcount < 0` branch of
`descriptorEvent`: the loop breaks with `dynpos == 0`, so no request goes
out and the descriptor stays registered. The error is consumed, and the
next `select()` reaches `ReadEOF`.

The read loop of `descriptorEvent` reads blocks of `MSRV_READ_BUFFER_LEN`
(1024) bytes until a `read()` returns fewer. The sockets are blocking:
nothing in `src/` sets `O_NONBLOCK`. The model keeps whether unread bytes
are pending, not their count, so `ReadOn` chooses how the last block ends:
- shorter than 1024 bytes: the loop ends and `DeliverData` hands the bytes
  on;
- exactly 1024 bytes, then a pending reset: the next read fails, and the
  bytes are delivered;
- exactly 1024 bytes with the client still connected: the next `read()`
  waits for the client, and `rpc` is `"reading"`.

`ReadResume` is that `read()` returning once the client sends more, resets,
or closes. Nothing forces a client to act, so the reactor may stay blocked
for good, and so may every other client. A UDP datagram of 1024 bytes or
more is not modelled: `ReadDatagram` takes every datagram as shorter. No
property depends on the difference.

### `ServerPool.tla` (+ `MCServerPool.tla`): the reactor with a WorkerPool handler

`serverMain` installs MyHandler directly, which is the configuration of
`Server.tla`. spec.md names the other one: the handler behind a WorkerPool.
No program of the repository builds it, but it is where requests and the
Connections they reference cross threads. `ServerPool` composes the two:
- `WP == INSTANCE WorkerPool WITH Requests <- PoolRequests` shares the pool's
  variables. The reactor is the pool's caller thread. `process()` is
  `WP!Submit` inside `Accept`, `ReadData`, `ReadResume` and `ReadEOF`, then
  `SignalPool`
  (`WP!Signal`, plus the `removeDescriptor` that follows a ConnectionLost).
- Requests are records built by `NewConnectionRequest`, `StreamDataRequest`
  and `ConnectionLostRequest`: a kind, the Connection, and the line sent.

State of the listener:
- `depth` is the lock count of `mThreadLock`, which only the reactor holds
  across steps. Workers take it only inside `removeDescriptor`.
- `descs` is the descriptor array, as a set. Its order is Server's subject.
- `ready` holds the descriptors select reported.
- `walk` holds the connections `ConnIter` still has to visit at shutdown.
  ConnIter copies the Array by value, so it is a snapshot taken when the
  walk starts.
- `sock` is `Connection::mSocket`, `obj` the Connection object's life, and
  `hpc` each worker's place in handling its request.

Reactor steps follow `listen()`:
- `Select` builds the fdset under the lock, unlocks, and selects. It either
  has events or times out.
- `LockDispatch` relocks and visits the ready descriptors still in the
  array. A worker may have removed one in between.
- `ReadData` either submits the line or, for an echoed line that fills the
  1024-byte buffer exactly, blocks in the next `read()` with the lock held.
  `ReadResume` submits it once the client closes its end. `evConn` is the
  client of the `descriptorEvent` in progress.
- `EndDispatch` unlocks and reads `mShutdownStatus`.

Shutdown is `ServerListener::shutdown`:
- `DeliverShutdown` runs `WP!StartShutdown`.
- `PoolShutdownStep` is the broadcast and the joins of workers 1..N-1.
- `PoolReturned` handles the final request and starts ConnIter.
- `CloseConnection` is `ServerListener::close`: it adds two to the lock
  count and never unlocks.
- `CloseServerSocket` closes and unregisters the server socket.
- `ExitProcess` is `~WorkerPool`; main returns and the process ends,
  unjoined worker 0 included.

A worker runs `Worker::execute` through `PoolWorkerStep(WP!...)`. Its
`Process` step is split into what runs inside it:
- `HandleRequest` is MyHandler. It reads the Connection for NewConnection,
  sets the flag for "shutdown", goes on to `Connection::close` for "quit",
  and relays other lines over ConnIter. For ConnectionLost it goes on to
  the request's destructor.
- `CloseCheck`, `CloseRemove` and `CloseFd` are the three steps of
  `Connection::close`: test `mSocket`; `removeDescriptor`, which waits for
  the lock; `::close`. For a ConnectionLost, `AfterClose` also deletes the
  Connection.
- `FinishRequest` is `WP!Process`.

Clients connect once, send at most one line (`quit`, `shutdown` or
another), and close. Accept failures, read errors, select failures and the
request mask are left to `Server.tla`.

Properties:
- `ConnectionAliveWhileInUse`: every Connection a worker is about to use is
  still allocated. The Connections in use are its own (NewConnection,
  "quit", inside `Connection::close`) and every one in the array (the
  relay).
- `SocketClosedOnce`: a worker reaching `::close(mSocket)` finds the socket
  still open.
- `ShutdownStopsListener`: once `mShutdownStatus` is set, `shutdown()`
  eventually returns, unless the reactor stays blocked in a `read()`.

### `LogFile.tla` (+ `MCLogFile.tla`): LogFile and the recursive ThreadLock

State:
- `owner` and `depth` are the recursive mutex: its owner and lock count.
- `streamOpen` is `mpLogStream != NULL`; `isStdout` is `mpLogStream ==
  stdout`; `filename` is `mpFilename`.
- `out` is the stream: which thread wrote which part of a line, or a raw
  `write()`, in order.
- `pc` is where each thread is in a LogFile call; `calls` bounds the
  `message()` and `write()` calls together.

`message()` is `CallMessage`, `LockMsg`, `CheckOpen`, one `WritePart` per
stdio write (time, header, body, newline) and `UnlockMsg`. `CheckOpen` and a
failed `WritePart` return at once, as the code does, without unlocking.
`CheckOpen` also covers the NULL-message and fatality checks, which return
the same way; callers pass bad arguments only where `BadArgs` allows it.
`write()` is `CallWrite`, `LockWrite`, `FWrite` and `UnlockWrite`. `FWrite`
takes the three early returns of `write()` (not open, NULL data, short
write), all with the lock held.

`close()`, `open()` and `setFilename()` each lock, act and unlock in one
step (`Close`, `Open`, `SetFilename`). `close()` never closes stdout.
`open()` uses stdout for the name `"-"`, and otherwise calls `fopen`, which
may fail. `setFilename()` only replaces the name. Once the log is on stdout,
it therefore stays there: `close()` keeps stdout, and `open()` answers
`MSRVERR_LOG_ALREADY_OPEN`.

## Runs

| Run | cfg | Expect | What it shows |
|-----|-----|--------|---------------|
| pool_refines_dispatcher | WorkerPool.cfg | pass | `TypeOK`; `QueueLinked`, the links of the queue staying consistent over every interleaving of pushes and pulls (both ends are NULL together, the `mpNext` walk ends at `mpLastItem`, and `mpPrev` is the inverse link); and the pool implements `Dispatcher` (`DispatcherRefinement`). The queue is FIFO although push and pull use opposite ends of the list; every request is taken once; the Shutdown request is handled once, after the flag. Any worker may have failed to start, unnoticed, and the join of such a worker may crash. |
| pool_lost_wakeup | WorkerPoolLostWakeup.cfg | violation | `WakeupsNotLost` fails even with fair workers: every submitted request is eventually processed and a started shutdown eventually returns. TLC's trace loses a signal sent while no worker waits (the request stays queued), then a broadcast sent while a worker is between its flag check and `wait()`, so `join` hangs. |
| log_lines | LogFile.cfg | pass | Two threads make two `message()`/`write()` calls each, with close, open and rename in between: `TypeOK`, `LinesWhole` (the four writes of one line are never interleaved with another thread's), and `CallsReturn` (every call returns, under weak fairness of each thread inside a call). |
| log_lock_leak | LogFileLockLeak.cfg | violation | `LockFreeWhenIdle` fails when the stream is a file that can be closed or refuse a write: `message()` returns early on a closed stream or a failed write without unlocking, and the other thread then blocks forever on `mThreadLock`. |
| server | Server.cfg | pass | Checks five properties (next list) for a TCP server with two clients and the default mask, and for a UDP server with ConnectionLost masked and timeouts delivered. The UDP case covers the zero-length-datagram path and the timeout handler. |
| server_read_stall | ServerReadStall.cfg | violation | `ReadBurstEnds` fails with one client. Its bytes end on a full 1024-byte block, and it then waits for the answer. The reactor waits in `read()` for good, and no other descriptor is served. |
| server_array_remove | ServerArrayRemove.cfg | violation | `ConnectionReachable` fails with 3 clients. The `Array::remove` guard leaves an uninitialised slot. |
| server_udp_empty | ServerUDPEmpty.cfg | violation | `ListenerWatched` fails. A zero-length datagram removes the UDP server socket. |
| sp_one_worker | ServerPool.cfg | pass | One worker, two clients, a timeout: `TypeOK`, `ConnectionAliveWhileInUse`, and `ShutdownStopsListener` under weak fairness, unless the reactor hangs in a blocking read. A "shutdown" line handled in the worker stops the reactor. |
| sp_use_after_free | ServerPoolUseAfterFree.cfg | violation | `ConnectionAliveWhileInUse` fails with two workers. Worker 0 takes a client's NewConnection and worker 1 its ConnectionLost. Worker 1 deletes the Connection while worker 0 is about to read its address. |
| sp_double_close | ServerPoolDoubleClose.cfg | violation | `SocketClosedOnce` fails with one worker. The unjoined worker 0 handles "quit" after the pool's shutdown returned. It unregisters the client after ConnIter copied the array. The reactor's `ServerListener::close` then closes the socket, and the worker closes it again. |
| server_escalation | ServerEscalation.cfg | violation | `EscalationOnlyOnConsecutiveFailures` fails with the source's threshold of 10. Timeouts do not reset `errorcount`. |

`server` checks:
- `TypeOK`;
- `MaskFiltering`: no masked kind is delivered;
- `ConnectionReachable`: every open client socket is in the array or in the
  request being handled;
- `DataEventuallyReadOrClosed`: liveness under weak fairness of the
  reactor. Pending bytes are read, or the socket is closed, unless the
  reactor stays blocked in a `read()` (`StuckInRead`). That escape is the
  subject of `server_read_stall`;
- `PeerEndEventuallyClosed`, with the same escape: a client that closes or resets its end is
  eventually answered by the server closing the socket. A failed read only
  postpones that to the next `select()`. Its mutant `ReadErrorRemoving`
  takes the error for end of file but sends no request, and the socket
  stays open for good.

Each violation run is explained under `findings` in `PROJECT.json`. Each
property of a passing run has a mutant: a plausible bug in the mapped
definition, under which TLC finds the property violated.

## Bounds and why they suffice

**WorkerPool.** Two workers and three requests are enough for every
interleaving the bugs need:
- a signal with no waiter;
- a broadcast between a worker's check and its wait;
- a request queued behind another, which tells FIFO from LIFO.
- three items in the list, so that one sits between the two ends, with
  both an `mpPrev` and an `mpNext` that a pull must keep right.

Each request is submitted at most once (request objects are distinct).

**Server.**
- **Two clients** exercise removal from the middle of the array and the index
  shift in the dispatch loop. With two clients the array holds at most three
  entries, which `Array::remove` handles correctly, so the passing run is
  about the rest of the reactor. The `Array::remove` defect needs four
  entries: the server socket plus **three clients**, the bound of
  `server_array_remove`.
- **MaxSelectErrors is 2** in the passing runs, so escalation happens within
  a few steps. The escalation violation uses the source's value, 10.
- Each client sends at most one unread message at a time, and closes once.
- **One client** is enough for `server_read_stall`: a single client that
  waits for its answer after a full 1024-byte block already stops the
  reactor.

**ServerPool.**
- **Two clients** give a connection whose requests are in flight while
  another is accepted, and two connections for ConnIter to walk at shutdown.
- **One line per client** from `quit`, `shutdown` and one line to echo
  covers every branch of MyHandler.
- **One worker** in the passing run. The FIFO queue keeps one client's
  requests in order there, so the run is about the reactor, the lock and
  shutdown. **Two workers** are the least that let two requests of one
  client run at once.
- The state space is about 460,000 states; a third client or worker
  multiplies it without a new kind of interleaving.

**LogFile.** Two threads with two messages each interleave every pair of
writes, and let one thread's early return be followed by the other's lock
attempt. The passing run is the sample's log: `LogFile ("-")` on stdout,
whose writes are taken to succeed, renamed to `"log"` or `"-"` at will.
The violation run starts on the file `"log"`, with `CanFail`. Neither run
passes bad arguments: every call site in the repository passes valid ones.

## Fairness

**WorkerPool.**
- Worker steps other than a spurious wakeup are weakly fair: the OS schedules
  runnable threads. pthread never promises a spurious wakeup, so those get no
  fairness.
- The caller's steps inside `process()` and `shutdown()` are weakly fair.
- Submitting, shutting down and destroying the pool are the application's
  choice and get no fairness.

**LogFile.** `FairSpec` gives each thread weak fairness on the steps inside
a LogFile call (`InCall`). The OS keeps scheduling a thread that has entered
a call. Making a call at all is up to the application, so the `Call...`
actions get no fairness. `CallsReturn` holds under this fairness in
`log_lines`. Its mutant `UnlockMsgKeepingLock` drops the unlock on
`message()`'s success path, and the other thread then waits forever. The
violation run `log_lock_leak` shows the real leak through the safety
property `LockFreeWhenIdle`, which has a shorter counterexample.

**Server.** The reactor thread (`ReactorStep`) is weakly fair. Clients act at
will, without fairness. A `select()` with a timeout always returns. A
`read()` on a blocking socket returns only when its client acts, so
`ReadResume` is enabled only then, and fairness cannot force it. The
liveness properties therefore exclude a reactor blocked in `read()` for
good. Select failures are environment behaviour and part of
`ReactorNext`; every path of failures ends in shutdown, and shutdown closes
every socket, so the liveness property does not rely on failures being rare.

**ServerPool.** The reactor's steps (`ReactorNext`) are weakly fair: one
thread running code, and a select with a timeout always returns. A
blocked `read()` returns only when the client closes, which is not fair. Each
worker's steps other than a spurious wakeup are weakly fair, as in
WorkerPool. Clients get no fairness. `ShutdownStopsListener` therefore rests
on the timeout. The mutant that never passes a timeout to select breaks it:
with idle clients the reactor waits in select forever, as the code does.

## Not modelled, and why

- **LogFile's text and `Log` subclasses other than LogFile.** The timestamp
  and format strings are abstracted to the four parts of a line. The
  constructor's filename handling (`mpFilename` uninitialised when built from
  a stream) is listed as a hazard. The model starts from `LogFile
  (filename)`, the constructor the sample uses. `~LogFile` is not modelled:
  the sample destroys its log after the threads that log have stopped.
- **bind() failure paths, samplemain's argument parsing and daemon setup.**
  Setup I/O before the reactor starts. The model starts after a successful
  bind.
- **The consequence of a failed thread start, as a property.** WorkerPool
  models the failure, and `pool_refines_dispatcher` shows that the pool's
  safety survives it. What fails is liveness: no worker at all, or a crash
  in `shutdown()`. `WakeupsNotLost` states that, but its run keeps every
  worker started, so that its counterexample is the lost wakeup. ServerPool
  starts every worker.
- **Request payloads, addresses and the text protocol of MyHandler.** They
  are abstracted to the three effects the handler has on the framework.
- **Read errors other than a reset, and fd-number reuse in the dispatch
  loop.** `Server.tla` models the error a reset produces: reported once,
  then end of file. An error reported on every read would spin the reactor
  on the socket. No socket error behaves that way, so it is not modelled.
  Descriptor numbers are model values, so the kernel reusing a closed fd
  number is out of scope.
- **The relay's walk, element by element.** In ServerPool, MyHandler's relay
  is one step over the array as it is when the walk starts. A reactor step
  between two elements is not modelled.
- **Connection leaks.** After "quit", and after ServerListener::close at
  shutdown, nothing deletes the Connection. The model's states show it
  (`obj` live, socket closed), but no run states that every Connection is
  eventually deleted. The sample program would fail it by design.
  The project keeps twelve runs, and every violation run shows a different
  disagreement between the code and what it says. So the leaks and the
  close lock leak of `ServerListener::close` are listed as hazards with a
  note, not as runs.
- **UDP datagrams of 1024 bytes or more.** `ReadDatagram` reads a datagram
  in one block. A datagram that fills the buffer would make the loop read
  again and block like a TCP burst. No property depends on it.
- **`~Queue`, and the constructors and destructors of ThreadLock and
  Thread.** `~Queue` runs inside `~WorkerPool`, after which the model ends.
  The others set fields to constants, and `Init` states their results.
  `ThreadLock::initCond` passes a condition attribute it never
  initialises; no caller uses a timed wait, and the untimed wait is
  modelled as it behaves.

## Plan for the next steps

1. **DescriptorArray.** Model `Array::add` and `Array::remove` as pure
   operators and check them against SequencesExt's `RemoveAt`, over all
   arrays up to length 5. This needs a run of its own, and would show
   exactly which positions the guard breaks.
2. **ServerPool.** Walk the relay's ConnIter one element per step.
3. **Leaks.** Add a run stating that every Connection is eventually
   deleted, in place of a less telling one.
