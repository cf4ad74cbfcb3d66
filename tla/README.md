# Specifications of platform-sample

TLA+ models of the two libraries of this repository, TLC configurations that
check them on small instances, and TLAPS proofs about the thread pool and its
log, the Logger that several pools share, the client, the server, the stream
between them, and the two together.

- `thread/MyThread.{hpp,cpp}`: a worker pool with a bounded task queue and a
  logger that draws a table of the tasks.
- `socket/MySocket.hpp` with `socket/epoll/MySocket.cpp` (Linux, Android) or
  `socket/kevent/MySocket.cpp` (macOS, iOS): a TCP server and a TCP client that
  exchange framed messages. Each runs one thread and reports to a receiver.

Paths below are relative to `src/`. "MySocket.cpp" alone means the epoll file;
the kevent file has the same functions and the differences are named.

## 1. Inventory

| Component | State | Operations | Modelled in |
|---|---|---|---|
| `ThreadPool`, `Queue<T>` | `threads_`, `mutex_`, `cv_`, `isRunning_`, `deque_`, `deque_index_` | constructor, `add`, `main_task`, destructor | `ThreadPool` |
| `Logger` of the pool, its table | `logthreads`, `logqueues`, `mtx_` | `addThread`, `updateThread`, `addQueue`, `updateQueue` | `ThreadPool` |
| `Logger` of the pool, the singleton | the static pointer | `createInstance`, `getInstance`, `freeInstance` | `SharedLogger` |
| `Server` / `Client`, the shell | `th_`, `mtx_`, `isRunning_`, `reciever_` | `start`, `end`, the callback passed to `do_recieve_event` | `Endpoint`, abstractly `Reporter` |
| `Socket` | `sock_`, `epfd_`, `connectedSockets_`, `mtx_` | `do_create`, `do_delete`, `do_send`, `isConnected` | `Socket` |
| `Socket`, the stream | what is in flight | `do_send`, `do_recieve`, `recv_` | `Framing` |
| `ClientSocket`, `Client::task` | the base's, the connection | `do_connect`, `do_recieve_event`, `do_disconnect`, `do_send` | `SocketClient` |
| `ServerSocket`, `Server::task` | the base's, the accepted connections | `do_bind_listen`, `do_accept`, `do_recieve_event`, `do_disconnect`, `do_disconnect_all` | `SocketServer` |
| A client and a server together | both, and two bounded streams | request from `sendData`, reply from inside `recieveData`, both `end`s | `Echo` |
| select variant, socket logger, tests, scripts | | | not modelled, see section 8 |

How they interact:

- The pool's owner constructs and destroys it; any thread calls `add`, tasks
  too. The workers share `mutex_` with them, and every queue operation calls the
  `Logger`, whose `mtx_` is taken inside `mutex_` by `put` and alone by
  `updateQueue`. `updateThread` takes no `mtx_`.
- Every pool's constructor calls `createInstance` and its destructor
  `freeInstance`, on one static pointer that no lock guards.
- The owner of a server or client calls `start` and `end`. `th_` runs `task()`,
  which calls the socket's functions and, under the endpoint's `mtx_`, the
  receiver. The receiver may call `sendData`, and so may any other thread.
- `Socket::mtx_` guards `do_create`, `do_delete` and `do_send`. It does not guard
  `do_disconnect`, `do_accept` or the list `connectedSockets_`.
- Server and client meet in the kernel only: a connection is two byte streams
  with bounded buffers, and either side may cut it. A `::send` that finds its
  buffer full waits, with the socket's `mtx_`, for the other side's task to
  receive.

What is hard in it, and what makes each component correct:

- *Pool.* Wakeups against `notify_all`; a shutdown while tasks run and add more;
  two queues that must run in step; a log that other threads change. Correct
  means: no lost wakeup, first in first out with nothing lost, a destructor that
  returns and has run everything, a log that speaks of the right task.
- *Shared Logger.* Pools whose lives overlap, one of which deletes what the
  others use. Correct: one Logger, and no pool loses it but by the end of another.
- *Endpoint.* `end` while the callback runs, receivers that are replaced or
  destroyed. Correct: only the registered receiver is called, nothing runs after
  `end`, `end` returns.
- *Socket.* Descriptor numbers are handed out again as soon as they are closed,
  `sock_` is read before the lock is held, and part of the state is changed
  under no lock. Correct: nobody writes to a descriptor that has become
  something else, nothing is leaked, nothing closed passes for connected.
- *Client.* Partial failures of `do_create`, refused connects, cuts at any time.
  Correct: it reconnects, and on kevent never with a socket that failed.
- *Server.* A batch of events handled while earlier events of it close and
  accept. Correct: no event goes stale, a reply reaches the peer that asked.
- *Stream.* Frames cut and joined by TCP, several senders, empty messages.
  Correct: messages arrive whole and in order, or the connection is cut.
- *Client and server together.* Each waits in `::send` for the other to receive.
  Correct: every request is answered, in order, and either side can be ended at
  any time; where that is not so, it is known which use of the library it takes.

`PROJECT.json` lists the hazards line by line with the properties that cover
them, and says of the rest why nothing does yet.

## 2. Modules

An arrow reads "extends" or, dashed, "implements".

```
TaskPool < - - ThreadPoolRefinement --> ThreadPool       SharedLogger
Reporter < - - Endpoint    Socket
                  ^          ^                           Echo  (instances of Endpoint
                  |          |                                  and Framing, two each)
        SocketClient, SocketServer                       Framing
```

- `ThreadPool`: pool, queue, log. `TaskPool`: what a user may rely on, without
  threads or locks. `ThreadPoolRefinement`: the mapping between them.
- `SharedLogger`: the Logger singleton and the constructors, destructors and
  calls of several pools around it.
- `Endpoint`: what `Server` and `Client` have in common line for line.
  `Reporter`: what that promises the application, without threads or sockets.
  `Socket`: the base class. `SocketClient` and `SocketServer` compose `Endpoint`
  and `Socket` with a task and a kernel, and implement `Reporter`.
- `Framing`: the byte stream of one direction of one connection. The two socket
  modules treat `::send` and `do_recieve` as calls that begin and return;
  `Framing` opens them up.
- `Echo`: a client and a server on one connection: two `Endpoint`s, and a
  `Framing` in each direction.
- `MC*`: symmetry sets and constant values for TLC, nothing else. One for each
  of `ThreadPool`, `SharedLogger`, `SocketClient`, `SocketServer`, `Framing`, `Echo`.
- Proofs: `ThreadPoolProofs` (pool, log and refinement); `SharedLoggerProofs`;
  `EndpointProofs` and `SocketProofs`, on which `SocketClientProofs` and
  `SocketServerProofs` rest; `FramingProofs`; `EchoProofs`, which instantiates
  `EndpointProofs` and `FramingProofs` twice each, as `Echo` does with what they
  are about.

Definitions named `Mut...` are deliberately wrong versions of the definition
that follows them. Nothing uses them; they exist to be put in its place, and
each makes the property it is paired with in `PROJECT.json` fail.

## 3. From code to model

### ThreadPool

A step is a stretch of code under one lock, or one access made under none. A
locked stretch is cut where another thread could see or disturb the middle of it.

| Code | Model |
|---|---|
| constructor loop | `SpawnThread`, `AddThread` per worker, `Constructed` |
| `add` + `put` up to the call of `addQueue` | `Add`: the size test, `deque_` grows, `mutex_` is kept |
| `addQueue` | `AddQueueBegin` (has `mtx_`, vector moving), `AddQueueEnd` (row there; `deque_index_` grows or `add` returns false) |
| `notify_all`, unlock | `AddNotify` |
| `main_task`, locked block | `NothingToDo`, `Wait`, `Take`, `Exit` |
| `updateQueue` | `CheckRow` (the size, read before the lock), `UpdateQueue` |
| `func()` | from label `"task"` to `TaskReturns`; `Add(w, task)` in between |
| destructor | `DestroyBegin`, `DestroyNotify`, `DestroyJoin` |

`mutex_` and `mtx_` name the thread that keeps the lock between two steps; a
stretch that begins and ends in one step only needs it free. `cv_` is the set of
workers blocked in `wait`; one that is notified leaves the set and must get
`mutex_` again, which is what `MayLock` says of label `"wait"`. `SpuriousWakeup`
is allowed at any time.

`updateQueue` reads `logqueues.size()` without `mtx_`. When a caller is growing
the vector at that moment the read has no defined outcome, and `CheckRow` may
then drop the update. An update is never written to a wrong row: the code
indexes only after it has the lock.

`CanGo` says when something goes on without a new call of `add`, a destructor that
begins or a spurious wakeup, guard by guard (`ENABLED` is out of the provers' reach); `AtRest`
when nothing is left to do.

`fresh`, `accepted`, `taken`, `done` and the field `task` of a log row are
history. `fresh` bounds the model: each task is passed to `add` once.

### SharedLogger

| Code | Model |
|---|---|
| constructor, `createInstance` | `Construct`, `Check` (the pointer is compared with null), `Create` (`new`, and the pointer is stored) |
| `getInstance()->addThread(...)` and the other three | `Call` (the pointer is read), `CallReturns` |
| destructor up to its last join | `Destroy`, `Join` (every thread of the pool is out of its call) |
| `freeInstance` | `Free` (compared with null, deleted), `Clear` (the Logger's destructor is over, the pointer is set to null) |

`object` says what became of each Logger, `calling` holds the pointer a thread
uses. `met` (pairs of pools that existed at once) and `raced` (two pools were in
`createInstance`, or two in `freeInstance`) are history. What a pool does between
its constructor and destructor is `ThreadPool`'s business; here any of its
threads may call the Logger at any time in between.

### Endpoint, Socket

`owner` is where the one thread that calls `start` and `end` is: `end` waits for
`mtx_` (`EndClear`), then reads and clears `isRunning_` (`EndStop`), then joins
(`EndJoin`). The endpoint's `mtx_` is kept across steps by a callback only, so
`called # NoReciever` represents it. `start` takes the same lock.

`fds` says what each descriptor number stands for: free, the endpoint's socket
or epoll instance, an accepted connection (the peer), or a file the rest of the
process opened. `OtherFile` is that rest; it is what makes a write through a
stale number visible. `Socket::mtx_` is kept across steps by a `do_send` that is
in `::send` (`sendPc = "write"`). `sndSock` is the argument `do_send` was called
with, read before the lock.

`do_create(ok)` covers its three outcomes: `socket` failed, `socket` succeeded
and `epoll_create1` failed (`sock_` stays set), both succeeded; and the early
return when `sock_` is set, which says nothing about `epfd_`.

To `Reporter`, an endpoint is *ending* from the call of `end` to its return,
`registered` is `reciever_` and `calling` the receiver a callback is in. `EndClear`
is its `Unregister`, `EndStop` or `EndJoin` its `Ended`, and everything the
sockets do is a stutter.

### SocketClient, SocketServer

`task` is the program counter of `task()`. The variable `backend` is the build,
chosen in `Init` from `Backends` and kept, so that one run covers both. Where they
differ: after a refused `connect` the kevent client deletes its socket
(`Discard`) and the epoll client keeps it; when the registration of an accepted
socket fails the epoll server closes it and the kevent server does not.

In the server `events` is the rest of the batch that `epoll_wait` returned. A
batch holds each descriptor once, and an event that carries both data and the
end of the connection is one event, handled as the end: `do_recieve_event` tests
`EPOLLRDHUP` first. A batch is handled in any order. `Event` records the peer
the descriptor led to when the event was made (history), which is what
`EventsStayValid` compares with.

`peer` and `link` are the kernel's and the other side's view. `PeerConnects`,
`PeerCuts`, `ServerCuts` may happen at any time the kernel permits. An accepted
peer is any queued one, on any free descriptor. `WaitFails` and `PollFails` are an
`epoll_wait` that returns -1, whatever is ready.

Neither way to close a connection holds a lock, so each is cut where another thread
could see the middle. `do_disconnect` erases the connection from the list (`Disconnect`) and
closes it (`HangUp`): in between it is open and unlisted (`Unlisted`). `do_disconnect_all`
does it the other way round, one connection at a time: `CloseConnection`, `EraseConnection`,
and `AllClosed` when the list is empty. In between a closed number is listed (`Closed`), and
may by then be another file's. Closing takes a descriptor out of `watched`, so what is
listed and no longer watched is the one the loop stands at.

### Framing

A frame is cell 1 (magic), cell 2 (size), then one cell per unit of data, and the
stream holds `Capacity` cells. `SendSome` copies any prefix that fits, `recv_`
takes any prefix of what is needed, so every way TCP can cut or join frames
occurs. The header is read by its cells: what `RecvHead` does with a cell that is
no magic or no size is in the model, for `NeverOutOfStep` to rule out.
`SendCut` returns what `::send` does on a connection that is cut: an error when
nothing had been copied, otherwise a short count, which `do_send` takes for
success (MySocket.cpp:127-135 tests for `SOCKET_ERROR` only). `CanSend` and `CanRecieve`
say when `::send` and `do_recieve` need not wait.

### Echo

Both sides begin connected and running, each is ended once at most, and nothing
but the two sides' closing cuts the connection. `u...` are the variables of the
`Framing` that carries requests up to the server, `d...` those of the replies;
`cut` is shared: a connection closed is closed both ways.

| Code | Model |
|---|---|
| `Client::sendData` until `do_send` has `mtx_` | `SendCall`, `SendCheck` (`isConnected`) |
| `::send` | `SendGoesOn`: `Framing`'s `SendSome` and `SendCut` |
| `Client::task` | `ClientLoop`, `ClientRecieve`, `ClientReport`, `ClientReportEnd`, `ClientDisconnect`, `ClientDelete` (waits for `mtx_`), `ClientExit` |
| `Server::task` | `ServerLoop`, `ServerRecieve`, `ServerReport`, `ServerReportEnd`, `ServerClose` |
| the tests' receiver, `sendData` from `recieveData` | `Reply`, `ReplyGoesOn` |
| the two `end`s | `ClientEnd`, `ServerEnd` |

`Users` are the threads of the client's process that call its `sendData`: the
owner, another application thread, and the client's own task from inside its
receiver. The owner does not send while it is in `end` (it is one thread); the
others may.

`CanGo` says, guard by guard, when something goes on without a new call of `sendData`
or `end`; `AtRest` that both sides are ended or wait for somebody new; `Knot` is the
standstill described in section 6.

## 4. Runs

States are distinct states, time is for two TLC workers.

| Run | Shows | States |
|---|---|---|
| `pool_safety` | No lost wakeup, FIFO without loss, drained destructor, log rows of the right task that only go forward, no walk over a growing log; something goes on while something is to do | 1 478 848 (35 s) |
| `pool_liveness` | Every accepted task runs; a destructor that began returns; `ThreadPool` implements `TaskPool`, its liveness included | 253 386 (97 s) |
| `shared_logger` | A pool finds the Logger gone only after the end of a pool it met; one Logger at most, none lost or deleted twice, unless `createInstance` or `freeInstance` was raced | 6 829 |
| `client_safety` | `do_send` writes to the client's own open socket only; nothing leaked; nothing runs after `end`; `erase` finds its socket; the kevent build never connects a socket twice | 83 400 |
| `client_liveness` | The client implements `Reporter` (so `end` returns); a cut client reconnects | 16 068 (52 s) |
| `client_retry` | *Violated*: the retry of `do_create` recovers (finding 1) | |
| `server_safety` | No stale event in a batch; a reply from the callback reaches the peer that asked; nothing leaked by the epoll build; `isConnected` lets a sender through to an open connection, or to the one that `do_disconnect_all` has closed and not yet erased | 216 001 (33 s) |
| `server_liveness` | The server implements `Reporter`; a connection its peer cut is closed | 91 388 (97 s) |
| `framing` | Messages arrive whole and in order; never out of step; `recv_` waits only while a sender is writing or until the cut; a message `do_send` accepted arrives, or the connection is cut, or it was empty | 21 760 |
| `framing_zero` | *Violated*: 0 bytes of data mean a cut connection (finding 2) | |
| `echo` | Replies arrive in the order of the requests; every request is answered unless a side is ended; both `end`s return and something always goes on, though requests and replies exceed what the connection holds | 67 218 (35 s) |
| `echo_knot` | With any mix of senders, a standstill is always one and the same knot, and for good | 176 882 |

Bounds, and why they are enough:

- *Pool:* two workers, two clients, four tasks, `QueueSize` 2. Both workers can
  sleep, both can be busy with two tasks queued and a third refused, one task can
  add others while the destructor waits, and the application thread that is not
  the owner can be inside `add` while the owner is. The liveness run has one client,
  three tasks and `QueueSize` 2, where the shutdown with a task that adds is reached.
  `QueueSize` below 1 refuses everything, and the proofs
  cover every value.
- *Shared Logger:* three pools of two threads, three Loggers. Three pools are what
  it takes for two to overlap in a race while a third finds what they left, and
  no pool creates more than one Logger.
- *Client:* both builds; three descriptors (socket, epoll instance, one more), and one file of
  the rest of the process. Two application threads and the task can be in
  `do_send` at once; two receivers make a replacement visible. The liveness runs
  have no other files, which safety needs and liveness does not.
- *Server:* both builds, in the liveness run the epoll build; five descriptors, so that both peers are accepted and one number is
  left for the other file; two peers, so that a number closed in a batch can be
  handed to another peer while the batch goes on. `server_liveness` has three,
  so that one peer waits for a number another one must give back. A batch of
  three is below `MAX_EVENTS` (16), so the limit itself is never met.
- *Framing:* data of 0, 1, 2 and 3 cells, a stream of 3 cells, two senders: the
  longest frame does not fit, the smallest leaves room for part of the next.
- *Echo:* three requests, a stream of two cells each way, and every frame longer
  than that: no `::send` completes before the other side has received, so every
  send blocks, and with three requests one can be delivered, one be in the stream
  and one be waited for. `echo` has the users the tests have (`{Owner}`), `echo_knot`
  all three.

Deadlock is checked in every run but `echo_knot`, where the two sides really can
stand still and `OnlyKnot` says how. A finished pool (`Destroyed`, `AllGone`), a closed
stream (`Closed`) and an ended pair (`Finished`) may stay as they are. Absence of deadlock
says little, since a new call or a spurious wakeup is almost always possible, and a new
call ends no standstill. `NeverStandsStill`, `OnlyKnot` and `OneSenderGoesOn` leave these
steps out: they say that what has been begun goes on by itself. For `SocketClient` and
`SocketServer`, whose tasks poll for ever while they run, the liveness properties say it.

## 5. Fairness

- *Pool.* Each thread that can go on does (weak fairness per worker and caller).
  Strong fairness on getting `mutex_` (`NothingToDo \/ Take`): a mutex that is
  released again and again is obtained in the end. Tasks return. Nobody has to
  call `add` or destroy the pool, and no spurious wakeup is owed.
- *Endpoint, Socket.* `end`, `do_send` and the task go on and get the mutex they
  wait for, for the same reason. `recieveData` and `::send` return: with a
  receiver that does not and a peer that never reads, `end` would not return, and the
  code has no timeout against either. The rest of a message whose beginning
  arrived comes or the connection is cut, because a peer writes a frame with one
  `::send`; `recv_` has no timeout of its own and does not look at `isRunning_`.
- *Reporter.* A call returns and an `end` in progress gets through: `Unregister` is
  strongly fair since calls may go on being made until it happens. The endpoint
  earns it from its strong fairness on the owner's steps.
- *Client.* Creating, connecting and `epoll_wait` do not fail for ever (`Reconnects` needs it,
  `ImplementsReporter` does not use it: the loop looks at `isRunning_` before each).
- *Server.* `epoll_wait` does not fail for ever, which `CutIsClosed` needs.
- *Framing.* A blocked `::send` and the receiver go on. Nobody has to send or cut.
- *Echo.* Every thread that can go on does. A task that waits for events notices in
  the end that there is something to receive (strong fairness on the part of
  `ClientRecieve` and `ServerRecieve` that takes something; `epoll_wait` may time out
  any number of times before). That `::send` returns is *not* assumed here, as it is in
  `SocketClient` and `SocketServer`: whether it does is the question.

## 6. Findings

1. `RetryRecovers` (`client_retry`). When `socket` succeeds and `epoll_create1`
   fails, `Client::task` sleeps and calls `do_create` again as its comment says
   ("リトライ", MySocket.cpp:686), but the call returns true at once since
   `sock_` is set (MySocket.cpp:63-67). The client connects, every
   `do_recieve_event` fails on `epfd_` -1, and it receives nothing until it is
   ended. The kevent build has the same early return.
2. `ZeroMeansCut` (`framing_zero`). `do_recieve` treats 0 from `recv_` as a cut
   connection ("接続が切れた", MySocket.cpp:178). A header with size 0 makes
   `recv_` return 0 on a connection that is up: an empty message is dropped and
   logged as a disconnect. The stream itself stays in step (`NeverOutOfStep`).

Seen while modelling, stated by nothing in the repository and so by no run: a
failed `bind` or `listen` leaves `isRunning_` set with no thread working, so that
`start` does nothing until `end`; after a failed `listen` the bound socket is kept
until an `end` whose task has already gone, and a restart cannot bind it again;
the kevent server leaks the descriptor of a connection it could not register; the
server closes connections without `Socket::mtx_`, so an application thread (not the
callback) that has passed `isConnected` can write to whatever got the number next; and
`do_disconnect_all` closes each connection before it erases it, so at the end of a server
such a thread can pass `isConnected` on a number that is closed already. `ChecksOpenConnection`
says that this is the only moment at which it can: `do_disconnect` erases first.

Two more, which the properties that do hold leave as the only exceptions:

- *The knot* (`OnlyKnot`). A thread of the client is in `::send` with the client's
  socket `mtx_`, waiting for the server to receive; the server's task is in `::send`
  from its callback, waiting for the client to receive; and the client's task does not
  receive, because it is itself that sender (its receiver sends) or because it waits for
  that `mtx_` in `do_delete` after `end` has cleared `isRunning_`. No step of either side
  unties it, an `end` of either included (`KnotStays`): nothing but a cut from
  outside ends it. That there is no other standstill, and none at all when the owner alone
  sends (`OneSenderGoesOn`), is proved for any users, sizes and capacities. TLC finds it with `Users` `{App}`, `{Owner, App}` and `{Owner, Task}`,
  and finds none with `{Owner}` or `{Task}`.
- *Overlapping pools* (`OnlyAnEndedPoolTakesIt`, `OneLoggerUnlessRaced`). A pool that ends
  deletes the Logger for every pool that goes on, which then calls through a null or
  dangling pointer; two constructors at once leave one Logger lost. The tests never
  have two pools at once.

## 7. Proofs

Every theorem holds for every value of the constants that satisfies the module's
assumption; bounds, symmetry and the numbers of section 4 play no part. The inductive
invariants named here were run through TLC on the bounds of the safety runs before they
were proved (that of `Framing` with the table `end` computed instead of asserted).

| Theorem | States | Checked by run |
|---|---|---|
| `ThreadPoolProofs!TypeCorrect` | `Spec => []TypeOK` (with the bound of the queue) | `pool_safety` |
| `ThreadPoolProofs!NeverWalksAGrowingLog` | `Spec => []NoWalkDuringGrowth` | `pool_safety` |
| `ThreadPoolProofs!FirstInFirstOut` | `Spec => []FifoNoLoss` | `pool_safety` |
| `ThreadPoolProofs!NoLostWakeup` | `Spec => []SleepsOnlyWhenIdle` | `pool_safety` |
| `ThreadPoolProofs!DestructorDrains` | `Spec => []DrainedWhenDestroyed` | `pool_safety` |
| `ThreadPoolProofs!ReportsOnItsTask` | `Spec => []RowOfTask` | `pool_safety` |
| `ThreadPoolProofs!LogNeverAhead` | `Spec => []LogIsSound` | `pool_safety` |
| `ThreadPoolProofs!LogGoesForward` | `Spec => RowsGoForward` | `pool_safety` |
| `ThreadPoolProofs!PoolGoesOn` | `Spec => []NeverStandsStill` | `pool_safety` |
| `ThreadPoolProofs!PoolIsTaskPool` | `Workers # {} => (Spec => Abstract!SafeSpec)` | `pool_liveness`, as part of `ImplementsTaskPool` |
| `SharedLoggerProofs!TypeCorrect` | `Spec => []TypeOK` | `shared_logger` |
| `SharedLoggerProofs!OnlyAnEndedPool` | `Spec => []OnlyAnEndedPoolTakesIt` | `shared_logger` |
| `SharedLoggerProofs!OneLogger` | `Spec => []OneLoggerUnlessRaced` | `shared_logger` |
| `SocketClientProofs!TypeCorrect` | `Spec => []TypeOK` | `client_safety` |
| `SocketClientProofs!CalledIsRegistered` | `Spec => []CallsRegisteredReciever` | |
| `SocketClientProofs!ClientQuietAfterEnd` | `Spec => []QuietAfterEnd` | `client_safety` |
| `SocketClientProofs!SenderOwnsSocket` | `Spec => []WritesToOwnSocket` | `client_safety` |
| `SocketClientProofs!NoDescriptorLeaks` | `Spec => []OwnsWhatItNames` | `client_safety` |
| `SocketClientProofs!ErasesOnlyListed` | `Spec => []ErasesListedSocket` | `client_safety` |
| `SocketClientProofs!KeventConnectsFresh` | `Spec => []ConnectsFreshSocket` | `client_safety` |
| `SocketClientProofs!ClientIsReporter` | `Spec => Abstract!SafeSpec` | `client_liveness`, as part of `ImplementsReporter` |
| `SocketServerProofs!TypeCorrect` | `Spec => []TypeOK` | |
| `SocketServerProofs!CalledIsRegistered` | `Spec => []CallsRegisteredReciever` | |
| `SocketServerProofs!ServerQuietAfterEnd` | `Spec => []QuietAfterEnd` | |
| `SocketServerProofs!BatchStaysValid` | `Spec => []EventsStayValid` | `server_safety` |
| `SocketServerProofs!AnswersReachSender` | `Spec => []RepliesReachSender` | `server_safety` |
| `SocketServerProofs!NoDescriptorLeaks` | `Spec => []EpollLeaksNothing` | `server_safety` |
| `SocketServerProofs!SendersCheckOpenConnections` | `Spec => ChecksOpenConnection` | `server_safety` |
| `SocketServerProofs!ServerIsReporter` | `Spec => Abstract!SafeSpec` | `server_liveness`, as part of `ImplementsReporter` |
| `FramingProofs!TypeCorrect` | `Spec => []TypeOK` (with the capacity of the stream) | `framing` |
| `FramingProofs!StaysInStep` | `Spec => []NeverOutOfStep` | `framing` |
| `FramingProofs!ReportedAsSent` | `Spec => []WholeAndInOrder` | `framing` |
| `FramingProofs!WaitsForASender` | `Spec => []NeverWaitsInVain` | `framing` |
| `EchoProofs!UpIsFraming` | `Spec => Up!Spec` | |
| `EchoProofs!DownIsFraming` | `Spec => Down!Spec` | |
| `EchoProofs!TypeCorrect` | `Spec => []TypeOK` | |
| `EchoProofs!InOrder` | `Spec => []AnswersInOrder` | `echo` |
| `EchoProofs!BothAreReporters` | `Spec => BothReport` | |
| `EchoProofs!NoOtherStandstill` | `Spec => []OnlyKnot` | `echo_knot` |
| `EchoProofs!OwnerAloneGoesOn` | `Spec => []OneSenderGoesOn` | `echo` |
| `EchoProofs!KnotIsForEver` | `Spec => KnotStays` | `echo_knot` |

### The pool

From `PoolAssumption`: the owner is a client, clients are not workers, the null
values are not threads or tasks, `QueueSize` is an integer (zero and negative included).

1. `IInv == TypeOK /\ LockInv /\ HasTask /\ IndexInStep` is inductive (`InitIInv`,
   `NextIInv`). `TypeOK` alone is not: that `Take` may read the head of
   `deque_index_` needs that the two queues are in step once `mutex_` is free
   (`IndexInStep`), which needs to know who keeps `mutex_` between two steps
   (`LockInv`); that a returned task is a task needs `HasTask`.
2. `NoWalkDuringGrowth` follows from `LockInv`: a stopping worker keeps `mutex_`,
   and whoever grows the log keeps it too.
3. `FifoNoLoss` is inductive relative to `IInv`; `Take` moves the head across
   the concatenation and `Add` appends to both sides.
4. `LifeInv` (`Lifecycle`) ties `isRunning_`, `life` and the workers' labels:
   no client is inside `add` during the shutdown, a worker about to sleep has seen
   an empty queue and a running pool *and still has `mutex_`*, one that leaves
   has seen `isRunning_` cleared, and a destroyed pool has no worker left.
5. `SleepsOnlyWhenIdle` is inductive relative to `IInv /\ LifeInv`: going to sleep
   is safe by 4, adding is safe because the caller keeps `mutex_` until its
   `notify_all`, clearing `isRunning_` because the owner's `notify_all` follows.
6. `DrainInv` (`TakenIsInHandOrDone`): while something is queued some worker has not
   left, and what was taken is done or in hand. A worker leaves only with an empty
   queue, and during the shutdown only a running task can add, whose worker then has
   not left. With 3 and 4 this gives `DrainedWhenDestroyed`.
7. `NeverStandsStill`: whoever keeps `mutex_` between two steps is in `add`, about to sleep or
   about to leave (`HeldInv`), and waits for `mtx_` at most; whoever has `mtx_` waits for
   nothing. So if nothing goes on both locks are free and nobody is in `add`
   (`LocksAreFree`), and a worker that has been created (`BornInv`) sleeps in `cv_` or has
   left. If the pool is alive all sleep and, by 5, nothing is queued; if the owner joins
   nobody sleeps, by 5, and all have left.
8. `LogInv == RowInv /\ StateInv /\ SoundInv`, inductive relative to 1, 4 and 6.
   `RowInv` follows an index from the row `addQueue` wrote to the worker that
   takes it. `RowsGoForward` needs more: no two queued indices and no two reporting
   workers share a row, and a row about to be set to RUN or FINISH has not been
   (`StateInv`); otherwise a late update could take another task's row back.
   `LogIsSound` needs that a refused task is neither accepted nor able to be
   added again (`SoundInv`).
9. `PoolIsTaskPool`: a task is in one place at most, to be added, queued or in one
   worker's hands (`OnePlaceInv`), so `Take` adds to `running` exactly the head and
   `TaskReturns` takes exactly one task out. `DestroyJoin` is `TaskPool`'s close by
   6. It needs a worker: a pool without one is destroyed with its queue full, and
   `TaskPool` does not allow that.

### The shared Logger

From `LoggerAssumption` (the null values are no Loggers). `LInv` is `TypeOK` and

- `MetInv`: two pools that exist have met, which `Construct` records for all of them;
- `DeadInv`: whatever a pool finds or uses that is dead, a pool it met is in the
  last step of `freeInstance` or beyond. `Free` kills a Logger when its pool has met
  everyone who could be using it; a pool that is constructed later and finds the
  pointer dangling meets the one that has not cleared it yet;
- `OneInv`: without a race there is one pool at most in `createInstance` and one in
  `freeInstance`, and what each read of the pointer is still so when it acts on it.

### Client and server

From `SocketAssumption`, `RecieverAssumption` and `ClientAssumption` or
`ServerAssumption`: the null values are not members of the sets they complete, the task
is not one of the other threads, and `Backends` names the two builds.

1. `EndpointInv` is inductive whatever the socket does: each operation of `Endpoint`
   has a lemma that says it preserves the invariant and which step of `Reporter`
   it is. `CallsRegisteredReciever` and `QuietAfterEnd` follow, and with the lemmas the
   two `...IsReporter` theorems.
2. `NamesInv`: `sock_` and `epfd_` name what the kernel has under these numbers,
   and nothing else is theirs.
3. Client, `CInv`: adds when the socket is listed (`ListInv`, the labels of the task
   from `do_connect` to `do_disconnect`), that a sender inside `::send` still names the
   socket (`SendInv`: `sock_` changes in `do_delete` only, which waits for the `mtx_` the
   sender keeps), and that in the kevent build a refused socket is in the hands of
   `Discard` only (`RefusedInv`).
4. Server, `SInv`: adds that what is listed, what is watched and, in the epoll build,
   what is accepted are the same connections, but for the one that is just being closed
   (`ListInv`), that a server that closes all of them is being ended and cannot be started again
   before it is joined (`EndInv`), that each connection has one
   event in a batch at most (`BatchInv`), and that the connection a callback was called
   for is open while it runs and is what the task sends to (`ClientInv`).
   `EventsStayValid` alone is not inductive: it is by `BatchInv` that closing a
   connection takes no other event's descriptor away.

### The stream

From `FramingAssumption`: sizes are natural numbers, zero included, and the stream has
room for a cell.

`WholeAndInOrder` speaks of what was delivered; what makes it true is in the stream, in
the frame being written and in the header being read. `FInv` says of all of them which
cell of which frame they hold. The frames begun, laid end to end, number their cells
from 1, and there are a table `end` (where each frame ends), a number `n` of cells
received and a number `k` of messages the receiver is past, such that (`InStep`)

- `Layout`: `end` adds up the frames in the order in which their `do_send` got `mtx_`;
- `StreamInv`: the stream holds the cells from `n + 1` on; while the connection is up,
  what the sender with `mtx_` has left is the rest up to `end[Len(order)]`, and
  if nobody has `mtx_` there is nothing left;
- `RecieverInv`: between messages `n` is `end[k]`, and in `recv_` it is as far beyond as
  what `recv_` has received, which is the beginning of the header or data of message
  `k + 1`, or else the connection is cut and nothing more is to come;
- `DeliveredInv`: those of the first `k` messages that have data have been reported.

With `SenderInv` (one sender at a time is in the middle of a frame, a message is sent once)
this is inductive. The table is *asserted to exist*, not computed: `SendBegin` extends the
one there was by a value, so no step needs the sum over a sequence and none of the proof is
by induction over data. For the same reason `WholeAndInOrder` counts the messages that have
data with `Rank`, the size of a set, whose growth by at most one is a fact about cardinality.
`NeverOutOfStep` is a conjunct of `RecieverInv`: a header is complete with cells 1 and 2 of
one frame, and what is in them is a magic and a size. So is the reason for `NeverWaitsInVain`:
when the stream is empty and `recv_` needs more, `n` is not the end of a frame, so the sender
with `mtx_` has the rest, or the connection is cut. A cut may lose the rest of a frame, and
the receiver is then left with part of it and an empty stream: it never reads on.

### Client and server together

From `EchoAssumption`: each request and each reply has data, and the owner is not the client's task.

1. `SidesInv`: both endpoints keep `EndpointInv`, since each step of `Echo` is one operation of
   each `Endpoint` or none (`ClientSteps`, `ServerSteps`).
2. `UpIsFraming`: each step is one of `Framing`'s to the requests, or none. What `FramingProofs`
   proves then holds of them: the first requests sent are delivered, whole and in order.
3. `OrderInv`: the replies begun are to the first requests delivered. A reply is to
   the request handed over last; it can be begun only when that has none, and the callback
   returns only when it has one, so while a receiver is registered all requests but the one
   being reported have been replied to (`RecieveOrder`, `ReportOrder`, `ReplyOrder`,
   `ReportEndOrder`). After `EndClear` requests are still received but no longer replied
   to, and what has been replied to stays a prefix.
4. `DownIsFraming` needs 3: a reply is to a request that exists. With it the replies too are
   delivered whole and in order, and `InOrder` puts the two directions together.
5. `BothAreReporters` is 1 with what `EndpointProofs` says of each operation of `Endpoint`.
6. Standstill, from `StillInv`: 1; `NeverWaitsInVain` of both directions, by 2 and 4; who has
   closed what (`CutInv`); the owner is not in `sendData` once it is in `end` (`OwnerInv`);
   a reply not yet sent has the server's task in its callback (`ReplyInv`). If nothing goes on
   and somebody is in `sendData`, somebody has `mtx_` and waits for room (`SenderGoesOn`,
   `SomebodyHasMtx`). A task in `poll` can go on: if it waits in `recv_`, the sender it waits for
   finds room (`PollGoesOn`). So the server is at rest or in a callback that waits for room
   (`ServerStands`), the client is at rest, in a callback that sends, or waits for `mtx_` in
   `do_delete` (`ClientStands`), and an `end` only waits for a callback or the thread
   (`EndStands`). What these leave together is `Knot` or `AtRest` (`Standstill`). With the owner alone,
   `mtx_` in the owner's hands means that the client is not ended (`OwnerInv`), so its
   task is not in `do_delete` and there is no knot. `KnotIsForEver` needs 1 and the guards.

### Only model-checked

- What rests on fairness: `AcceptedRuns`, `DestructorReturns`, `Reconnects`, `CutIsClosed`,
  `SentIsRecieved`, `Answered`, `EndsReturn`, and the liveness halves of the
  two refinements: temporal reasoning about `WF_` and `SF_` is out of the provers' reach.

A few theorems state invariants no run repeats: the types of the server and of `Echo`, and what
`EndpointProofs` shows of every endpoint, which `QuietAfterEnd` of the client and
`ImplementsReporter` of both check already.

## 8. What is not modelled

- `socket/select/MySocket.cpp`: built for WinSock only and written against an older
  `MySocket.hpp`. It uses members the header does not declare (`debug_`,
  `clientSockets_`), so there is no program a model of it would describe.
- `Logger` of the sockets: prints each line as it comes, without a lock (its mutex
  is commented out). It keeps an id and a header per object and reads only how
  many there are; nothing another component does depends on it.
- `tests/`: used to learn how the library is called. `MySocketTest.cpp`'s receiver,
  which replies from inside `recieveData`, is part of `Echo`.
- `CMakeLists.txt`, `cmake/`, `android_run.py`, `func/` (build files only).
- The text `Logger::print` draws and thread names. `print` is a walk over the two
  vectors and changes nothing; where it may run is `NoWalkDuringGrowth`'s subject.
- Several clients of one server, reconnects and cuts by the network *in one model*.
  `SocketServer` has several peers, `SocketClient` reconnects, `Framing` is cut at any
  time; `Echo` has one connection that lasts until a side is ended.
- Tasks and receivers that throw, and `std::thread`'s constructor when it fails: both
  end the process. Destructors of `Server` and `Client`, which repeat `end` and what
  the task does at its end.
- `end` called from inside a callback, which locks `mtx_` twice, and two threads
  that call `start` and `end` at once: the code supports neither and the tests do
  neither.
- A negative thread count, which becomes a huge `size_t`. Zero is allowed: see
  `Workers # {}` in `DrainedWhenDestroyed` and `PoolIsTaskPool`.
- Torn reads of `isRunning_` (a plain `bool` of the endpoint, read by the task
  without a lock) and of `connectedSockets_` during `push_back` or `erase`: one
  call of `push_back` or `erase` is one step, so a walk sees it before or after. This is the
  granularity at which the code is meant, not what a data race may do. The order of `erase` and
  `::close` is modelled as it is in the code.
- Two pools that share the Logger and use it at once: each holds its own `mutex_` while it
  walks the vectors or makes them grow, so `NoWalkDuringGrowth`, which is about one pool, does not
  carry over. `SharedLogger` says which pools share one.
- `::send` interrupted by a signal after part of a frame.

## 9. Plan

Done, in this order: `ThreadPool` with its runs, refinement and proofs; `Endpoint` and
`Socket`; `SocketClient`; `SocketServer`; `Framing`; `Reporter` and the two refinements
of it; `Echo`; `SharedLogger`; the proofs about the log, the refinement of `TaskPool`,
the endpoints, the client, the server, the shared Logger, the stream, and the client and
server together; the standstill predicates of `Echo` and `ThreadPool` and what is proved of
them; the two endpoints of `Echo` as `Reporter`s.

Left:

1. `Echo` with two clients on one server: a client that does not receive holds the
   server's task in its callback, and with it every other client. Two connections
   square the state space; it needs a coarser `Framing` (a frame is in the stream
   or not) that `Framing` implements.
2. A standstill predicate for `SocketClient` and `SocketServer`, which says of an `end()` in
   progress whom it waits for; `Echo` has it for one connection.

## 10. Running it

```
tlc -workers 2 -config PoolSafety.cfg MCThreadPool.tla     # and so on, see PROJECT.json
tlapm SocketClientProofs.tla                               # and so on, each *Proofs.tla
```
