# TLA+ models of the muduo reactor core (src/jmuduo/muduo/net)

These modules model the reactor networking core of this repository with TLC:

- the event loop's cross-thread invocation protocol;
- the TcpConnection state machine;
- the TcpServer registry with its two-hop connection removal;
- the epoll registration state that ties these together;
- the Acceptor's reserve-descriptor answer to EMFILE;
- the EventLoopThread start-up handshake and its destruction;
- the input Buffer's `readFd()`, shown to implement an abstract byte stream;
- a connection's output path: direct writes, the high-water-mark and write-complete callbacks, deferred shutdown and a peer reset, shown to implement an abstract output stream.

Every definition is translated from the C++ source, and `PROJECT.json` maps each one to the lines it models.

## 1. The system (inventory)

| Part | Source | State | Operations | Interacts with |
|---|---|---|---|---|
| EventLoop | `net/EventLoop.cc` | `looping_`, `quit_`, `callingPendingFunctors_`, `pendingFunctors_` (under `mutex_`), the eventfd counter | `loop()`, `quit()`, `runInLoop()`, `queueInLoop()`, `wakeup()`, `handleRead()`, `doPendingFunctors()`, `updateChannel()`, `removeChannel()` | every other thread (queueInLoop, quit), Poller, Channels |
| EPollPoller | `net/poller/EPollPoller.cc` | `channels_` map, each channel's `index_` (kNew/kAdded/kDeleted), `events_` array | `poll()`, `fillActiveChannels()`, `updateChannel()`, `removeChannel()` | EventLoop, Channel |
| Channel | `net/Channel.h` (Channel.cc is not in the repository) | `events_` interest (read/write), `index_`, `tie_` | `enableReading/Writing`, `disableWriting/All`, `remove()` | its owner (TcpConnection, Acceptor), EventLoop |
| TcpConnection | `net/TcpConnection.cc` | `state_` (kConnecting, kConnected, kDisconnecting, kDisconnected), input/output buffers, channel, socket | `send()`, `sendInLoop()`, `shutdown()`, `shutdownInLoop()`, `connectEstablished()`, `connectDestroyed()`, `handleRead/Write/Close/Error()` | its io loop, TcpServer (close callback), the application (callbacks, `send`/`shutdown` from any thread) |
| TcpServer | `net/TcpServer.cc` | `connections_` (name → TcpConnectionPtr), `nextConnId_` | `newConnection()`, `removeConnection()`, `removeConnectionInLoop()` | Acceptor (base loop), pool loops |
| EventLoopThreadPool | `net/EventLoopThreadPool.cc` | `loops_`, `next_` | `start()`, `getNextLoop()` | TcpServer |
| EventLoopThread | `net/EventLoopThread.cc`, `base/Mutex.h` | `loop_`, `exiting_`, `mutex_`, `cond_` | `startLoop()`, `threadFunc()`, destructor | the pool |
| Acceptor | `net/Acceptor.cc` | listening socket, `idleFd_` | `listen()`, `handleRead()` with the EMFILE trick | TcpServer |
| Buffer | `net/Buffer.cc` (only `readFd`; Buffer.h is not in the repository) | `buffer_`, `readerIndex_`, `writerIndex_` | `readFd()` scatter read, `append()`, `makeSpace()`, `retrieve()` | TcpConnection |
| TimerQueue | not in the repository | | | |

How they interact:

- **Acceptor to a pool loop.** The Acceptor's read event on the base loop calls `TcpServer::newConnection()`. That picks a pool loop round-robin, creates the connection in kConnecting, inserts it into `connections_`, and `runInLoop`s `connectEstablished` on the chosen loop.
- **I/O on the connection's loop.** All I/O for a connection then happens on that loop.
- **Closing takes two hops.**
  1. `handleClose()` runs on the io loop. It disables the channel and calls `TcpServer::removeConnection()`.
  2. That calls `runInLoop(removeConnectionInLoop)` on the base loop, which erases the registry entry.
  3. The base loop then `queueInLoop`s `connectDestroyed` back on the io loop, and `connectDestroyed` removes the channel from the poller.
- **Object lifetime.** A connection lives as long as some `shared_ptr` to it does: the registry, a functor bound to `shared_from_this()`, or the application.
- **Raw-pointer functors.** `send()` and `shutdown()` from a foreign thread queue functors bound to the raw `this` pointer.
- **Start-up.** `TcpServer::start()` starts the pool. `EventLoopThreadPool::start()` calls `startLoop()` for each thread in turn, and each call waits on `cond_` until the new thread has built its EventLoop and published it. Then the base loop runs `Acceptor::listen()`.
- **Shared descriptor table.** The Acceptor shares the process's descriptor table with the connections and with every other thread.

Behaviours that make this hard:

- a loop blocked in `epoll_wait` while another thread queues work;
- functors queuing functors;
- `quit()` racing `loop()`;
- `send()`/`shutdown()` racing a peer close across threads;
- the lifetime of a connection across two loops and three queued functors;
- the double bookkeeping of channel registration;
- a write side shut only after the output drains;
- descriptor exhaustion between system calls;
- condition-variable hand-offs with spurious wake-ups;
- a destructor's `quit()` racing the start of `loop()`.

## 2. Modules

### `EventLoop.tla` (instance `MCEventLoop.tla`)

One loop thread and a set `Producers` of foreign threads.

| Model | Code |
|---|---|
| `pending` | `pendingFunctors_` |
| `functors` | the local vector swapped out by `doPendingFunctors()` |
| `wakeCount` | the eventfd counter |
| `calling` | `callingPendingFunctors_` |
| `quitFlag` | `quit_` |
| `looping` | `looping_` |
| `lpc` | the position in `loop()` |
| `ppc` | each producer's position in `queueInLoop()` or `quit()` |

The loop actions:

- `LoopStart`, `LoopTop`: `loop()` entry and the `while (!quit_)` test. `quit_` is a plain bool, so `QuitRead` lets the test read the old value after another thread's `quit()` has stored TRUE, until that thread's `wakeup()` system call orders the store.
- `PollReturnWakeup`, `PollReturnOther`: `epoll_wait` returns.
- `Dispatch`: the wake-up channel's `handleRead()` resets the counter, or another handler `queueInLoop`s on its own loop.
- `BeginPending`, `RunFunctor`, `EndPending`: `doPendingFunctors()`.

The producer actions:

- `ProducerPush` is the locked push.
- `ProducerWake` is the `wakeup()` after the lock is released.
- `ProducerQuit` is `quit()` from another thread.

Tasks are numbered as they are pushed, and the history variable `executed` records the order in which they ran. `quitCalled` records that quit() was called.

### `TcpServer.tla` (instance `MCTcpServer.tla`)

This module composes TcpServer, TcpConnection, the pool's `getNextLoop()`, the channel interest set, and EPollPoller's registration index, across a base loop and the pool loops.

Each loop is abstracted to its functor queue:

- `pending[l]`: the queue;
- `batch[l]` and `bpos[l]`: the swapped-out vector and how far it has run;
- `cont[l]`: a functor that `runInLoop` is running inline.

EventLoop.tla shows separately that queued functors are not stranded. Here, a loop with work eventually runs it.

The connection state:

| Model | Code |
|---|---|
| `state` | `state_`; "New" means not constructed yet |
| `loopOf` | `loop_` |
| `connections` | `connections_` |
| `events` | `Channel::events_` |
| `index` | `Channel::index_` |
| `outBuf` | `outputBuffer_.readableBytes()` |
| `writeShut` | `shutdownWrite()` was done |
| `peerFin` | the peer's FIN is pending |
| `userRefs` | the application's `TcpConnectionPtr`s |
| `upc` | for each application thread (`AppThreads`), a cross-thread `send()`/`shutdown()` between its state test and its action |

`Construct` is the TcpConnection constructor. `EnableReading`, `EnableWriting`, `DisableWriting`, `DisableAll` and `IsWriting` are Channel.h's interest setters; each one calls `UpdateChannel`, which is `EPollPoller::updateChannel()`.

The functors are records `[op, conn, len]`. Only establish, removeInLoop, destroyed and writeComplete hold the connection (`HoldsConn`). `Destroyed(c)` means that no `shared_ptr` is left. The local vector keeps its functors until `EndPending`, as the code's `std::vector` does.

The actions:

- `NewConnection`: `newConnection()`.
- `HandleMessage`: `handleRead()` with n > 0, followed by the application's reaction. It may consume the data, echo it with `send()`, or call `shutdown()`.
- `HandleReadEof`, via `HandleClose`: `handleRead()` with n == 0, then `handleClose()`.
- `HandleWrite`: `handleWrite()`.
- `Exec`: runs a functor. The functors are `connectEstablished`, `removeConnectionInLoop`, `connectDestroyed`, `sendInLoop` and `shutdownInLoop`.
- `UserCall` and `UserAct`: the two halves of a cross-thread `send()`/`shutdown()` on one application thread. `UserOps` says which of the two a configuration lets the application call.
- `UserRelease`: the application drops its pointer.
- `PeerClose`: the environment, a FIN arriving.

`sendInLoop` keeps every outcome of the direct `::write`:

- everything written, which queues writeComplete;
- a part written, or nothing (EWOULDBLOCK), which appends the rest and enables writing;
- EPIPE after `shutdownWrite`, where the data is dropped.

`GivesUp` is its first test, the return on kDisconnected (TcpConnection.cc:146).

### `Acceptor.tla` (instance `MCAcceptor.tla`)

The descriptor table has `MaxFds` numbered slots. `fdOwner` says what each holds: the listening socket, the reserve ("idle"), the connection accepted only to be refused, a TcpConnection's socket, or another thread's file. `open()` and `accept()` take the lowest free number, as POSIX requires (`Take`); `::close(fd)` frees the slot whoever holds it (`CloseFd`). `idleFd` is the number `idleFd_` holds, or -1. After `::close(idleFd_)` it still holds the closed number until the next assignment, as in the code. `apc` is the loop thread's position inside `handleRead()`.

- `Init`, `Listen`: the constructor (reserve opened) and `listen()`.
- `HandleRead`: `accept()`. It either hands the socket to `newConnection()`, or, on EMFILE, does `::close(idleFd_)`.
- `AcceptIdle`, `CloseAccepted`, `Reopen`: the next three system calls of the EMFILE branch, each a step of its own, because another thread may run between them.
- The environment:
  - `Connect`: a client connects.
  - `ConnClose`: a connection is destroyed.
  - `OtherOpen`, `OtherClose`: other threads' files. These only happen when `OtherThreads` is TRUE.

### `EventLoopThread.tla` (instance `MCEventLoopThread.tla`)

The base thread (the "starter") runs `EventLoopThreadPool::start()` over `NumThreads` threads and later destroys the pool. Each IO thread runs `threadFunc()`.

- `mutex_` is modelled by its holder (`Acquire`, `Release` are `MutexLock::lock/unlock`).
- `cond_` is modelled by `waiting`, `signaled` and up to `MaxSpurious` spurious wake-ups. A `notify()` with no waiter is lost, as with `pthread_cond_signal`.
- The starter's actions:
  - `Create`: `new EventLoopThread`, then `thread_.start()`.
  - `StarterLock`: `MutexLockGuard lock(mutex_)`.
  - `StarterTest`: one test of `while (loop_ == NULL)`, returning (`StartLoopReturns` pushes into `loops_`) or waiting.
  - `StarterWake`, `StarterSpurious`: `cond_.wait()` returning after a notify, or spuriously.
  - `Destroy`, `DestroyNext`, `Join`: `~EventLoopThread()`, with `quit()` setting `quit_` and writing the eventfd.
- The IO thread's actions:
  - `RunCallback`: `callback_(&loop)`.
  - `IoLock`, `Publish`: `loop_ = &loop; cond_.notify()` under the mutex.
  - `LoopEnter`: `loop()`'s `quit_ = false`.
  - `LoopIterate`, `LoopExit`: iterations of `while (!quit_)` and the exit.

### `Buffer.tla` and `ByteStream.tla` (instance `MCBuffer.tla`)

`Buffer.tla` models one input buffer.

- `buffer` is `buffer_` (its length is `buffer_.size()`); `readerIndex` and `writerIndex` are the indices.
- Byte k of the peer's stream is the value k, so a lost, repeated or misplaced byte is visible.
- `ReadFd` is `readFd()`:
  - `readv()` takes 1 to min(available, writable + `ExtraSize`) bytes;
  - if they fit, `writerIndex_ += n`;
  - otherwise `writerIndex_ = buffer_.size()` and the extrabuf part is appended.
- `AppendData`, `MakeSpace` and `RetrieveData` are Buffer.h's `append()`, `makeSpace()` and `retrieve()`. They are modelled from spec 3 and 4.8, because Buffer.h is not in the repository.
- `Retrieve` is the message callback consuming bytes.
- `PeerSend` is the environment.

`ByteStream.tla` is the abstract specification: the bytes sent, the bytes still in the socket, and a queue `q` of bytes read and not yet retrieved. `Buffer.tla` instantiates it with `q <- SubSeq(buffer, readerIndex + 1, writerIndex)` and checks `Stream!Spec` as the property `ByteStreamSpec`.

### `TcpConnectionOutput.tla` (instance `MCTcpConnectionOutput.tla`)

`TcpConnectionOutput.tla` models the output path of one connection on its own loop thread, in more detail than `TcpServer.tla` does.

- **The loop.** `lpc`, `todo` and `rev` follow `EventLoop::loop()`:
  - `Poll` is `EPollPoller::poll()`. It returns the ready channels in any order, or none on the timeout.
  - `ConnRevents` is the revents epoll reports: EPOLLERR, EPOLLIN, EPOLLOUT.
  - `HandleError`, `HandleRead` and `HandleWrite` are the callbacks `Channel::handleEvent()` runs for them, in that order. Channel.cc is not in the repository; the order (error, then read, then write) is that of the upstream muduo `Channel::handleEventWithGuard()`, and `ConnTurn` is marked `spec_modelled`.
  - `RunFunctor` is `doPendingFunctors()`, and `EndIteration` goes back to polling.
- **The connection.** `state`, `events`, `outBuf` and `writeShut` are `state_`, the channel's interest, `outputBuffer_.readableBytes()` and the shut write side.
  - `SendInLoop` is `sendInLoop()` whole: the direct write with its results (all, part, EWOULDBLOCK, EPIPE drops the data, ECONNRESET queues it), `HwmCrossed`, the append and `enableWriting()`.
  - `HandleWrite` and `Drained` are `handleWrite()`. A failed write only logs and leaves write interest on.
  - `HandleRead` returns data first, then a pending error (`handleError()`), then end of stream (`handleClose()`).
  - `HandleClose` ends in `TcpServer::removeConnection()`, which on a one-loop server queues `connectDestroyed()`.
- **The application.** A second channel is the data source of a relay. `SrcHandler` `send()`s each message and, at the source's end, calls `shutdown()`. The high-water-mark callback pauses the source (`paused`) and the write-complete callback resumes it.
- **The history.** `accepted` counts the bytes `send()` took on a kConnected connection and `delivered` the bytes the peer read. The code keeps neither; they exist to state the refinement below.
- **The refinement.** `OutputStream.tla` is what the output path promises. While the stream is `up`, `Accept` takes n bytes and writes w of them straight to the kernel only if nothing is queued, `Transmit` moves queued bytes to the kernel (and may shut the write side once none are left), `Deliver` hands kernel bytes to the peer, and `Shut` needs an empty queue. `Break` takes the stream down, and `Dead` promises only that nothing more is delivered and the kernel never grows. `Stream == INSTANCE OutputStream WITH ...` maps `sent` to `accepted`, `queued` to `outBuf`, `kernel` to `sock`, `shut` to `writeShut`, and `up` to "not kDisconnected and not reset". `Retrieve` is `outputBuffer_.retrieve(n)` in handleWrite().
- **The environment.** `sock` is the kernel send buffer of `SndBuf` bytes. `PeerRead` drains it; `PeerData`, `PeerShutdown` and `PeerReset` are the peer's data, FIN and RST. After a reset the first write returns ECONNRESET and clears SO_ERROR, later writes return EPIPE, and the socket is readable (error, then end of stream).

## 3. Runs

| Run | cfg | Expect | What it shows |
|---|---|---|---|
| eventloop | MCEventLoop.cfg | pass | Four properties hold. `NoStrandedTask`: the loop never blocks in poll with work queued and no wake-up pending. `FifoOnce`: functors run once, in push order. `TasksRun`: every queued functor runs. `QuitTakesEffect`: a quit() made while the loop runs makes loop() return. |
| server | MCTcpServer.cfg | pass | Three invariants hold. `ServerAssertionsHold`: the assertions of connectEstablished, removeConnectionInLoop, removeChannel and handleClose. `DestroyedIsUnregistered`: no freed Channel is left in `channels_`. `DrainedBeforeShutdown`: no write side is shut with output queued. Two liveness properties hold. `PeerCloseHandled`: a FIN brings the connection to kDisconnected. `ClosedIsReclaimed`: a closed connection leaves `connections_` and the poller. `TypeOK` is checked too. |
| server_cross | MCTcpServerCross.cfg | pass | Two application threads call `send()` on a connection they may hold while it closes, with an empty pool (every `runInLoop` of the server runs inline on the base loop). `DestroyedIsUnregistered` holds: a sendInLoop that lands after `connectDestroyed()` gives up on kDisconnected instead of re-adding the Channel. `shutdown()` is left out of this run, because its check-then-set race breaks the property (see server_assert). |
| server_uaf | MCTcpServerUAF.cfg | violation | `NoUseAfterFree` fails. A raw-`this` sendInLoop or shutdownInLoop runs after the connection was destroyed (TcpConnection.cc:84, 214). |
| server_assert | MCTcpServerAssert.cfg | violation | `ServerAssertionsHold` fails. The shutdown() check-then-set race (TcpConnection.cc:210) moves a closed connection back to kDisconnecting. A queued sendInLoop then re-enables writing, and `removeChannel()` asserts (EPollPoller.cc:175). |
| acceptor | MCAcceptor.cfg | pass | With only the loop thread opening descriptors, two properties hold. `ReserveKept`: the reserve is held whenever handleRead() is not running. `BacklogDrains`: every queued connection is accepted or refused, even when no connection ever closes. |
| acceptor_others | MCAcceptorOthers.cfg | pass | With another thread opening and closing files between handleRead()'s system calls, `ClosesOnlyOwn` holds: each time handleRead() is about to `::close(idleFd_)`, `idleFd_` is -1 or names its own reserve or refused connection, never a number since handed to another thread; no refused connection outlives handleRead(). |
| acceptor_race | MCAcceptorRace.cfg | violation | `BacklogDrains` fails. Another thread takes the slot freed by `::close(idleFd_)`, so `open("/dev/null")` fails. From then on every EMFILE leaves the connection in the backlog, and the loop spins on the readable listening socket (Acceptor.cc:113-122). |
| eventloopthread | MCEventLoopThread.cfg | pass | Two properties hold, for a pool of two threads with spurious wake-ups. `ReturnedLoopReady`: `startLoop()` returns only a published loop whose init callback has run. `StartReturns`: `start()` returns. |
| eventloopthread_hang | MCEventLoopThreadHang.cfg | violation | `DestructionReturns` fails. The pool is destroyed after `startLoop()` returned but before the IO thread entered `loop()`. `quit_ = false` (EventLoop.cc:129) erases the destructor's quit(), and `join()` (EventLoopThread.cc:45) waits for ever. |
| buffer | MCBuffer.cfg | pass | Two properties hold. `ZonesOrdered`: kCheapPrepend <= readerIndex_ <= writerIndex_ <= size. `ByteStreamSpec`: the buffer refines ByteStream, so the readable zone is exactly the bytes read and not retrieved, in send order. This holds across reads that spill into extrabuf, moves back to kCheapPrepend, and resizes. |
| output | MCTcpConnectionOutput.cfg | pass | Six properties hold for one connection fed by a flow-controlled source, with a peer that may send, half-close or reset. `WritingIffQueued`: while the connection is up, write interest is on exactly when output is queued. `OutputBounded`: an application that pauses at the high-water-mark callback keeps the output buffer below the mark plus one message, although the callback is only queued. `PausedResumes`: a source paused at the high-water mark is resumed unless the connection closes. `ShutdownCompletes`: a shutdown() with output queued shuts the write side once it drains. `ResetCloses`: a reset always closes the connection, although handleWrite()'s failed writes leave write interest on. `OutputStreamSpec`: the output path refines `OutputStream`, so while the connection is up no byte send() accepted is lost, written twice or overtaken, across direct, partial and deferred writes. |

**The findings.** The four violations are defects of the code, not of the models.

- send() and shutdown() bind the raw `this` pointer. The code marks this FIXME.
- shutdown() has a check-then-set race, also marked FIXME in the code. It leads to a failed assertion in removeChannel().
- The Acceptor's reserve descriptor can be lost for good. Spec 4.4 says it never is.
- Destroying a pool that has just started can hang in `join()`, because a quit() before loop() is lost.

In the cross-thread configuration, `PeerCloseHandled` fails as well, for the same reason as server_assert: the state is left at kDisconnecting forever. That is why the liveness properties are checked with in-loop application calls only.

**Mutants.** Each property of a passing run is paired in `PROJECT.json` with a mutant of the code it is about, and TLC finds the property violated under that mutant:

- a dropped wake-up;
- a copy in place of the swap;
- an off-by-one round-robin;
- a missing `disableAll()`;
- a missing `channel_->remove()`;
- an unconditional `shutdownWrite()`;
- a missing `queueInLoop(connectDestroyed)`;
- a missing `enableReading()`;
- a missing `open("/dev/null")`;
- no EMFILE branch;
- `idleFd_` keeping its old number when `accept()` fails;
- `if` in place of `while` around `cond_.wait()`;
- a missing `cond_.notify()`;
- a missing `writerIndex_ = buffer_.size()`;
- a resize one byte short;
- `>` in place of `>=` in the high-water-mark test;
- `sendInLoop()` without its kDisconnected test;
- write interest left on after the buffer drains;
- no `shutdownInLoop()` after the buffer drains;
- pending functors run newest first;
- a read of 0 taken for an error;
- `retrieveAll()` in place of `retrieve(n)` after a partial write in handleWrite().

## 4. Bounds

**EventLoop.** Two producers and `MaxTasks = 3` functors. Three functors are enough to cover:

- a producer's task;
- a follow-up queued by a running functor (the callingPendingFunctors_ case);
- a task queued by an event handler;
- both producers racing.

One quit() is allowed per behaviour.

**TcpServer.** The bounds are:

- two connections (one in the cross-thread runs, which grow fast);
- one pool loop, or none;
- messages of up to `MaxMsg = 2` bytes;
- `MaxReads = 2` messages per connection;
- `MaxCalls = 2` cross-thread calls, made by two application threads in `server_cross` (so that two calls can be in flight at once) and by one in the violation runs, where one is enough.

Two-byte messages allow partial writes and appends behind a queued write. Two connections share the io loop, so one connection's functors interleave with the other's events. The output buffer is not bounded separately: the bounded sends bound it. A bound never disables a loop step, only new input from the peer or the application.

**Acceptor.** Five descriptor slots and six clients. The listening socket and the reserve take two slots, so three connections fill the table. The fourth client meets EMFILE, and the fifth and sixth meet it again after the reserve is lost or while a connection closes. Other threads hold at most one descriptor, which is enough to take the freed slot.

**EventLoopThread.** Two threads, so that the second `startLoop()` runs while the first thread is already looping, and the pool's destruction meets a thread in every phase. At most two spurious wake-ups: enough to wake the starter before and after the publication. More only repeat the while loop.

**Buffer.** `kCheapPrepend = 1`, `kInitialSize = 2`, extrabuf of 2 bytes, 6 bytes sent. With these, reads fill the writable zone exactly, spill into extrabuf, and make `append()` both move bytes back and resize. The code's 8, 1024 and 65536 only scale these cases.

**TcpConnectionOutput.** A kernel send buffer of 2 bytes, a high-water mark of 2, three messages of 1 or 2 bytes, and one message from the peer. With these, a direct write is partial, the buffer reaches the mark exactly and passes it, drains and crosses again, and shutdown() meets queued output. A reset or FIN can come at any point.

**Deadlock checking.** It is on for the output run: the loop polls with a timeout and never blocks. It is off in every other cfg, with a comment. When all connections are closed and the budget is spent, the server correctly waits in `epoll_wait` for ever. In the same way, the acceptor waits for clients, the buffer waits for bytes, and the process ends after the pool is destroyed.

## 5. Fairness

**EventLoop.**

- Weak fairness on the loop thread's steps. The thread runs whenever it is not blocked.
- Weak fairness on each producer's `wakeup()`. A thread that has pushed goes on to write the eventfd.
- None on `PollReturnOther`. Another descriptor becoming ready, or the 10 s timeout, is not assumed, so the liveness properties mean prompt execution.
- None on when a racing store to `quit_` becomes visible. The model only counts on the writer's `wakeup()` system call, which follows the store. `QuitTakesEffect` therefore shows that `quit()` works through the wake-up even if the racy store is seen late; with visibility left open for ever it fails.

**TcpServer.**

- Weak fairness on each loop's functor steps.
- Weak fairness on finishing a started cross-thread call.
- Strong fairness on `HandleReadEof`. epoll is level-triggered, and `loop()` dispatches every ready channel in each iteration (EventLoop.cc:147-152). A FIN that is readable whenever the loop polls is therefore served, even if the model, which runs one handler per step, keeps choosing another channel.

Peer traffic, new connections and writability are never assumed.

**Acceptor.** Weak fairness on the loop thread's steps: `listen()`, and `handleRead()` while the level-triggered listening socket is readable. Nothing is assumed of clients, connections or other threads. In particular, no connection is assumed ever to close.

**EventLoopThread.**

- Weak fairness on each thread's steps.
- None on spurious wake-ups: they are allowed but never counted on.
- Nothing forces the pool's destruction to begin. Once it has begun, `~EventLoopThreadPool` destroys every thread (`DestroyNext` is fair).

**TcpConnectionOutput.** Weak fairness on the loop thread's steps: poll has a timeout, so the loop always runs on. Weak fairness on `PeerRead`: a peer that has not reset eventually reads what is in flight. Without it no output could ever be required to drain. Nothing is assumed of the peer's data, FIN or reset.

**Buffer.** No fairness is assumed. Its properties are safety properties, including the refinement, which is checked without liveness.

## 6. Not modelled

- **Cross-thread sends in `TcpConnectionOutput.tla`.** The source there runs on the connection's loop, so `send()` always calls `sendInLoop()` at once, and `sendInLoop()`'s kDisconnected return cannot happen. Cross-thread sends are the subject of `TcpServer.tla`.
- **EPOLLHUP without EPOLLIN** (the channel's close callback). A connection reads for as long as it has any interest, and a reset or FIN also makes the socket readable, so `handleClose()` is always reached through a read.
- **An empty-pool server with in-loop calls.** No run checks it on its own. `server_cross` checks the inline `runInLoop()` paths with an empty pool, and `server` checks the in-loop calls.
- **A type invariant for EventLoop.tla.** Its state has no shape the code could get wrong that `FifoOnce` and `NoStrandedTask` do not already catch, so none is checked.
- **TcpServer destruction** (`TcpServer.cc:49-63`). In the model the server outlives every connection. The destructor's hand-off of each connection to its loop, racing a handleClose() that still calls `removeConnection()` on the raw server pointer (`TcpServer.cc:137`), is listed as a hazard.
- **EPollPoller's event list growth** (`EPollPoller.cc:74`). A smaller array only delays level-triggered events to the next poll. The model dispatches ready channels one per step, so the array size does not matter.
- **TimerQueue:** not in the repository.
- **The base/ utilities** beyond Mutex/Condition (BlockingQueue, ThreadPool, CountDownLatch, AsyncLogging) and the course exercises in src/08 and src/09. The net library does not use them.
- **Logging and formatting.**
- **Thread-affinity assertions:** the models only take the steps the code allows on each thread.
- **accept() errors other than EMFILE** (`Acceptor.cc:110`). What they do is decided in `sockets::accept()` (SocketsOps.cc), which is not in the repository, so the model has no source to follow; its descriptor table is the process's own.
