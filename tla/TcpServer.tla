----------------------------- MODULE TcpServer -----------------------------
(***************************************************************************)
(* TcpServer, TcpConnection and the channel registration they drive       *)
(* (src/jmuduo/muduo/net/TcpServer.cc, TcpConnection.cc), across the      *)
(* server's base loop and the loops of its EventLoopThreadPool.            *)
(*                                                                         *)
(* Each loop is a thread that either handles one ready event of one of its *)
(* channels, or runs doPendingFunctors(): swap the queue out, run the      *)
(* functors one by one, and only then drop the vector (and with it the    *)
(* shared_ptrs the functors hold).  How a loop is woken is the subject of *)
(* EventLoop.tla; here a loop with queued functors eventually runs them.  *)
(*                                                                         *)
(* runInLoop() on the loop's own thread runs the functor at once: the     *)
(* model keeps it in cont[l], which the loop runs before anything else.   *)
(*                                                                         *)
(* A TcpConnection object lives as long as a shared_ptr to it exists: the *)
(* registry connections_, a functor bound to the shared_ptr, or the       *)
(* application (userRefs).  sendInLoop and shutdownInLoop are bound to    *)
(* the raw `this' (the FIXMEs of send() and shutdown()) and hold nothing. *)
(***************************************************************************)
EXTENDS Naturals, Sequences, SequencesExt

CONSTANTS
  Conns,           \* connection objects the acceptor may create
  BaseLoop,        \* the loop TcpServer and its Acceptor run on
  Pool,            \* the EventLoopThreadPool loops, in creation order
  MaxMsg,          \* largest message (in bytes) a send carries
  MaxReads,        \* bound on the messages a peer sends on one connection
  MaxCalls,        \* bound on the application's cross-thread calls
  UserOps,         \* which of send() ("sendInLoop") and shutdown()
                   \* ("shutdownInLoop") the application calls from
                   \* threads that are not the connection's loop
  AppThreads       \* the application's own threads

Loops == {BaseLoop} \cup ToSet(Pool)

ASSUME /\ BaseLoop \notin ToSet(Pool)
       /\ MaxMsg \in Nat \ {0}
       /\ MaxReads \in Nat
       /\ MaxCalls \in Nat
       /\ UserOps \subseteq {"sendInLoop", "shutdownInLoop"}
       /\ AppThreads # {}

States == {"New", "Connecting", "Connected", "Disconnecting", "Disconnected"}
Ops == {"establish", "removeInLoop", "destroyed", "writeComplete",
        "sendInLoop", "shutdownInLoop"}
Functors == [op : Ops, conn : Conns, len : 0..MaxMsg]
Fn(op, c, n) == [op |-> op, conn |-> c, len |-> n]

\* Functors bound to a TcpConnectionPtr (they keep the object alive).
HoldsConn(f) == f.op \in {"establish", "removeInLoop", "destroyed", "writeComplete"}

VARIABLES
  state,        \* TcpConnection::state_ ("New": not constructed yet)
  loopOf,       \* TcpConnection::loop_
  connections,  \* TcpServer::connections_ (conns stand for their names)
  nextLoop,     \* EventLoopThreadPool::next_
  pending,      \* EventLoop::pendingFunctors_ of each loop
  batch,        \* the vector doPendingFunctors() swapped out
  bpos,         \* how many functors of batch have run
  cont,         \* functor that runInLoop() is running inline (<<>> or <<f>>)
  events,       \* Channel::events_ ("R" readable, "W" writable interest)
  index,        \* Channel::index_ as kept by EPollPoller
  outBuf,       \* outputBuffer_.readableBytes()
  writeShut,    \* socket_->shutdownWrite() has been called
  peerFin,      \* the peer's FIN has arrived (a read will return 0)
  reads,        \* messages read so far on each connection (bounded)
  userRefs,     \* connections the application holds a TcpConnectionPtr to
  upc,          \* the call each application thread has in progress
  calls         \* cross-thread calls the application has made (bounded)

vars == <<state, loopOf, connections, nextLoop, pending, batch, bpos, cont,
          events, index, outBuf, writeShut, peerFin, reads, userRefs, upc, calls>>

NoCall == [op |-> "none", conn |-> CHOOSE c \in Conns : TRUE, len |-> 0]

-----------------------------------------------------------------------------
(* Object lifetime.                                                        *)

\* Functors loop l still holds: queued, in the swapped-out vector (run or
\* not: the vector is freed only when doPendingFunctors() returns), inline.
Queued(l) == ToSet(pending[l]) \cup ToSet(batch[l]) \cup ToSet(cont[l])

\* Functors loop l has still to run.
ToRun(l) == ToSet(pending[l]) \cup ToSet(SubSeq(batch[l], bpos[l] + 1, Len(batch[l])))
            \cup ToSet(cont[l])

HeldBy(c) ==
  \/ c \in connections
  \/ c \in userRefs
  \/ \E t \in AppThreads : upc[t].op # "none" /\ upc[t].conn = c
  \/ \E l \in Loops : \E f \in Queued(l) : HoldsConn(f) /\ f.conn = c

Destroyed(c) == state[c] # "New" /\ ~HeldBy(c)

-----------------------------------------------------------------------------
(* Helpers standing for single calls of the code.                         *)

\* queueInLoop(f) on loop l (always appends; the wake-up is EventLoop.tla's).
QueueInLoop(l, f) == pending' = [pending EXCEPT ![l] = Append(@, f)]

\* Channel::update() -> EPollPoller::updateChannel(): kNew/kDeleted are
\* added (EPOLL_CTL_ADD); a kAdded channel left with no interest is
\* deleted (EPOLL_CTL_DEL), otherwise modified.
UpdateChannel(c, ev) ==
  /\ events' = [events EXCEPT ![c] = ev]
  /\ index' = [index EXCEPT ![c] =
                 IF @ \in {"New", "Deleted"} THEN "Added"
                 ELSE IF ev = {} THEN "Deleted" ELSE "Added"]

\* Channel's interest setters, each followed by update().
EnableReading(c) == UpdateChannel(c, events[c] \cup {"R"})
EnableWriting(c) == UpdateChannel(c, events[c] \cup {"W"})
DisableWriting(c) == UpdateChannel(c, events[c] \ {"W"})
DisableAll(c) == UpdateChannel(c, {})

\* Channel::isWriting().
IsWriting(c) == "W" \in events[c]

\* EventLoop::removeChannel() -> EPollPoller::removeChannel(): the
\* descriptor leaves channels_ and the channel is kNew again.
RemoveChannel(c) == index' = [index EXCEPT ![c] = "New"]

\* EventLoopThreadPool::getNextLoop(): round-robin over the pool, or the
\* base loop when the pool is empty.
\* A mutant of AdvanceNextLoop: wraps with > instead of >=.
AdvanceNextLoop_OffByOne ==
  nextLoop' = IF Pool = <<>> THEN nextLoop
              ELSE IF nextLoop + 1 > Len(Pool) THEN 0 ELSE nextLoop + 1

NextLoopChoice == IF Pool = <<>> THEN BaseLoop ELSE Pool[nextLoop + 1]
AdvanceNextLoop ==
  nextLoop' = IF Pool = <<>> THEN nextLoop
              ELSE IF nextLoop + 1 >= Len(Pool) THEN 0 ELSE nextLoop + 1

\* runInLoop(f) called on the thread of loop `from'.
RunInLoop(from, l, f) ==
  IF from = l THEN /\ cont' = [cont EXCEPT ![l] = <<f>>]
                   /\ UNCHANGED pending
              ELSE /\ QueueInLoop(l, f)
                   /\ UNCHANGED cont

-----------------------------------------------------------------------------
(* The functors.                                                           *)

ExecVars == <<state, connections, pending, events, index, outBuf, writeShut,
              userRefs>>

\* The application's connection callback may keep a TcpConnectionPtr when
\* the connection comes up, and may drop it when it goes down.
MayKeepRef(c) == userRefs' \in {userRefs, userRefs \cup {c}}
MayDropRef(c) == userRefs' \in {userRefs, userRefs \ {c}}

\* A mutant of ConnectEstablished: forgets enableReading().
ConnectEstablished_NoRead(c) ==
  /\ state' = [state EXCEPT ![c] = "Connected"]
  /\ MayKeepRef(c)
  /\ UNCHANGED <<events, index, connections, pending, outBuf, writeShut>>

(* connectEstablished(): assert state_ == kConnecting; kConnected;        *)
(* channel_->tie(); enableReading(); connectionCallback_.                  *)
ConnectEstablished(c) ==
  /\ state' = [state EXCEPT ![c] = "Connected"]
  /\ EnableReading(c)
  /\ MayKeepRef(c)
  /\ UNCHANGED <<connections, pending, outBuf, writeShut>>

\* A mutant of RemoveConnectionInLoop: erases the name but never queues
\* connectDestroyed().
RemoveConnectionInLoop_NoDestroy(c) ==
  /\ connections' = connections \ {c}
  /\ UNCHANGED pending

(* TcpServer::removeConnectionInLoop(): erase the name from connections_  *)
(* (assert n == 1), then queueInLoop(connectDestroyed) on the             *)
(* connection's loop, bound to the TcpConnectionPtr.                       *)
RemoveConnectionInLoop(c) ==
  /\ connections' = connections \ {c}
  /\ QueueInLoop(loopOf[c], Fn("destroyed", c, 0))

\* A mutant of ConnectDestroyed: forgets channel_->remove().
ConnectDestroyed_NoRemove(c) ==
  /\ IF state[c] = "Connected"
       THEN /\ state' = [state EXCEPT ![c] = "Disconnected"]
            /\ events' = [events EXCEPT ![c] = {}]
            /\ MayDropRef(c)
       ELSE UNCHANGED <<state, events, userRefs>>
  /\ UNCHANGED <<index, connections, pending, outBuf, writeShut>>

(* connectDestroyed(): if still kConnected (server teardown), become       *)
(* kDisconnected, disableAll() and run the connection callback; then       *)
(* channel_->remove() takes the channel out of the poller.                  *)
ConnectDestroyed(c) ==
  /\ IF state[c] = "Connected"
       THEN /\ state' = [state EXCEPT ![c] = "Disconnected"]
            /\ events' = [events EXCEPT ![c] = {}]
            /\ MayDropRef(c)
       ELSE UNCHANGED <<state, events, userRefs>>
  /\ RemoveChannel(c)
  /\ UNCHANGED <<connections, pending, outBuf, writeShut>>

\* outputBuffer_.append(remaining) and enableWriting() if not yet writing.
AppendOutput(c, r) ==
  /\ outBuf' = [outBuf EXCEPT ![c] = @ + r]
  /\ IF IsWriting(c) THEN UNCHANGED <<events, index>> ELSE EnableWriting(c)

\* A mutant of GivesUp: sendInLoop() without its own kDisconnected test.
GivesUp_Never(c) == FALSE

\* sendInLoop() gives up writing when the connection is kDisconnected.
GivesUp(c) == state[c] = "Disconnected"

(* sendInLoop(data, n) on loop l: give up when kDisconnected; with nothing *)
(* queued and no write interest try ::write() first (it may write all, a  *)
(* part, nothing (EWOULDBLOCK), or fail with EPIPE after shutdownWrite);   *)
(* queue the rest and enable writing.  A complete direct write queues the *)
(* write-complete callback.                                                 *)
SendInLoop(l, c, n) ==
  LET direct == ~IsWriting(c) /\ outBuf[c] = 0 IN
  \/ /\ GivesUp(c)
     /\ UNCHANGED <<pending, events, index, outBuf>>
  \/ /\ ~GivesUp(c) /\ direct /\ writeShut[c]
     /\ UNCHANGED <<pending, events, index, outBuf>>
  \/ /\ ~GivesUp(c) /\ direct /\ ~writeShut[c]
     /\ QueueInLoop(l, Fn("writeComplete", c, 0))
     /\ UNCHANGED <<events, index, outBuf>>
  \/ /\ ~GivesUp(c) /\ direct /\ ~writeShut[c]
     /\ \E r \in 1..n : AppendOutput(c, r)
     /\ UNCHANGED pending
  \/ /\ ~GivesUp(c) /\ ~direct
     /\ AppendOutput(c, n)
     /\ UNCHANGED pending

\* shutdownInLoop() as seen with interest set ev: shut the write side only
\* when the channel is not writing.
ShutdownWriteIfIdle(c, ev) ==
  IF "W" \notin ev THEN writeShut' = [writeShut EXCEPT ![c] = TRUE]
                   ELSE UNCHANGED writeShut

\* A mutant of ShutdownInLoop: shuts the write side without looking at
\* whether output is still queued.
ShutdownInLoop_NoCheck(c) == writeShut' = [writeShut EXCEPT ![c] = TRUE]

(* shutdownInLoop(): if (!channel_->isWriting()) shutdownWrite().          *)
ShutdownInLoop(c) == ShutdownWriteIfIdle(c, events[c])

(* Run functor f on loop l.                                                *)
Exec(l, f) ==
  LET c == f.conn IN
  CASE f.op = "establish"      -> ConnectEstablished(c)
    [] f.op = "removeInLoop"   -> /\ RemoveConnectionInLoop(c)
                                  /\ UNCHANGED <<state, events, index, outBuf,
                                                 writeShut, userRefs>>
    [] f.op = "destroyed"      -> ConnectDestroyed(c)
    [] f.op = "writeComplete"  -> UNCHANGED ExecVars
    [] f.op = "sendInLoop"     -> /\ SendInLoop(l, c, f.len)
                                  /\ UNCHANGED <<state, connections, writeShut,
                                                 userRefs>>
    [] f.op = "shutdownInLoop" -> /\ ShutdownInLoop(c)
                                  /\ UNCHANGED <<state, connections, pending,
                                                 events, index, outBuf, userRefs>>

-----------------------------------------------------------------------------
Init ==
  /\ state = [c \in Conns |-> "New"]
  /\ loopOf = [c \in Conns |-> BaseLoop]
  /\ connections = {}
  /\ nextLoop = 0
  /\ pending = [l \in Loops |-> <<>>]
  /\ batch = [l \in Loops |-> <<>>]
  /\ bpos = [l \in Loops |-> 0]
  /\ cont = [l \in Loops |-> <<>>]
  /\ events = [c \in Conns |-> {}]
  /\ index = [c \in Conns |-> "New"]
  /\ outBuf = [c \in Conns |-> 0]
  /\ writeShut = [c \in Conns |-> FALSE]
  /\ peerFin = [c \in Conns |-> FALSE]
  /\ reads = [c \in Conns |-> 0]
  /\ userRefs = {}
  /\ upc = [t \in AppThreads |-> NoCall]
  /\ calls = 0

\* The loop thread is in poll/dispatch: not inside doPendingFunctors() and
\* not inside an inline runInLoop().
Idle(l) == cont[l] = <<>> /\ batch[l] = <<>>

LoopVars == <<batch, bpos, cont>>

(* doPendingFunctors(): swap pendingFunctors_ out.                          *)
BeginPending(l) ==
  /\ Idle(l)
  /\ pending[l] # <<>>
  /\ batch' = [batch EXCEPT ![l] = pending[l]]
  /\ pending' = [pending EXCEPT ![l] = <<>>]
  /\ UNCHANGED <<state, loopOf, connections, nextLoop, bpos, cont, events,
                 index, outBuf, writeShut, peerFin, reads, userRefs, upc, calls>>

(* functors[i]() for the next i.                                           *)
RunFunctor(l) ==
  /\ cont[l] = <<>>
  /\ bpos[l] < Len(batch[l])
  /\ Exec(l, batch[l][bpos[l] + 1])
  /\ bpos' = [bpos EXCEPT ![l] = @ + 1]
  /\ UNCHANGED <<loopOf, nextLoop, batch, cont, peerFin, reads, upc, calls>>

(* doPendingFunctors() returns: the vector and its shared_ptrs are freed.  *)
EndPending(l) ==
  /\ cont[l] = <<>>
  /\ batch[l] # <<>>
  /\ bpos[l] = Len(batch[l])
  /\ batch' = [batch EXCEPT ![l] = <<>>]
  /\ bpos' = [bpos EXCEPT ![l] = 0]
  /\ UNCHANGED <<state, loopOf, connections, nextLoop, pending, cont, events,
                 index, outBuf, writeShut, peerFin, reads, userRefs, upc, calls>>

(* The functor runInLoop() runs inline on the caller's thread.             *)
RunInline(l) ==
  /\ cont[l] # <<>>
  /\ Exec(l, Head(cont[l]))
  /\ cont' = [cont EXCEPT ![l] = <<>>]
  /\ UNCHANGED <<loopOf, nextLoop, batch, bpos, peerFin, reads, upc, calls>>

\* TcpConnection::TcpConnection(): state_(kConnecting), a Channel on the
\* socket with no interest (kNoneEvent, kNew) and empty buffers; the
\* callbacks it binds are the handlers below.
Construct(c) == state' = [state EXCEPT ![c] = "Connecting"]

(* Acceptor::handleRead() -> TcpServer::newConnection() on the base loop: *)
(* pick the next pool loop, construct the connection in kConnecting,      *)
(* insert it into connections_ and runInLoop(connectEstablished) there.   *)
NewConnection(c) ==
  /\ Idle(BaseLoop)
  /\ state[c] = "New"
  /\ Construct(c)
  /\ loopOf' = [loopOf EXCEPT ![c] = NextLoopChoice]
  /\ AdvanceNextLoop
  /\ connections' = connections \cup {c}
  /\ RunInLoop(BaseLoop, NextLoopChoice, Fn("establish", c, 0))
  /\ UNCHANGED <<batch, bpos, events, index, outBuf, writeShut, peerFin, reads,
                 userRefs, upc, calls>>

\* The channel reports an event of kind k to its loop.
Ready(c, k) ==
  /\ Idle(loopOf[c])
  /\ k \in events[c]
  /\ index[c] = "Added"

(* handleRead() with n > 0 -> messageCallback_: the application either     *)
(* consumes the data, echoes n bytes with send() (sendInLoop at once, the  *)
(* state being kConnected), or calls shutdown() (kConnected ->             *)
(* kDisconnecting and shutdownInLoop at once).                             *)
HandleMessage(c) ==
  LET l == loopOf[c] IN
  /\ Ready(c, "R")
  /\ ~peerFin[c]
  /\ reads[c] < MaxReads
  /\ reads' = [reads EXCEPT ![c] = @ + 1]
  /\ \/ UNCHANGED <<state, pending, events, index, outBuf, writeShut>>
     \/ /\ state[c] = "Connected"
        /\ \E n \in 1..MaxMsg : SendInLoop(l, c, n)
        /\ UNCHANGED <<state, writeShut>>
     \/ /\ state[c] = "Connected"
        /\ state' = [state EXCEPT ![c] = "Disconnecting"]
        /\ ShutdownInLoop(c)
        /\ UNCHANGED <<pending, events, index, outBuf>>
  /\ UNCHANGED <<loopOf, connections, nextLoop, batch, bpos, cont, peerFin,
                 userRefs, upc, calls>>

\* A mutant of HandleClose: leaves the channel's interest enabled.
HandleClose_NoDisable(l, c) ==
  /\ state' = [state EXCEPT ![c] = "Disconnected"]
  /\ UNCHANGED <<events, index>>
  /\ MayDropRef(c)
  /\ RunInLoop(l, BaseLoop, Fn("removeInLoop", c, 0))

(* handleClose(): assert kConnected or kDisconnecting; kDisconnected;      *)
(* disableAll(); connectionCallback_; closeCallback_ =                      *)
(* TcpServer::removeConnection = runInLoop(removeConnectionInLoop) on the *)
(* base loop.                                                               *)
HandleClose(l, c) ==
  /\ state' = [state EXCEPT ![c] = "Disconnected"]
  /\ DisableAll(c)
  /\ MayDropRef(c)
  /\ RunInLoop(l, BaseLoop, Fn("removeInLoop", c, 0))

(* handleRead() with n == 0: the peer closed.                              *)
HandleReadEof(c) ==
  /\ Ready(c, "R")
  /\ peerFin[c]
  /\ HandleClose(loopOf[c], c)
  /\ UNCHANGED <<loopOf, connections, nextLoop, batch, bpos, outBuf,
                 writeShut, peerFin, reads, upc, calls>>

(* handleWrite(): write k bytes of the output buffer; when it is empty,    *)
(* disableWriting(), queue the write-complete callback and, if             *)
(* kDisconnecting, shutdownInLoop().  After shutdownWrite a write fails    *)
(* with EPIPE and handleWrite only logs, which is no step here.            *)
HandleWrite(c) ==
  LET l == loopOf[c] IN
  /\ Ready(c, "W")
  /\ ~writeShut[c]
  /\ \E k \in 1..outBuf[c] :
       /\ outBuf' = [outBuf EXCEPT ![c] = @ - k]
       /\ IF k = outBuf[c]
            THEN /\ DisableWriting(c)
                 /\ QueueInLoop(l, Fn("writeComplete", c, 0))
                 /\ IF state[c] = "Disconnecting"
                      THEN ShutdownWriteIfIdle(c, events[c] \ {"W"})
                      ELSE UNCHANGED writeShut
            ELSE UNCHANGED <<events, index, pending, writeShut>>
  /\ UNCHANGED <<state, loopOf, connections, nextLoop, batch, bpos, cont,
                 peerFin, reads, userRefs, upc, calls>>

(* The peer closes its side: a FIN arrives on the socket.                  *)
PeerClose(c) ==
  /\ state[c] \in {"Connecting", "Connected", "Disconnecting"}
  /\ ~peerFin[c]
  /\ peerFin' = [peerFin EXCEPT ![c] = TRUE]
  /\ UNCHANGED <<state, loopOf, connections, nextLoop, pending, batch, bpos,
                 cont, events, index, outBuf, writeShut, reads, userRefs, upc, calls>>

-----------------------------------------------------------------------------
(* The application on threads of its own.  send() and shutdown() test    *)
(* state_ == kConnected and then act; the caller holds a                   *)
(* TcpConnectionPtr for the duration of the call.                          *)

UserVars == <<loopOf, nextLoop, batch, bpos, cont, events, index, outBuf,
              writeShut, peerFin, reads>>

(* send() / shutdown() on thread t: the state_ == kConnected test.         *)
UserCall(t, c) ==
  /\ upc[t].op = "none"
  /\ calls < MaxCalls
  /\ calls' = calls + 1
  /\ c \in userRefs
  /\ state[c] = "Connected"
  /\ \E op \in UserOps, n \in 1..MaxMsg :
       upc' = [upc EXCEPT ![t] = Fn(op, c, IF op = "sendInLoop" THEN n ELSE 0)]
  /\ UNCHANGED <<state, connections, pending, userRefs>>
  /\ UNCHANGED UserVars

(* send(): runInLoop(sendInLoop, this) from another thread, i.e. queue it. *)
(* shutdown(): setState(kDisconnecting), then the same for shutdownInLoop. *)
UserAct(t) ==
  LET f == upc[t] IN
  /\ f.op # "none"
  /\ QueueInLoop(loopOf[f.conn], f)
  /\ IF f.op = "shutdownInLoop"
       THEN state' = [state EXCEPT ![f.conn] = "Disconnecting"]
       ELSE UNCHANGED state
  /\ upc' = [upc EXCEPT ![t] = NoCall]
  /\ UNCHANGED <<connections, userRefs, calls>>
  /\ UNCHANGED UserVars

(* The application drops the TcpConnectionPtr it kept.                    *)
UserRelease(c) ==
  /\ c \in userRefs
  /\ userRefs' = userRefs \ {c}
  /\ UNCHANGED <<state, connections, pending, upc, calls>>
  /\ UNCHANGED UserVars

-----------------------------------------------------------------------------
LoopStep(l) == BeginPending(l) \/ RunFunctor(l) \/ EndPending(l) \/ RunInline(l)

Next ==
  \/ \E l \in Loops : LoopStep(l)
  \/ \E c \in Conns :
       \/ NewConnection(c) \/ HandleMessage(c) \/ HandleReadEof(c)
       \/ HandleWrite(c) \/ PeerClose(c) \/ UserRelease(c)
  \/ \E t \in AppThreads : UserAct(t) \/ \E c \in Conns : UserCall(t, c)

(* A loop runs the functors queued to it (EventLoop.tla shows the wake-up *)
(* that makes this so).  A readable end-of-file is handled even while     *)
(* other channels keep the loop busy: epoll is level-triggered and each   *)
(* iteration dispatches every ready channel, so an event that is ready    *)
(* whenever the loop polls is served (strong fairness; the model runs one *)
(* handler per step).  The application finishes a call it started.  Peer  *)
(* behaviour, new connections and writability are not assumed.            *)
Fairness ==
  /\ \A l \in Loops : WF_vars(LoopStep(l))
  /\ \A c \in Conns : SF_vars(HandleReadEof(c))
  /\ \A t \in AppThreads : WF_vars(UserAct(t))

Spec == Init /\ [][Next]_vars /\ Fairness

-----------------------------------------------------------------------------
TypeOK ==
  /\ state \in [Conns -> States]
  /\ loopOf \in [Conns -> Loops]
  /\ connections \subseteq Conns
  /\ nextLoop \in 0..(IF Pool = <<>> THEN 0 ELSE Len(Pool) - 1)
  /\ pending \in [Loops -> Seq(Functors)]
  /\ batch \in [Loops -> Seq(Functors)]
  /\ bpos \in [Loops -> Nat]
  /\ \A l \in Loops : bpos[l] <= Len(batch[l]) /\ Len(cont[l]) <= 1
  /\ cont \in [Loops -> Seq(Functors)]
  /\ events \in [Conns -> SUBSET {"R", "W"}]
  /\ index \in [Conns -> {"New", "Added", "Deleted"}]
  /\ outBuf \in [Conns -> 0..(MaxReads + MaxCalls) * MaxMsg]
  /\ writeShut \in [Conns -> BOOLEAN]
  /\ peerFin \in [Conns -> BOOLEAN]
  /\ reads \in [Conns -> 0..MaxReads]
  /\ userRefs \subseteq Conns
  /\ upc \in [AppThreads -> Functors \cup {NoCall}]
  /\ calls \in 0..MaxCalls

(* The assertions of connectEstablished() (state_ == kConnecting),         *)
(* removeConnectionInLoop() (the name is in connections_) and              *)
(* EPollPoller::removeChannel() (no interest left, channel known to the   *)
(* poller) hold whenever the queued functor runs, and handleClose() is    *)
(* only reachable (the channel reads) in kConnected or kDisconnecting.     *)
ServerAssertionsHold ==
  /\ \A l \in Loops : \A f \in ToRun(l) :
       /\ f.op = "establish" => state[f.conn] = "Connecting"
       /\ f.op = "removeInLoop" => f.conn \in connections
       /\ f.op = "destroyed" =>
            /\ state[f.conn] = "Connected" \/ events[f.conn] = {}
            /\ index[f.conn] \in {"Added", "Deleted"}
  /\ \A c \in Conns :
       "R" \in events[c] => state[c] \in {"Connected", "Disconnecting"}

(* A destroyed TcpConnection has left the poller: EPollPoller's channels_ *)
(* holds no pointer to its Channel, which the object owned.                *)
DestroyedIsUnregistered ==
  \A c \in Conns : Destroyed(c) => index[c] = "New"

(* shutdown() closes the write side only after the output buffer drained:  *)
(* while the connection is not torn down, a shut write side has no bytes  *)
(* queued and no write interest.                                          *)
DrainedBeforeShutdown ==
  \A c \in Conns :
    (writeShut[c] /\ state[c] # "Disconnected")
      => outBuf[c] = 0 /\ "W" \notin events[c]

(* No functor bound to a raw TcpConnection pointer (sendInLoop from send(),*)
(* shutdownInLoop from shutdown()) is left queued to run on a connection   *)
(* that has been destroyed.                                                 *)
NoUseAfterFree ==
  \A l \in Loops : \A f \in ToRun(l) : ~Destroyed(f.conn)

(* A connection that went down is removed from connections_ and its       *)
(* channel from its loop's poller: both hops (to the base loop and back)  *)
(* happen.                                                                  *)
ClosedIsReclaimed ==
  \A c \in Conns :
    state[c] = "Disconnected" ~> (c \notin connections /\ index[c] = "New")

(* A FIN from the peer always brings the connection down.                 *)
PeerCloseHandled ==
  \A c \in Conns : peerFin[c] ~> state[c] = "Disconnected"

====
