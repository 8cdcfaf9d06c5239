------------------------- MODULE TcpConnectionOutput -------------------------
(***************************************************************************)
(* The output path of one TcpConnection on its loop thread                 *)
(* (src/jmuduo/muduo/net/TcpConnection.cc): send(), sendInLoop() with its  *)
(* direct write, the high-water-mark and write-complete callbacks,         *)
(* handleWrite(), shutdown(), and the read side's end of stream and error. *)
(*                                                                         *)
(* The loop (EventLoop::loop()) polls, runs Channel::handleEvent() of each *)
(* ready channel in the order epoll returned them, then                    *)
(* doPendingFunctors().  Besides the connection there is one more channel: *)
(* the application's data source (the other side of a relay), whose       *)
(* handler send()s what it reads into the connection and, at its end,     *)
(* calls shutdown().  The application stops reading the source at the     *)
(* high-water-mark callback and resumes at write-complete.                 *)
(*                                                                         *)
(* The kernel socket and the remote peer are the environment: a send      *)
(* buffer of SndBuf bytes the peer drains, data or a FIN from the peer,    *)
(* and a reset (RST) that fails later writes and leaves a pending          *)
(* SO_ERROR.  Bytes are counted, not named.                                *)
(***************************************************************************)
EXTENDS Naturals, Sequences, SequencesExt

CONSTANTS
  HighWaterMark,  \* highWaterMark_
  SndBuf,         \* capacity of the socket's kernel send buffer
  MaxMsg,         \* largest message the source hands to send()
  MaxSends,       \* messages the source holds before its end
  MaxIn           \* bound on the messages the peer sends us

ASSUME /\ HighWaterMark \in Nat \ {0} /\ SndBuf \in Nat \ {0}
       /\ MaxMsg \in Nat \ {0} /\ MaxSends \in Nat /\ MaxIn \in Nat

VARIABLES
  state,      \* state_ of the connection
  events,     \* Channel::events_: "R", "W"
  outBuf,     \* outputBuffer_.readableBytes()
  writeShut,  \* socket_->shutdownWrite() has been called
  removed,    \* connectDestroyed() has removed the channel from the poller
  lpc,        \* the loop: "poll", or "dispatch" (events, then functors)
  todo,       \* ready channels not yet handled, in epoll's order
  rev,        \* callbacks of the connection's revents_ still to run
  pending,    \* pendingFunctors_: "hwm", "wc", "destroyed"
  paused,     \* the application has stopped reading its source
  sends,      \* messages the source has handed to send()
  srcEof,     \* the source is exhausted and shutdown() was called
  sock,       \* bytes in the kernel send buffer
  inData,     \* unread bytes from the peer in the receive queue
  peerSent,   \* messages the peer has sent (bounded)
  peerFin,    \* the peer's FIN has arrived
  reset,      \* the peer reset the connection
  sockErr,    \* a pending SO_ERROR (ECONNRESET)
  accepted,   \* history: bytes send() has taken on a kConnected connection
  delivered   \* history: bytes the peer has read

vars == <<state, events, outBuf, writeShut, removed, lpc, todo, rev, pending,
          paused, sends, accepted, srcEof, sock, inData, peerSent, delivered,
          peerFin, reset, sockErr>>

peerVars == <<sock, inData, peerSent, delivered, peerFin, reset, sockErr>>

IsWriting == "W" \in events

MinOf(a, b) == IF a < b THEN a ELSE b

\* ::write(fd, data, len) on the socket: the bytes it takes, or -1 and
\* errno.  After a reset the first write reports the pending ECONNRESET
\* (and clears it), later ones EPIPE; after shutdownWrite, EPIPE; with a
\* full send buffer, EWOULDBLOCK.
Write(len) ==
  CASE reset /\ sockErr  -> [n |-> -1, err |-> "ECONNRESET"]
    [] reset \/ writeShut -> [n |-> -1, err |-> "EPIPE"]
    [] sock = SndBuf     -> [n |-> -1, err |-> "EWOULDBLOCK"]
    [] OTHER             -> [n |-> MinOf(len, SndBuf - sock), err |-> "none"]

\* What a write does to the socket.
Wrote(w) == /\ sock' = IF w.n > 0 THEN sock + w.n ELSE sock
            /\ sockErr' = (sockErr /\ w.err # "ECONNRESET")

\* A mutant of HwmCrossed: `>' where the code has `>='.
HwmCrossed_Gt(oldLen, remaining) ==
  oldLen + remaining > HighWaterMark /\ oldLen < HighWaterMark

\* The condition under which sendInLoop queues highWaterMarkCallback_.
HwmCrossed(oldLen, remaining) ==
  oldLen + remaining >= HighWaterMark /\ oldLen < HighWaterMark

(* sendInLoop(data, n): with nothing queued and no write interest, write  *)
(* directly; a complete write queues writeCompleteCallback_, EPIPE drops   *)
(* the data (error), any other failure writes nothing.  Unless error, the *)
(* remainder is appended (queueing highWaterMarkCallback_ on an upward    *)
(* crossing) and writing enabled.                                         *)
SendInLoop(n) ==
  LET direct    == ~IsWriting /\ outBuf = 0
      w         == Write(n)
      nwrote    == IF direct /\ w.n >= 0 THEN w.n ELSE 0
      error     == direct /\ w.n < 0 /\ w.err = "EPIPE"
      remaining == n - nwrote
      more      == ~error /\ remaining > 0
  IN  /\ IF direct THEN Wrote(w) ELSE UNCHANGED <<sock, sockErr>>
      /\ pending' = pending
                    \o (IF direct /\ w.n >= 0 /\ remaining = 0 THEN <<"wc">> ELSE << >>)
                    \o (IF more /\ HwmCrossed(outBuf, remaining) THEN <<"hwm">> ELSE << >>)
      /\ outBuf' = IF more THEN outBuf + remaining ELSE outBuf
      /\ events' = IF more THEN events \cup {"W"} ELSE events

\* shutdownInLoop() with interest set ev: shut the write side unless writing.
ShutdownInLoop(ev) ==
  writeShut' = IF "W" \notin ev THEN TRUE ELSE writeShut

-----------------------------------------------------------------------------
(* After connectEstablished(): kConnected, reading enabled, nothing sent. *)
Init ==
  /\ state = "Connected"
  /\ events = {"R"}
  /\ outBuf = 0
  /\ writeShut = FALSE
  /\ removed = FALSE
  /\ lpc = "poll"
  /\ todo = << >>
  /\ rev = {}
  /\ pending = << >>
  /\ paused = FALSE
  /\ sends = 0
  /\ srcEof = FALSE
  /\ sock = 0
  /\ inData = FALSE
  /\ peerSent = 0
  /\ peerFin = FALSE
  /\ reset = FALSE
  /\ sockErr = FALSE
  /\ accepted = 0
  /\ delivered = 0

(* The connection's revents_ as epoll reports them, as the callbacks       *)
(* Channel::handleEvent() runs for them: "error" for EPOLLERR, "read" for  *)
(* EPOLLIN, "write" for EPOLLOUT.  A channel with no interest was deleted  *)
(* from epoll and reports nothing.  EPOLLHUP alone (the close callback)    *)
(* cannot occur: a reset or a FIN also makes the socket readable, and the *)
(* connection reads as long as it has any interest.                        *)
ConnRevents ==
  LET in  == "R" \in events /\ (inData \/ peerFin \/ reset)
      out == "W" \in events /\ (sock < SndBuf \/ reset \/ writeShut)
  IN  IF events = {} \/ removed THEN {}
      ELSE (IF sockErr THEN {"error"} ELSE {}) \cup (IF in THEN {"read"} ELSE {})
           \cup (IF out THEN {"write"} ELSE {})

\* The source channel is readable until the application pauses it or it ends.
SrcReady == ~paused /\ ~srcEof

(* poll(): epoll_wait returns the ready channels in some order, or times  *)
(* out with none (kPollTimeMs).                                            *)
Poll ==
  LET ready == (IF ConnRevents # {} THEN {"conn"} ELSE {})
               \cup (IF SrcReady THEN {"src"} ELSE {})
  IN  /\ lpc = "poll"
      /\ todo' \in SetToSeqs(ready)
      /\ rev' = ConnRevents
      /\ lpc' = "dispatch"
      /\ UNCHANGED <<state, events, outBuf, writeShut, removed, pending, paused,
                     sends, accepted, srcEof, peerVars>>

\* Channel::handleEvent() of the connection is at callback f; once its last
\* callback has run, the loop goes on to the next ready channel.
ConnTurn(f) == lpc = "dispatch" /\ todo # << >> /\ Head(todo) = "conn" /\ f \in rev
Done(f) == /\ rev' = rev \ {f}
           /\ todo' = IF rev \ {f} = {} THEN Tail(todo) ELSE todo

(* handleError(): sockets::getSocketError() reads and clears SO_ERROR.     *)
HandleError ==
  /\ ConnTurn("error")
  /\ Done("error")
  /\ sockErr' = FALSE
  /\ UNCHANGED <<state, events, outBuf, writeShut, removed, lpc, pending, paused,
                 sends, accepted, srcEof, sock, inData, peerSent, delivered, peerFin, reset>>

(* handleClose(): kDisconnected, disableAll(), the connection callback,    *)
(* then closeCallback_, TcpServer::removeConnection: on a server whose     *)
(* loop is this one it erases the connection inline and queues            *)
(* connectDestroyed().                                                     *)
HandleClose ==
  /\ state' = "Disconnected"
  /\ events' = {}
  /\ pending' = Append(pending, "destroyed")

\* A mutant of HandleRead: a read of 0 is taken for an error.
HandleRead_EofAsError ==
  /\ ConnTurn("read") /\ "error" \notin rev
  /\ Done("read")
  /\ IF inData THEN inData' = FALSE ELSE UNCHANGED inData
  /\ sockErr' = FALSE
  /\ UNCHANGED <<state, events, pending, outBuf, writeShut, removed, lpc, paused,
                 sends, accepted, srcEof, sock, peerSent, delivered, peerFin, reset>>

(* handleRead(): the read returns queued data first (n > 0: the message   *)
(* callback consumes it), then a pending error (n < 0: handleError()),    *)
(* then end of stream after a FIN or reset (n = 0: handleClose()).        *)
HandleRead ==
  /\ ConnTurn("read") /\ "error" \notin rev
  /\ Done("read")
  /\ CASE inData ->
            /\ inData' = FALSE
            /\ UNCHANGED <<state, events, pending, sockErr>>
       [] ~inData /\ sockErr ->
            /\ sockErr' = FALSE
            /\ UNCHANGED <<state, events, pending, inData>>
       [] ~inData /\ ~sockErr ->
            /\ peerFin \/ reset
            /\ HandleClose
            /\ UNCHANGED <<inData, sockErr>>
  /\ UNCHANGED <<outBuf, writeShut, removed, lpc, paused, sends, accepted, srcEof, sock,
                 peerSent, delivered, peerFin, reset>>

\* A mutant of Retrieve: retrieveAll() where the code retrieves n bytes.
Retrieve_All(k) == outBuf' = 0

\* outputBuffer_.retrieve(n) after n bytes were written.
Retrieve(k) == outBuf' = outBuf - k

\* A mutant of Drained: the drained buffer leaves write interest on.
Drained_NoDisable ==
  /\ pending' = Append(pending, "wc")
  /\ IF state = "Disconnecting" THEN ShutdownInLoop(events \ {"W"})
                                ELSE UNCHANGED writeShut
  /\ UNCHANGED events

\* A mutant of Drained: a drained buffer never completes a pending
\* shutdown().
Drained_NoShutdown ==
  /\ events' = events \ {"W"}
  /\ pending' = Append(pending, "wc")
  /\ UNCHANGED writeShut

\* handleWrite() after writing all that was queued: disableWriting(), queue
\* writeCompleteCallback_ and, when kDisconnecting, shutdownInLoop().
Drained ==
  /\ events' = events \ {"W"}
  /\ pending' = Append(pending, "wc")
  /\ IF state = "Disconnecting" THEN ShutdownInLoop(events \ {"W"})
                                ELSE UNCHANGED writeShut

(* handleWrite(): if writing, write the output buffer; n > 0 retrieves n   *)
(* bytes and, if that drained it, Drained; a failed write (EPIPE,          *)
(* ECONNRESET) is only logged and write interest stays on.  Not writing   *)
(* (the channel was disabled by handleClose()): nothing.                   *)
HandleWrite ==
  /\ ConnTurn("write") /\ rev \cap {"error", "read"} = {}
  /\ Done("write")
  /\ IF IsWriting
       THEN LET w == Write(outBuf) IN
            /\ Wrote(w)
            /\ IF w.n > 0
                 THEN /\ Retrieve(w.n)
                      /\ IF outBuf' = 0 THEN Drained
                                             ELSE UNCHANGED <<events, pending, writeShut>>
                 ELSE UNCHANGED <<outBuf, events, pending, writeShut>>
       ELSE UNCHANGED <<outBuf, events, pending, writeShut, sock, sockErr>>
  /\ UNCHANGED <<state, removed, lpc, paused, sends, accepted, srcEof, inData, peerSent, delivered,
                 peerFin, reset>>

(* send(data, n) from the loop thread: if kConnected, sendInLoop() at once; *)
(* otherwise the data is dropped.                                          *)
Send(n) ==
  IF state = "Connected" THEN SendInLoop(n) /\ accepted' = accepted + n
  ELSE UNCHANGED <<sock, sockErr, pending, outBuf, events, accepted>>

(* shutdown(): if kConnected, kDisconnecting and runInLoop(shutdownInLoop), *)
(* which on the loop thread runs at once.                                  *)
Shutdown ==
  IF state = "Connected" THEN /\ state' = "Disconnecting"
                              /\ ShutdownInLoop(events)
  ELSE UNCHANGED <<state, writeShut>>

(* The source's read callback: hand the next message to send(), or at the *)
(* source's end call shutdown().                                          *)
SrcHandler ==
  /\ lpc = "dispatch" /\ todo # << >> /\ Head(todo) = "src"
  /\ todo' = Tail(todo)
  /\ IF sends < MaxSends
       THEN /\ sends' = sends + 1
            /\ \E n \in 1..MaxMsg : Send(n)
            /\ UNCHANGED <<state, writeShut, srcEof>>
       ELSE /\ srcEof' = TRUE
            /\ Shutdown
            /\ UNCHANGED <<sends, accepted, outBuf, events, pending, sock, sockErr>>
  /\ UNCHANGED <<removed, lpc, rev, paused, inData, peerSent, delivered, peerFin,
                 reset>>

\* One functor of the queue: the application's high-water-mark callback
\* pauses its source, its write-complete callback resumes it, and
\* connectDestroyed() (state_ is already kDisconnected) removes the
\* channel from the poller.
Apply(f) ==
  CASE f = "hwm"       -> paused' = TRUE /\ UNCHANGED removed
    [] f = "wc"        -> paused' = FALSE /\ UNCHANGED removed
    [] f = "destroyed" -> removed' = TRUE /\ UNCHANGED paused

\* A mutant of RunFunctor: runs the most recently queued functor first.
RunFunctor_Lifo ==
  /\ lpc = "dispatch" /\ todo = << >> /\ pending # << >>
  /\ pending' = Front(pending)
  /\ Apply(Last(pending))
  /\ UNCHANGED <<state, events, outBuf, writeShut, lpc, todo, rev, sends, accepted, srcEof,
                 peerVars>>

(* doPendingFunctors(), after the events: the queued functors run in the   *)
(* order they were queued.  (It swaps the queue out first; no functor here *)
(* queues another, so running them from the queue is the same.)           *)
RunFunctor ==
  /\ lpc = "dispatch" /\ todo = << >> /\ pending # << >>
  /\ pending' = Tail(pending)
  /\ Apply(Head(pending))
  /\ UNCHANGED <<state, events, outBuf, writeShut, lpc, todo, rev, sends, accepted, srcEof,
                 peerVars>>

\* The iteration ends; while (!quit_) polls again.
EndIteration ==
  /\ lpc = "dispatch" /\ todo = << >> /\ pending = << >>
  /\ lpc' = "poll"
  /\ UNCHANGED <<state, events, outBuf, writeShut, removed, todo, rev, pending,
                 paused, sends, accepted, srcEof, peerVars>>

-----------------------------------------------------------------------------
(* The peer and its kernel.                                                *)

loopVars == <<state, events, outBuf, writeShut, removed, lpc, todo, rev, pending,
              paused, sends, accepted, srcEof>>

\* The peer reads some of the bytes in our send buffer.
PeerRead ==
  /\ ~reset /\ sock > 0
  /\ \E k \in 1..sock : sock' = sock - k /\ delivered' = delivered + k
  /\ UNCHANGED <<inData, peerSent, peerFin, reset, sockErr, loopVars>>

\* The peer sends a message.
PeerData ==
  /\ ~reset /\ ~peerFin /\ ~inData /\ peerSent < MaxIn
  /\ inData' = TRUE
  /\ peerSent' = peerSent + 1
  /\ UNCHANGED <<sock, peerFin, reset, sockErr, delivered, loopVars>>

\* The peer shuts down its write side: a FIN arrives.
PeerShutdown ==
  /\ ~reset /\ ~peerFin
  /\ peerFin' = TRUE
  /\ UNCHANGED <<sock, inData, peerSent, reset, sockErr, delivered, loopVars>>

\* The peer aborts: an RST discards our unsent bytes and sets SO_ERROR.
PeerReset ==
  /\ ~reset
  /\ reset' = TRUE
  /\ sockErr' = TRUE
  /\ sock' = 0
  /\ UNCHANGED <<inData, peerSent, peerFin, delivered, loopVars>>

LoopStep == \/ Poll \/ HandleError \/ HandleRead \/ HandleWrite \/ SrcHandler
            \/ RunFunctor \/ EndIteration

PeerStep == PeerRead \/ PeerData \/ PeerShutdown \/ PeerReset

Next == LoopStep \/ PeerStep

(* The loop thread always runs on (poll has a timeout).  A peer that has   *)
(* not reset eventually reads what is in flight; whether it sends, shuts  *)
(* down or resets is up to it.                                            *)
Spec == Init /\ [][Next]_vars /\ WF_vars(LoopStep) /\ WF_vars(PeerRead)

-----------------------------------------------------------------------------
(* Write interest is on exactly while output is queued, as long as the    *)
(* connection is up: sendInLoop() enables it when it queues a remainder,  *)
(* handleWrite() disables it when the buffer drains, and a failed write   *)
(* leaves both.  Off with bytes queued, they would never be written; on   *)
(* with nothing queued, the level-triggered EPOLLOUT would spin the loop. *)
WritingIffQueued ==
  state # "Disconnected" => (IsWriting <=> outBuf > 0)

(* An application that stops its source at the high-water-mark callback  *)
(* keeps outputBuffer_ within one message of the mark: sendInLoop() fires *)
(* the callback on the send that reaches the mark (>=), and although the  *)
(* callback is only queued, doPendingFunctors() runs it before the loop   *)
(* polls the source again, and write-complete (which resumes the source)  *)
(* is queued only when the buffer has drained.                            *)
OutputBounded == outBuf < HighWaterMark + MaxMsg

(* An application that stops its source at the high-water-mark callback   *)
(* and resumes at write-complete is never left stopped while the          *)
(* connection is up: the write-complete callback that follows the         *)
(* high-water mark always comes, in that order.                            *)
PausedResumes == paused ~> (~paused \/ state = "Disconnected")

(* A shutdown() made with output still queued takes effect: once the     *)
(* buffer drains, handleWrite() shuts the write side (unless the          *)
(* connection closes first).                                               *)
ShutdownCompletes ==
  state = "Disconnecting" ~> (writeShut \/ state = "Disconnected")

(* A reset by the peer closes the connection, even when handleWrite()'s   *)
(* failed writes leave write interest on and the loop keeps reporting the *)
(* socket writable: the read side sees the error, then end of stream.     *)
ResetCloses == reset ~> state = "Disconnected"

\* The connection's output as the stream OutputStream describes: send() has
\* accepted `accepted' bytes, outputBuffer_ and the socket hold the rest of
\* what was not delivered, and the stream is up until handleClose() or a
\* reset.
Stream == INSTANCE OutputStream
            WITH sent <- accepted, queued <- outBuf, kernel <- sock,
                 delivered <- delivered, shut <- writeShut,
                 up <- (state # "Disconnected" /\ ~reset),
                 Capacity <- SndBuf, MaxMsg <- MaxMsg

(* The output path implements OutputStream: no byte send() accepted while *)
(* the connection is up is lost, duplicated or overtaken (a direct write  *)
(* only with an empty outputBuffer_, handleWrite() retrieving exactly what *)
(* ::write took), and shutdownWrite() only with nothing queued.            *)
OutputStreamSpec == Stream!Spec
=============================================================================
