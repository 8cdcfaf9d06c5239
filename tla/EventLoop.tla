----------------------------- MODULE EventLoop -----------------------------
(***************************************************************************)
(* The cross-thread invocation and wake-up protocol of one EventLoop      *)
(* (src/jmuduo/muduo/net/EventLoop.cc).                                    *)
(*                                                                         *)
(* One loop thread runs EventLoop::loop(): it blocks in the poller, then   *)
(* dispatches the ready channels (here: the eventfd wake-up channel), then *)
(* runs doPendingFunctors().  Other threads (Producers) call queueInLoop() *)
(* and quit().  queueInLoop() pushes under mutex_ and then, as a separate  *)
(* step, writes the eventfd; the loop thread's own queueInLoop() (from a   *)
(* functor or from an event handler) is one step of the loop thread.      *)
(*                                                                         *)
(* Tasks are numbered in the order they are pushed; a functor may queue   *)
(* one follow-up task, as removeConnectionInLoop queues connectDestroyed. *)
(***************************************************************************)
EXTENDS Naturals, Sequences, SequencesExt

CONSTANTS
  Producers,   \* threads other than the loop thread
  MaxTasks     \* bound on the number of functors ever queued

ASSUME MaxTasks \in Nat \ {0}

VARIABLES
  pending,     \* pendingFunctors_ (guarded by mutex_)
  functors,    \* the local vector swapped out in doPendingFunctors()
  wakeCount,   \* the eventfd counter: +1 per wakeup(), reset by handleRead()
  wakeReady,   \* the wake-up channel is in activeChannels_ of this iteration
  calling,     \* callingPendingFunctors_
  quitFlag,    \* quit_
  looping,     \* looping_
  lpc,         \* where the loop thread is in EventLoop::loop()
  ppc,         \* where each producer is in queueInLoop() / quit()
  nextId,      \* number of functors queued so far
  executed,    \* history: task ids in the order the loop thread ran them
  quitCalled   \* history: quit() has been called

vars == <<pending, functors, wakeCount, wakeReady, calling, quitFlag, looping,
          lpc, ppc, nextId, executed, quitCalled>>

LoopPcs == {"start", "top", "poll", "dispatch", "pending", "runFunctors", "done"}
ProducerPcs == {"idle", "wake", "quitWake"}

-----------------------------------------------------------------------------
(* Helpers that stand for single calls of the code.                       *)

\* wakeup(): write the 8-byte value 1 to the eventfd.
Wakeup == wakeCount' = wakeCount + 1

\* pendingFunctors_.push_back(cb) under mutex_, the functor being task nextId+1.
Push == /\ nextId < MaxTasks
        /\ pending' = Append(pending, nextId + 1)
        /\ nextId' = nextId + 1

\* A mutant of QueueInLoopInThread: wakes only when called from another
\* thread, forgetting the callingPendingFunctors_ case.
QueueInLoopInThread_NoCallingWake ==
  /\ Push
  /\ UNCHANGED wakeCount

\* queueInLoop(cb) called on the loop thread: push, then wake up only if
\* the loop is currently running its pending functors.
QueueInLoopInThread ==
  /\ Push
  /\ IF calling THEN Wakeup ELSE UNCHANGED wakeCount

-----------------------------------------------------------------------------
Init ==
  /\ pending = <<>>
  /\ functors = <<>>
  /\ wakeCount = 0
  /\ wakeReady = FALSE
  /\ calling = FALSE
  /\ quitFlag = FALSE
  /\ looping = FALSE
  /\ lpc = "start"
  /\ ppc = [p \in Producers |-> "idle"]
  /\ nextId = 0
  /\ executed = <<>>
  /\ quitCalled = FALSE

(* loop(): looping_ = true; quit_ = false; then the while(!quit_) test.   *)
LoopStart ==
  /\ lpc = "start"
  /\ looping' = TRUE
  /\ quitFlag' = FALSE
  /\ lpc' = "top"
  /\ UNCHANGED <<pending, functors, wakeCount, wakeReady, calling, ppc,
                 nextId, executed, quitCalled>>

(* quit_ is a plain bool written by quit() on another thread and read by *)
(* the loop thread with no lock (a data race).  The loop body calls the   *)
(* poller through a virtual function, so the compiler reloads quit_ on    *)
(* every test; what the race leaves open is when the store is seen.  Once *)
(* the writer has made its wakeup() system call, which follows the store  *)
(* in program order, the store is visible; until then a test may still   *)
(* read the old value.                                                     *)
QuitRead ==
  IF quitFlag /\ \E p \in Producers : ppc[p] = "quitWake"
    THEN {TRUE, FALSE}
    ELSE {quitFlag}

(* The while(!quit_) test: enter poll, or leave the loop.                  *)
LoopTop ==
  /\ lpc = "top"
  /\ \E seen \in QuitRead :
     IF seen
       THEN /\ looping' = FALSE
            /\ lpc' = "done"
       ELSE /\ lpc' = "poll"
            /\ UNCHANGED looping
  /\ UNCHANGED <<pending, functors, wakeCount, wakeReady, calling, quitFlag,
                 ppc, nextId, executed, quitCalled>>

(* epoll_wait returns because the eventfd is readable; activeChannels_    *)
(* then holds the wake-up channel.                                          *)
PollReturnWakeup ==
  /\ lpc = "poll"
  /\ wakeCount > 0
  /\ wakeReady' = TRUE
  /\ lpc' = "dispatch"
  /\ UNCHANGED <<pending, functors, wakeCount, calling, quitFlag, looping,
                 ppc, nextId, executed, quitCalled>>

(* epoll_wait returns for another descriptor or after kPollTimeMs with the *)
(* eventfd not readable.  Nothing obliges this to happen soon.             *)
PollReturnOther ==
  /\ lpc = "poll"
  /\ wakeCount = 0
  /\ wakeReady' = FALSE
  /\ lpc' = "dispatch"
  /\ UNCHANGED <<pending, functors, wakeCount, calling, quitFlag, looping,
                 ppc, nextId, executed, quitCalled>>

(* The dispatch of activeChannels_: the wake-up channel's handleRead()     *)
(* reads (and so resets) the eventfd counter; another channel's handler    *)
(* may queue a functor on its own loop (e.g. a write-complete callback).   *)
Dispatch ==
  /\ lpc = "dispatch"
  /\ \/ /\ wakeReady
        /\ wakeCount' = 0
        /\ UNCHANGED <<pending, nextId>>
     \/ /\ ~wakeReady
        /\ QueueInLoopInThread
     \/ /\ ~wakeReady
        /\ UNCHANGED <<pending, nextId, wakeCount>>
  /\ lpc' = "pending"
  /\ UNCHANGED <<functors, wakeReady, calling, quitFlag, looping, ppc,
                 executed, quitCalled>>

\* A mutant of DoPendingFunctors: copies the queue instead of swapping it.
DoPendingFunctors_NoSwap ==
  /\ functors' = pending
  /\ UNCHANGED pending

(* doPendingFunctors(): callingPendingFunctors_ = true, then swap the      *)
(* queue out under mutex_.                                                  *)
DoPendingFunctors ==
  /\ functors' = pending
  /\ pending' = <<>>

BeginPending ==
  /\ lpc = "pending"
  /\ functors = <<>>
  /\ calling = FALSE
  /\ calling' = TRUE
  /\ DoPendingFunctors
  /\ lpc' = "runFunctors"
  /\ UNCHANGED <<wakeCount, wakeReady, quitFlag, looping, ppc, nextId,
                 executed, quitCalled>>

(* functors[i](): the functor runs and may queueInLoop() a follow-up.      *)
RunFunctor ==
  /\ lpc = "runFunctors"
  /\ functors # <<>>
  /\ functors' = Tail(functors)
  /\ executed' = Append(executed, Head(functors))
  /\ \/ QueueInLoopInThread
     \/ UNCHANGED <<pending, nextId, wakeCount>>
  /\ UNCHANGED <<wakeReady, calling, quitFlag, looping, lpc, ppc, quitCalled>>

(* End of doPendingFunctors(): callingPendingFunctors_ = false, back to    *)
(* the top of the while loop.                                               *)
EndPending ==
  /\ lpc = "runFunctors"
  /\ functors = <<>>
  /\ calling' = FALSE
  /\ lpc' = "top"
  /\ UNCHANGED <<pending, functors, wakeCount, wakeReady, quitFlag, looping,
                 ppc, nextId, executed, quitCalled>>

(* queueInLoop(cb) from another thread, first half: push under mutex_.    *)
ProducerPush(p) ==
  /\ ppc[p] = "idle"
  /\ Push
  /\ ppc' = [ppc EXCEPT ![p] = "wake"]
  /\ UNCHANGED <<functors, wakeCount, wakeReady, calling, quitFlag, looping,
                 lpc, executed, quitCalled>>

(* queueInLoop(cb) second half, and quit() second half: isInLoopThread()  *)
(* is false, so wakeup().                                                   *)
ProducerWake(p) ==
  /\ ppc[p] \in {"wake", "quitWake"}
  /\ Wakeup
  /\ ppc' = [ppc EXCEPT ![p] = "idle"]
  /\ UNCHANGED <<pending, functors, wakeReady, calling, quitFlag, looping,
                 lpc, nextId, executed, quitCalled>>

\* A mutant of QuitFromOtherThread: sets quit_ and never wakes the loop.
QuitFromOtherThread_NoWake(p) ==
  /\ quitFlag' = TRUE
  /\ UNCHANGED ppc

(* quit() from another thread, first half: quit_ = true.                   *)
QuitFromOtherThread(p) ==
  /\ quitFlag' = TRUE
  /\ ppc' = [ppc EXCEPT ![p] = "quitWake"]

ProducerQuit(p) ==
  /\ ppc[p] = "idle"
  /\ ~quitCalled
  /\ quitCalled' = TRUE
  /\ QuitFromOtherThread(p)
  /\ UNCHANGED <<pending, functors, wakeCount, wakeReady, calling, looping,
                 lpc, nextId, executed>>

LoopStep ==
  \/ LoopStart \/ LoopTop \/ PollReturnWakeup \/ Dispatch
  \/ BeginPending \/ RunFunctor \/ EndPending

Next ==
  \/ LoopStep
  \/ PollReturnOther
  \/ \E p \in Producers : ProducerPush(p) \/ ProducerWake(p) \/ ProducerQuit(p)

(* The loop thread runs whenever it is not blocked in epoll_wait, and a    *)
(* producer that has pushed goes on to write the eventfd.  Neither another *)
(* descriptor becoming ready nor the 10 s poll timeout is assumed: the     *)
(* properties ask for prompt execution, not execution after a timeout.     *)
Fairness ==
  /\ WF_vars(LoopStep)
  /\ \A p \in Producers : WF_vars(ProducerWake(p))

Spec == Init /\ [][Next]_vars /\ Fairness

-----------------------------------------------------------------------------
(* No stranded functor: whenever the loop thread is blocked in epoll_wait  *)
(* while functors are queued, the eventfd is readable or a producer is     *)
(* about to write it, so the functor does not wait for the 10 s timeout.  *)
(* This is what the "|| callingPendingFunctors_" test of queueInLoop()     *)
(* is for: a functor queued by a functor must wake the next poll.          *)
NoStrandedTask ==
  (lpc = "poll" /\ pending # <<>>)
    => \/ wakeCount > 0
       \/ \E p \in Producers : ppc[p] = "wake"

(* Functors run exactly once each and in the order they were queued: the  *)
(* sequence run so far is a prefix of 1..nextId.                            *)
FifoOnce ==
  IsPrefix(executed, [i \in 1..nextId |-> i])

(* Every queued functor eventually runs, unless the loop has quit.         *)
TasksRun ==
  \A i \in 1..MaxTasks :
    (nextId >= i) ~> (lpc = "done" \/ \E k \in DOMAIN executed : executed[k] = i)

(* A quit() issued while the loop is looping makes loop() return, without *)
(* waiting for unrelated I/O or the poll timeout.                          *)
QuitTakesEffect ==
  (quitFlag /\ looping) ~> (lpc = "done")

=============================================================================
