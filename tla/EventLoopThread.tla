--------------------------- MODULE EventLoopThread ---------------------------
(***************************************************************************)
(* EventLoopThreadPool::start() and the pool's destruction, over          *)
(* NumThreads EventLoopThreads (src/jmuduo/muduo/net/EventLoopThread.cc,   *)
(* EventLoopThreadPool.cc).                                                *)
(*                                                                         *)
(* The base loop's thread ("starter") creates the threads one after the   *)
(* other; startLoop() starts the IO thread and waits on cond_ under mutex_ *)
(* until threadFunc() has built its EventLoop, run the init callback and  *)
(* published loop_.  The IO thread then runs EventLoop::loop() until       *)
(* quit_.  When the pool is destroyed each ~EventLoopThread() calls       *)
(* loop_->quit() from the starter and joins the IO thread.                 *)
(*                                                                         *)
(* mutex_ is modelled by its holder; cond_.wait() releases it and waits    *)
(* for a notify() or a spurious wake-up, which pthread_cond_wait allows.   *)
(***************************************************************************)
EXTENDS Naturals, Sequences

CONSTANTS
  NumThreads,   \* numThreads_ of the pool
  MaxSpurious,  \* bound on the spurious wake-ups of cond_.wait()
  NULL          \* a null EventLoop*

ASSUME NumThreads \in Nat \ {0} /\ MaxSpurious \in Nat

Threads == 1..NumThreads

VARIABLES
  spc,          \* where the starter thread is
  cur,          \* the EventLoopThread it is starting or destroying
  loops,        \* loops_: what each startLoop() returned
  holder,       \* holder of each thread's mutex_: "none", "starter", "io"
  waiting,      \* the starter is blocked in cond_.wait() of thread i
  signaled,     \* a notify() has woken that wait
  ipc,          \* where IO thread i is
  cbDone,       \* callback_(&loop) has run on IO thread i
  loopSet,      \* loop_ != NULL for thread i
  quit,         \* quit_ of IO thread i's EventLoop
  wake,         \* an unread wakeup() on that loop's eventfd
  spurious      \* spurious wake-ups so far

vars == <<spc, cur, loops, holder, waiting, signaled, ipc, cbDone, loopSet,
          quit, wake, spurious>>

ioVars == <<ipc, cbDone, loopSet, quit, wake, spurious>>

\* MutexLock::lock() through MutexLockGuard: block until mutex_ is free.
Acquire(i, who) ==
  /\ holder[i] = "none"
  /\ holder' = [holder EXCEPT ![i] = who]

\* MutexLock::unlock() in ~MutexLockGuard.
Release(i) == holder' = [holder EXCEPT ![i] = "none"]

-----------------------------------------------------------------------------
(* The pool and its EventLoopThreads, as constructed: loop_(NULL),         *)
(* exiting_(false), IO threads not yet started.                            *)
Init ==
  /\ spc = "create"
  /\ cur = 1
  /\ loops = << >>
  /\ holder = [i \in Threads |-> "none"]
  /\ waiting = [i \in Threads |-> FALSE]
  /\ signaled = [i \in Threads |-> FALSE]
  /\ ipc = [i \in Threads |-> "unstarted"]
  /\ cbDone = [i \in Threads |-> FALSE]
  /\ loopSet = [i \in Threads |-> FALSE]
  /\ quit = [i \in Threads |-> FALSE]
  /\ wake = [i \in Threads |-> FALSE]
  /\ spurious = 0

(* start(), one iteration: new EventLoopThread(cb), push it into threads_, *)
(* and startLoop() calls thread_.start(): the IO thread enters threadFunc, *)
(* whose EventLoop loop is constructed with quit_ = false.                 *)
Create ==
  /\ spc = "create"
  /\ ipc' = [ipc EXCEPT ![cur] = "init"]
  /\ spc' = "lock"
  /\ UNCHANGED <<cur, loops, holder, waiting, signaled, cbDone, loopSet,
                 quit, wake, spurious>>

(* startLoop(): MutexLockGuard lock(mutex_).                               *)
StarterLock ==
  /\ spc = "lock"
  /\ Acquire(cur, "starter")
  /\ spc' = "test"
  /\ UNCHANGED <<cur, loops, waiting, signaled, ioVars>>

\* startLoop() returns loop_ and start() pushes it into loops_; after the
\* last thread start() itself returns.
StartLoopReturns ==
  /\ loops' = Append(loops, IF loopSet[cur] THEN cur ELSE NULL)
  /\ spc' = IF cur = NumThreads THEN "started" ELSE "create"
  /\ cur' = IF cur = NumThreads THEN 1 ELSE cur + 1

(* startLoop(): while (loop_ == NULL) cond_.wait(); then the guard unlocks *)
(* and loop_ is returned; cond_.wait() releases mutex_ and blocks.        *)
StarterTest ==
  /\ spc = "test"
  /\ IF loopSet[cur]
       THEN /\ Release(cur)
            /\ StartLoopReturns
            /\ UNCHANGED waiting
       ELSE /\ Release(cur)
            /\ waiting' = [waiting EXCEPT ![cur] = TRUE]
            /\ spc' = "waiting"
            /\ UNCHANGED <<loops, cur>>
  /\ UNCHANGED <<signaled, ioVars>>

(* cond_.wait() returns after a notify(), holding mutex_ again, and the    *)
(* while loop tests loop_ once more.                                       *)
StarterWake ==
  /\ spc = "waiting"
  /\ signaled[cur]
  /\ Acquire(cur, "starter")
  /\ waiting' = [waiting EXCEPT ![cur] = FALSE]
  /\ signaled' = [signaled EXCEPT ![cur] = FALSE]
  /\ spc' = "test"
  /\ UNCHANGED <<cur, loops, ioVars>>

\* A mutant of StarterSpurious: with `if (loop_ == NULL)` in place of the
\* while loop, startLoop() returns loop_ once woken, whatever it holds.
StarterSpurious_If ==
  /\ spc = "waiting"
  /\ ~signaled[cur]
  /\ spurious < MaxSpurious
  /\ spurious' = spurious + 1
  /\ holder[cur] = "none"
  /\ waiting' = [waiting EXCEPT ![cur] = FALSE]
  /\ StartLoopReturns
  /\ UNCHANGED <<holder, signaled, ipc, cbDone, loopSet, quit, wake>>

(* cond_.wait() returns spuriously, with no notify().                      *)
StarterSpurious ==
  /\ spc = "waiting"
  /\ ~signaled[cur]
  /\ spurious < MaxSpurious
  /\ spurious' = spurious + 1
  /\ Acquire(cur, "starter")
  /\ waiting' = [waiting EXCEPT ![cur] = FALSE]
  /\ spc' = "test"
  /\ UNCHANGED <<cur, loops, signaled, ipc, cbDone, loopSet, quit, wake>>

(* ~EventLoopThread(), for each thread in turn when the pool is destroyed: *)
(* exiting_ = true; loop_->quit(), which sets quit_ and, called from       *)
(* another thread, writes the loop's eventfd.                              *)
Destroy ==
  /\ spc \in {"started", "destroy"}
  /\ quit' = [quit EXCEPT ![cur] = TRUE]
  /\ wake' = [wake EXCEPT ![cur] = TRUE]
  /\ spc' = "join"
  /\ UNCHANGED <<cur, loops, holder, waiting, signaled, ipc, cbDone, loopSet, spurious>>

\* Once begun, the pool's destruction goes on to the next thread.
DestroyNext == spc = "destroy" /\ Destroy

(* thread_.join() returns once the IO thread has left threadFunc().       *)
Join ==
  /\ spc = "join"
  /\ ipc[cur] = "exited"
  /\ spc' = IF cur = NumThreads THEN "done" ELSE "destroy"
  /\ cur' = IF cur = NumThreads THEN cur ELSE cur + 1
  /\ UNCHANGED <<loops, holder, waiting, signaled, ioVars>>

-----------------------------------------------------------------------------
(* IO thread i in threadFunc().                                           *)

(* if (callback_) callback_(&loop).                                       *)
RunCallback(i) ==
  /\ ipc[i] = "init"
  /\ cbDone' = [cbDone EXCEPT ![i] = TRUE]
  /\ ipc' = [ipc EXCEPT ![i] = "lock"]
  /\ UNCHANGED <<spc, cur, loops, holder, waiting, signaled, loopSet, quit,
                 wake, spurious>>

(* MutexLockGuard lock(mutex_).                                            *)
IoLock(i) ==
  /\ ipc[i] = "lock"
  /\ Acquire(i, "io")
  /\ ipc' = [ipc EXCEPT ![i] = "publish"]
  /\ UNCHANGED <<spc, cur, loops, waiting, signaled, cbDone, loopSet, quit,
                 wake, spurious>>

\* A mutant of Publish: sets loop_ but never calls cond_.notify().
Publish_NoNotify(i) ==
  /\ ipc[i] = "publish"
  /\ loopSet' = [loopSet EXCEPT ![i] = TRUE]
  /\ Release(i)
  /\ ipc' = [ipc EXCEPT ![i] = "loop"]
  /\ UNCHANGED <<spc, cur, loops, waiting, signaled, cbDone, quit, wake, spurious>>

(* loop_ = &loop; cond_.notify(), which wakes the starter if it waits and *)
(* is lost otherwise; the guard unlocks mutex_.                           *)
Publish(i) ==
  /\ ipc[i] = "publish"
  /\ loopSet' = [loopSet EXCEPT ![i] = TRUE]
  /\ signaled' = [signaled EXCEPT ![i] = waiting[i]]
  /\ Release(i)
  /\ ipc' = [ipc EXCEPT ![i] = "loop"]
  /\ UNCHANGED <<spc, cur, loops, waiting, cbDone, quit, wake, spurious>>

(* loop.loop() begins: looping_ = true; quit_ = false.                    *)
LoopEnter(i) ==
  /\ ipc[i] = "loop"
  /\ quit' = [quit EXCEPT ![i] = FALSE]
  /\ ipc' = [ipc EXCEPT ![i] = "looping"]
  /\ UNCHANGED <<spc, cur, loops, holder, waiting, signaled, cbDone, loopSet,
                 wake, spurious>>

(* An iteration of while (!quit_) woken by the eventfd: poll() returns the *)
(* wakeup channel, whose handleRead() reads the counter.  Iterations that  *)
(* end on poll()'s timeout change nothing the model records.               *)
LoopIterate(i) ==
  /\ ipc[i] = "looping"
  /\ ~quit[i]
  /\ wake[i]
  /\ wake' = [wake EXCEPT ![i] = FALSE]
  /\ UNCHANGED <<spc, cur, loops, holder, waiting, signaled, ipc, cbDone,
                 loopSet, quit, spurious>>

(* quit_ is seen at the top of the loop: loop() returns, looping_ = false, *)
(* threadFunc() returns and the thread ends.                              *)
LoopExit(i) ==
  /\ ipc[i] = "looping"
  /\ quit[i]
  /\ ipc' = [ipc EXCEPT ![i] = "exited"]
  /\ UNCHANGED <<spc, cur, loops, holder, waiting, signaled, cbDone, loopSet,
                 quit, wake, spurious>>

IoStep(i) ==
  RunCallback(i) \/ IoLock(i) \/ Publish(i) \/ LoopEnter(i) \/ LoopIterate(i)
  \/ LoopExit(i)

StarterStep ==
  Create \/ StarterLock \/ StarterTest \/ StarterWake \/ DestroyNext \/ Join

Next ==
  \/ StarterStep \/ StarterSpurious \/ Destroy
  \/ \E i \in Threads : IoStep(i)

(* Every runnable thread is eventually scheduled.  A spurious wake-up is   *)
(* allowed but never assumed, and nothing forces the pool's destruction to *)
(* begin; once begun, ~EventLoopThreadPool destroys every thread.          *)
Spec ==
  /\ Init /\ [][Next]_vars
  /\ WF_vars(StarterStep)
  /\ \A i \in Threads : WF_vars(IoStep(i))

-----------------------------------------------------------------------------
(* Whatever wake-ups cond_.wait() has, startLoop() returns only a loop_    *)
(* that threadFunc() has published for that very thread, after its init    *)
(* callback ran: loops_ never holds NULL or a loop whose callback_ is      *)
(* still to run.                                                           *)
ReturnedLoopReady ==
  \A k \in 1..Len(loops) : loops[k] = k /\ cbDone[k]

(* EventLoopThreadPool::start() returns: no startLoop() waits for ever on *)
(* a notify() that was lost.                                               *)
StartReturns ==
  <>(spc \in {"started", "join", "done"})

(* Destroying the pool returns: every thread_.join() in ~EventLoopThread() *)
(* ends because loop_->quit() stops the IO thread's loop.                  *)
DestructionReturns ==
  (spc = "join") ~> (spc = "done")
=============================================================================
