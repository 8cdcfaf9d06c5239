\* Two application threads calling send() on a connection they may hold,
\* racing its close, with an empty pool (runInLoop() runs
\* connectEstablished and removeConnectionInLoop inline on the base loop):
\* the Channel of a destroyed connection is never left in the poller.
CONSTANTS
  c1 = c1
  c2 = c2
  base = base
  io1 = io1
  t1 = t1
  t2 = t2
  Conns <- MCConnsOne
  BaseLoop = base
  Pool <- MCPoolNone
  MaxMsg = 2
  MaxReads = 2
  MaxCalls = 2
  UserOps <- MCOpsSend
  AppThreads <- MCAppTwo
SPECIFICATION Spec
INVARIANT DestroyedIsUnregistered
\* Once every connection is closed and reclaimed the server waits in
\* epoll_wait for a connection that never comes.
CHECK_DEADLOCK FALSE
