\* After the shutdown() race a sendInLoop re-enables writing on a closed channel, and removeChannel asserts.
CONSTANTS
  c1 = c1
  c2 = c2
  base = base
  io1 = io1
  t1 = t1
  t2 = t2
  Conns <- MCConnsOne
  BaseLoop = base
  Pool <- MCPoolOne
  MaxMsg = 2
  MaxReads = 2
  MaxCalls = 2
  UserOps <- MCOpsBoth
  AppThreads <- MCAppOne
SPECIFICATION Spec
\* Once every connection is closed and reclaimed the server waits in
\* epoll_wait for a connection that never comes.
CHECK_DEADLOCK FALSE
INVARIANT ServerAssertionsHold
