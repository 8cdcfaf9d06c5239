\* Connection lifecycle across the base loop and one I/O loop, the
\* application using connections only from their loop threads: safety.
CONSTANTS
  c1 = c1
  c2 = c2
  base = base
  io1 = io1
  t1 = t1
  t2 = t2
  Conns <- MCConns
  BaseLoop = base
  Pool <- MCPoolOne
  MaxMsg = 2
  MaxReads = 2
  MaxCalls = 2
  UserOps <- MCOpsNone
  AppThreads <- MCAppOne
SPECIFICATION Spec
INVARIANT TypeOK
INVARIANT ServerAssertionsHold
INVARIANT DestroyedIsUnregistered
INVARIANT DrainedBeforeShutdown
PROPERTY ClosedIsReclaimed
PROPERTY PeerCloseHandled
\* Once every connection is closed and reclaimed the server waits in
\* epoll_wait for a connection that never comes.
CHECK_DEADLOCK FALSE
