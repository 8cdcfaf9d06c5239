\* handleRead() with other threads opening and closing descriptors: the descriptors it closes are its own.
CONSTANTS
  MaxFds <- MCMaxFds
  MaxClients <- MCMaxClients
  MaxOther <- MCMaxOther
  OtherThreads = TRUE
SPECIFICATION Spec
INVARIANT ClosesOnlyOwn
\* Once every client has been accepted or refused the loop waits in
\* epoll_wait for clients that never come.
CHECK_DEADLOCK FALSE
