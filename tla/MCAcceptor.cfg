\* The reserve-descriptor trick with the acceptor alone in the process.
CONSTANTS
  MaxFds <- MCMaxFds
  MaxClients <- MCMaxClients
  MaxOther <- MCMaxOther
  OtherThreads = FALSE
SPECIFICATION Spec
INVARIANT ReserveKept
PROPERTY BacklogDrains
\* Once every client has been accepted or refused the loop waits in
\* epoll_wait for clients that never come.
CHECK_DEADLOCK FALSE
