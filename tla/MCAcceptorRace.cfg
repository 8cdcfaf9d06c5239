\* Another thread opens a descriptor in the slot handleRead() freed: the
\* reserve is lost, and once connections fill the table the listening
\* socket stays readable with nothing able to take the connection off it.
CONSTANTS
  MaxFds <- MCMaxFds
  MaxClients <- MCMaxClients
  MaxOther <- MCMaxOther
  OtherThreads = TRUE
SPECIFICATION Spec
PROPERTY BacklogDrains
\* Once every client has been accepted or refused the loop waits in
\* epoll_wait for clients that never come.
CHECK_DEADLOCK FALSE
