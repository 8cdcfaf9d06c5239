\* Pool start-up with spurious wake-ups, and the pool's destruction.
CONSTANTS
  NumThreads <- MCNumThreads
  MaxSpurious <- MCMaxSpurious
  NULL = NULL
SPECIFICATION Spec
INVARIANT ReturnedLoopReady
PROPERTY StartReturns
\* The process ends once the pool is destroyed; the starter is not
\* obliged to destroy it at all.
CHECK_DEADLOCK FALSE
