\* ~EventLoopThread() calls loop_->quit() before the IO thread has entered
\* loop.loop(); loop() then resets quit_ and join() waits for ever.
CONSTANTS
  NumThreads <- MCNumThreads
  MaxSpurious <- MCMaxSpurious
  NULL = NULL
SPECIFICATION Spec
PROPERTY DestructionReturns
CHECK_DEADLOCK FALSE
