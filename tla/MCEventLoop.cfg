\* Wake-up protocol of one loop: no stranded functor, FIFO exactly-once
\* execution, prompt execution and prompt quit.
CONSTANTS
  p1 = p1
  p2 = p2
  Producers <- MCProducers
  MaxTasks <- MCMaxTasks
SPECIFICATION Spec
INVARIANT NoStrandedTask
INVARIANT FifoOnce
PROPERTY TasksRun
PROPERTY QuitTakesEffect
\* loop() returns after quit(); once the functor budget is spent nothing is
\* left to happen, so the final state has no successor.
CHECK_DEADLOCK FALSE
