\* Three goroutines, five tasks and a channel of two: the channel fills, so
\* Submit blocks, and there are fewer goroutines than tasks.
CONSTANTS
  Worker = {w1, w2, w3}
  NumTasks = 5
  QueueSize = 2
SPECIFICATION Spec
INVARIANTS ShutdownDrains TaskOwnedOnce
PROPERTIES ImplementsTaskBatch ShutdownReturns
CHECK_DEADLOCK FALSE
