CONSTANTS
  get = get
  post = post
  Tasks <- MCTasks
  Idempotent <- MCIdempotent
  MaxAttempts = 2
  MaxDelay = 1
  Timeout = 1
  Buffer = 2
  Lifetimes <- MCLifetimes
  MaxTime = 7
SPECIFICATION Spec
CHECK_DEADLOCK FALSE
INVARIANT ReturnsLastAttempt
