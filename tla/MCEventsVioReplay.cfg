CONSTANTS
  Benches = {"flow"}
  Loops = {"l1", "l2"}
  Wanted = {"running", "paused", "throttled"}
  Ttl = 3
  Lookup = 2
  Batch = 2
  PollInterval = 1
  Pace = 1
  MaxTime = 7
  Partitions = {"p", "q"}
  Poisoned <- MCPoisoned
  LogEnd = 2
  MaxRecords = 3
  MaxAttempts = 2
  MaxCrashes = 1
  Hops = 2
  Transport = "sqs"
  Headers = 3
  SystemAttributes = 4
  MaxAttributes = 10
  SinkFails = FALSE
  Marks = {"retrying"}
  Errors = {"fatal"}
  MaxSpans = 6
  MaxMessages = 3
SPECIFICATION MCSpec
CHECK_DEADLOCK FALSE
INVARIANT ReplayIsSameStep
