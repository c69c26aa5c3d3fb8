CONSTANTS
  Benches = {"bus", "chain", "fanout", "store", "task"}
  c1 = c1
  c2 = c2
  k1 = k1
  k2 = k2
  k3 = k3
  w1 = w1
  w2 = w2
  BusNames <- MCBusNames
  LowerName <- MCLowerName
  BusKinds <- MCBusKinds
  Publishers = {"w"}
  BusHandlers = {"h"}
  MaxLoops = 2
  MaxPublishes = 1
  Members = {"m1", "m2"}
  ChainKinds = {"plain", "fast", "all"}
  OuterAttempts = 2
  InnerAttempts = 2
  HandlerErrors = {"retryable", "fatal"}
  HookErrors = {"hook"}
  Orders = {"o1"}
  Branches <- MCBranches
  MaxCopies = 2
  MaxFaults = 1
  Clients <- MCClients
  Keys <- MCKeys
  MaxEntries = 2
  Ttls <- MCMixedTtls
  StoreMaxTime = 4
  Workers <- MCWorkers
  TicksPerSecond = 2
  Period = 5
  LockTtl = 0
  MaxRepetitions = 3
  WaitFirst = FALSE
  RaiseExceptions = FALSE
  RunTimes <- MCRunTimes
  RedisFails = FALSE
  Deaths = TRUE
  Lag = 1
  TaskMaxTime = 30
SPECIFICATION MCSpec
CHECK_DEADLOCK FALSE
INVARIANT AppsTypeOK
INVARIANT ToldMeansSent
INVARIANT OutcomeIsTrue
 
INVARIANT EveryBranchReached
INVARIANT RepeatsNeedOwnFault
INVARIANT NoOverlap
INVARIANT TaskGoesOn
PROPERTY CloseAfterLoops
PROPERTY ImplementsClaimStore
PROPERTY SweepIsExact
