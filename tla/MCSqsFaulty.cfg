CONSTANTS
  c1 = c1
  c2 = c2
  m1 = m1
  m2 = m2
  m3 = m3
  s1 = s1
  s2 = s2
  k1 = k1
  k2 = k2
  NoKey = NoKey
  Consumers <- MCOne
  Messages <- MCThree
  Subscribers <- MCSubscribers
  Keys <- MCKeys
  KeyOf <- MCMixedKeys
  SharedStore = TRUE
  Results <- MCVerdicts
  VerbsRaise = TRUE
  StoreRaises = TRUE
  StableWiring = FALSE
  Unparsable <- MCPoison
  MaxBatch = 2
  HasDlq = TRUE
  ClientErrors <- MCNone
  SlowHandlers = FALSE
  Stops = TRUE
  Deaths = FALSE
  StartUnwired = FALSE
SPECIFICATION Spec
INVARIANT NoDeliveryOutlivesItsBatch
PROPERTY KeylessKept
SYMMETRY SwappedSubscribers
CHECK_DEADLOCK FALSE
