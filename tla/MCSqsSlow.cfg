CONSTANTS
  c1 = c1
  c2 = c2
  m1 = m1
  m2 = m2
  m3 = m3
  s1 = s1
  s2 = s2
  k1 = k1
  k2 = k2
  NoKey = NoKey
  Consumers <- MCTwo
  Messages <- MCMessages
  Subscribers <- MCSubscriber
  Keys <- MCKeys
  KeyOf <- MCOwnKeys
  SharedStore = TRUE
  Results <- MCResults
  VerbsRaise = FALSE
  StoreRaises = FALSE
  StableWiring = TRUE
  Unparsable <- MCNone
  MaxBatch = 1
  HasDlq = TRUE
  ClientErrors <- MCSettleErrors
  SlowHandlers = TRUE
  Stops = TRUE
  Deaths = TRUE
  StartUnwired = FALSE
SPECIFICATION Spec
SYMMETRY Replicas
INVARIANT OneOwner
PROPERTY ProcessedNotRerun
