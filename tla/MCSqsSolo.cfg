CONSTANTS
  c1 = c1
  c2 = c2
  m1 = m1
  m2 = m2
  m3 = m3
  s1 = s1
  s2 = s2
  k1 = k1
  k2 = k2
  NoKey = NoKey
  Consumers <- MCOne
  Messages <- MCMessages
  Subscribers <- MCSubscribers
  Keys <- MCKeys
  KeyOf <- MCOwnKeys
  SharedStore = FALSE
  Results <- MCResults
  VerbsRaise = FALSE
  StoreRaises = FALSE
  StableWiring = TRUE
  Unparsable <- MCNone
  MaxBatch = 2
  HasDlq = TRUE
  ClientErrors <- MCAllErrors
  SlowHandlers = TRUE
  Stops = FALSE
  Deaths = TRUE
  StartUnwired = FALSE
SPECIFICATION Spec
INVARIANT TypeOK
INVARIANT ClaimsOwned
INVARIANT OnlyPollingKillsLoop
PROPERTY KeepsPromise
 
