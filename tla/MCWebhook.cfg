CONSTANTS
  c1 = c1
  c2 = c2
  m1 = m1
  m2 = m2
  m3 = m3
  s1 = s1
  s2 = s2
  k1 = k1
  k2 = k2
  NoKey = NoKey
  Consumers <- MCConsumers
  Messages <- MCTwoPosts
  Subscribers <- MCSubscribers
  Keys <- MCKeys
  KeyOf <- MCKeyOf
  SharedStore = TRUE
  Results <- MCResults
  VerbsRaise = FALSE
  StoreRaises = FALSE
  StableWiring = FALSE
  Deaths = TRUE
  Stops = TRUE
SPECIFICATION Spec
SYMMETRY Replicas
INVARIANT IInv
INVARIANT RefusedNotShutOut
PROPERTY AnsweredNotRerun
 
