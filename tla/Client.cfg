\* Four programs, and up to two connections that fail.
CONSTANTS
  main = main
  a = a
  b = b
  p1 = p1
  p2 = p2
  c1 = c1
  v1 = v1
  v2 = v2
  k1 = k1
  k2 = k2
  Goroutines <- Gs
  Main = main
  Sessions = {p1, p2, c1}
  Values = {v1, v2}
  Ids = {k1, k2}
  Earlier = {k1}
  Programs <- AllPrograms
  NoOne = NoOne
  Window = 1
  MaxBreaks = 2
SPECIFICATION FairSpec
INVARIANTS
  TypeOK
  AtMostOneInDoubt
  SuccessMeansDelivered
  AtMostOneUnsent
  TakeEffectInOrder
  SubscriptionsStand
  AbandonedOnlyOnFailure
PROPERTIES
  EveryoneFinishes
\* A program comes to its end, or hangs.
CHECK_DEADLOCK FALSE
