SPECIFICATION Spec
CONSTANTS
  e1 = e1
  e2 = e2
  w1 = w1
  w2 = w2
  old = old
  NoExecutor = NoExecutor
  Executor <- TwoExecutors
  Writer <- TwoWriters
  OldObject <- OneObject
  MAX_RETRIES = 2
  MAX_REQUESTS = 2
  MAX_CLAIMS = 2
SYMMETRY Interchangeable
INVARIANTS
  TypeOK
  LeaseHoldsOffFence
  PurgedStaysEmpty
  WholeUntilDrained
  FreezeIsComplete
  BindingsGone

  
CHECK_DEADLOCK FALSE
