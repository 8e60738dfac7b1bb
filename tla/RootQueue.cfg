CONSTANTS
  c1 = c1  c2 = c2
  i1 = i1  i2 = i2
  Client = {c1, c2}
  Worker = {w1, w2, w3}
  Monitor = m
  Item = {i1, i2}
  Chains <- MCChains
  ActiveCpus = 1
  MaxThreads = 2
  MaxCredit = 1
  None = None
SPECIFICATION FairSpec
INVARIANTS TypeOK PendingAccounted PoolAccounted InvokedOnce
PROPERTY AllInvoked
CHECK_DEADLOCK FALSE
