SPECIFICATION FairSpec
CONSTANTS
  c1 = c1
  c2 = c2
  c3 = c3
  Clients = {c1, c2, c3}
  Threads = 2
  Capacity = 1
  Retries = 1
INVARIANT PoolAccounted
PROPERTY EveryRequestAnswered
PROPERTY PoolRecovers
