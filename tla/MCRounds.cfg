SPECIFICATION Spec
CONSTANTS
  u1 = u1
  u2 = u2
  g1 = g1
  g2 = g2
  g3 = g3
  g4 = g4
  q1 = q1
  r1 = r1
  r2 = r2
  NULL = NULL
  GarbageHolder = GarbageHolder
  Clients <- TwoClients
  Generators <- TwoGenerators
  MayLeave <- OneClient
  Malformed <- NoGenerators
  Oversized <- NoClients
  QuThreads <- OneQuThread
  IgThreads <- TwoIgThreads
  PoolMutexStates <- AnyMemory
  DosLimit = 2
  Images <- OneImage
  UIntSize = 16
CHECK_DEADLOCK FALSE
SYMMETRY RepliesAlike
INVARIANTS TypeOK EveryConnectionOwned LoopNeverWaits HeadStaysQueued NoCircularWait IndInv
PROPERTIES LiveClientsKept QueriesInOrder
