SPECIFICATION FairSpec
CONSTANTS
  u1 = u1
  u2 = u2
  g1 = g1
  g2 = g2
  g3 = g3
  g4 = g4
  q1 = q1
  r1 = r1
  r2 = r2
  NULL = NULL
  GarbageHolder = GarbageHolder
  Clients <- OneClient
  Generators <- TwoGenerators
  MayLeave <- NoClients
  Malformed <- NoGenerators
  Oversized <- NoClients
  QuThreads <- OneQuThread
  IgThreads <- OneIgThread
  PoolMutexStates <- ZeroMemory
  DosLimit = 0
  Images <- OneImage
  UIntSize = 16
CHECK_DEADLOCK FALSE
PROPERTIES RoundEnds EveryReplyRetired EveryImageDelivered RefusalEnds
