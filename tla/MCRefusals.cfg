SPECIFICATION Spec
CONSTANTS
  u1 = u1
  u2 = u2
  g1 = g1
  g2 = g2
  g3 = g3
  g4 = g4
  q1 = q1
  r1 = r1
  r2 = r2
  NULL = NULL
  GarbageHolder = GarbageHolder
  Clients <- OneClient
  Generators <- FourGenerators
  MayLeave <- OneClient
  Malformed <- FourGenerators
  Oversized <- OneClient
  QuThreads <- OneQuThread
  IgThreads <- OneIgThread
  PoolMutexStates <- ZeroMemory
  DosLimit = 0
  Images <- TwoImages
  UIntSize = 16
CHECK_DEADLOCK FALSE
SYMMETRY Alike
INVARIANTS NoOrphanFiles BoundedReplies
