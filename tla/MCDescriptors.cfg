SPECIFICATION Spec
CONSTANTS
  NULL = NULL
  u1 = u1
  u2 = u2
  g1 = g1
  g2 = g2
  g3 = g3
  g4 = g4
  q1 = q1
  r1 = r1
  Clients <- TwoClients
  Generators <- FourGenerators
  QuThreads <- OneQuThread
  IgThreads <- OneIgThread
  Limits <- SmallAndEnough
  MaxPending = 1
  DosLimit = 0
  Images = 2
  MaxFailures = 1
  Inputs <- Untyped
CHECK_DEADLOCK FALSE
SYMMETRY AnyCaller
INVARIANTS TypeOK TableHasRoom NoImageLost IndInv
