SPECIFICATION FairSpec
CONSTANTS
  NULL = NULL
  u1 = u1
  u2 = u2
  g1 = g1
  g2 = g2
  g3 = g3
  g4 = g4
  q1 = q1
  r1 = r1
  Clients <- OneClient
  Generators <- TwoGenerators
  QuThreads <- OneQuThread
  IgThreads <- OneIgThread
  Limits <- TightAndEnough
  MaxPending = 2
  DosLimit = 0
  Images = 2
  MaxFailures = 1
  Inputs <- Typed
CHECK_DEADLOCK FALSE
INVARIANTS RightHandler SurvivesFailedCalls
PROPERTIES PortsServed EveryCallAccepted QuitEnds
