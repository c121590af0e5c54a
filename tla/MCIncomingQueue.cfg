SPECIFICATION FairSpec
CONSTANTS
  p1 = p1
  p2 = p2
  c1 = c1
  c2 = c2
  main = main
  n1 = n1
  n2 = n2
  n3 = n3
  NULL = NULL
  Producers <- OneProducer
  Consumers <- TwoConsumers
  Requeuers <- Nobody
  Inspectors <- Nobody
  Nodes <- ThreeNodes
  InitialIDs <- NewIDs
  MaxAdds = 4
  UIntSize = 5
CHECK_DEADLOCK FALSE
INVARIANTS TypeOK ListIsQueue NoLostWakeup UniqueIDs
PROPERTIES EveryRequestTaken
