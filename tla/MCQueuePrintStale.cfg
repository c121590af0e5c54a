SPECIFICATION Spec
CONSTANTS
  p1 = p1
  p2 = p2
  c1 = c1
  c2 = c2
  main = main
  n1 = n1
  n2 = n2
  n3 = n3
  NULL = NULL
  Producers <- OneProducer
  Consumers <- OneConsumer
  Requeuers <- Nobody
  Inspectors <- OneInspector
  Nodes <- TwoNodes
  InitialIDs <- NewIDs
  MaxAdds = 3
  UIntSize = 16
CHECK_DEADLOCK FALSE
INVARIANTS InspectorStaysInList
