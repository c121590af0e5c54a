SPECIFICATION Spec
CONSTANTS
  p1 = p1
  p2 = p2
  c1 = c1
  c2 = c2
  main = main
  n1 = n1
  n2 = n2
  n3 = n3
  NULL = NULL
  Producers <- TwoProducers
  Consumers <- OneConsumer
  Requeuers <- OneConsumer
  Inspectors <- OneInspector
  Nodes <- ThreeNodes
  InitialIDs <- AssignedIDs
  MaxAdds = 5
  UIntSize = 4
CHECK_DEADLOCK FALSE
INVARIANTS MutualExclusion OneOwner IndInv
PROPERTIES ImplementsFifo
SYMMETRY Alike
