SPECIFICATION FairSpec
CONSTANTS
  zero = zero
  lt = lt
  gt = gt
  id = id
  openID = openID
  closeID = closeID
  openLength = openLength
  closeLength = closeLength
  pixel = pixel
  NULL = NULL
  Zero = zero
  Delimiter <- Halves
  CloseMark <- FirstHalf
  IDLine = id
  OpenID <- TagOpenID
  CloseID <- TagCloseID
  OpenLength <- TagOpenLength
  CloseLength <- TagCloseLength
  Sockets <- AllSockets
  BufferSize = 4
  Queries <- AllQueries
  Answers <- Endings
  Tags <- AnyTags
  Images <- AnyImages
CHECK_DEADLOCK FALSE
INVARIANTS TypeOK QueryForwarded ImageRelayed ScansRight IndInv
PROPERTIES ImplementsQueryPool EveryExchangeEnds
