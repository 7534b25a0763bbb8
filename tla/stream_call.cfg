CONSTANTS
  MaxMessageBytes = 6
  CompressMinBytes = 2
  EndSize = 1
  MaxEmits = 2
  Methods <- MCMethods
  Requests <- MCRequests
  Payloads <- MCPayloads
  Errors <- MCErrors
  HeaderKeys = {h1}
  TrailerKeys = {t1}
SPECIFICATION Spec
INVARIANTS
  TypeOK
  EndIsLast
  DeliveredInOrder
  NoRawGzip
  CleanEndMeansComplete
  ErrorsAreAuthentic
  HandlerErrorSurfaced
  HandlerGetsWholeMessage
  EarlyHeadersArrive
  DeadlineReleased
PROPERTY ImplementsRpcStream
