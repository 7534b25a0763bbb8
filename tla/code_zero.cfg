CONSTANTS
  MaxMessageBytes = 6
  CompressMinBytes = 2
  EndSize = 1
  MaxEmits = 1
  Methods <- MCMethods
  Requests <- MCRequests
  Payloads <- LivePayloads
  Errors <- CodeZero
  HeaderKeys = {}
  TrailerKeys = {}
SPECIFICATION Spec
INVARIANT HandlerErrorSurfaced
