CONSTANTS
  MaxMessageBytes = 6
  CompressMinBytes = 2
  EndSize = 1
  MaxEmits = 1
  Methods <- MCMethods
  Requests <- MCRequests
  Payloads <- MCPayloads
  Errors <- LiveErrors
  HeaderKeys = {}
  TrailerKeys = {}
SPECIFICATION Spec
INVARIANT WritesWithinCap
