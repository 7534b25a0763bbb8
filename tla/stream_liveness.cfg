CONSTANTS
  MaxMessageBytes = 6
  CompressMinBytes = 2
  EndSize = 1
  MaxEmits = 2
  Methods <- MCMethods
  Requests <- MCRequests
  Payloads <- LivePayloads
  Errors <- LiveErrors
  HeaderKeys = {}
  TrailerKeys = {}
SPECIFICATION FairSpec
PROPERTIES
  ConsumerReturns
