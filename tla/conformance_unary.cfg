CONSTANTS
  MaxMessageBytes = 20
  CompressMinBytes = 2
  EndSize = 1
  Methods <- MCMethods
  Requests <- MCRequests
  Payloads <- MCPayloads
  Errors <- MCErrors
  HeaderKeys <- MCHeaderKeys
  TrailerKeys <- MCTrailerKeys
  MaxSets = 3
  ProxyStatuses = {}
  Inputs <- MCInputs
SPECIFICATION ProgramSpec
INVARIANTS AnswersAsProgrammed InfoExactlyOnce ClientChecksPass
