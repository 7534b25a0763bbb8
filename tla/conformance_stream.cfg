CONSTANTS
  MaxMessageBytes = 20
  CompressMinBytes = 2
  EndSize = 1
  MaxEmits = 3
  Methods <- MCMethods
  Requests <- MCRequests
  Payloads <- MCPayloads
  Errors <- MCErrors
  HeaderKeys <- MCHeaderKeys
  TrailerKeys <- MCTrailerKeys
  Inputs <- MCInputs
SPECIFICATION ProgramSpec
INVARIANTS StreamAsProgrammed InfoOnce ClientChecksPass
