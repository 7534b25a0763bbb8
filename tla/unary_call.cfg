CONSTANTS
  MaxMessageBytes = 6
  CompressMinBytes = 2
  EndSize = 1
  Methods <- MCMethods
  Requests <- AcceptRequests
  Payloads <- MCPayloads
  Errors <- MCErrors
  HeaderKeys <- MCHeaderKeys
  TrailerKeys <- MCTrailerKeys
  MaxSets = 2
  ProxyStatuses = {404, 502}
SPECIFICATION FairSpec
INVARIANTS TypeOK SuccessIsComplete ErrorIsExact HeadersArrive TrailersArrive DeadlineReleased
PROPERTY SendTerminates
