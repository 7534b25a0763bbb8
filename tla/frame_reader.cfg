CONSTANTS
  Base = 4
  MaxMessageBytes = 7
  MaxWrites = 2
  MaxRecv = 4
  Bodies <- MCBodies
  Payloads <- MCPayloads
  Codes <- MCCodes
SPECIFICATION Spec
INVARIANTS
  TypeOK
  EofNeedsEnd
  WriterRoundTrip
  NoMessageAfterVerdict
  OneMessageRequests
  NegotiationIsExact
CHECK_DEADLOCK FALSE
