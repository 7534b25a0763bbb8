CONSTANTS
  c1 = c1
  c2 = c2
  Calls = {c1, c2}
  Starts <- MCStarts
  MD <- MCMD
  SharedMap <- NoHeaders
  MaxRetries = 1
  Millisecond = 10
  IntBound = 200
SPECIFICATION FairSpec
INVARIANTS TypeOK SendsOwnMetadata ServerKeepsDeadline TimersReleased
PROPERTIES NoAttemptAfterAnswer CallsReturn
