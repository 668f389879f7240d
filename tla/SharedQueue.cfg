SPECIFICATION FairSpec

CONSTANTS
  Producers = {p1, p2}
  Stoppers = {k1, k2}
  Response <- MCResponse
  MaxRunning = 3

INVARIANTS
  TokensMatchResponses

PROPERTIES
  PopReturns
  ImplementsResponder
