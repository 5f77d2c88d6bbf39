CONSTANTS
  r1 = r1
  r2 = r2
  c1 = c1
  c2 = c2
  c3 = c3
  None = None
  Responses <- MCResponses
  Callers <- MCTwoCallers
  MayBeCancelled <- MCOneCaller
  MaxDeltas = 1
SPECIFICATION FairSpec
PROPERTIES
  CallsReturn
  BusyEnds
