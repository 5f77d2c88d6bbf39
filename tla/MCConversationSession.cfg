CONSTANTS
  r1 = r1
  r2 = r2
  c1 = c1
  c2 = c2
  c3 = c3
  None = None
  Responses <- MCResponses
  Callers <- MCCallers
  MayBeCancelled <- MCCallers
  MaxDeltas = 1
SPECIFICATION Spec
SYMMETRY MCSymmetry
INVARIANTS
  TypeOK
  NothingAfterTerminal
  IdleMeansQuiet
  PumpCancelledOnce
  LiveWhenCancellable
  CloseIsFinal
  CancelSucceedsOnlyIfCancelled
  EveryTurnIsAnswered
PROPERTY
  NoSendBegunOnceClosed
  ImplementsProtocol
