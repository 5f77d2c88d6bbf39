CONSTANTS
  None = None
  MaxMessages <- MCMaxMessages
  MaxSockets <- MCMaxSockets
  MaxReconnectAttempts <- MCMaxReconnectAttempts
SPECIFICATION FairSpec
INVARIANTS
  TypeOK
  AwaitsWhatIsUnderWay
  WorkflowIsTrue
  LostSocketIsRetried
PROPERTIES
  NodesEndBeforeCompletion
  WaitsEnd
