CONSTANTS
  x = x
  t1 = t1
  t2 = t2
  v1 = v1
  v2 = v2
  other = other
  Camera = Camera
  None = None
  MaxRounds = 2
  Threads <- MCThreads
  Turns <- MCTurns
  ThreadOf <- MCThreadOf
  Snapshots <- MCSnapshots
  Batches <- MCBatches
SPECIFICATION Spec
INVARIANT
  ModelSeesNoCutCalls
