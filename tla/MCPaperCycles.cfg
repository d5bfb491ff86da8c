SPECIFICATION Spec
CONSTANTS
  p1 = p1
  p2 = p2
  n1 = n1
  n2 = n2
  None = None
  Procs <- MCProcs
  Names <- MCNames
  Payload <- MCPayload
  MaxStarts = 2
  MaxOthers = 1
  MaxRewrites = 1
INVARIANTS SignalIsOfOnePiece SignalsAdvance LoggedHashIsLoaded CyclePromotesItsOwn
PROPERTIES CycleLockIsFreed
CHECK_DEADLOCK FALSE
