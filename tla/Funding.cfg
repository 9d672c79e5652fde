SPECIFICATION FairSpec
CONSTANT MaxIterations = 3
INVARIANT TypeOK
INVARIANT NothingInFlight
PROPERTY MovesForItsCaller
PROPERTY KeepsPromise
PROPERTY PartiesReturn
CHECK_DEADLOCK FALSE
