SPECIFICATION WFairSpec
CONSTANT Caller = {w, c1}
CONSTANT Watcher = w
CONSTANT FinalVersion = 3
CONSTANT MaxCalls = 5
INVARIANT TypeOK
INVARIANT RegisterHonoured
INVARIANT WithdrawHonoured
INVARIANT NewestWins
PROPERTY KeepsPromise
PROPERTY CallsReturn
PROPERTY WatcherCatchesUp
CHECK_DEADLOCK FALSE
