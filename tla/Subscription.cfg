SPECIFICATION FairSpec
CONSTANT BufferSize = 3
CONSTANT ConcludeMissThreshold = 3
CONSTANT MaxGlitches = 2
CONSTANT MaxVersion = 4
INVARIANT TypeOK
PROPERTY IsEventStream
PROPERTY NeverUndisputed
PROPERTY DisputeReported
PROPERTY StreamEnds
CHECK_DEADLOCK FALSE
