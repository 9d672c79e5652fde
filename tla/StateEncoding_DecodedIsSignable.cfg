SPECIFICATION StatesSpec
CONSTANT Word64 = 4
CONSTANT Word128 = 16
CONSTANT SubId = {v}
CONSTANT DefaultId = zero
CHECK_DEADLOCK FALSE
INVARIANT DecodedIsSignable
