SPECIFICATION SigSpec
CONSTANT Base = 32
CONSTANT Width = 2
CONSTANT Tag = 3
CONSTANT Order = 1021
CONSTANT Scalar = {1, 2, 15, 16, 31, 32, 64, 95, 96, 100, 127, 128, 509, 510, 511, 512, 1005, 1006, 1020}
CHECK_DEADLOCK FALSE
INVARIANT RawIsConverted
