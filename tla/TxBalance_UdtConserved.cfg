SPECIFICATION Spec
CONSTANT Word = 1000
CONSTANT Fee = 1
CONSTANT ChangeCap = 6
CONSTANT UdtCap = 14
CONSTANT OutCaps = {0, 20}
CONSTANT InCaps = {20, 23}
CONSTANT UdtOuts = {0, 3}
CONSTANT CkbCells = {6, 7, 16}
CONSTANT GoneCells = {16}
CONSTANT UdtCells = {1, 1002}
CONSTANT UdtExtra = {0, 3}
CONSTANT MaxCkbCells = 2
CONSTANT MaxUdtCells = 2
INVARIANT UdtConserved
CHECK_DEADLOCK FALSE
