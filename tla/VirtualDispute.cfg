SPECIFICATION Spec
CONSTANT Caller = {c1, c2}
CONSTANT Parent = {p1, p2}
CONSTANT MaxParentVersion = 1
CONSTANT MaxVersion = 2
CONSTANT MaxCalls = 3
SYMMETRY Symmetry
CHECK_DEADLOCK FALSE
INVARIANT TypeOK
INVARIANT RegisterHonoured
INVARIANT LateCallerCanClose
PROPERTY RegistrationsRise
PROPERTY SettlingIsFinal
