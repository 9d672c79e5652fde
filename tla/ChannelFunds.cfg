SPECIFICATION Spec
CONSTANTS
    InitialCkb = {0, 1, 2, 3}
    InitialTok = {0, 1}
    VcAmounts = {0, 1}
    Crossings = {TRUE, FALSE}
    PflsMin = 2
    PaymentMin = 3
    MaxCapacity = 4
    ChannelCap = 5
    VcCap = 5
INVARIANT TypeOK
PROPERTY Conserved
PROPERTY PaidAsAgreed
CHECK_DEADLOCK FALSE
