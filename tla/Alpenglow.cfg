CONSTANTS
    A = A
    B = B
    C = C
    D = D
    F = F
    MaxSlot = 1
    BlockId = {1, 2}
    GenesisId = 0
    Window = 4
    Validator = {A, B, C, D, F}
    Faulty = {F}
    Stake <- MCStake
SPECIFICATION Spec
INVARIANTS
    IInv
    CertificatesAreConsistent
CHECK_DEADLOCK FALSE
