CONSTANTS
    MaxSlot = 5
    BlockId = {1, 2}
    GenesisId = 0
    Window = 3
    ParentOf <- MCLongWindow
    WaitToVoteSlot = 4
    InputSlots = {3}
    MaxOutbox = 1
    MaxCrashes = 0
SPECIFICATION Spec
INVARIANTS
    TypeOK
    AssertionsHold
    NeverContradictsItself
    VotesAreJustified
