CONSTANTS
    MaxSlot = 1
    BlockId = {1, 2}
    GenesisId = 0
    Window = 2
    ParentOf <- MCOneSlot
    WaitToVoteSlot = 0
    InputSlots = {1}
    MaxOutbox = 2
    MaxCrashes = 1
SPECIFICATION Spec
INVARIANTS
    AssertionsHold
    NeverContradictsItself
    VotesAreJustified
