CONSTANTS
    MaxSlot = 3
    BlockId = {1, 2}
    GenesisId = 0
    Window = 2
    ParentOf <- MCOneWindow
    WaitToVoteSlot = 0
    InputSlots = {2}
    MaxOutbox = 1
    MaxCrashes = 0
SPECIFICATION Spec
INVARIANT JoinerNotarizes
