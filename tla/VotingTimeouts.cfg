CONSTANTS
    MaxSlot = 3
    BlockId = {1, 2}
    GenesisId = 0
    Window = 2
    ParentOf <- MCHalfWindow
    WaitToVoteSlot = 0
    InputSlots = {2, 3}
    MaxOutbox = 1
    MaxCrashes = 1
SPECIFICATION FairSpec
INVARIANT AssertionsHold
PROPERTY EveryWindowIsVoted
