CONSTANTS
    v1 = v1
    v2 = v2
    v3 = v3
    MaxSlot = 1
    BlockId = {1, 2}
    GenesisId = 0
    Window = 2
    Validator = {v1, v2, v3}
    Me = v1
    StakeOf <- MCStakeOf
    InputVotes <- MCVotes
    InputCertificates = {}
    MyLeaderSlots = {}
    SlotsPerEpoch = 8
    ChannelMayFill = FALSE
SPECIFICATION Spec
INVARIANTS
    TypeOK
    BuiltByEnoughValidators
    CountedVotesAreCompatible
    SafeToNotarIsExact
    SafeToSkipIsExact
    FinalizationIsRecorded
