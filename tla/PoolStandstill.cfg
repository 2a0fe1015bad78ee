CONSTANTS
    v1 = v1
    v2 = v2
    v3 = v3
    MaxSlot = 2
    BlockId = {1}
    GenesisId = 0
    Window = 2
    Validator = {v1}
    Me = v1
    StakeOf <- MCStakeOf
    InputVotes = {}
    InputCertificates <- MCFewCertificates
    MyLeaderSlots = {}
    SlotsPerEpoch = 8
    ChannelMayFill = TRUE
SPECIFICATION FairSpec
PROPERTY FinalityIsPassedOn
