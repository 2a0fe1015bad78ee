CONSTANTS
    v1 = v1
    v2 = v2
    v3 = v3
    MaxSlot = 4
    BlockId = {1, 2}
    GenesisId = 0
    Window = 2
    Validator = {v1}
    Me = v1
    StakeOf <- MCStakeOf
    InputVotes = {}
    InputCertificates <- MCCertificates
    MyLeaderSlots = {2, 4}
    SlotsPerEpoch = 2
    ChannelMayFill = FALSE
SPECIFICATION Spec
CHECK_DEADLOCK FALSE
INVARIANTS
    ParentsReadyIsExact
    HighestIsExact
    FinalizationIsRecorded
    StandstillCertificatesSuffice
    WindowsStartOnReadyParents
