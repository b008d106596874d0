CONSTANTS
    Width = 4
    Height = 3
    Channels = 2
    MaxInt = 5
    Adjustments <- MCAdjustments
    ChannelCounts = {1, 2, 3}
    Nothing = Nothing
SPECIFICATION RegionSpec
INVARIANTS
    TypeOK
    NativeCallsDefined
    LocatesItsParent
    AdjustsAsPromised
PROPERTY
    KeepsWindow
