CONSTANTS
    Width = 4
    Height = 3
    Channels = 1
    MaxInt = 11
    Adjustments = {}
    ChannelCounts = {1, 2, 3}
    Nothing = Nothing
SPECIFICATION ViewSpec
INVARIANTS
    ElementsInside
    LocateNeverSurprises
    ReshapeAcceptsExactly
PROPERTY
    ReshapeGivesTheShape
