CONSTANTS
    Width = 4
    Height = 3
    Channels = 1
    MaxInt = 12
    Adjustments <- MCSteps
    ChannelCounts = {1}
    Nothing = Nothing
SPECIFICATION Spec
INVARIANTS
    ElementsInside
