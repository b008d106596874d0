CONSTANTS
    Nothing = Nothing
    Buffer = 16
    MaxAddress = 400
    MaxNatural = 20
    MaxDimensions = 5
    NativeMaxDimensions = 4
    Lengths = {4, 6, 8, 12}
    Strides = {1, 2, 3, 6}
    Created <- MCCreated
    External <- MCExternal
    Targets <- MCTargets
SPECIFICATION Spec
INVARIANTS TypeOK ElementsInside ShimAgrees
PROPERTY ImplementsArray
