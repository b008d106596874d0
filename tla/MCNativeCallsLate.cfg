CONSTANTS
    Tasks = {t}
    Wrappers = {w1, w2, w3, w4}
    Null = Null
    Quiet = Quiet
    Channels = 2
    Operations <- MCLate
SPECIFICATION Spec
SYMMETRY Symmetry
INVARIANTS
    NoWrapperLost
