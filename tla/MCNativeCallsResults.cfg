CONSTANTS
    Tasks = {t, u}
    Wrappers = {w1, w2, w3, w4, w5, w6}
    Null = Null
    Quiet = Quiet
    Channels = 2
    Operations <- MCKinds
SPECIFICATION Spec
SYMMETRY Symmetry
INVARIANTS
    TypeOK
    ResultsAreWhole
    DiagnosticIsOwn
PROPERTY
    WrappersAreLostOnlyLate
