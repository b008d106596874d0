CONSTANTS
    Tasks = {t}
    Wrappers = {w1, w2, w3, w4}
    Null = Null
    Quiet = Quiet
    Channels = 2
    Operations <- AllOperations
SPECIFICATION Spec
SYMMETRY Symmetry
INVARIANTS
    DiagnosticIsPreserved
