SPECIFICATION Spec
CONSTANTS
    Matrices = {a, b, c}
    Buffers = {b1, b2}
    NoBuffer = NoBuffer
    MaxRows = 2
    MaxColumns = 3
    MaxElements = 4
    Depths = {"UInt8", "UInt16", "Float32"}
    OpenCV5 = FALSE
SYMMETRY MCSymmetry
INVARIANTS
    TypeOK
    KernelsFitTheirOutput
    NothingReadAfterItIsWritten
    SourcesAreThosePassed
    ResultsAreIndependent
