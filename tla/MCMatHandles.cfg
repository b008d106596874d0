CONSTANTS
    Wrappers = {w1, w2, w3, w4}
    Storages = {s1, s2}
    Externals = {x}
    Null = Null
    None = None
    Vars = {a, b}
    Local = Local
    Returned = Returned
    Nobody = Nobody
    MaxDepth = 2
SPECIFICATION GuardedSpec
SYMMETRY Symmetry
INVARIANTS
    TypeOK
    OneOwner
    NoLeak
    NoDanglingHeader
    FlagsAgree
    BorrowedPixelsStay
    NoEscape
    LentHeadersStay
CHECK_DEADLOCK FALSE
