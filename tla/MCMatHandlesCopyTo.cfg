CONSTANTS
    Wrappers = {w1, w2, w3, w4}
    Storages = {s1, s2}
    Externals = {x}
    Null = Null
    None = None
    Vars = {a}
    Local = Local
    Returned = Returned
    Nobody = Nobody
    MaxDepth = 1
SPECIFICATION Spec
SYMMETRY Symmetry
PROPERTY
    TemporaryViewsAreNotRebound
CHECK_DEADLOCK FALSE
