CONSTANTS
    Vars = {a, b}
    Tables = {t1, t2}
    Extent = 2
    Values <- MCValues
    Least <- MCLeast
    Largest = 1
    Layouts <- MCLayouts
    Floating <- MCLayouts
    Expected <- MCExpected
    MaxDepth = 2
    Unallocated = Unallocated
    NoHandle = NoHandle
    Freed = Freed
    Nothing = Nothing
    Refused = Refused
SPECIFICATION Spec
INVARIANTS TypeOK HoldersCounted ReadsAgree
PROPERTIES KeepsElements Terminates
