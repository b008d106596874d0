SPECIFICATION Spec
CONSTANTS
  a = a
  b = b
  v = v
  int32_min = int32_min
  Nothing = Nothing
  Unnamed = Unnamed
  Names <- MCNames
  Values <- MCValues
  Rejected <- MCRejected
  LeafKinds <- MCLeafKinds
  MaxNodes = 4
  Bound <- MCBound
  Rewritten <- MCRewritten
INVARIANTS
  TypeOK
  StacksAgree
  DocumentsWellFormed
  ReadContextIsAPath
PROPERTY KeepsPromise
SYMMETRY MCSymmetry
