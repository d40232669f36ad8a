SPECIFICATION Spec
CONSTANTS
  Clients = {c1, c2}
  NoClient = NoClient
  Names = {n1, n2}
  BadName = BadName
  NoName = NoName
  Shapes <- MCShapes
  MaxData = 4
  MaxFails = 2
SYMMETRY Symmetry
INVARIANTS OpenIsNamed
PROPERTIES ClosedFilesComplete
