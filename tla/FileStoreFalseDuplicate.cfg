SPECIFICATION Spec
CONSTANTS
  User = {u1, u2}
  InitialUser = {u1, u2}
  Base = {x}
  UploadName <- PlainNames
  Part = {a, b}
  Zero = zero
  Nobody = nobody
  None = none
  MaxConn = 1
  MaxLines = 3
  MaxParts = 3
  MaxCuts = 0
SYMMETRY Symmetry
PROPERTIES
  DuplicateIsEqual
