SPECIFICATION Spec
CONSTANTS
  User = {u1, u2}
  InitialUser = {u1}
  Base = {x}
  UploadName <- PlainNames
  Part = {a}
  Zero = zero
  Nobody = nobody
  None = none
  MaxConn = 2
  MaxLines = 2
  MaxParts = 2
  MaxCuts = 1
SYMMETRY Symmetry
PROPERTIES
  ListsAreDurable
  NewNameUnlisted
INVARIANTS
  PlainFileStays
  OwnersWellFormed
