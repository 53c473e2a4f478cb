SPECIFICATION Spec
CONSTANTS
  User = {u1, u2}
  InitialUser = {u1, u2}
  Base = {x}
  UploadName <- PlainNames
  Part = {a}
  Zero = zero
  Nobody = nobody
  None = none
  MaxConn = 2
  MaxLines = 3
  MaxParts = 2
  MaxCuts = 0
SYMMETRY Symmetry
INVARIANTS
  UploadIsNewest
  PlainFileStays
  OwnersWellFormed
PROPERTIES
  FreshRewriteIsLocal
  NewNameUnlisted

