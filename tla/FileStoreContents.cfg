SPECIFICATION Spec
CONSTANTS
  User = {u1}
  InitialUser = {u1}
  Base = {x}
  UploadName <- PlainNames
  Part = {a, b}
  Zero = zero
  Nobody = nobody
  None = none
  MaxConn = 3
  MaxLines = 2
  MaxParts = 3
  MaxCuts = 0
SYMMETRY Symmetry
INVARIANTS
  TypeOK
  SoleWriterIntact
PROPERTIES
  SingleRecordDuplicateIsEqual
  UploadedIsServed
