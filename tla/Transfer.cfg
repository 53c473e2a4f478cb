SPECIFICATION FairSpec
CONSTANTS
  Chunk = 2
  IntRange = 14
  Byte = {0, 1}
  Nul = 0
  MaxSize = 7
  Files <- AllFiles
INVARIANTS
  TypeOK
  WrittenIsPrefix
PROPERTIES
  TransferEnds
  ImplementsCopy
