SPECIFICATION FairSpec
CONSTANTS
  Question = {"delete", "list"}
  MaxParts = 3
  MaxRequests = 4
  SocketBuffer = 2
CHECK_DEADLOCK FALSE
INVARIANTS
  TypeOK
  AlwaysListening
  AnswerMatches
  TakenInOrder
  UploadInOrder
  EndsOnlyOnLongFile
PROPERTIES
  ComesBack
