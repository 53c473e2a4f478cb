SPECIFICATION Spec
CONSTANTS
  Conn = {c1, c2, c3}
  User = {u1, u2, u3}
  Password = {p1, p2}
  InitialDb <- OneAccount
  None = none
  MaxDb = 4
SYMMETRY Symmetry
INVARIANTS
  TypeOK
  StreamFollowsAnswer
PROPERTIES
  RepeatsOnlyAfterTaken
  StoredPasswordAcceptedOtherwise
  ImplementsSessions
CHECK_DEADLOCK FALSE
