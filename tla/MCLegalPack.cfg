SPECIFICATION Spec
CONSTANTS
  r1 = r1
  r2 = r2
  c1 = c1
  c2 = c2
  Recordings <- MCRecordings
  Contents <- MCContents
  Drafts <- MCDrafts
  MaxFaults = 2
INVARIANTS
  TypeOK
  PiecesSealedTogether
  BlamesThePieces
PROPERTIES
  Terminates
