SPECIFICATION Spec
CONSTANTS
  c1 = c1
  c2 = c2
  Bundle = "b"
  ArtifactPaths <- MCArtifactPaths
  Contents <- MCContents
  Segments <- MCSegments
  MaxFaults = 2
INVARIANTS
  TypeOK
  RootIsCommon
  ListedIsRead
  UnpacksAsDeclared
  NoFalseAlarm
