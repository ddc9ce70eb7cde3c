SPECIFICATION Spec
CONSTANTS
  b1 = b1
  b2 = b2
  k1 = k1
  k2 = k2
  c1 = c1
  c2 = c2
  Bundles <- MCBundles
  Drafts <- MCDrafts
  NoDraft = NoDraft
  NoRoot = NoRoot
  Keys <- MCKeys
  ArtifactPaths <- MCArtifactPaths
  OtherPaths <- MCOtherPaths
  NoPath = ""
  Contents <- MCContents
  MaxFaults = 2
INVARIANTS
  TypeOK
  SoundVerdict
  NoFalseAlarm
  FailureEndsRun
  ArtifactCodesRestOnSealedManifest
  CodeDominatesButForMissingFile
PROPERTIES
  Terminates
