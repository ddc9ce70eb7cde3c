SPECIFICATION Spec
CONSTANTS
  p1 = p1
  p2 = p2
  q = q
  f1 = f1
  f2 = f2
  FloatFact = FloatFact
  Producers <- MCProducers
  Signing <- MCSigning
  Facts <- MCFacts
  MaxEvents <- MCMaxEvents
  MaxFaults = 2
INVARIANTS
  TypeOK
  OnlySealedPrefixAccepted
  BrokenAtFirstDeparture
  CauseIsNamed
  NoSilentDowngrade
  NoFalseAlarm
PROPERTIES
  CheckTerminates
