SPECIFICATION Spec
CONSTANTS
  p1 = p1
  p2 = p2
  f1 = f1
  f2 = f2
  Producers <- MCProducers
  Facts <- MCFacts
  FloatFact = FloatFact
  NoFact = none
  MaxEvents <- MCMaxEvents
  MaxFaults = 2
INVARIANTS
  TypeOK
  OnlySealedPrefixAccepted
  BrokenAtFirstDeparture
  CurrentHashBlamesAlteredEvent
  ParseErrorAtFirstBadLine
  IInv
PROPERTIES
  CheckTerminates
  KeepsPromise
