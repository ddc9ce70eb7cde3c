SPECIFICATION Spec
CONSTANTS
  SerialOffset = 2
  MaxSerial = 4
  MaxArguments = 2
INVARIANTS
  TypeOK
  ExitZeroMeansPass
  BundleExitTellsCode
  ReportAgreesWithExit
