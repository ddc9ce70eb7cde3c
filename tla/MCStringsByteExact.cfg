SPECIFICATION Spec
CONSTANTS
  Precision = 3
  IntBits = 5
  MaxExponent = 8
  ExponentDigits = 2
  Routes = {"manifest", "event", "entry"}
  Names <- MCNames
  Values <- MCValues
  MaxAlterations = 1
INVARIANT
  StringsByteExact
