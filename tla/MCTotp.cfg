SPECIFICATION Spec
CONSTANTS
  Unreserved <- MCUnreserved
  Hex <- MCHex
  Decimal <- MCDecimal
  Hmac <- MCHmac
  Secret = "SECRET"
  Names <- MCNames
  Period = 3
  Window = 1
  Digits = 6
  MinTime <- MCMinTime
  MaxTime = 14
  MaxCounter = 4
  None = None
INVARIANTS
  EnrollmentSurvives
  DriftTolerated
  CodeExpires
  CountdownExact
