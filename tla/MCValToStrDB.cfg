SPECIFICATION Spec
CONSTANTS
  Value <- MCValue
  Kind <- MCKind
  Use <- MCUse
  Stars <- MCStars
  MaxPasses = 2
INVARIANTS
  TypeOK
  MapsAgree
  IntLeadsBack
  NothingOverwritten
  RoundTrip
CHECK_DEADLOCK FALSE
