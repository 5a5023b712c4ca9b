SPECIFICATION Spec
CONSTANTS
  a = a
  b = b
  c = c
  Keys = {a, b, c}
  Payload <- Changing
INVARIANTS
  TypeOK
  QuietMeansCurrent
  PermanentKeysServed
PROPERTIES
  EventuallyCurrentUnlessFailed
  ShowsThePublished
