SPECIFICATION Spec
CONSTANTS
  a = a
  b = b
  c = c
  Keys = {a, b}
  Payload <- Shrinking
PROPERTY EventuallyCurrent
