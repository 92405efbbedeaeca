CONSTANTS
  Texts <- ShortTexts
  Foreign <- Line
  CharSigned = TRUE
SPECIFICATION Spec
CHECK_DEADLOCK FALSE
INVARIANTS
  RoundTrip
  WithinBuffer
  StandardCode
