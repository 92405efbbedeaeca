CONSTANTS
  Texts <- ShortTexts
  Foreign <- Line
  CharSigned = FALSE
SPECIFICATION Spec
CHECK_DEADLOCK FALSE
INVARIANT RoundTrip
