CONSTANTS
  MaxCalls = 3
  MaxSize = 2
  Serving <- SharedOption
SPECIFICATION Spec
CHECK_DEADLOCK FALSE
INVARIANT TlsAsDocumented
