CONSTANTS
  MaxCalls = 3
  MaxSize = 2
  Serving <- SharedOption
SPECIFICATION Spec
CHECK_DEADLOCK FALSE
INVARIANTS
  TypeOK
  WireIsThisCall
  PointersLive
  ReturnsOwnReply
  UploadExact
  TlsUndisturbed
