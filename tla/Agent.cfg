CONSTANTS
  web = web
  monitor = monitor
  Callers <- Programs
  ServicesOf <- WebServices
  ChecksOf <- NodeChecks
  CheckTypes <- OwnAndRemote
  MaxCalls = 3
SPECIFICATION Spec
CHECK_DEADLOCK FALSE
INVARIANTS
  TypeOK
  ReportedWhereMeant
  NothingLeftBehind
PROPERTIES
  AbandonedGoes
