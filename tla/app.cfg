SPECIFICATION FairSpec
CONSTANTS
  MaxConns = 2
  Paths = {p}
  NoPath = NoPath
  Ports = {0, 8080}
CHECK_DEADLOCK FALSE
INVARIANTS
  TypeOK
  ShutdownStopsServing
  GracefulMeansIdle
  RunCleansUp
  ExitCodeIsHonest
PROPERTIES
  Terminates
