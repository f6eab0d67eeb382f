SPECIFICATION NodeSpec
CONSTANT
  Config <- MCConfig
INVARIANTS
  NetworkStartsLast
  RemoteKeystoreStartsNothing
  ImportingKeepsTasks
PROPERTIES
  EssentialFailureStops
  StoppingEnds
CHECK_DEADLOCK FALSE
