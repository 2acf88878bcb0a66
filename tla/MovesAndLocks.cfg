SPECIFICATION BothSpec
CONSTANTS
  N = 3
  Hosts = {1, 2}
  DefaultHost = 1
  FlushSocket = FALSE
  Env = {}
  MaxMoves = 1
  MaxLogins = 2
  Procs = {"d1", "d2", "d3"}
  Crashed = {"d3"}
  Remote = {"d2"}
  DotEnv = {"TIMEOUT"}
  MaxLocks = 5
  MaxCrashes = 1
 
PROPERTY MoveFinishes
 
PROPERTY StaleRemoved
CHECK_DEADLOCK FALSE
