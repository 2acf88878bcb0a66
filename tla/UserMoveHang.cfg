SPECIFICATION FairSpec
CONSTANTS
  N = 2
  Hosts = {1, 2}
  DefaultHost = 1
  FlushSocket = FALSE
  Env = {}
  MaxMoves = 2
  MaxLogins = 0
PROPERTY MoveFinishes
CHECK_DEADLOCK FALSE
