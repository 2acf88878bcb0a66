SPECIFICATION DirectorSpec
CONSTANTS
  N = 2
  Hosts = {1, 2}
  DefaultHost = 1
  FlushSocket = FALSE
  Env = {"SLOW", "REFRESH", "RESET", "TIMEOUT", "HOST_FLUSH"}
  MaxMoves = 1
  MaxLogins = 3
  RingSize = 3
  Vhosts = {2, 4}
  HostCmds = {"SET", "UPDOWN", "REMOVE"}
  MaxClock = 2
  MaxHostCmds = 2
  MaxResyncs = 3
  MaxLines = 3
 
INVARIANT MoveAsserts
INVARIANT HostsAgree
INVARIANT NoSurprise
 
CHECK_DEADLOCK FALSE
