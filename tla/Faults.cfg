SPECIFICATION FaultsSpec
CONSTANTS
  N = 1
  Hosts = {1, 2}
  DefaultHost = 1
  FlushSocket = TRUE
  Env = {"RESET", "HOST_FLUSH", "KILL_FAIL", "TIMEOUT", "TIMEOUT_BUSY", "SLOW", "REFRESH"}
  MaxMoves = 5
  MaxLogins = 3
  Users = {"u1", "u2"}
  SyncUsers = {"u1"}
  AggEnv = {"REPL_DIE", "MASTER", "CONNFAIL", "DEINIT"}
  FifoMax = 1
  WireMax = 1
  Block = 1
  QueueMax = 2
  IdMod = 16
  MaxChanges = 2
  Backlog = 2
  Pids = {1, 2}
  Idents = {"i1"}
  AnEnv = {"PROC_FAIL", "ANVIL_DIE", "EARLY_DIE"}
  PipeMax = 2
  MaxOpens = 2
  MaxFails = 2
  MaxDies = 1
  PIdents = {"p1", "p2"}
  Checksums = {0, 1, 2}
  Values = {0, 1}
  ExpireSecs = {3, 4}
  UpdateMod = 3
  ChecksumMax = 1
  MaxTime = 9
INVARIANT MoveTypeOK
 
INVARIANT AggTypeOK
INVARIANT RefsMatch
INVARIANT ReplyTrue
INVARIANT ChangeAccounted
INVARIANT AnTypeOK
INVARIANT CountsAgree
INVARIANT QuietCount
INVARIANT PenaltyAge
PROPERTY PenaltyNotEarly
CHECK_DEADLOCK FALSE
