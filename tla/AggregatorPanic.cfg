SPECIFICATION AggSpec
CONSTANTS
  Users = {u1, u2}
  SyncUsers = {}
  AggEnv = {}
  FifoMax = 1
  WireMax = 1
  Block = 1
  QueueMax = 2
  IdMod = 16
  MaxChanges = 4
  Backlog = 0
  u1 = u1
  u2 = u2
INVARIANT AggNoPanic
CHECK_DEADLOCK FALSE
