SPECIFICATION FairSpec
CONSTANTS
  Users = {u1, u2}
  AuthUsers = {u1, u2}
  MaxConns = 1
  FullSyncInterval = 2
  FailureResyncInterval = 1
  NoUsersSecs = 2
  UpdatePriorities = {1}
  Requests = {}
  Env = {}
  CrashBudget = 0
  NULL = NULL
  Freed = Freed
  u1 = u1
  u2 = u2
  r1 = r1
PROPERTY UpdatePickedUp
