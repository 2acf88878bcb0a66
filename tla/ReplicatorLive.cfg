SPECIFICATION FairSpec
CONSTANTS
  Users = {u1, u2}
  AuthUsers = {u1, u2}
  MaxConns = 2
  FullSyncInterval = 1
  FailureResyncInterval = 1
  NoUsersSecs = 1
  UpdatePriorities = {1}
  Requests = {r1}
  Env = {"FAIL"}
  CrashBudget = 0
  NULL = NULL
  Freed = Freed
  u1 = u1
  u2 = u2
  r1 = r1
INVARIANT NotStalled
PROPERTY UpdatePickedUp
PROPERTY SyncAnswered
