SPECIFICATION Spec
CONSTANTS
  Users = {u1, u2}
  AuthUsers = {u1, u2}
  MaxConns = 2
  FullSyncInterval = 1
  FailureResyncInterval = 1
  NoUsersSecs = 1
  UpdatePriorities = {0}
  Requests = {r1}
  Env = {"FORCE", "AUTH_FAIL", "NOUSER_BUSY", "REMOVE_BUSY", "STOP_BUSY"}
  CrashBudget = 0
  NULL = NULL
  Freed = Freed
  u1 = u1
  u2 = u2
  r1 = r1
SYMMETRY UserSymmetry
INVARIANT OneSyncPerUser
