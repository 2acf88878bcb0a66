SPECIFICATION Spec
CONSTANTS
  Users = {u1, u2}
  AuthUsers = {u1, u2}
  MaxConns = 3
  FullSyncInterval = 1
  FailureResyncInterval = 1
  NoUsersSecs = 1
  UpdatePriorities = {1}
  Requests = {r1}
  Env = {"FAIL", "NOTIFY", "NOUSER", "REMOVE", "STOP"}
  CrashBudget = 0
  NULL = NULL
  Freed = Freed
  u1 = u1
  u2 = u2
  r1 = r1
SYMMETRY UserSymmetry
INVARIANT FastSyncNotOlder
INVARIANT NoUpdateLost
INVARIANT NoPanic
 
