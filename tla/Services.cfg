SPECIFICATION ServicesSpec
CONSTANTS
  IxUsers = {"u1", "u2"}
  Keys <- MCKeys
  IxClients = {"c1"}
  ConnIds = {1, 2, 3}
  ProcessLimit = 2
  IxEnv = {"WORKER_DIE", "CONNFAIL_BUSY", "CLIENT_GONE", "IX_STOP"}
  Slots = {1, 2}
  MaxAsks = 3
  IpcClients = {"k1", "k2"}
  Leaving = {"k1"}
  MaxConns = 2
  MaxCmds = 2
  IpcEnv = {"WORKER_GONE", "IPC_STOP"}
INVARIANT IxTypeOK
INVARIANT IxAnswerTrue
INVARIANT OneWorkerPerUser
INVARIANT IxAsserts
PROPERTY IxAnswered
INVARIANT IpcAnswerTrue
INVARIANT IpcOwners
PROPERTY IpcAnswered
CHECK_DEADLOCK FALSE
