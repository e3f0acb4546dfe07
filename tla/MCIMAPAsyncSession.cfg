SPECIFICATION FairSpec
CONSTANTS
  Ops = {o1, o2, o3}
  Cancellable = {o2}
  NoOp = NoOp
  DisconnectOp = DisconnectOp
  Folders = {f1, f2}
  NoFolder = NoFolder
  MaxConnections = 2
  ConnectionBound = 3
  AllowsFolderConcurrentAccess = TRUE
  InitialQueueRunning = {FALSE}
INVARIANTS
  TypeOK
  PoolBounded
  PendingDisconnectMeansIdle
  
PROPERTIES
  LostOperationIsRevived
  IdleConnectionCloses
  OwnerAliveWhenCalled
  UsesQueueContract
