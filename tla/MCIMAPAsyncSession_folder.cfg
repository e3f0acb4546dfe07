SPECIFICATION Spec
CONSTANTS
  Ops = {o1, o2}
  Cancellable = {}
  NoOp = NoOp
  DisconnectOp = DisconnectOp
  Folders = {f1}
  NoFolder = NoFolder
  MaxConnections = 2
  ConnectionBound = 2
  AllowsFolderConcurrentAccess = FALSE
  InitialQueueRunning = {FALSE}
INVARIANT OneConnectionPerFolder
