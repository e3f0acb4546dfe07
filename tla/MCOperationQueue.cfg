SPECIFICATION FairSpec
CONSTANTS
  Ops = {o1, o2, o3}
  Threads = {t1, t2}
  NoOp = NoOp
INVARIANTS
  NoNullOperation
  AtMostOneWorker
  UseNeedsReference
  IInv
PROPERTIES
  ImplementsSerialExecutor
  ImplementsQueueContract
  MainThreadReturns
  WorkerEnds
  CommittedOperationFinishes
