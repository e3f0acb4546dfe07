SPECIFICATION FairSpec
CONSTANTS
  Ops = {o1, o2}
  Threads = {t1, t2}
  NoOp = NoOp
PROPERTY EveryOperationFinishes
