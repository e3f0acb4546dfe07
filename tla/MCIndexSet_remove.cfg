SPECIFICATION Spec
CONSTANTS
  UINT64_MAX = 6
  Careful = FALSE
PROPERTY RemovedIsGone
