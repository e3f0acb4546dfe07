SPECIFICATION FairSpec
CONSTANTS
  Uids <- MCUids
  Occurs <- MCOccurs
  CacheLimit = 1
  Copies = 2
  OpsBound = 2
  HtmlCopies = 1
INVARIANTS
  CompleteIsSaved
  DiskConsistent
  CacheCoherent
  IInv
PROPERTY TextComes
