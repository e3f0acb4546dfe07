SPECIFICATION Spec
CONSTANTS
  Uids <- MCUids
  Occurs <- MCOccurs
  CacheLimit = 1
  Copies = 2
  OpsBound = 2
  HtmlCopies = 1
INVARIANT ContentRetained
