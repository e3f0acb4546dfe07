SPECIFICATION FairSpec
CONSTANTS
  Accounts = {a1, a2}
  NoAccount = NoAccount
  Page = 2
  Stored = 1
  InitialSizes = {3}
  Changes = 2
  Settings = 2
  Slots = 3
INVARIANTS
  TypeOK
  
  OneLoadAtATime
 
