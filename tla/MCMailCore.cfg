SPECIFICATION MailSpec
CONSTANTS
  Messages = {m1, m2}
  NoMessage = NoMessage
  Ops = {o1, o2}
  None = None
  UINT64_MAX = 8
  Careful = TRUE
INVARIANTS
  MailTypeOK
  IndexIsReference
  OnlyAskedIsRemoved
  SentAsReported
  IdleStreamExists
  InterruptIsOwn
  
PROPERTIES
  ListSucceeds
  
  InterruptEndsIdle
