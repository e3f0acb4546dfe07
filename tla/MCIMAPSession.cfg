SPECIFICATION PersistentSpec
CONSTANTS
  Folders = {inbox, drafts}
  NoFolder = NoFolder
  Inbox = inbox
  Unparsable = {}
  Kinds = {"check", "connect", "capability", "identity", "namespace", "noop", "quota", "disconnect", "folders", "subscribed", "status", "info", "manage", "create", "message", "store"}
INVARIANTS
  TypeOK
  Agrees
  CommandHitsItsFolder
 
