SPECIFICATION Spec
CONSTANTS
  Folders = {inbox, drafts}
  NoFolder = NoFolder
  Inbox = inbox
  Unparsable = {}
  Kinds = {"store", "message"}
INVARIANT SuccessMeansDone
