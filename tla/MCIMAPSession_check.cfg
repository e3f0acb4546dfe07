SPECIFICATION Spec
CONSTANTS
  Folders = {inbox, drafts}
  NoFolder = NoFolder
  Inbox = inbox
  Unparsable = {}
  Kinds = {"check", "message"}
INVARIANT AssertionsHold
