CONSTANTS
  Files <- MCFiles
  Arguments <- MCArguments
  NotANumber = NotANumber
  Databases <- MCDatabases
  Sessions = {s1, s2}
SPECIFICATION ServerSpec
INVARIANTS
  EveryDocumentHasSlot
  MessageSpaceHolds
  SharesCoverWork
  ServesWhatWasWritten
  NoExceptionEscapes
PROPERTY RepliesFit
CHECK_DEADLOCK FALSE
