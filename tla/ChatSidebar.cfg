CONSTANTS
  Null = Null
  MaxConvs = 2
  MaxFolders = 3
SPECIFICATION Spec
INVARIANTS TypeOK FolderForest ActiveConversationExists
PROPERTIES NoConversationLost HiddenOnlyByDeletedFolder
