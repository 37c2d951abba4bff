CONSTANTS
  Null = Null
  Models = {m}
  Tags = {t}
  MaxConvs = 3
  MaxEdited = 1
  MaxMessages = 2
SPECIFICATION Spec
INVARIANTS MessageIdsDistinct BulkIsRepeated
PROPERTY DeletedStaysDeleted
