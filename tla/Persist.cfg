CONSTANTS
  Null = Null
  Torn = Torn
  Platforms = {TRUE, FALSE}
  Imports = {TRUE, FALSE}
  StorageFull = TRUE
  Failing = {"load_chat_state", "is_migration_complete", "save_chat_state", "mark_migration_complete"}
  Legacy = {1}
  MaxConvs = 4
  MaxShellConvs = 2
  MaxCalls = 2
SPECIFICATION Spec
INVARIANT TypeOK
PROPERTIES LostOnlyBeforeLoading MigratedBeforeCleared EventuallySaved ImplementsDurableChat
