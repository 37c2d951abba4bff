CONSTANTS
  Null = Null
  Torn = Torn
  Platforms = {TRUE}
  Imports = {FALSE}
  StorageFull = FALSE
  Failing = {}
  Legacy = {1}
  MaxConvs = 2
  MaxShellConvs = 2
  MaxCalls = 2
SPECIFICATION Spec
PROPERTY ClearedOnlyWhenSaved
