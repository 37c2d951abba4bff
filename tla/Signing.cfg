CONSTANTS
  OutPrefixes = {"a", "b"}
  Subjects = {"NNSpire enterprise CA", "NNSpire Plugin Key"}
  SaysEnterprise = {"NNSpire enterprise CA"}
  PluginFiles = {"p"}
  MaxKeys = 2
  MaxSigned = 2
  MaxPackets = 2
  MaxBuilds = 1
  MaxTime = 2
INIT SigningInit
NEXT SigningNext
INVARIANTS SignsThePlugin
CHECK_DEADLOCK FALSE
