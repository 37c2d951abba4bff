CONSTANTS
  DN = {dn1, dn2}
  NoDN = NoDN
  NoFile = NoFile
  Levels = {0, 7}
  MaxTimestamp = 2
  MaxActions = 2
  Slots = {s1, s2}
  Policy = "RequireCommunity"
  MaxRefs = 3
  OutPrefixes = {"a"}
  Subjects = {"NNSpire enterprise CA", "NNSpire Plugin Key"}
  SaysEnterprise = {"NNSpire enterprise CA"}
  PluginFiles = {"p"}
  MaxKeys = 2
  MaxSigned = 1
  MaxPackets = 2
  MaxBuilds = 1
  MaxTime = 2
  MaxEdits = 2
  Merges <- SomeRules
  Letters = {" ", "t", "h", "e", "r", "0"}
  MaxText = 5
SPECIFICATION MCSpec
INVARIANTS
  TypeOK
  DNsDistinct
  RevocationStands
  OwnedOnce
  VerifiesTheBuild
  ManifestsAgree
  EncodesLikeBpe
PROPERTY LoadAllOrNothing
SYMMETRY Symmetry
CHECK_DEADLOCK FALSE
