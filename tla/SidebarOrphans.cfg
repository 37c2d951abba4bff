CONSTANTS
  Null = Null
  MaxConvs = 1
  MaxFolders = 2
SPECIFICATION Spec
INVARIANT FoldersStayRendered
