SPECIFICATION Spec
CONSTANTS
  d1 = d1
  d2 = d2
  Dirs <- MCDirs
  FileCount = 2
  MaxAttempts = 2
SYMMETRY DirSymmetry
INVARIANT OkLeavesNoPart
CHECK_DEADLOCK FALSE
