SPECIFICATION Spec
CONSTANTS
  d1 = d1
  d2 = d2
  Dirs <- MCDirs
  FileCount = 2
  MaxAttempts = 4
SYMMETRY DirSymmetry
INVARIANT RecordIsTrue
INVARIANT NothingMissing
INVARIANT OverwriteRepairs
PROPERTY ForeignKept
CHECK_DEADLOCK FALSE
