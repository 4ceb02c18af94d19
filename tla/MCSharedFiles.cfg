SPECIFICATION Spec
CONSTANTS
  Files = {f1, f2}
  Names = {a, b}
  Dirs = {shared, sub}
  Root = shared
  Gone = Gone
  ChunkSize = 2
  MaxChanges = 3
  MaxCommands = 2
SYMMETRY Symmetry
INVARIANTS ListedIsFindable CountsExact IndexAgrees  CountIsAnnounced
CHECK_DEADLOCK FALSE
